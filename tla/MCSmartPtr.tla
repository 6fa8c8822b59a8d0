----------------------------- MODULE MCSmartPtr -----------------------------
(* Instance of SmartPtr for TLC: one shared pointer is assigned to another, *)
(* never the other way round.                                               *)
EXTENDS SmartPtr

CONSTANTS w1, w2, t1

OneWay == {<<w2, w1>>, <<w1, t1>>}
=============================================================================
