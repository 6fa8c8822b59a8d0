--------------------------- MODULE MCTripleBuffer ---------------------------
(* Instance of TripleBuffer for TLC: readers may call for ever, the writers *)
(* a bounded number of times.                                               *)
EXTENDS TripleBuffer
=============================================================================
