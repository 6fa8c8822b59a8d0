---------------------------- MODULE MCXhnThread ----------------------------
(* Instance of XhnThread for TLC: two clients share one worker. *)
EXTENDS XhnThread, TLC

ClientSymmetry == Permutations(Clients)
=============================================================================
