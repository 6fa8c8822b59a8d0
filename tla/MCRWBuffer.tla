----------------------------- MODULE MCRWBuffer -----------------------------
(* Instance of RWBuffer for TLC: a ring of a few words, a reader and a      *)
(* writer that go on for ever, sizes with and without a rest.               *)
EXTENDS RWBuffer
=============================================================================
