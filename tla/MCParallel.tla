----------------------------- MODULE MCParallel -----------------------------
(* Instance of Parallel for TLC: two workers, ranges that leave the workers *)
(* nothing, or everybody a slice and the caller a remainder.                *)
EXTENDS Parallel

SmallRanges == {<<0, 2>>, <<1, 5>>}
=============================================================================
