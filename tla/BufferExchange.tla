--------------------------- MODULE BufferExchange ---------------------------
(***************************************************************************)
(* What triple_buffer promises its two sides: three buffers change hands   *)
(* only by whole exchanges with the middle slot, so that each side always  *)
(* has a buffer to itself.                                                 *)
(***************************************************************************)
CONSTANT Buffers

VARIABLES prepared, next, current

exchangeVars == <<prepared, next, current>>

Init ==
  /\ Buffers = {prepared, next, current}
  /\ prepared # next /\ next # current /\ current # prepared

Publish == prepared' = next /\ next' = prepared /\ UNCHANGED current

Take == current' = next /\ next' = current /\ UNCHANGED prepared

Spec == Init /\ [][Publish \/ Take]_exchangeVars
=============================================================================
