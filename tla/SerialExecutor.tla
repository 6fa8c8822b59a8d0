--------------------------- MODULE SerialExecutor ---------------------------
(***************************************************************************)
(* What xhn::thread promises the callers of add_task(): tasks are numbered *)
(* as they are submitted; one at a time is active, always the oldest       *)
(* pending one; an active task finishes, gives way to run again before     *)
(* every other, or fails; all that is pending may be discarded at once.    *)
(***************************************************************************)
EXTENDS Naturals

VARIABLES submitted, pending, active, finished

executorVars == <<submitted, pending, active, finished>>

Idle == 0

Init == submitted = 0 /\ pending = {} /\ active = Idle /\ finished = {}

Submit ==
  /\ submitted' = submitted + 1
  /\ pending' = pending \cup {submitted + 1}
  /\ UNCHANGED <<active, finished>>

Begin ==
  /\ active = Idle
  /\ active' \in pending
  /\ \A k \in pending : active' <= k
  /\ pending' = pending \ {active'}
  /\ UNCHANGED <<submitted, finished>>

Finish ==
  /\ active # Idle
  /\ active' = Idle
  /\ finished' = finished \cup {active}
  /\ UNCHANGED <<submitted, pending>>

GiveWay ==
  /\ active # Idle
  /\ active' = Idle
  /\ pending' = pending \cup {active}
  /\ UNCHANGED <<submitted, finished>>

Fail ==
  /\ active # Idle
  /\ active' = Idle
  /\ UNCHANGED <<submitted, pending, finished>>

Discard ==
  /\ pending' = {}
  /\ UNCHANGED <<submitted, active, finished>>

Next == Submit \/ Begin \/ Finish \/ GiveWay \/ Fail \/ Discard

Spec == Init /\ [][Next]_executorVars
=============================================================================
