---------------------------- MODULE RecordQueue ----------------------------
(***************************************************************************)
(* What a reader and a writer of RWBuffer may rely on: whole records come  *)
(* out in the order in which they went in.  A call is pending from its     *)
(* start to its return, and the queue changes in the step in which a call  *)
(* returns true: a write puts the record that it was given when it began.  *)
(***************************************************************************)
EXTENDS Sequences

CONSTANT Record

VARIABLES
  queue,   \* the records written and not yet read
  offer,   \* the writer's last call: the record given, and its outcome
  answer   \* the reader's last call: the record returned, and its outcome

queueVars == <<queue, offer, answer>>

Init ==
  /\ queue = <<>>
  /\ offer  = [record |-> <<>>, outcome |-> "none"]
  /\ answer = [record |-> <<>>, outcome |-> "none"]

CallWrite(rec) ==
  /\ offer.outcome # "pending"
  /\ offer' = [record |-> rec, outcome |-> "pending"]
  /\ UNCHANGED <<queue, answer>>

Put ==
  /\ offer.outcome = "pending"
  /\ queue' = Append(queue, offer.record)
  /\ offer' = [offer EXCEPT !.outcome = "true"]
  /\ UNCHANGED answer

Refuse ==
  /\ offer.outcome = "pending"
  /\ offer' = [offer EXCEPT !.outcome = "false"]
  /\ UNCHANGED <<queue, answer>>

CallRead ==
  /\ answer.outcome # "pending"
  /\ answer' = [record |-> <<>>, outcome |-> "pending"]
  /\ UNCHANGED <<queue, offer>>

Take ==
  /\ answer.outcome = "pending"
  /\ queue # <<>>
  /\ answer' = [record |-> Head(queue), outcome |-> "true"]
  /\ queue' = Tail(queue)
  /\ UNCHANGED offer

Next == CallRead \/ Take \/ Put \/ Refuse \/ \E rec \in Record : CallWrite(rec)

Spec == Init /\ [][Next]_queueVars
=============================================================================
