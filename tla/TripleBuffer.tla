---------------------------- MODULE TripleBuffer ----------------------------
(***************************************************************************)
(* xhn::triple_buffer (xstl/xhn_triple_buffer.hpp): writers fill the       *)
(* prepare buffer, readers use the current one, and each side exchanges    *)
(* its buffer for the middle one with a load and a compare-and-swap.       *)
(*                                                                         *)
(* Each side has a spin lock that its users hold from prepare_lock() or    *)
(* current_lock() to the destruction of the instance, so pc[s] is where    *)
(* the one thread inside side s is.  The *_not_lock() operations run the   *)
(* same exchange for a thread that is inside already.                      *)
(***************************************************************************)
EXTENDS Naturals

CONSTANTS
  Buffers,    \* the three buffers given to the constructor
  MaxCommits  \* bound on the exchanges of the prepare side

ASSUME BuffersAssumption ==
  /\ MaxCommits \in Nat
  /\ \E b0, b1, b2 \in Buffers :
       Buffers = {b0, b1, b2} /\ b0 # b1 /\ b1 # b2 /\ b2 # b0

VARIABLES
  buffer,            \* m_prepare_buffer and m_current_buffer, by side
  m_next_buffer,
  m_has_next_buffer,
  pc,                \* by side: where the thread that holds its lock is
  old,               \* by side: that thread's old_next_buffer
  stamp,             \* history: the number of each buffer's last commit
  exchanges,         \* history: the successful exchanges of each side
  erased,            \* history: a reader lowered the flag over a new commit
  early              \* history: the reader's last exchange took a commit that
                     \* the preparer had still to announce

Sides == {"prepare", "current"}

bufferVars  == <<buffer, m_next_buffer, m_has_next_buffer>>
historyVars == <<stamp, exchanges, erased, early>>
vars == <<bufferVars, pc, old, historyVars>>

Goto(s, from, to) == pc[s] = from /\ pc' = [pc EXCEPT ![s] = to]

Init ==
  /\ \E b0, b1, b2 \in Buffers :
       /\ b0 # b1 /\ b1 # b2 /\ b2 # b0
       /\ buffer = [s \in Sides |-> IF s = "prepare" THEN b0 ELSE b2]
       /\ m_next_buffer = b1
       /\ old = [s \in Sides |-> b1]
  /\ m_has_next_buffer = FALSE
  /\ pc = [s \in Sides |-> "unlocked"]
  /\ stamp = [b \in Buffers |-> 0] /\ exchanges = [s \in Sides |-> 0]
  /\ erased = FALSE /\ early = FALSE
-----------------------------------------------------------------------------
(* Operations with a mistake in them, each refuted by the property named. *)

LoadFlag(s) ==                  \* TypeOK: the wrong member is loaded
  /\ Goto(s, "load", "exchange")
  /\ old' = [old EXCEPT ![s] = m_has_next_buffer]
  /\ UNCHANGED <<bufferVars, historyVars>>

NoComparison(s) == TRUE         \* OneOwnerEach, ImplementsExchange
NewAlways       == TRUE         \* BackOnlyAfterEarlyTake
NeverRaised(s)  == FALSE        \* NewestIsAnnounced

RetryOldLoad(s) ==              \* PrepareReturns: retries with the old load
  /\ m_next_buffer # old[s]
  /\ Goto(s, "exchange", "exchange")
  /\ UNCHANGED <<bufferVars, old, historyVars>>
-----------------------------------------------------------------------------
(* prepare_lock(), current_lock() and the *_not_lock() operations. *)

\* A call on side s that has to take the lock, or one from within.
Enter(s, from) ==
  /\ Goto(s, from, IF s = "prepare" THEN "load" ELSE "test")
  /\ s = "prepare" => exchanges[s] < MaxCommits
  /\ UNCHANGED <<bufferVars, old, historyVars>>

Lock(s)  == Enter(s, "unlocked")
Again(s) == Enter(s, "hold")

\* Only the current side asks whether there is anything new.
HasNext == m_has_next_buffer

TestFlag ==
  /\ Goto("current", "test", IF HasNext THEN "load" ELSE "hold")
  /\ UNCHANGED <<bufferVars, old, historyVars>>

LoadNext(s) ==
  /\ Goto(s, "load", "exchange")
  /\ old' = [old EXCEPT ![s] = m_next_buffer]
  /\ UNCHANGED <<bufferVars, historyVars>>

NextIsOld(s) == m_next_buffer = old[s]

\* The preparer has exchanged its buffer and not raised the flag for it yet.
Unannounced == pc["prepare"] \in {"assign", "store"}

Exchange(s) ==
  /\ NextIsOld(s)
  /\ Goto(s, "exchange", "assign")
  /\ m_next_buffer' = buffer[s]
  /\ exchanges' = [exchanges EXCEPT ![s] = @ + 1]
  /\ stamp' = IF s = "prepare"
              THEN [stamp EXCEPT ![buffer[s]] = exchanges[s] + 1]
              ELSE stamp
  /\ early' = IF s = "current" THEN Unannounced ELSE early
  /\ UNCHANGED <<buffer, m_has_next_buffer, old, erased>>

ExchangeFails(s) ==
  /\ ~NextIsOld(s)
  /\ Goto(s, "exchange", "load")
  /\ UNCHANGED <<bufferVars, old, historyVars>>

AssignOld(s) ==
  /\ Goto(s, "assign", "store")
  /\ buffer' = [buffer EXCEPT ![s] = old[s]]
  /\ UNCHANGED <<m_next_buffer, m_has_next_buffer, old, historyVars>>

\* The preparer announces its commit, the reader that it has taken one.
FlagAfter(s) == s = "prepare"

StoreFlag(s) ==
  /\ Goto(s, "store", "hold")
  /\ m_has_next_buffer' = FlagAfter(s)
  /\ erased' = (s = "current" /\ stamp[m_next_buffer] > stamp[buffer[s]])
  /\ UNCHANGED <<buffer, m_next_buffer, old, stamp, exchanges, early>>

\* The destructor of the instance.
Unlock(s) ==
  /\ Goto(s, "hold", "unlocked")
  /\ UNCHANGED <<bufferVars, old, historyVars>>

Swap(s) ==
  \/ LoadNext(s) \/ Exchange(s) \/ ExchangeFails(s)
  \/ AssignOld(s) \/ StoreFlag(s)

Next == TestFlag \/ \E s \in Sides : Lock(s) \/ Again(s) \/ Swap(s) \/ Unlock(s)

\* A thread inside the exchange keeps running.
Fairness == WF_vars(TestFlag) /\ \A s \in Sides : WF_vars(Swap(s))

Spec == Init /\ [][Next]_vars /\ Fairness
-----------------------------------------------------------------------------
(* Properties. *)

\* Every variable keeps its type.
TypeOK ==
  /\ buffer \in [Sides -> Buffers] /\ m_next_buffer \in Buffers
  /\ m_has_next_buffer \in BOOLEAN
  /\ pc \in [Sides -> {"unlocked", "test", "load", "exchange", "assign",
                       "store", "hold"}]
  /\ pc["prepare"] # "test"
  /\ old \in [Sides -> Buffers]
  /\ stamp \in [Buffers -> Nat] /\ exchanges \in [Sides -> Nat]
  /\ erased \in BOOLEAN /\ early \in BOOLEAN

\* After a successful exchange the buffer taken is still in the local.
Owned(s) == IF pc[s] = "assign" THEN old[s] ELSE buffer[s]

\* No buffer is lost or in two hands, wherever the two exchanges interleave
\* and although the pointer read may have left and come back in between.
OneOwnerEach == Buffers = {Owned("prepare"), m_next_buffer, Owned("current")}

\* The flag is raised some steps after the exchange it announces, so a reader
\* may take a commit early, find the flag raised for it afterwards, and swap
\* its buffer for the older one that it has just given away.  A reader goes
\* back in no other way, and not twice in a row.
BackOnlyAfterEarlyTake ==
  [][stamp'[Owned("current")'] < stamp[Owned("current")] => early /\ ~early']_vars

\* In all, readers exchange at most once per commit, such a swap back included;
\* that bounds what they can do to the preparer's loop.
TakesNeedCommits == exchanges["current"] <= exchanges["prepare"]

\* Outside the exchanges the flag is up whenever the middle buffer is newer
\* than the readers' one, unless a reader's late store lowered it: that
\* commit stays hidden until the next one.
NewestIsAnnounced ==
  /\ \A s \in Sides : pc[s] \in {"unlocked", "hold", "test"}
  /\ stamp[m_next_buffer] > stamp[buffer["current"]]
  => m_has_next_buffer \/ erased

\* The preparer's exchange loop ends although readers exchange in between:
\* they may do so only when its flag is up.
PrepareReturns == pc["prepare"] = "load" ~> pc["prepare"] = "hold"
-----------------------------------------------------------------------------
\* Each exchange takes effect at its compare-and-swap.
Slots == INSTANCE BufferExchange WITH
  prepared <- Owned("prepare"),
  next     <- m_next_buffer,
  current  <- Owned("current")

\* The load, compare-and-swap and assignment amount to whole exchanges.
ImplementsExchange == Slots!Spec
=============================================================================
