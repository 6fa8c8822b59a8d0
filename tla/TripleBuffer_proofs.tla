------------------------ MODULE TripleBuffer_proofs ------------------------
(* Machine-checked proofs about TripleBuffer, for any number of commits and *)
(* of calls on either side.                                                 *)
EXTENDS TripleBuffer, TLAPS

\* The two sides of the exchange.
LEMMA TwoSides ==
  ASSUME NEW s \in Sides
  PROVE  s = "prepare" \/ s = "current"
  BY DEF Sides

\* triple_buffer keeps the types of its members.
THEOREM TypeCorrect == Spec => []TypeOK
<1>1. Init => TypeOK
  <2> SUFFICES ASSUME Init
               PROVE  TypeOK
    OBVIOUS
  <2> USE DEF Init, Sides
  <2>1. /\ buffer \in [Sides -> Buffers] /\ m_next_buffer \in Buffers
        /\ old \in [Sides -> Buffers]
    OBVIOUS
  <2>2. /\ pc \in [Sides -> {"unlocked", "test", "load", "exchange", "assign",
                             "store", "hold"}]
        /\ pc["prepare"] # "test"
    OBVIOUS
  <2>3. /\ stamp \in [Buffers -> Nat] /\ exchanges \in [Sides -> Nat]
        /\ m_has_next_buffer \in BOOLEAN /\ erased \in BOOLEAN
        /\ early \in BOOLEAN
    OBVIOUS
  <2> QED
    BY <2>1, <2>2, <2>3 DEF TypeOK
<1>2. TypeOK /\ [Next]_vars => TypeOK'
  <2> SUFFICES ASSUME TypeOK, [Next]_vars
               PROVE  TypeOK'
    OBVIOUS
  <2> USE DEF TypeOK, Sides, Goto, bufferVars, historyVars
  <2>1. CASE TestFlag
    BY <2>1 DEF TestFlag, HasNext
  <2>2. ASSUME NEW s \in Sides, Lock(s) \/ Again(s)
        PROVE  TypeOK'
    BY <2>2, TwoSides DEF Lock, Again, Enter
  <2>3. ASSUME NEW s \in Sides, LoadNext(s)
        PROVE  TypeOK'
    BY <2>3 DEF LoadNext
  <2>4. ASSUME NEW s \in Sides, Exchange(s)
        PROVE  TypeOK'
    <3>1. early' \in BOOLEAN
      <4>1. early' = IF s = "current" THEN Unannounced ELSE early
        BY <2>4 DEF Exchange
      <4>2. Unannounced \in BOOLEAN
        BY DEF Unannounced
      <4> QED
        BY <4>1, <4>2
    <3>2. /\ m_next_buffer' \in Buffers /\ exchanges' \in [Sides -> Nat]
          /\ stamp' \in [Buffers -> Nat]
      BY <2>4 DEF Exchange
    <3> QED
      BY <2>4, <3>1, <3>2 DEF Exchange
  <2>5. ASSUME NEW s \in Sides, ExchangeFails(s)
        PROVE  TypeOK'
    BY <2>5 DEF ExchangeFails
  <2>6. ASSUME NEW s \in Sides, AssignOld(s)
        PROVE  TypeOK'
    BY <2>6 DEF AssignOld
  <2>7. ASSUME NEW s \in Sides, StoreFlag(s)
        PROVE  TypeOK'
    BY <2>7 DEF StoreFlag, FlagAfter
  <2>8. ASSUME NEW s \in Sides, Unlock(s)
        PROVE  TypeOK'
    BY <2>8 DEF Unlock
  <2>9. CASE UNCHANGED vars
    BY <2>9 DEF vars
  <2> HIDE DEF TypeOK, Sides, Goto, bufferVars, historyVars
  <2> QED
    BY <2>1, <2>2, <2>3, <2>4, <2>5, <2>6, <2>7, <2>8, <2>9 DEF Next, Swap
<1> QED
  BY <1>1, <1>2, PTL DEF Spec
-----------------------------------------------------------------------------
(* Who owns which buffer. *)

\* A step either exchanges one side's buffer for the middle one or leaves
\* the three where they are.
LEMMA OwnersStep ==
  ASSUME TypeOK, [Next]_vars
  PROVE  \/ Slots!Publish
         \/ Slots!Take
         \/ UNCHANGED Slots!exchangeVars
<1> USE DEF Goto, Owned, Slots!exchangeVars, bufferVars, historyVars
<1>1. ASSUME NEW s \in Sides, Exchange(s)
      PROVE  Slots!Publish \/ Slots!Take
  <2>1. /\ Owned(s)' = m_next_buffer /\ m_next_buffer' = Owned(s)
        /\ \A r \in Sides \ {s} : Owned(r)' = Owned(r)
    BY <1>1 DEF Exchange, NextIsOld, TypeOK
  <2>2. CASE s = "prepare"
    <3>1. Owned("current")' = Owned("current")
      BY <2>1, <2>2 DEF Sides
    <3> QED
      BY <2>1, <2>2, <3>1 DEF Slots!Publish
  <2>3. CASE s = "current"
    <3>1. Owned("prepare")' = Owned("prepare")
      BY <2>1, <2>3 DEF Sides
    <3> QED
      BY <2>1, <2>3, <3>1 DEF Slots!Take
  <2> QED
    BY <2>2, <2>3, TwoSides
<1>2. ASSUME NEW s \in Sides, AssignOld(s)
      PROVE  UNCHANGED Slots!exchangeVars
  BY <1>2 DEF AssignOld, TypeOK, Sides
<1>3. ASSUME NEW s \in Sides,
             Lock(s) \/ Again(s) \/ Unlock(s) \/ ExchangeFails(s)
               \/ LoadNext(s) \/ StoreFlag(s)
      PROVE  UNCHANGED Slots!exchangeVars
  BY <1>3 DEF Lock, Again, Enter, Unlock, ExchangeFails, LoadNext, StoreFlag,
              TypeOK, Sides
<1>4. ASSUME TestFlag
      PROVE  UNCHANGED Slots!exchangeVars
  BY <1>4 DEF TestFlag, TypeOK, Sides
<1>5. ASSUME UNCHANGED vars
      PROVE  UNCHANGED Slots!exchangeVars
  BY <1>5 DEF vars
<1> HIDE DEF Goto, Owned, Slots!exchangeVars, bufferVars, historyVars
<1> QED
  BY <1>1, <1>2, <1>3, <1>4, <1>5 DEF Next, Swap

\* The constructor hands out the three buffers.
LEMMA OwnersInit ==
  ASSUME Init
  PROVE  Slots!Init
<1>1. /\ Owned("prepare") = buffer["prepare"]
      /\ Owned("current") = buffer["current"]
  BY DEF Init, Owned, Sides
<1>2. PICK b0, b1, b2 \in Buffers :
        /\ b0 # b1 /\ b1 # b2 /\ b2 # b0
        /\ buffer["prepare"] = b0 /\ buffer["current"] = b2
        /\ m_next_buffer = b1
  BY DEF Init, Sides
<1>3. Buffers = {b0, b1, b2}
  BY <1>2, BuffersAssumption
<1> QED
  BY <1>1, <1>2, <1>3 DEF Slots!Init

\* No buffer is ever in two hands or in none.
THEOREM OneOwnerEachCorrect == Spec => []OneOwnerEach
<1>1. Init => OneOwnerEach
  BY OwnersInit DEF Slots!Init, OneOwnerEach
<1>2. OneOwnerEach /\ TypeOK /\ [Next]_vars => OneOwnerEach'
  <2>1. OneOwnerEach /\ Slots!Publish => OneOwnerEach'
    BY DEF Slots!Publish, OneOwnerEach
  <2>2. OneOwnerEach /\ Slots!Take => OneOwnerEach'
    BY DEF Slots!Take, OneOwnerEach
  <2>3. OneOwnerEach /\ UNCHANGED Slots!exchangeVars => OneOwnerEach'
    BY DEF Slots!exchangeVars, OneOwnerEach
  <2> QED
    BY <2>1, <2>2, <2>3, OwnersStep
<1> QED
  BY <1>1, <1>2, TypeCorrect, PTL DEF Spec

\* The load, compare-and-swap and assignment implement atomic exchanges.
THEOREM ImplementsExchangeCorrect == Spec => ImplementsExchange
<1>1. Init => Slots!Init
  BY OwnersInit
<1>2. TypeOK /\ [Next]_vars
      => [Slots!Publish \/ Slots!Take]_(Slots!exchangeVars)
  BY OwnersStep
<1> QED
  BY <1>1, <1>2, TypeCorrect, PTL DEF Spec, ImplementsExchange, Slots!Spec
-----------------------------------------------------------------------------
(* What the flag announces. *)

\* A reader that has seen the flag and has still to exchange has a commit to
\* its credit; so has the flag, and a commit on its way to raise it.
CommitsLeft ==
  exchanges["prepare"] - (IF Unannounced THEN 1 ELSE 0)

Credit ==
  CASE pc["current"] \in {"load", "exchange"} -> exchanges["current"] < CommitsLeft
    [] pc["current"] \in {"assign", "store"}  -> exchanges["current"] <= CommitsLeft
    [] OTHER -> exchanges["current"] + (IF m_has_next_buffer THEN 1 ELSE 0)
                  <= CommitsLeft

\* A reader exchanges at most once per commit.
THEOREM TakesNeedCommitsCorrect == Spec => []TakesNeedCommits
<1>1. Init => Credit
  BY DEF Init, Credit, CommitsLeft, Unannounced, Sides
<1>2. TypeOK /\ Credit /\ [Next]_vars => Credit'
  <2> SUFFICES ASSUME TypeOK, Credit, [Next]_vars
               PROVE  Credit'
    OBVIOUS
  <2> USE DEF Credit, CommitsLeft, Unannounced, Goto, bufferVars, historyVars,
              TypeOK, Sides
  <2>1. CASE TestFlag
    BY <2>1 DEF TestFlag, HasNext
  <2>2. ASSUME NEW s \in Sides, Lock(s) \/ Again(s)
        PROVE  Credit'
    BY <2>2, TwoSides DEF Lock, Again, Enter
  <2>3. ASSUME NEW s \in Sides, LoadNext(s)
        PROVE  Credit'
    BY <2>3, TwoSides DEF LoadNext
  <2>4. ASSUME NEW s \in Sides, Exchange(s)
        PROVE  Credit'
    <3>1. /\ exchanges' = [exchanges EXCEPT ![s] = @ + 1]
          /\ m_has_next_buffer' = m_has_next_buffer
          /\ pc[s] = "exchange" /\ pc'[s] = "assign"
          /\ \A r \in Sides \ {s} : pc'[r] = pc[r]
      BY <2>4 DEF Exchange
    <3>2. CASE s = "prepare"
      BY <3>1, <3>2
    <3>3. CASE s = "current"
      BY <3>1, <3>3
    <3> QED
      BY <3>2, <3>3, TwoSides
  <2>5. ASSUME NEW s \in Sides, ExchangeFails(s)
        PROVE  Credit'
    BY <2>5, TwoSides DEF ExchangeFails
  <2>6. ASSUME NEW s \in Sides, AssignOld(s)
        PROVE  Credit'
    <3>1. /\ UNCHANGED <<exchanges, m_has_next_buffer>>
          /\ pc[s] = "assign" /\ pc'[s] = "store"
          /\ \A r \in Sides \ {s} : pc'[r] = pc[r]
      BY <2>6 DEF AssignOld
    <3>2. CASE s = "prepare"
      BY <3>1, <3>2
    <3>3. CASE s = "current"
      BY <3>1, <3>3
    <3> QED
      BY <3>2, <3>3, TwoSides
  <2>7. ASSUME NEW s \in Sides, StoreFlag(s)
        PROVE  Credit'
    <3>1. /\ exchanges' = exchanges
          /\ m_has_next_buffer' = (s = "prepare")
          /\ pc[s] = "store" /\ pc'[s] = "hold"
          /\ \A r \in Sides \ {s} : pc'[r] = pc[r]
      BY <2>7 DEF StoreFlag, FlagAfter
    <3>2. CASE s = "prepare"
      BY <3>1, <3>2
    <3>3. CASE s = "current"
      <4>1. /\ pc'["prepare"] = pc["prepare"] /\ ~m_has_next_buffer'
            /\ pc["current"] = "store" /\ pc'["current"] = "hold"
        BY <3>1, <3>3
      <4>2. exchanges["current"] <= CommitsLeft /\ CommitsLeft' = CommitsLeft
        BY <3>1, <4>1
      <4>3. exchanges["current"] \in Nat
        OBVIOUS
      <4> HIDE DEF CommitsLeft, TypeOK
      <4> QED
        BY <3>1, <4>1, <4>2, <4>3
    <3> QED
      BY <3>2, <3>3, TwoSides
  <2>8. ASSUME NEW s \in Sides, Unlock(s)
        PROVE  Credit'
    BY <2>8, TwoSides DEF Unlock
  <2>9. CASE UNCHANGED vars
    BY <2>9 DEF vars
  <2> HIDE DEF Credit, CommitsLeft, Unannounced, Goto, bufferVars, historyVars,
               TypeOK, Sides
  <2> QED
    BY <2>1, <2>2, <2>3, <2>4, <2>5, <2>6, <2>7, <2>8, <2>9 DEF Next, Swap
<1>3. TypeOK /\ Credit => TakesNeedCommits
  BY DEF TypeOK, Credit, CommitsLeft, Unannounced, TakesNeedCommits, Sides
<1> QED
  BY <1>1, <1>2, <1>3, TypeCorrect, PTL DEF Spec

\* The middle buffer is older than the reader's: a swap would go back.
Behind == stamp[m_next_buffer] < stamp[Owned("current")]

\* The reader is not on its way to a swap, and the flag does not send it there.
Quiet ==
  /\ pc["current"] \notin {"load", "exchange"}
  /\ m_has_next_buffer => pc["current"] \in {"assign", "store"}

\* The newest stamp is the number of commits.  While the middle buffer is the
\* older one, the reader stays quiet, except after an early take once the
\* preparer has raised the flag for what is gone already.
BackOK ==
  /\ \A b \in Buffers : stamp[b] <= exchanges["prepare"]
  /\ Behind /\ ~early => ~Unannounced
  /\ Behind /\ (~early \/ Unannounced) => Quiet

\* The three buffers are different ones.
LEMMA OwnersApart ==
  ASSUME OneOwnerEach, TypeOK
  PROVE  /\ Owned("prepare") # m_next_buffer /\ m_next_buffer # Owned("current")
         /\ Owned("current") # Owned("prepare")
         /\ Owned("prepare") \in Buffers /\ Owned("current") \in Buffers
<1>1. PICK b0, b1, b2 \in Buffers :
        Buffers = {b0, b1, b2} /\ b0 # b1 /\ b1 # b2 /\ b2 # b0
  BY BuffersAssumption
<1>2. PICK p, n, c : p = Owned("prepare") /\ n = m_next_buffer /\ c = Owned("current")
  OBVIOUS
<1>3. {b0, b1, b2} = {p, n, c}
  BY <1>1, <1>2 DEF OneOwnerEach
<1>4. p # n /\ n # c /\ c # p
  BY <1>1, <1>3
<1> QED
  BY <1>1, <1>2, <1>3, <1>4

\* What the two exchanges do to the stamps, and to who has which buffer.
LEMMA ExchangeStamps ==
  ASSUME TypeOK, OneOwnerEach, BackOK, NEW s \in Sides, Exchange(s)
  PROVE  /\ BackOK'
         /\ stamp'[Owned("current")'] < stamp[Owned("current")] => early /\ ~early'
<1>1. /\ pc[s] = "exchange" /\ pc' = [pc EXCEPT ![s] = "assign"]
      /\ m_next_buffer = old[s] /\ old' = old /\ buffer' = buffer
      /\ m_next_buffer' = buffer[s] /\ m_has_next_buffer' = m_has_next_buffer
  BY DEF Exchange, Goto, NextIsOld
<1>2. /\ buffer[s] = Owned(s) /\ Owned(s)' = m_next_buffer
      /\ \A r \in Sides \ {s} : Owned(r)' = Owned(r)
  BY <1>1 DEF Owned, TypeOK
<1>3. CASE s = "prepare"
  <2>1. PICK n, c, x : /\ n = Owned("prepare") /\ c = Owned("current")
                       /\ x = exchanges["prepare"]
    OBVIOUS
  <2>2. /\ n \in Buffers /\ c \in Buffers /\ c # n /\ x \in Nat
        /\ stamp \in [Buffers -> Nat]
    BY <2>1, OwnersApart DEF TypeOK, Sides
  <2>3. /\ m_next_buffer' = n /\ Owned("current")' = c
        /\ stamp' = [stamp EXCEPT ![n] = x + 1] /\ exchanges'["prepare"] = x + 1
    BY <1>1, <1>2, <1>3, <2>1 DEF Exchange, TypeOK, Sides
  <2>4. /\ \A b \in Buffers : stamp'[b] <= x + 1
        /\ stamp'[n] = x + 1 /\ stamp'[c] = stamp[c] /\ stamp[c] <= x
    BY <2>1, <2>2, <2>3 DEF BackOK
  <2>5. stamp[c] \in Nat /\ ~(stamp'[n] < stamp'[c])
    BY <2>2, <2>4
  <2>6. ~Behind'
    BY <2>3, <2>5 DEF Behind
  <2>7. BackOK'
    BY <2>3, <2>4, <2>6 DEF BackOK
  <2>8. ~(stamp'[Owned("current")'] < stamp[Owned("current")])
    BY <2>1, <2>3, <2>4, <2>5
  <2> QED
    BY <2>7, <2>8
<1>4. CASE s = "current"
  <2>1. /\ stamp' = stamp /\ early' = Unannounced
        /\ pc["current"] = "exchange" /\ pc'["current"] = "assign"
        /\ pc'["prepare"] = pc["prepare"] /\ exchanges'["prepare"] = exchanges["prepare"]
    BY <1>1, <1>4 DEF Exchange, TypeOK, Sides
  <2>2. Unannounced' = Unannounced /\ Quiet'
    BY <2>1 DEF Unannounced, Quiet
  <2>3. BackOK'
    BY <2>1, <2>2 DEF BackOK
  <2>4. ~Quiet
    BY <2>1 DEF Quiet
  <2>5. Owned("current")' = m_next_buffer
    BY <1>2, <1>4
  <2>6. ASSUME stamp'[Owned("current")'] < stamp[Owned("current")]
        PROVE  early /\ ~early'
    <3>1. Behind
      BY <2>1, <2>5, <2>6 DEF Behind
    <3> QED
      BY <2>1, <2>4, <3>1 DEF BackOK, TypeOK
  <2> QED
    BY <2>3, <2>6
<1> QED
  BY <1>3, <1>4, TwoSides

\* Every other step leaves the buffers with their owners, and keeps the rest.
LEMMA OtherStamps ==
  ASSUME TypeOK, BackOK, [Next]_vars, \A s \in Sides : ~Exchange(s)
  PROVE  /\ BackOK'
         /\ stamp'[Owned("current")'] = stamp[Owned("current")]
<1>1. /\ UNCHANGED <<m_next_buffer, stamp, exchanges, early>>
      /\ Owned("current")' = Owned("current")
  <2> USE DEF Owned, Goto, bufferVars, historyVars
  <2>1. CASE \E s \in Sides : \/ Lock(s) \/ Again(s) \/ LoadNext(s) \/ ExchangeFails(s)
                              \/ StoreFlag(s) \/ Unlock(s)
    BY <2>1 DEF Lock, Again, Enter, LoadNext, ExchangeFails, StoreFlag, Unlock, TypeOK, Sides
  <2>2. CASE \E s \in Sides : AssignOld(s)
    BY <2>2 DEF AssignOld, TypeOK, Sides
  <2>3. CASE TestFlag
    BY <2>3 DEF TestFlag, TypeOK, Sides
  <2>4. CASE UNCHANGED vars
    BY <2>4 DEF vars
  <2> HIDE DEF Owned, Goto, bufferVars, historyVars
  <2> QED
    BY <2>1, <2>2, <2>3, <2>4 DEF Next, Swap
<1>2. Behind' = Behind
  BY <1>1 DEF Behind
<1>3. /\ Behind /\ ~early => ~Unannounced'
      /\ Behind /\ (~early \/ Unannounced') => Quiet'
  <2> USE DEF Goto, bufferVars, historyVars
  <2>1. ASSUME NEW s \in Sides, Lock(s) \/ Again(s) \/ Unlock(s) \/ ExchangeFails(s)
                                  \/ LoadNext(s) \/ AssignOld(s)
        PROVE  /\ Unannounced' = Unannounced
               /\ Quiet => Quiet'
    <3>1. m_has_next_buffer' = m_has_next_buffer
      BY <2>1 DEF Lock, Again, Enter, Unlock, ExchangeFails, LoadNext, AssignOld
    <3>2. CASE s = "prepare"
      BY <2>1, <3>1, <3>2
         DEF Lock, Again, Enter, Unlock, ExchangeFails, LoadNext, AssignOld, TypeOK, Sides,
             Quiet, Unannounced
    <3>3. CASE s = "current"
      BY <2>1, <3>1, <3>3
         DEF Lock, Again, Enter, Unlock, ExchangeFails, LoadNext, AssignOld, TypeOK, Sides,
             Quiet, Unannounced
    <3> QED
      BY <3>2, <3>3, TwoSides
  <2>2. CASE TestFlag
    <3>1. /\ pc["current"] = "test" /\ pc'["prepare"] = pc["prepare"]
          /\ pc'["current"] = IF m_has_next_buffer THEN "load" ELSE "hold"
          /\ m_has_next_buffer' = m_has_next_buffer
      BY <2>2 DEF TestFlag, HasNext, TypeOK, Sides
    <3>2. Unannounced' = Unannounced /\ (Quiet => Quiet')
      BY <3>1 DEF Unannounced, Quiet
    <3> QED
      BY <3>2 DEF BackOK
  <2>3. CASE StoreFlag("prepare")
    <3>1. Unannounced /\ ~Unannounced'
      BY <2>3 DEF StoreFlag, Unannounced, TypeOK, Sides
    <3> QED
      BY <3>1 DEF BackOK
  <2>4. CASE StoreFlag("current")
    <3>1. /\ pc'["current"] = "hold" /\ pc'["prepare"] = pc["prepare"]
          /\ m_has_next_buffer' = FALSE
      BY <2>4 DEF StoreFlag, FlagAfter, TypeOK, Sides
    <3>2. Unannounced' = Unannounced /\ Quiet'
      BY <3>1 DEF Unannounced, Quiet
    <3> QED
      BY <3>2 DEF BackOK
  <2>5. CASE UNCHANGED vars
    <3>1. Unannounced' = Unannounced /\ Quiet' = Quiet
      BY <2>5 DEF vars, Unannounced, Quiet
    <3> QED
      BY <3>1 DEF BackOK
  <2> HIDE DEF Goto, bufferVars, historyVars
  <2> QED
    BY <2>1, <2>2, <2>3, <2>4, <2>5, TwoSides DEF Next, Swap, BackOK
<1> QED
  BY <1>1, <1>2, <1>3 DEF BackOK

\* A read gives an older buffer than the one before only when that one was taken
\* before the writer announced it, and never twice in a row.
THEOREM BackOnlyAfterEarlyTakeCorrect == Spec => BackOnlyAfterEarlyTake
<1>1. Init => BackOK
  <2> SUFFICES ASSUME Init
               PROVE  BackOK
    OBVIOUS
  <2>1. m_next_buffer \in Buffers /\ Owned("current") \in Buffers
    BY OwnersInit DEF Slots!Init
  <2>2. exchanges["prepare"] = 0 /\ \A b \in Buffers : stamp[b] = 0
    BY DEF Init, Sides
  <2>3. ~Behind
    BY <2>1, <2>2 DEF Behind
  <2> QED
    BY <2>2, <2>3 DEF BackOK
<1>2. TypeOK /\ OneOwnerEach /\ BackOK /\ [Next]_vars
      => /\ BackOK'
         /\ [stamp'[Owned("current")'] < stamp[Owned("current")] => early /\ ~early']_vars
  <2> SUFFICES ASSUME TypeOK, OneOwnerEach, BackOK, [Next]_vars
               PROVE  /\ BackOK'
                      /\ stamp'[Owned("current")'] < stamp[Owned("current")]
                           => early /\ ~early'
    OBVIOUS
  <2>1. CASE \E s \in Sides : Exchange(s)
    BY <2>1, ExchangeStamps
  <2>2. CASE \A s \in Sides : ~Exchange(s)
    <3>1. BackOK' /\ stamp'[Owned("current")'] = stamp[Owned("current")]
      BY <2>2, OtherStamps
    <3>2. stamp[Owned("current")] \in Nat
      BY OwnersApart DEF TypeOK
    <3> QED
      BY <3>1, <3>2
  <2> QED
    BY <2>1, <2>2
<1> QED
  BY <1>1, <1>2, TypeCorrect, OneOwnerEachCorrect, PTL DEF Spec, BackOnlyAfterEarlyTake

\* Between the exchange and the store of one side nothing is announced yet.
Announced ==
  /\ \A s \in Sides : pc[s] \notin {"assign", "store"}
  /\ stamp[m_next_buffer] > stamp[buffer["current"]]
  => m_has_next_buffer \/ erased

\* A new commit is announced unless a reader's store came after it.
THEOREM NewestIsAnnouncedCorrect == Spec => []NewestIsAnnounced
<1>1. Init => Announced
  BY DEF Init, Announced, Sides
<1>2. TypeOK /\ Announced /\ [Next]_vars => Announced'
  <2> SUFFICES ASSUME TypeOK, Announced, [Next]_vars
               PROVE  Announced'
    OBVIOUS
  <2> USE DEF Announced, Goto, bufferVars, historyVars, TypeOK, Sides
  <2>1. CASE TestFlag
    BY <2>1 DEF TestFlag
  <2>2. ASSUME NEW s \in Sides,
               Lock(s) \/ Again(s) \/ Unlock(s) \/ ExchangeFails(s)
                 \/ LoadNext(s)
        PROVE  Announced'
    BY <2>2, TwoSides DEF Lock, Again, Enter, Unlock, ExchangeFails, LoadNext
  <2>3. ASSUME NEW s \in Sides, Exchange(s)
        PROVE  Announced'
    BY <2>3, TwoSides DEF Exchange
  <2>4. ASSUME NEW s \in Sides, AssignOld(s)
        PROVE  Announced'
    BY <2>4, TwoSides DEF AssignOld
  <2>5. ASSUME NEW s \in Sides, StoreFlag(s)
        PROVE  Announced'
    BY <2>5, TwoSides DEF StoreFlag, FlagAfter
  <2>6. CASE UNCHANGED vars
    BY <2>6 DEF vars
  <2> HIDE DEF Announced, Goto, bufferVars, historyVars, TypeOK, Sides
  <2> QED
    BY <2>1, <2>2, <2>3, <2>4, <2>5, <2>6 DEF Next, Swap
<1>3. Announced => NewestIsAnnounced
  BY DEF Announced, NewestIsAnnounced
<1> QED
  BY <1>1, <1>2, <1>3, TypeCorrect, PTL DEF Spec
=============================================================================
