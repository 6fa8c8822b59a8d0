----------------------------- MODULE Recursion -----------------------------
(* Induction over the natural numbers and the existence of functions       *)
(* defined by recursion, stated over sets and functions.                   *)
EXTENDS Integers, WellFoundedInduction, TLAPS

\* A set that has 0, and with a number the next one, has every number.
LEMMA NatSetInduction ==
  ASSUME NEW S, 0 \in S, \A n \in Nat : n \in S => n + 1 \in S
  PROVE  Nat \subseteq S
<1> SUFFICES ASSUME ~(Nat \subseteq S)
             PROVE  FALSE
  OBVIOUS
<1> DEFINE T == Nat \ S
<1> DEFINE R == OpToRel(<, Nat)
<1>1. IsWellFoundedOn(R, Nat)
  BY NatLessThanWellFounded
<1>2. T \subseteq Nat /\ T # {}
  OBVIOUS
<1> HIDE DEF R, T
<1>3. PICK x \in T : \A y \in T : <<y, x>> \notin R
  BY <1>1, <1>2, WFMin
<1>4. \A y \in Nat : y < x => <<y, x>> \in R
  BY <1>2, <1>3 DEF R, OpToRel
<1>5. x \in Nat /\ x # 0 /\ x \notin S
  BY <1>3 DEF T
<1>6. x - 1 \in Nat /\ x - 1 < x /\ (x - 1) + 1 = x
  BY <1>5
<1>7. x - 1 \in S
  BY <1>3, <1>4, <1>6 DEF T
<1> QED
  BY <1>5, <1>6, <1>7

\* Induction up to a bound.
LEMMA UpTo ==
  ASSUME NEW n \in Nat, NEW S, 0 \in S,
         \A i \in 0 .. n : i < n /\ i \in S => i + 1 \in S
  PROVE  0 .. n \subseteq S
<1> DEFINE T == {i \in Nat : i <= n => i \in S}
<1>1. 0 \in T
  OBVIOUS
<1>2. ASSUME NEW i \in Nat, i \in T
      PROVE  i + 1 \in T
  BY <1>2
<1> HIDE DEF T
<1>3. Nat \subseteq T
  BY <1>1, <1>2, NatSetInduction
<1> QED
  BY <1>3 DEF T

\* f begins with a and goes on from i - 1 to i by step[i].
Recurses(f, S, a, n, step) ==
  /\ f \in [0 .. n -> S]
  /\ f[0] = a
  /\ \A i \in 1 .. n : f[i] = step[i][f[i - 1]]

\* A function can be defined by recursion on 0 .. n, by a step that depends
\* on the argument.
LEMMA RecursionExists ==
  ASSUME NEW S, NEW a \in S, NEW n \in Nat, NEW step \in [1 .. n -> [S -> S]]
  PROVE  \E f : Recurses(f, S, a, n, step)
<1> DEFINE Up(m) == \E f \in [0 .. m -> S] :
                      f[0] = a /\ \A i \in 1 .. m : f[i] = step[i][f[i - 1]]
           T == {m \in 0 .. n : Up(m)}
<1>1. 0 \in T
  <2> DEFINE f == [i \in 0 .. 0 |-> a]
  <2>1. f \in [0 .. 0 -> S] /\ f[0] = a
    OBVIOUS
  <2>2. \A i \in 1 .. 0 : f[i] = step[i][f[i - 1]]
    OBVIOUS
  <2> HIDE DEF f
  <2>3. Up(0)
    BY <2>1, <2>2
  <2> QED
    BY <2>3
<1>2. ASSUME NEW m \in 0 .. n, m < n, m \in T
      PROVE  m + 1 \in T
  <2>1. PICK f \in [0 .. m -> S] :
          f[0] = a /\ \A i \in 1 .. m : f[i] = step[i][f[i - 1]]
    BY <1>2
  <2> DEFINE g == [i \in 0 .. m + 1 |-> IF i <= m THEN f[i] ELSE step[m + 1][f[m]]]
  <2>2. step[m + 1][f[m]] \in S
    <3>1. m \in 0 .. m /\ m + 1 \in 1 .. n
      BY <1>2
    <3> QED
      BY <2>1, <3>1
  <2>3. g \in [0 .. m + 1 -> S]
    BY <2>1, <2>2
  <2>4. g[0] = a
    BY <2>1
  <2>5. ASSUME NEW i \in 1 .. m + 1
        PROVE  g[i] = step[i][g[i - 1]]
    <3>1. CASE i <= m
      BY <2>1, <3>1
    <3>2. CASE i = m + 1
      BY <2>1, <3>2
    <3> QED
      BY <3>1, <3>2
  <2> HIDE DEF g
  <2>6. Up(m + 1)
    BY <2>3, <2>4, <2>5
  <2> QED
    BY <2>6, <1>2
<1> HIDE DEF T
<1>3. 0 .. n \subseteq T
  BY <1>1, <1>2, UpTo
<1>4. n \in T
  BY <1>3
<1> QED
  BY <1>4 DEF T, Recurses
=============================================================================
