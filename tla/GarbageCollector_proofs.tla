----------------------- MODULE GarbageCollector_proofs -----------------------
(* Machine-checked proofs about GarbageCollector, for any number of nodes:  *)
(* its lists and counters for any number of handles, what collections keep  *)
(* and reclaim for one handle at a time.                                    *)
EXTENDS GarbageCollector, Recursion, FiniteSetTheorems

\* The three generations, by number.
LEMMA Generations ==
  MAX_GENERATIONS = 3 /\ Youngest = 2 /\ Gens = {0, 1, 2} /\ Gens = 0 .. 2
  /\ MaxNodes \in Nat /\ MaxHandles \in Nat
  BY NodesAssumption DEF MAX_GENERATIONS, Youngest, Gens

\* What a list has, written over its indexes.
LEMMA ListSet ==
  ASSUME NEW A, NEW s \in Seq(A)
  PROVE  /\ ToSet(s) = {s[i] : i \in 1 .. Len(s)}
         /\ ToSet(s) \subseteq A
         /\ IsInjective(s) <=> \A i, j \in 1 .. Len(s) : s[i] = s[j] => i = j
  BY DEF ToSet, IsInjective

\* A list with one more node.
LEMMA AppendFacts ==
  ASSUME NEW A, NEW s \in Seq(A), NEW n \in A
  PROVE  /\ Append(s, n) \in Seq(A)
         /\ ToSet(Append(s, n)) = ToSet(s) \cup {n}
         /\ IsInjective(s) /\ n \notin ToSet(s) => IsInjective(Append(s, n))
<1> DEFINE t == Append(s, n)
<1>1. t \in Seq(A) /\ Len(t) = Len(s) + 1 /\ t[Len(s) + 1] = n
      /\ \A i \in 1 .. Len(s) : t[i] = s[i]
  OBVIOUS
<1>2. Len(s) \in Nat
  OBVIOUS
<1> HIDE DEF t
<1>3. ToSet(s) = {s[i] : i \in 1 .. Len(s)} /\ ToSet(t) = {t[i] : i \in 1 .. Len(t)}
  BY <1>1, ListSet
<1>4. ToSet(t) = ToSet(s) \cup {n}
  <2>1. ASSUME NEW i \in 1 .. Len(t)
        PROVE  t[i] \in ToSet(s) \cup {n}
    <3>1. i \in 1 .. Len(s) \/ i = Len(s) + 1
      BY <1>1, <1>2
    <3> QED
      BY <3>1, <1>1, <1>3
  <2>2. ASSUME NEW i \in 1 .. Len(s)
        PROVE  s[i] \in ToSet(t)
    <3>1. i \in 1 .. Len(t) /\ t[i] = s[i]
      BY <1>1, <1>2
    <3> QED
      BY <3>1, <1>3
  <2>3. n \in ToSet(t)
    <3>1. Len(s) + 1 \in 1 .. Len(t)
      BY <1>1, <1>2
    <3> QED
      BY <3>1, <1>1, <1>3
  <2> QED
    BY <2>1, <2>2, <2>3, <1>3
<1>5. ASSUME IsInjective(s), n \notin ToSet(s)
      PROVE  IsInjective(t)
  <2>1. \A i, j \in 1 .. Len(s) : s[i] = s[j] => i = j
    BY <1>5, ListSet
  <2>2. \A i \in 1 .. Len(s) : s[i] # n
    BY <1>5, <1>3
  <2>3. ASSUME NEW i \in 1 .. Len(t), NEW j \in 1 .. Len(t), t[i] = t[j]
        PROVE  i = j
    <3>1. (i \in 1 .. Len(s) \/ i = Len(s) + 1) /\ (j \in 1 .. Len(s) \/ j = Len(s) + 1)
      BY <1>1, <1>2
    <3> QED
      BY <3>1, <2>1, <2>2, <2>3, <1>1
  <2> QED
    BY <2>3, <1>1, ListSet
<1> QED
  BY <1>1, <1>4, <1>5 DEF t

\* f is what Only() builds up, an index at a time.
OnlyBy(f, A, s, S) ==
  /\ f \in [0 .. Len(s) -> Seq(A)]
  /\ f[0] = <<>>
  /\ \A i \in 1 .. Len(s) :
       f[i] = IF s[i] \in S THEN Append(f[i - 1], s[i]) ELSE f[i - 1]
  /\ Only(s, S) = f[Len(s)]

\* The recursion behind Only() is well defined.
LEMMA OnlyRecursion ==
  ASSUME NEW A, NEW s \in Seq(A), NEW S
  PROVE  \E f : OnlyBy(f, A, s, S)
<1> DEFINE step == [i \in 1 .. Len(s) |->
                     [t \in Seq(A) |-> IF s[i] \in S THEN Append(t, s[i]) ELSE t]]
           P(f) == f = [i \in 0 .. Len(s) |->
                         IF i = 0 THEN <<>>
                         ELSE IF s[i] \in S THEN Append(f[i - 1], s[i]) ELSE f[i - 1]]
<1>1. Len(s) \in Nat /\ <<>> \in Seq(A) /\ \A i \in 1 .. Len(s) : s[i] \in A
  OBVIOUS
<1>2. step \in [1 .. Len(s) -> [Seq(A) -> Seq(A)]]
  BY <1>1
<1> HIDE DEF step
<1>12. PICK g : Recurses(g, Seq(A), <<>>, Len(s), step)
  BY <1>1, <1>2, RecursionExists
<1>3. g \in [0 .. Len(s) -> Seq(A)] /\ g[0] = <<>>
      /\ \A i \in 1 .. Len(s) : g[i] = step[i][g[i - 1]]
  BY <1>12 DEF Recurses
<1>4. ASSUME NEW i \in 1 .. Len(s)
      PROVE  g[i] = IF s[i] \in S THEN Append(g[i - 1], s[i]) ELSE g[i - 1]
  <2>1. g[i - 1] \in Seq(A)
    BY <1>3
  <2> QED
    BY <2>1, <1>3 DEF step
<1>5. P(g)
  <2>1. ASSUME NEW i \in 0 .. Len(s)
        PROVE  g[i] = IF i = 0 THEN <<>>
                      ELSE IF s[i] \in S THEN Append(g[i - 1], s[i]) ELSE g[i - 1]
    <3>1. i = 0 \/ (i # 0 /\ i \in 1 .. Len(s))
      BY <1>1
    <3> QED
      BY <3>1, <1>3, <1>4
  <2>2. g = [i \in 0 .. Len(s) |-> g[i]]
    BY <1>3
  <2> QED
    BY <2>1, <2>2, Zenon
<1> DEFINE f == CHOOSE f : P(f)
<1>6. P(f)
  BY <1>5, Zenon
<1>7. Only(s, S) = f[Len(s)]
  BY DEF Only
<1> HIDE DEF f
<1> DEFINE T == {i \in 0 .. Len(s) : f[i] = g[i]}
<1>8. 0 \in T
  BY <1>1, <1>3, <1>6
<1>9. ASSUME NEW i \in 0 .. Len(s), i < Len(s), i \in T
      PROVE  i + 1 \in T
  <2>1. i + 1 \in 1 .. Len(s) /\ (i + 1) - 1 = i /\ i + 1 # 0 /\ i + 1 \in 0 .. Len(s)
    BY <1>1, <1>9
  <2>2. f[i + 1] = IF s[i + 1] \in S THEN Append(f[(i + 1) - 1], s[i + 1])
                   ELSE f[(i + 1) - 1]
    BY <2>1, <1>6
  <2>3. f[i + 1] = g[i + 1]
    BY <2>1, <2>2, <1>4, <1>9
  <2> QED
    BY <2>1, <2>3
<1> HIDE DEF T, P
<1>10. 0 .. Len(s) \subseteq T
  BY <1>1, <1>8, <1>9, UpTo
<1>11. Only(s, S) = g[Len(s)]
  BY <1>1, <1>7, <1>10 DEF T
<1> QED
  BY <1>3, <1>4, <1>11 DEF OnlyBy

\* Only() drops the nodes outside S and keeps the others once.
LEMMA OnlyFacts ==
  ASSUME NEW A, NEW s \in Seq(A), NEW S
  PROVE  /\ Only(s, S) \in Seq(A)
         /\ ToSet(Only(s, S)) = ToSet(s) \cap S
         /\ IsInjective(s) => IsInjective(Only(s, S))
<1>9. PICK f : OnlyBy(f, A, s, S)
  BY OnlyRecursion
<1>1. /\ f \in [0 .. Len(s) -> Seq(A)]
      /\ f[0] = <<>>
      /\ \A i \in 1 .. Len(s) :
           f[i] = IF s[i] \in S THEN Append(f[i - 1], s[i]) ELSE f[i - 1]
      /\ Only(s, S) = f[Len(s)]
  BY <1>9 DEF OnlyBy
<1>2. Len(s) \in Nat /\ \A i \in 1 .. Len(s) : s[i] \in A
  OBVIOUS
<1> DEFINE Good(i) == /\ ToSet(f[i]) = {s[j] : j \in 1 .. i} \cap S
                      /\ IsInjective(s) => IsInjective(f[i])
           T == {i \in 0 .. Len(s) : Good(i)}
<1>3. 0 \in T
  <2>1. ToSet(<<>>) = {} /\ IsInjective(<<>>)
    BY DEF ToSet, IsInjective
  <2> QED
    BY <2>1, <1>1, <1>2
<1>4. ASSUME NEW i \in 0 .. Len(s), i < Len(s), i \in T
      PROVE  i + 1 \in T
  <2>1. i + 1 \in 1 .. Len(s) /\ (i + 1) - 1 = i /\ i + 1 \in 0 .. Len(s)
        /\ 1 .. (i + 1) = (1 .. i) \cup {i + 1}
    BY <1>2, <1>4
  <2>2. f[i] \in Seq(A) /\ s[i + 1] \in A
    BY <2>1, <1>1, <1>2
  <2>3. f[i + 1] = IF s[i + 1] \in S THEN Append(f[i], s[i + 1]) ELSE f[i]
    BY <2>1, <1>1
  <2>4. {s[j] : j \in 1 .. (i + 1)} = {s[j] : j \in 1 .. i} \cup {s[i + 1]}
    BY <2>1
  <2>5. Good(i)
    BY <1>4
  <2>6. CASE s[i + 1] \in S
    <3>1. ToSet(f[i + 1]) = ToSet(f[i]) \cup {s[i + 1]}
      BY <2>2, <2>3, <2>6, AppendFacts
    <3>2. ToSet(f[i + 1]) = {s[j] : j \in 1 .. (i + 1)} \cap S
      BY <3>1, <2>4, <2>5, <2>6
    <3>3. ASSUME IsInjective(s)
          PROVE  IsInjective(f[i + 1])
      <4>1. \A j \in 1 .. i : s[j] # s[i + 1]
        BY <3>3, <2>1, ListSet
      <4>2. s[i + 1] \notin ToSet(f[i])
        BY <4>1, <2>5
      <4> QED
        BY <4>2, <3>3, <2>2, <2>3, <2>5, <2>6, AppendFacts
    <3> QED
      BY <3>2, <3>3, <2>1
  <2>7. CASE s[i + 1] \notin S
    <3>1. f[i + 1] = f[i]
      BY <2>3, <2>7
    <3>2. {s[j] : j \in 1 .. (i + 1)} \cap S = {s[j] : j \in 1 .. i} \cap S
      BY <2>4, <2>7
    <3> QED
      BY <3>1, <3>2, <2>1, <2>5
  <2> QED
    BY <2>6, <2>7
<1> HIDE DEF T
<1>5. 0 .. Len(s) \subseteq T
  BY <1>2, <1>3, <1>4, UpTo
<1>6. Good(Len(s))
  BY <1>2, <1>5 DEF T
<1>7. Only(s, S) \in Seq(A)
  BY <1>1, <1>2
<1>8. ToSet(s) = {s[j] : j \in 1 .. Len(s)}
  BY ListSet
<1> QED
  BY <1>1, <1>6, <1>7, <1>8

\* The first k nodes of a list, and the others.
LEMMA SplitFacts ==
  ASSUME NEW A, NEW s \in Seq(A), NEW k \in 0 .. Len(s)
  PROVE  /\ SubSeq(s, 1, k) \in Seq(A) /\ SubSeq(s, k + 1, Len(s)) \in Seq(A)
         /\ ToSet(SubSeq(s, 1, k)) \cup ToSet(SubSeq(s, k + 1, Len(s))) = ToSet(s)
         /\ IsInjective(s) =>
              /\ IsInjective(SubSeq(s, 1, k)) /\ IsInjective(SubSeq(s, k + 1, Len(s)))
              /\ ToSet(SubSeq(s, 1, k)) \cap ToSet(SubSeq(s, k + 1, Len(s))) = {}
<1> DEFINE a == SubSeq(s, 1, k)
           b == SubSeq(s, k + 1, Len(s))
<1>1. Len(s) \in Nat /\ k \in Nat /\ k <= Len(s)
  OBVIOUS
<1>2. a \in Seq(A) /\ Len(a) = k /\ \A i \in 1 .. k : a[i] = s[i]
  BY <1>1
<1>3. b \in Seq(A) /\ Len(b) = Len(s) - k /\ \A i \in 1 .. Len(s) - k : b[i] = s[k + i]
  BY <1>1
<1> HIDE DEF a, b
<1>4. /\ ToSet(a) = {a[i] : i \in 1 .. k} /\ ToSet(b) = {b[i] : i \in 1 .. Len(s) - k}
      /\ ToSet(s) = {s[i] : i \in 1 .. Len(s)}
  <2>1. ToSet(a) = {a[i] : i \in 1 .. k}
    BY <1>2, ListSet
  <2>2. ToSet(b) = {b[i] : i \in 1 .. Len(s) - k}
    BY <1>3, ListSet
  <2>3. ToSet(s) = {s[i] : i \in 1 .. Len(s)}
    BY ListSet
  <2> QED
    BY <2>1, <2>2, <2>3
<1>5. \A i \in 1 .. k : i \in 1 .. Len(s)
  BY <1>1
<1>6. \A i \in 1 .. Len(s) - k : k + i \in 1 .. Len(s)
  BY <1>1
<1>7. \A i \in 1 .. Len(s) : i \in 1 .. k \/ (i - k \in 1 .. Len(s) - k /\ k + (i - k) = i)
  BY <1>1
<1>8. ToSet(a) \cup ToSet(b) = ToSet(s)
  <2>1. ToSet(a) \subseteq ToSet(s)
    BY <1>2, <1>4, <1>5
  <2>2. ToSet(b) \subseteq ToSet(s)
    BY <1>3, <1>4, <1>6
  <2>3. ASSUME NEW i \in 1 .. Len(s)
        PROVE  s[i] \in ToSet(a) \cup ToSet(b)
    <3>1. CASE i \in 1 .. k
      BY <3>1, <1>2, <1>4
    <3>2. CASE i - k \in 1 .. Len(s) - k /\ k + (i - k) = i
      <4>1. b[i - k] = s[i]
        BY <3>2, <1>3
      <4> QED
        BY <4>1, <3>2, <1>4
    <3> QED
      BY <3>1, <3>2, <1>7
  <2> QED
    BY <2>1, <2>2, <2>3, <1>4
<1>9. ASSUME IsInjective(s)
      PROVE  IsInjective(a) /\ IsInjective(b) /\ ToSet(a) \cap ToSet(b) = {}
  <2>1. \A i, j \in 1 .. Len(s) : s[i] = s[j] => i = j
    BY <1>9, ListSet
  <2>2. IsInjective(a)
    BY <2>1, <1>2, <1>5, ListSet
  <2>3. ASSUME NEW i \in 1 .. Len(s) - k, NEW j \in 1 .. Len(s) - k, b[i] = b[j]
        PROVE  i = j
    <3>1. k + i = k + j
      BY <2>1, <2>3, <1>3, <1>6
    <3> QED
      BY <3>1, <1>1
  <2>4. IsInjective(b)
    BY <2>3, <1>3, ListSet
  <2>5. ASSUME NEW i \in 1 .. k, NEW j \in 1 .. Len(s) - k
        PROVE  a[i] # b[j]
    <3>1. i # k + j
      BY <1>1
    <3> QED
      BY <3>1, <2>1, <1>2, <1>3, <1>5, <1>6
  <2> QED
    BY <2>2, <2>4, <2>5, <1>4
<1> QED
  BY <1>2, <1>3, <1>8, <1>9 DEF a, b

\* Two lists in a row.
LEMMA JoinFacts ==
  ASSUME NEW A, NEW s \in Seq(A), NEW t \in Seq(A)
  PROVE  /\ s \o t \in Seq(A)
         /\ ToSet(s \o t) = ToSet(s) \cup ToSet(t)
         /\ IsInjective(s) /\ IsInjective(t) /\ ToSet(s) \cap ToSet(t) = {}
              => IsInjective(s \o t)
<1> DEFINE u == s \o t
<1>1. Len(s) \in Nat /\ Len(t) \in Nat
  OBVIOUS
<1>2. /\ u \in Seq(A) /\ Len(u) = Len(s) + Len(t)
      /\ \A i \in 1 .. Len(s) : u[i] = s[i]
  OBVIOUS
<1>3. \A i \in 1 .. Len(t) : u[Len(s) + i] = t[i]
  OBVIOUS
<1> HIDE DEF u
<1>4. /\ ToSet(s) = {s[i] : i \in 1 .. Len(s)} /\ ToSet(t) = {t[i] : i \in 1 .. Len(t)}
      /\ ToSet(u) = {u[i] : i \in 1 .. Len(u)}
  BY <1>2, ListSet
<1>5. \A i \in 1 .. Len(s) : i \in 1 .. Len(u)
  BY <1>1, <1>2
<1>6. \A i \in 1 .. Len(t) : Len(s) + i \in 1 .. Len(u)
  BY <1>1, <1>2
<1>7. \A i \in 1 .. Len(u) : \/ i \in 1 .. Len(s)
                             \/ \E j \in 1 .. Len(t) : i = Len(s) + j
  <2>1. ASSUME NEW i \in 1 .. Len(u), i \notin 1 .. Len(s)
        PROVE  i - Len(s) \in 1 .. Len(t) /\ i = Len(s) + (i - Len(s))
    BY <2>1, <1>1, <1>2
  <2> QED
    BY <2>1
<1>8. ToSet(u) = ToSet(s) \cup ToSet(t)
  <2>1. ToSet(s) \subseteq ToSet(u)
    BY <1>2, <1>4, <1>5
  <2>2. ToSet(t) \subseteq ToSet(u)
    BY <1>3, <1>4, <1>6
  <2>3. \A i \in 1 .. Len(u) : u[i] \in ToSet(s) \cup ToSet(t)
    BY <1>2, <1>3, <1>4, <1>7
  <2> QED
    BY <2>1, <2>2, <2>3, <1>4
<1>9. ASSUME IsInjective(s), IsInjective(t), ToSet(s) \cap ToSet(t) = {}
      PROVE  IsInjective(u)
  <2>1. \A i, j \in 1 .. Len(s) : s[i] = s[j] => i = j
    BY <1>9, ListSet
  <2>2. \A i, j \in 1 .. Len(t) : t[i] = t[j] => i = j
    BY <1>9, ListSet
  <2>3. \A i \in 1 .. Len(s), j \in 1 .. Len(t) : s[i] # t[j]
    BY <1>9, <1>4
  <2>4. ASSUME NEW i \in 1 .. Len(u), NEW j \in 1 .. Len(u), u[i] = u[j]
        PROVE  i = j
    <3>1. CASE i \in 1 .. Len(s) /\ j \in 1 .. Len(s)
      BY <3>1, <2>1, <2>4, <1>2
    <3>2. ASSUME NEW p \in 1 .. Len(t), i = Len(s) + p, j \in 1 .. Len(s)
          PROVE  FALSE
      BY <3>2, <2>3, <2>4, <1>2, <1>3
    <3>3. ASSUME NEW q \in 1 .. Len(t), j = Len(s) + q, i \in 1 .. Len(s)
          PROVE  FALSE
      BY <3>3, <2>3, <2>4, <1>2, <1>3
    <3>4. ASSUME NEW p \in 1 .. Len(t), i = Len(s) + p,
                 NEW q \in 1 .. Len(t), j = Len(s) + q
          PROVE  i = j
      BY <3>4, <2>2, <2>4, <1>3
    <3> QED
      BY <3>1, <3>2, <3>3, <3>4, <1>7
  <2> QED
    BY <2>4, <1>2, ListSet
<1> QED
  BY <1>2, <1>8, <1>9 DEF u

\* ReachableFrom() has its start and what its nodes lead to, and lies in
\* every set that has as much.
LEMMA ReachFacts ==
  ASSUME NEW S, S \subseteq Nodes, NEW follow \in [Nodes -> SUBSET Nodes]
  PROVE  /\ ReachableFrom(S, follow) \subseteq Nodes
         /\ S \subseteq ReachableFrom(S, follow)
         /\ \A n \in ReachableFrom(S, follow) : follow[n] \subseteq ReachableFrom(S, follow)
  BY DEF ReachableFrom

\* It is the least such set.
LEMMA ReachLeast ==
  ASSUME NEW S, NEW follow, NEW C, C \subseteq Nodes, S \subseteq C,
         \A n \in C : follow[n] \subseteq C
  PROVE  ReachableFrom(S, follow) \subseteq C
  BY DEF ReachableFrom

\* What the root lists hold.
RootLists ==
  [head : [Gens -> Nodes \cup {Null}], tail : [Gens -> Nodes \cup {Null}],
   prev : [Nodes -> Nodes \cup {Null}], next : [Nodes -> Nodes \cup {Null}],
   wild : BOOLEAN]

\* Linking, unlinking and moving a root keep the type of the lists.
LEMMA LinkRootTyped ==
  ASSUME NEW r \in RootLists, NEW g \in Gens, NEW n \in Nodes, NEW live
  PROVE  LinkRoot(r, g, n, live) \in RootLists
<1> DEFINE last == r.tail[g]
<1>1. last \in Nodes \cup {Null}
  BY DEF RootLists
<1>2. CASE last = Null
  BY <1>2 DEF LinkRoot, RootLists
<1>3. CASE last # Null
  <2>1. last \in Nodes
    BY <1>1, <1>3
  <2> HIDE DEF last
  <2> DEFINE new == [r EXCEPT !.next[last] = n, !.prev[n] = last, !.tail[g] = n,
                              !.wild = @ \/ last \notin live]
  <2>2. LinkRoot(r, g, n, live) = new
    BY <1>3 DEF LinkRoot, last
  <2>3. new = [head |-> r.head, tail |-> [r.tail EXCEPT ![g] = n],
               prev |-> [r.prev EXCEPT ![n] = last], next |-> [r.next EXCEPT ![last] = n],
               wild |-> r.wild \/ last \notin live]
    <3>1. r = [head |-> r.head, tail |-> r.tail, prev |-> r.prev, next |-> r.next,
               wild |-> r.wild]
      BY DEF RootLists
    <3> DEFINE w == r.wild \/ last \notin live
    <3>2. new = [r EXCEPT !.next[last] = n, !.prev[n] = last, !.tail[g] = n, !.wild = w]
      OBVIOUS
    <3> HIDE DEF w, new
    <3>3. new = [head |-> r.head, tail |-> [r.tail EXCEPT ![g] = n],
                 prev |-> [r.prev EXCEPT ![n] = last], next |-> [r.next EXCEPT ![last] = n],
                 wild |-> w]
      BY <3>1, <3>2
    <3> QED
      BY <3>3 DEF w
  <2> HIDE DEF new
  <2>4. /\ r.head \in [Gens -> Nodes \cup {Null}]
        /\ [r.tail EXCEPT ![g] = n] \in [Gens -> Nodes \cup {Null}]
        /\ [r.prev EXCEPT ![n] = last] \in [Nodes -> Nodes \cup {Null}]
        /\ [r.next EXCEPT ![last] = n] \in [Nodes -> Nodes \cup {Null}]
        /\ (r.wild \/ last \notin live) \in BOOLEAN
    BY <2>1 DEF RootLists
  <2>5. new \in RootLists
    BY <2>3, <2>4 DEF RootLists
  <2> QED
    BY <2>2, <2>5
<1> QED
  BY <1>2, <1>3

\* Unlinking,
LEMMA UnlinkRootTyped ==
  ASSUME NEW r \in RootLists, NEW g \in Gens, NEW n \in Nodes, NEW live
  PROVE  UnlinkRoot(r, g, n, live) \in RootLists
<1> DEFINE p == r.prev[n]
           q == r.next[n]
           u == UnlinkRoot(r, g, n, live)
<1>1. p \in Nodes \cup {Null} /\ q \in Nodes \cup {Null}
  BY DEF RootLists
<1>2. /\ r.head \in [Gens -> Nodes \cup {Null}] /\ r.tail \in [Gens -> Nodes \cup {Null}]
      /\ r.prev \in [Nodes -> Nodes \cup {Null}] /\ r.next \in [Nodes -> Nodes \cup {Null}]
  BY DEF RootLists
<1>3. u = [head |-> IF n = r.head[g] THEN [r.head EXCEPT ![g] = q] ELSE r.head,
           tail |-> IF n = r.tail[g] THEN [r.tail EXCEPT ![g] = p] ELSE r.tail,
           next |-> IF p # Null THEN [r.next EXCEPT ![p] = q] ELSE r.next,
           prev |-> IF q # Null THEN [r.prev EXCEPT ![q] = p] ELSE r.prev,
           wild |-> r.wild \/ ~({p, q} \subseteq live \cup {Null})]
  BY DEF UnlinkRoot
<1> HIDE DEF p, q, u
<1>4. (IF n = r.head[g] THEN [r.head EXCEPT ![g] = q] ELSE r.head)
        \in [Gens -> Nodes \cup {Null}]
  BY <1>1, <1>2
<1>5. (IF n = r.tail[g] THEN [r.tail EXCEPT ![g] = p] ELSE r.tail)
        \in [Gens -> Nodes \cup {Null}]
  BY <1>1, <1>2
<1>6. (IF p # Null THEN [r.next EXCEPT ![p] = q] ELSE r.next)
        \in [Nodes -> Nodes \cup {Null}]
  BY <1>1, <1>2
<1>7. (IF q # Null THEN [r.prev EXCEPT ![q] = p] ELSE r.prev)
        \in [Nodes -> Nodes \cup {Null}]
  BY <1>1, <1>2
<1>8. (r.wild \/ ~({p, q} \subseteq live \cup {Null})) \in BOOLEAN
  OBVIOUS
<1>9. u \in RootLists
  BY <1>3, <1>4, <1>5, <1>6, <1>7, <1>8 DEF RootLists
<1> QED
  BY <1>9 DEF u

\* and moving.
LEMMA MoveRootTyped ==
  ASSUME NEW r \in RootLists, NEW g \in Gens, g # 0, NEW n \in Nodes, NEW live
  PROVE  MoveRoot(r, g, n, live) \in RootLists
<1> DEFINE cut == UnlinkRoot(r, g, n, live)
           bare == [cut EXCEPT !.prev[n] = Null, !.next[n] = Null]
<1>1. cut \in RootLists
  BY UnlinkRootTyped
<1>2. MoveRoot(r, g, n, live) = LinkRoot(bare, g - 1, n, live)
  BY DEF MoveRoot
<1> HIDE DEF cut
<1>3. bare \in RootLists
  BY <1>1 DEF RootLists
<1>4. g - 1 \in Gens
  BY Generations
<1> HIDE DEF bare
<1> QED
  BY <1>2, <1>3, <1>4, LinkRootTyped

\* What SweptRoots() and AgedRoots() build up, a root at a time.
DeadRoots(gone, dead) == gone = Only(mem[2] \o mem[1] \o mem[0], dead \cap isRoot)

SweptBy(f, gone, dead) ==
  /\ f \in [0 .. Len(gone) -> RootLists]
  /\ f[0] = roots
  /\ \A i \in 1 .. Len(gone) :
       f[i] = UnlinkRoot(f[i - 1], gen[gone[i]], gone[i], LeftFor(gen[gone[i]], dead))
  /\ SweptRoots(dead) = f[Len(gone)]

\* SweptRoots() is its last value.
LEMMA SweptRecursion ==
  ASSUME NEW dead, NEW gone \in Seq(Nodes), roots \in RootLists, gen \in [Nodes -> Gens],
         DeadRoots(gone, dead)
  PROVE  \E f : SweptBy(f, gone, dead)
<1> DEFINE live(n) == LeftFor(gen[n], dead)
           step == [i \in 1 .. Len(gone) |->
                     [r \in RootLists |-> UnlinkRoot(r, gen[gone[i]], gone[i], live(gone[i]))]]
           P(f) == f = [i \in 0 .. Len(gone) |->
                         IF i = 0 THEN roots
                         ELSE UnlinkRoot(f[i - 1], gen[gone[i]], gone[i], live(gone[i]))]
<1>1. Len(gone) \in Nat /\ \A i \in 1 .. Len(gone) : gone[i] \in Nodes /\ gen[gone[i]] \in Gens
  OBVIOUS
<1>2. step \in [1 .. Len(gone) -> [RootLists -> RootLists]]
  <2>1. ASSUME NEW i \in 1 .. Len(gone), NEW r \in RootLists
        PROVE  UnlinkRoot(r, gen[gone[i]], gone[i], live(gone[i])) \in RootLists
    BY <1>1, UnlinkRootTyped
  <2> QED
    BY <2>1
<1> HIDE DEF step
<1>3. PICK g : Recurses(g, RootLists, roots, Len(gone), step)
  BY <1>1, <1>2, RecursionExists
<1>4. g \in [0 .. Len(gone) -> RootLists] /\ g[0] = roots
      /\ \A i \in 1 .. Len(gone) : g[i] = step[i][g[i - 1]]
  BY <1>3 DEF Recurses
<1>5. ASSUME NEW i \in 1 .. Len(gone)
      PROVE  g[i] = UnlinkRoot(g[i - 1], gen[gone[i]], gone[i], live(gone[i]))
  <2>1. g[i - 1] \in RootLists
    BY <1>1, <1>4
  <2> QED
    BY <2>1, <1>4 DEF step
<1>6. P(g)
  <2>1. ASSUME NEW i \in 0 .. Len(gone)
        PROVE  g[i] = IF i = 0 THEN roots
                      ELSE UnlinkRoot(g[i - 1], gen[gone[i]], gone[i], live(gone[i]))
    <3>1. i = 0 \/ (i # 0 /\ i \in 1 .. Len(gone))
      BY <1>1
    <3> QED
      BY <3>1, <1>4, <1>5
  <2>2. g = [i \in 0 .. Len(gone) |-> g[i]]
    BY <1>4
  <2> QED
    BY <2>1, <2>2, Zenon
<1> DEFINE f == CHOOSE f : P(f)
<1>7. P(f)
  BY <1>6, Zenon
<1>8. SweptRoots(dead) = f[Len(gone)]
  BY DEF SweptRoots, DeadRoots
<1> HIDE DEF f
<1> DEFINE T == {i \in 0 .. Len(gone) : f[i] = g[i]}
<1>9. 0 \in T
  BY <1>1, <1>4, <1>7
<1>10. ASSUME NEW i \in 0 .. Len(gone), i < Len(gone), i \in T
       PROVE  i + 1 \in T
  <2>1. i + 1 \in 1 .. Len(gone) /\ (i + 1) - 1 = i /\ i + 1 # 0 /\ i + 1 \in 0 .. Len(gone)
    BY <1>1, <1>10
  <2>2. f[i + 1] = UnlinkRoot(f[i], gen[gone[i + 1]], gone[i + 1], live(gone[i + 1]))
    BY <2>1, <1>7
  <2>3. g[i + 1] = UnlinkRoot(g[i], gen[gone[i + 1]], gone[i + 1], live(gone[i + 1]))
    BY <2>1, <1>5
  <2> QED
    BY <2>1, <2>2, <2>3, <1>10
<1> HIDE DEF T, P
<1>11. 0 .. Len(gone) \subseteq T
  BY <1>1, <1>9, <1>10, UpTo
<1>12. SweptRoots(dead) = g[Len(gone)]
  BY <1>1, <1>8, <1>11 DEF T
<1> QED
  BY <1>4, <1>5, <1>12 DEF SweptBy

AgedBy(f, moving, r, g, moved, live) ==
  /\ f \in [0 .. Len(moving) -> RootLists]
  /\ f[0] = r
  /\ \A i \in 1 .. Len(moving) : f[i] = MoveRoot(f[i - 1], g, moving[i], live)
  /\ AgedRoots(r, g, moved, live) = f[Len(moving)]

\* AgedRoots() is its last value.
LEMMA AgedRecursion ==
  ASSUME NEW r0 \in RootLists, NEW k \in Gens, NEW moved, NEW live,
         NEW moving \in Seq(Nodes), moving = Only(moved, isRoot), k = 0 => moving = <<>>
  PROVE  \E f : AgedBy(f, moving, r0, k, moved, live)
<1> DEFINE step == [i \in 1 .. Len(moving) |->
                     [r \in RootLists |-> MoveRoot(r, k, moving[i], live)]]
           P(f) == f = [i \in 0 .. Len(moving) |->
                         IF i = 0 THEN r0 ELSE MoveRoot(f[i - 1], k, moving[i], live)]
<1>1. Len(moving) \in Nat /\ \A i \in 1 .. Len(moving) : moving[i] \in Nodes /\ k # 0
  OBVIOUS
<1>2. step \in [1 .. Len(moving) -> [RootLists -> RootLists]]
  <2>1. ASSUME NEW i \in 1 .. Len(moving), NEW r \in RootLists
        PROVE  MoveRoot(r, k, moving[i], live) \in RootLists
    BY <1>1, MoveRootTyped
  <2> QED
    BY <2>1
<1> HIDE DEF step
<1>3. PICK g : Recurses(g, RootLists, r0, Len(moving), step)
  BY <1>1, <1>2, RecursionExists
<1>4. g \in [0 .. Len(moving) -> RootLists] /\ g[0] = r0
      /\ \A i \in 1 .. Len(moving) : g[i] = step[i][g[i - 1]]
  BY <1>3 DEF Recurses
<1>5. ASSUME NEW i \in 1 .. Len(moving)
      PROVE  g[i] = MoveRoot(g[i - 1], k, moving[i], live)
  <2>1. g[i - 1] \in RootLists
    BY <1>1, <1>4
  <2> QED
    BY <2>1, <1>4 DEF step
<1>6. P(g)
  <2>1. ASSUME NEW i \in 0 .. Len(moving)
        PROVE  g[i] = IF i = 0 THEN r0 ELSE MoveRoot(g[i - 1], k, moving[i], live)
    <3>1. i = 0 \/ (i # 0 /\ i \in 1 .. Len(moving))
      BY <1>1
    <3> QED
      BY <3>1, <1>4, <1>5
  <2>2. g = [i \in 0 .. Len(moving) |-> g[i]]
    BY <1>4
  <2> QED
    BY <2>1, <2>2, Zenon
<1> DEFINE f == CHOOSE f : P(f)
<1>7. P(f)
  BY <1>6, Zenon
<1>8. AgedRoots(r0, k, moved, live) = f[Len(moving)]
  BY DEF AgedRoots
<1> HIDE DEF f
<1> DEFINE T == {i \in 0 .. Len(moving) : f[i] = g[i]}
<1>9. 0 \in T
  BY <1>1, <1>4, <1>7
<1>10. ASSUME NEW i \in 0 .. Len(moving), i < Len(moving), i \in T
       PROVE  i + 1 \in T
  <2>1. i + 1 \in 1 .. Len(moving) /\ (i + 1) - 1 = i /\ i + 1 # 0 /\ i + 1 \in 0 .. Len(moving)
    BY <1>1, <1>10
  <2>2. f[i + 1] = MoveRoot(f[i], k, moving[i + 1], live)
    BY <2>1, <1>7
  <2>3. g[i + 1] = MoveRoot(g[i], k, moving[i + 1], live)
    BY <2>1, <1>5
  <2> QED
    BY <2>1, <2>2, <2>3, <1>10
<1> HIDE DEF T, P
<1>11. 0 .. Len(moving) \subseteq T
  BY <1>1, <1>9, <1>10, UpTo
<1>12. AgedRoots(r0, k, moved, live) = g[Len(moving)]
  BY <1>1, <1>8, <1>11 DEF T
<1> QED
  BY <1>4, <1>5, <1>12 DEF AgedBy

Typed ==
  /\ used \in 0 .. MaxNodes /\ nodes \subseteq 1 .. used
  /\ isRoot \subseteq 1 .. used /\ handles \subseteq isRoot
  /\ gen \in [Nodes -> Gens]
  /\ mem \in [Gens -> Seq(Nodes)]
  /\ attached \in [Nodes -> SUBSET (1 .. used)]
  /\ retain \in [Nodes -> [Gens -> Int]]
  /\ roots \in RootLists
  /\ wild \in BOOLEAN /\ fulls \in 0 .. MAX_GENERATIONS

\* The list of a generation has its nodes, each once.
Lists ==
  \A k \in Gens : /\ ToSet(mem[k]) = {n \in nodes : gen[n] = k}
                  /\ IsInjective(mem[k])

\* A node not yet allocated is as it will be when it is.
Fresh ==
  \A n \in Nodes \ 1 .. used : gen[n] = Youngest /\ retain[n] = [k \in Gens |-> 0]

\* A node that is not there holds nothing.
Gone == \A n \in Nodes \ nodes : attached[n] = {}

\* The nodes of generation k that hold c.
HeldFrom(k, c) == {n \in nodes : gen[n] = k /\ c \in attached[n]}

\* RetainCountsExact, over sets of holders.
Counts == \A c \in nodes, k \in Gens : retain[c][k] = Cardinality(HeldFrom(k, c))

Inv == Typed /\ Lists /\ Fresh /\ Gone /\ Counts

\* Counts is what the runs check as RetainCountsExact.
LEMMA CountsAreExact == Counts <=> RetainCountsExact
<1>1. ASSUME NEW c, NEW k
      PROVE  Holders({m \in nodes : gen[m] = k}, c) = Cardinality(HeldFrom(k, c))
  <2>1. {n \in {m \in nodes : gen[m] = k} : c \in attached[n]} = HeldFrom(k, c)
    BY DEF HeldFrom
  <2> QED
    BY <2>1 DEF Holders
<1> QED
  BY <1>1 DEF Counts, RetainCountsExact

\* The sets of nodes are finite sets of Nodes.
LEMMA Small ==
  ASSUME Typed
  PROVE  /\ 1 .. used \subseteq Nodes /\ nodes \subseteq Nodes /\ isRoot \subseteq Nodes
         /\ handles \subseteq Nodes /\ IsFiniteSet(nodes) /\ used \in Nat
         /\ \A n \in Nodes : attached[n] \subseteq Nodes
<1>1. used \in 0 .. MaxNodes /\ MaxNodes \in Nat
  BY Generations DEF Typed
<1>2. 1 .. used \subseteq Nodes
  BY <1>1 DEF Nodes
<1>3. IsFiniteSet(1 .. used)
  BY <1>1, FS_Interval
<1>4. IsFiniteSet(nodes)
  BY <1>3, FS_Subset DEF Typed
<1> QED
  BY <1>1, <1>2, <1>4 DEF Typed

\* The dead are nodes of the collected generations.
LEMMA DeadWithin ==
  ASSUME Inv, NEW g \in Gens
  PROVE  Dead(g) \subseteq {n \in nodes : gen[n] >= g}
<1>1. ASSUME NEW k \in g .. Youngest
      PROVE  ToSet(mem[k]) \subseteq {n \in nodes : gen[n] >= g}
  <2>1. k \in Gens /\ k >= g
    BY <1>1, Generations
  <2> QED
    BY <2>1 DEF Inv, Lists
<1> QED
  BY <1>1 DEF Dead

\* The lists and the counters are right in the beginning,
LEMMA InvInit == Init => Inv
<1> SUFFICES ASSUME Init
             PROVE  Inv
  OBVIOUS
<1> USE Generations
<1>1. Typed
  <2>1. 0 \in 0 .. MaxNodes /\ Youngest \in Gens /\ 0 \in 0 .. MAX_GENERATIONS
    OBVIOUS
  <2>2. roots \in RootLists
    BY DEF Init, RootLists
  <2>3. gen \in [Nodes -> Gens] /\ mem \in [Gens -> Seq(Nodes)]
    BY <2>1 DEF Init
  <2>4. attached \in [Nodes -> SUBSET (1 .. used)]
    BY DEF Init
  <2>5. retain \in [Nodes -> [Gens -> Int]]
    BY DEF Init
  <2>6. /\ used = 0 /\ nodes = {} /\ isRoot = {} /\ handles = {} /\ wild = FALSE
        /\ fulls = 0
    BY DEF Init
  <2> QED
    BY <2>1, <2>2, <2>3, <2>4, <2>5, <2>6 DEF Typed
<1>2. Lists
  <2>1. ToSet(<<>>) = {} /\ IsInjective(<<>>)
    BY DEF ToSet, IsInjective
  <2> QED
    BY <2>1 DEF Init, Lists
<1>3. Fresh /\ Gone
  BY DEF Init, Fresh, Gone
<1>4. Counts
  BY DEF Init, Counts
<1> QED
  BY <1>1, <1>2, <1>3, <1>4 DEF Inv

\* What an allocation leaves in place.
LEMMA AllocKeeps ==
  ASSUME Inv, NEW n \in Nodes, Alloc(n), UNCHANGED <<gen, attached, retain>>,
         isRoot' \in SUBSET (isRoot \cup {n}), handles' \subseteq isRoot',
         roots' \in RootLists, wild' \in BOOLEAN
  PROVE  Inv'
<1> USE Generations
<1>1. /\ n = used + 1 /\ used' = n /\ nodes' = nodes \cup {n} /\ fulls' = 0
      /\ mem' = [mem EXCEPT ![Youngest] = Append(@, n)]
      /\ gen' = gen /\ attached' = attached /\ retain' = retain
  BY DEF Alloc
<1>2. /\ used \in Nat /\ used' \in 0 .. MaxNodes /\ used <= MaxNodes /\ n \notin nodes
      /\ 1 .. used' = (1 .. used) \cup {n} /\ n \notin 1 .. used
  <2>1. used \in Nat /\ used <= MaxNodes /\ nodes \subseteq 1 .. used
    BY DEF Inv, Typed
  <2>2. n \in 1 .. MaxNodes /\ n = used + 1
    BY <1>1 DEF Nodes
  <2> QED
    BY <2>1, <2>2, <1>1
<1>3. mem[Youngest] \in Seq(Nodes)
  BY DEF Inv, Typed
<1>4. Typed'
  <2>1. mem' \in [Gens -> Seq(Nodes)]
    BY <1>1, <1>3 DEF Inv, Typed
  <2>2. attached' \in [Nodes -> SUBSET (1 .. used')]
    BY <1>1, <1>2 DEF Inv, Typed
  <2>3. gen' \in [Nodes -> Gens] /\ retain' \in [Nodes -> [Gens -> Int]]
    BY <1>1 DEF Inv, Typed
  <2>4. nodes' \subseteq 1 .. used' /\ isRoot' \subseteq 1 .. used'
    BY <1>1, <1>2 DEF Inv, Typed
  <2>5. fulls' \in 0 .. MAX_GENERATIONS
    BY <1>1
  <2> QED
    BY <2>1, <2>2, <2>3, <2>4, <2>5, <1>2 DEF Typed
<1>5. Lists'
  <2>1. gen[n] = Youngest
    BY <1>2 DEF Inv, Fresh
  <2>2. ASSUME NEW k \in Gens
        PROVE  /\ ToSet(mem'[k]) = {m \in nodes' : gen'[m] = k}
               /\ IsInjective(mem'[k])
    <3>1. /\ ToSet(mem[k]) = {m \in nodes : gen[m] = k}
          /\ IsInjective(mem[k])
      BY DEF Inv, Lists
    <3>2. CASE k = Youngest
      <4>1. mem'[k] = Append(mem[k], n)
        BY <1>1, <3>2 DEF Inv, Typed
      <4>2. n \notin ToSet(mem[k])
        BY <3>1, <1>2
      <4>3. ToSet(mem'[k]) = ToSet(mem[k]) \cup {n} /\ IsInjective(mem'[k])
        BY <4>1, <4>2, <3>1, <3>2, <1>3, AppendFacts
      <4> QED
        BY <4>3, <3>1, <3>2, <2>1, <1>1
    <3>3. CASE k # Youngest
      <4>1. mem'[k] = mem[k]
        BY <1>1, <3>3 DEF Inv, Typed
      <4> QED
        BY <4>1, <3>1, <3>3, <2>1, <1>1
    <3> QED
      BY <3>2, <3>3
  <2> QED
    BY <2>2 DEF Lists
<1>6. Fresh' /\ Gone'
  BY <1>1, <1>2 DEF Inv, Fresh, Gone
<1>7. Counts'
  <2>1. attached[n] = {} /\ retain[n] = [k \in Gens |-> 0]
    BY <1>2 DEF Inv, Gone, Fresh
  <2>2. \A m \in Nodes : n \notin attached[m]
    BY <1>2 DEF Inv, Typed
  <2>3. ASSUME NEW c \in nodes', NEW k \in Gens
        PROVE  retain'[c][k] = Cardinality(HeldFrom(k, c)')
    <3>1. HeldFrom(k, c)' = HeldFrom(k, c)
      BY <2>1, <1>1 DEF HeldFrom
    <3>2. CASE c = n
      <4>1. HeldFrom(k, c) = {}
        BY <2>2, <3>2, Small DEF HeldFrom, Inv
      <4> QED
        BY <4>1, <3>1, <3>2, <2>1, <1>1, FS_EmptySet
    <3>3. CASE c # n
      BY <3>1, <3>3, <1>1 DEF Inv, Counts
    <3> QED
      BY <3>2, <3>3
  <2> QED
    BY <2>3 DEF Counts
<1> QED
  BY <1>4, <1>5, <1>6, <1>7 DEF Inv

\* One holder more,
LEMMA AttachKeeps ==
  ASSUME Inv, NEW parent \in Nodes, NEW child \in Nodes, Attach(parent, child)
  PROVE  Inv'
<1> USE Generations
<1>1. /\ parent \in nodes /\ child \in nodes /\ child \notin attached[parent]
      /\ attached' = [attached EXCEPT ![parent] = @ \cup {child}]
      /\ retain' = [retain EXCEPT ![child][gen[parent]] = @ + 1]
      /\ fulls' = 0 /\ nodes' = nodes /\ used' = used /\ isRoot' = isRoot
      /\ handles' = handles /\ gen' = gen /\ mem' = mem /\ roots' = roots /\ wild' = wild
  BY DEF Attach
<1>2. PICK p : p = gen[parent]
  OBVIOUS
<1>3. p \in Gens /\ child \in 1 .. used
  BY <1>1, <1>2 DEF Inv, Typed
<1>4. attached' \in [Nodes -> SUBSET (1 .. used')]
  BY <1>1, <1>3 DEF Inv, Typed
<1>5. retain' \in [Nodes -> [Gens -> Int]]
  <2>1. retain \in [Nodes -> [Gens -> Int]]
    BY DEF Inv, Typed
  <2>2. retain[child] \in [Gens -> Int] /\ retain[child][p] \in Int
    BY <2>1, <1>3
  <2> QED
    BY <2>1, <2>2, <1>1, <1>2, <1>3
<1>6. Typed'
  <2>1. fulls' \in 0 .. MAX_GENERATIONS
    BY <1>1
  <2>2. /\ used \in 0 .. MaxNodes /\ nodes \subseteq 1 .. used
        /\ isRoot \subseteq 1 .. used /\ handles \subseteq isRoot
        /\ gen \in [Nodes -> Gens] /\ mem \in [Gens -> Seq(Nodes)]
        /\ roots \in RootLists /\ wild \in BOOLEAN
    BY DEF Inv, Typed
  <2> QED
    BY <2>1, <2>2, <1>1, <1>4, <1>5, Zenon DEF Typed
<1>7. Lists' /\ Gone'
  BY <1>1 DEF Inv, Lists, Gone
<1>8. Fresh'
  BY <1>1, <1>3 DEF Inv, Fresh, Typed
<1>9. Counts'
  <2>1. ASSUME NEW c \in nodes, NEW k \in Gens
        PROVE  retain'[c][k] = Cardinality(HeldFrom(k, c)')
    <3>1. retain[c][k] = Cardinality(HeldFrom(k, c)) /\ c \in Nodes
      BY Small DEF Inv, Counts
    <3>2. PICK H : H = HeldFrom(k, c)
      OBVIOUS
    <3>3. IsFiniteSet(H)
      BY <3>2, Small, FS_Subset DEF HeldFrom, Inv
    <3>4. CASE c = child /\ k = p
      <4>1. HeldFrom(k, c)' = H \cup {parent} /\ parent \notin H
        BY <1>1, <1>2, <3>2, <3>4 DEF HeldFrom, Inv, Typed
      <4>2. Cardinality(H \cup {parent}) = Cardinality(H) + 1
        BY <4>1, <3>3, FS_AddElement
      <4>3. retain'[c][k] = retain[c][k] + 1
        BY <1>1, <1>2, <1>3, <3>4 DEF Inv, Typed
      <4> QED
        BY <4>1, <4>2, <4>3, <3>1, <3>2
    <3>5. CASE ~(c = child /\ k = p)
      <4>1. HeldFrom(k, c)' = H
        BY <1>1, <1>2, <3>2, <3>5 DEF HeldFrom, Inv, Typed
      <4>2. retain'[c][k] = retain[c][k]
        BY <1>1, <1>2, <1>3, <3>1, <3>5 DEF Inv, Typed
      <4> QED
        BY <4>1, <4>2, <3>1, <3>2
    <3> QED
      BY <3>4, <3>5
  <2> QED
    BY <2>1, <1>1 DEF Counts
<1> QED
  BY <1>6, <1>7, <1>8, <1>9 DEF Inv

\* one holder less.
LEMMA DetachKeeps ==
  ASSUME Inv, NEW parent \in Nodes, NEW child \in Nodes, Detach(parent, child)
  PROVE  Inv'
<1> USE Generations
<1>1. /\ parent \in nodes /\ child \in attached[parent]
      /\ attached' = [attached EXCEPT ![parent] = @ \ {child}]
      /\ retain' = [retain EXCEPT ![child][gen[parent]] = @ - 1]
      /\ wild' = (child \notin nodes)
      /\ fulls' = 0 /\ nodes' = nodes /\ used' = used /\ isRoot' = isRoot
      /\ handles' = handles /\ gen' = gen /\ mem' = mem /\ roots' = roots
  BY DEF Detach
<1>2. PICK p : p = gen[parent]
  OBVIOUS
<1>3. p \in Gens /\ child \in 1 .. used
  BY <1>1, <1>2 DEF Inv, Typed
<1>4. attached' \in [Nodes -> SUBSET (1 .. used')]
  BY <1>1, <1>3 DEF Inv, Typed
<1>5. retain' \in [Nodes -> [Gens -> Int]]
  <2>1. retain \in [Nodes -> [Gens -> Int]]
    BY DEF Inv, Typed
  <2>2. retain[child] \in [Gens -> Int] /\ retain[child][p] \in Int
    BY <2>1, <1>3
  <2> QED
    BY <2>1, <2>2, <1>1, <1>2, <1>3
<1>6. Typed'
  <2>1. wild' \in BOOLEAN /\ fulls' \in 0 .. MAX_GENERATIONS
    BY <1>1
  <2>2. /\ used \in 0 .. MaxNodes /\ nodes \subseteq 1 .. used
        /\ isRoot \subseteq 1 .. used /\ handles \subseteq isRoot
        /\ gen \in [Nodes -> Gens] /\ mem \in [Gens -> Seq(Nodes)]
        /\ roots \in RootLists
    BY DEF Inv, Typed
  <2> QED
    BY <2>1, <2>2, <1>1, <1>4, <1>5, Zenon DEF Typed
<1>7. Lists' /\ Gone'
  BY <1>1 DEF Inv, Lists, Gone
<1>8. Fresh'
  BY <1>1, <1>3 DEF Inv, Fresh, Typed
<1>9. Counts'
  <2>1. ASSUME NEW c \in nodes, NEW k \in Gens
        PROVE  retain'[c][k] = Cardinality(HeldFrom(k, c)')
    <3>1. retain[c][k] = Cardinality(HeldFrom(k, c)) /\ c \in Nodes
      BY Small DEF Inv, Counts
    <3>2. PICK H : H = HeldFrom(k, c)
      OBVIOUS
    <3>3. IsFiniteSet(H)
      BY <3>2, Small, FS_Subset DEF HeldFrom, Inv
    <3>4. CASE c = child /\ k = p
      <4>1. HeldFrom(k, c)' = H \ {parent} /\ parent \in H
        BY <1>1, <1>2, <3>2, <3>4 DEF HeldFrom, Inv, Typed
      <4>2. Cardinality(H \ {parent}) = Cardinality(H) - 1
        BY <4>1, <3>3, FS_RemoveElement
      <4>3. retain'[c][k] = retain[c][k] - 1
        BY <1>1, <1>2, <1>3, <3>4 DEF Inv, Typed
      <4> QED
        BY <4>1, <4>2, <4>3, <3>1, <3>2
    <3>5. CASE ~(c = child /\ k = p)
      <4>1. HeldFrom(k, c)' = H
        BY <1>1, <1>2, <3>2, <3>5 DEF HeldFrom, Inv, Typed
      <4>2. retain'[c][k] = retain[c][k]
        BY <1>1, <1>2, <1>3, <3>1, <3>5 DEF Inv, Typed
      <4> QED
        BY <4>1, <4>2, <3>1, <3>2
    <3> QED
      BY <3>4, <3>5
  <2> QED
    BY <2>1, <1>1 DEF Counts
<1> QED
  BY <1>6, <1>7, <1>8, <1>9 DEF Inv

\* Counting a set without a part of it, and two sets that do not meet.
LEMMA CountWithout ==
  ASSUME NEW S, IsFiniteSet(S), NEW T, T \subseteq S
  PROVE  IsFiniteSet(T) /\ Cardinality(S \ T) = Cardinality(S) - Cardinality(T)
         /\ Cardinality(S) \in Nat /\ Cardinality(T) \in Nat
<1>1. IsFiniteSet(T) /\ S \cap T = T
  BY FS_Subset
<1>2. Cardinality(S \ T) = Cardinality(S) - Cardinality(S \cap T)
  BY <1>1, FS_Difference
<1> QED
  BY <1>1, <1>2, FS_CardinalityType

\* Holders in two disjoint sets are counted apart.
LEMMA CountBoth ==
  ASSUME NEW S, IsFiniteSet(S), NEW T, IsFiniteSet(T), S \cap T = {}
  PROVE  Cardinality(S \cup T) = Cardinality(S) + Cardinality(T)
<1>1. Cardinality(S \cup T) = Cardinality(S) + Cardinality(T) - Cardinality(S \cap T)
  BY FS_Union
<1>2. Cardinality(S \cap T) = 0
  BY FS_EmptySet
<1>3. Cardinality(S) \in Nat /\ Cardinality(T) \in Nat
  BY FS_CardinalityType
<1> QED
  BY <1>1, <1>2, <1>3

\* What survives in the list of generation k.
Left(k, dead) == Only(mem[k], nodes \ dead)

\* It has those of the generation that are not deleted, each once.
LEMMA LeftFacts ==
  ASSUME Inv, NEW dead, dead \subseteq nodes, NEW k \in Gens
  PROVE  /\ Left(k, dead) \in Seq(Nodes)
         /\ ToSet(Left(k, dead)) = {n \in nodes \ dead : gen[n] = k}
         /\ IsInjective(Left(k, dead))
<1>1. mem[k] \in Seq(Nodes) /\ ToSet(mem[k]) = {n \in nodes : gen[n] = k}
      /\ IsInjective(mem[k])
  BY DEF Inv, Typed, Lists
<1>2. /\ Left(k, dead) \in Seq(Nodes) /\ IsInjective(Left(k, dead))
      /\ ToSet(Left(k, dead)) = ToSet(mem[k]) \cap (nodes \ dead)
  BY <1>1, OnlyFacts DEF Left
<1> QED
  BY <1>1, <1>2

\* One collection, with the survivors cut in those that age and the others.
LEMMA CollectFromKeeps ==
  ASSUME Inv, NEW g \in Gens, NEW dead, dead \subseteq nodes, NEW aged \in Nat,
         g = 0 => aged = 0, CollectFrom(g, dead, aged),
         fulls' \in 0 .. MAX_GENERATIONS
  PROVE  Inv'
<1> USE Generations
<1> DEFINE left == [k \in Gens |-> Only(mem[k], nodes \ dead)]
           moved == SubSeq(left[g], 1, aged)
           rest == SubSeq(left[g], aged + 1, Len(left[g]))
           old == ToSet(moved)
<1>1. /\ aged <= Len(left[g])
      /\ nodes' = nodes \ dead
      /\ mem' = [k \in Gens |-> CASE k = g     -> rest
                                  [] k = g - 1 -> left[k] \o moved
                                  [] OTHER     -> left[k]]
      /\ gen' = [n \in Nodes |-> IF n \in old THEN g - 1 ELSE gen[n]]
      /\ roots' = AgedRoots(SweptRoots(dead), g, moved, nodes \ dead)
      /\ retain' = [c \in Nodes |-> [k \in Gens |->
                      retain[c][k]
                      - (Holders({n \in dead : gen[n] = k}, c)
                         + (IF k = g THEN Holders(old, c) ELSE 0))
                      + (IF k = g - 1 THEN Holders(old, c) ELSE 0)]]
      /\ attached' = [n \in Nodes |-> IF n \in dead THEN {} ELSE attached[n]]
      /\ wild' = (roots'.wild \/ TouchesDeleted(g, dead))
      /\ used' = used /\ isRoot' = isRoot /\ handles' = handles
  BY DEF CollectFrom
<1>2. \A k \in Gens : left[k] = Left(k, dead)
  BY DEF Left
<1> HIDE DEF left
<1>3. \A k \in Gens : /\ left[k] \in Seq(Nodes) /\ IsInjective(left[k])
                      /\ ToSet(left[k]) = {n \in nodes \ dead : gen[n] = k}
  BY <1>2, LeftFacts
<1>4. aged \in 0 .. Len(left[g])
  BY <1>1
<1>5. /\ moved \in Seq(Nodes) /\ rest \in Seq(Nodes)
      /\ old \cup ToSet(rest) = {n \in nodes \ dead : gen[n] = g}
      /\ IsInjective(moved) /\ IsInjective(rest) /\ old \cap ToSet(rest) = {}
  BY <1>3, <1>4, SplitFacts
<1>6. g = 0 => moved = <<>> /\ old = {}
  <2>1. ASSUME g = 0
        PROVE  moved = <<>>
    BY <2>1, <1>3
  <2>2. ToSet(<<>>) = {}
    BY DEF ToSet
  <2> QED
    BY <2>1, <2>2
<1>7. \A n \in old : n \in Nodes /\ gen[n] = g /\ g # 0 /\ n \in nodes \ dead
  BY <1>5, <1>6, Small DEF Inv
<1>21. old = ToSet(moved)
  OBVIOUS
<1> HIDE DEF moved, rest, old
<1>22. mem' = [k \in Gens |-> CASE k = g     -> rest
                             [] k = g - 1 -> left[k] \o moved
                             [] OTHER     -> left[k]]
  BY <1>1
<1>8. mem'[g] = rest /\ \A k \in Gens : k # g /\ k # g - 1 => mem'[k] = left[k]
  BY <1>22
<1>9. g - 1 \in Gens => mem'[g - 1] = left[g - 1] \o moved
  BY <1>22
<1>10. roots' \in RootLists
  <2>1. PICK list : list = mem[2] \o mem[1] \o mem[0]
    OBVIOUS
  <2>2. mem[2] \in Seq(Nodes) /\ mem[1] \in Seq(Nodes) /\ mem[0] \in Seq(Nodes)
    BY DEF Inv, Typed
  <2>3. list \in Seq(Nodes)
    BY <2>1, <2>2
  <2>4. PICK gone : gone = Only(list, dead \cap isRoot)
    OBVIOUS
  <2>5. gone \in Seq(Nodes)
    BY <2>3, <2>4, OnlyFacts
  <2>6. DeadRoots(gone, dead)
    BY <2>1, <2>4 DEF DeadRoots
  <2>7. PICK f : SweptBy(f, gone, dead)
    BY <2>5, <2>6, SweptRecursion DEF Inv, Typed
  <2>8. SweptRoots(dead) \in RootLists
    BY <2>5, <2>7 DEF SweptBy
  <2>9. PICK moving : moving = Only(moved, isRoot)
    OBVIOUS
  <2>10. moving \in Seq(Nodes)
    BY <2>9, <1>5, OnlyFacts
  <2>11. g = 0 => moving = <<>>
    <3>1. Only(<<>>, isRoot) \in Seq({})
      <4>1. <<>> \in Seq({})
        OBVIOUS
      <4> QED
        BY <4>1, OnlyFacts
    <3>2. Only(<<>>, isRoot) = <<>>
      BY <3>1
    <3> QED
      BY <3>2, <2>9, <1>6
  <2>12. PICK h : AgedBy(h, moving, SweptRoots(dead), g, moved, nodes \ dead)
    BY <2>8, <2>9, <2>10, <2>11, AgedRecursion
  <2> QED
    BY <2>10, <2>12, <1>1 DEF AgedBy
<1>11. gen' \in [Nodes -> Gens]
  <2>1. gen \in [Nodes -> Gens]
    BY DEF Inv, Typed
  <2> QED
    BY <2>1, <1>1, <1>7
<1>12. mem' \in [Gens -> Seq(Nodes)]
  <2>1. DOMAIN mem' = Gens /\ mem' = [k \in Gens |-> mem'[k]]
    BY <1>1
  <2>2. ASSUME NEW k \in Gens
        PROVE  mem'[k] \in Seq(Nodes)
    <3>1. CASE k = g
      BY <3>1, <1>5, <1>8
    <3>2. CASE k = g - 1
      <4>1. left[k] \in Seq(Nodes)
        BY <1>3
      <4> QED
        <5>1. mem'[k] = left[k] \o moved
          BY <3>2, <1>9
        <5>2. left[k] \o moved \in Seq(Nodes)
          BY <4>1, <1>5, JoinFacts
        <5> QED
          BY <5>1, <5>2
    <3>3. CASE k # g /\ k # g - 1
      BY <3>3, <1>3, <1>8
    <3> QED
      BY <3>1, <3>2, <3>3
  <2> QED
    BY <2>1, <2>2
<1>13. Lists'
  <2>1. ASSUME NEW k \in Gens
        PROVE  /\ ToSet(mem'[k]) = {n \in nodes' : gen'[n] = k}
               /\ IsInjective(mem'[k])
    <3>1. \A n \in nodes' : n \in Nodes /\ gen'[n] = IF n \in old THEN g - 1 ELSE gen[n]
      BY <1>1, Small DEF Inv
    <3>2. CASE k = g
      <4>1. ToSet(rest) = {n \in nodes' : gen'[n] = k}
        BY <3>1, <3>2, <1>1, <1>5, <1>7
      <4> QED
        BY <4>1, <3>2, <1>5, <1>8
    <3>3. CASE k = g - 1
      <4>1. /\ left[k] \in Seq(Nodes) /\ IsInjective(left[k])
            /\ ToSet(left[k]) = {n \in nodes \ dead : gen[n] = k}
        BY <1>3
      <4>2. ToSet(left[k]) \cap old = {}
        BY <4>1, <3>3, <1>7
      <4>3. /\ ToSet(mem'[k]) = ToSet(left[k]) \cup old
            /\ IsInjective(mem'[k])
        <5>1. mem'[k] = left[k] \o moved
          BY <3>3, <1>9
        <5> QED
          BY <5>1, <4>1, <4>2, <1>5, <1>21, JoinFacts
      <4>4. ToSet(left[k]) \cup old = {n \in nodes' : gen'[n] = k}
        BY <4>1, <3>1, <3>3, <1>1, <1>7
      <4> QED
        BY <4>3, <4>4
    <3>4. CASE k # g /\ k # g - 1
      <4>1. {n \in nodes \ dead : gen[n] = k} = {n \in nodes' : gen'[n] = k}
        BY <3>1, <3>4, <1>1, <1>7
      <4> QED
        BY <4>1, <3>4, <1>3, <1>8
    <3> QED
      BY <3>2, <3>3, <3>4
  <2> QED
    BY <2>1 DEF Lists
<1>14. ASSUME NEW c \in Nodes, NEW k \in Gens
       PROVE  /\ Holders({n \in dead : gen[n] = k}, c)
                   = Cardinality({n \in dead : gen[n] = k /\ c \in attached[n]})
              /\ Holders(old, c) = Cardinality({n \in old : c \in attached[n]})
              /\ {n \in dead : gen[n] = k /\ c \in attached[n]} \subseteq HeldFrom(k, c)
              /\ {n \in old : c \in attached[n]} \subseteq HeldFrom(g, c)
              /\ IsFiniteSet(HeldFrom(k, c)) /\ IsFiniteSet(HeldFrom(g, c))
  <2>1. {n \in {m \in dead : gen[m] = k} : c \in attached[n]}
          = {n \in dead : gen[n] = k /\ c \in attached[n]}
    OBVIOUS
  <2>2. {n \in old : c \in attached[n]} \subseteq HeldFrom(g, c)
    BY <1>7 DEF HeldFrom
  <2>3. {n \in dead : gen[n] = k /\ c \in attached[n]} \subseteq HeldFrom(k, c)
    BY DEF HeldFrom
  <2>4. IsFiniteSet(HeldFrom(k, c)) /\ IsFiniteSet(HeldFrom(g, c))
    <3>1. HeldFrom(k, c) \subseteq nodes /\ HeldFrom(g, c) \subseteq nodes /\ IsFiniteSet(nodes)
      BY Small DEF HeldFrom, Inv
    <3> QED
      BY <3>1, FS_Subset
  <2> QED
    BY <2>1, <2>2, <2>3, <2>4 DEF Holders
<1>15. retain' \in [Nodes -> [Gens -> Int]]
  <2>1. retain \in [Nodes -> [Gens -> Int]]
    BY DEF Inv, Typed
  <2>2. ASSUME NEW c \in Nodes, NEW k \in Gens
        PROVE  /\ Holders({n \in dead : gen[n] = k}, c) \in Nat
               /\ Holders(old, c) \in Nat
    <3>1. IsFiniteSet({n \in dead : gen[n] = k /\ c \in attached[n]})
          /\ IsFiniteSet({n \in old : c \in attached[n]})
      BY <1>14, FS_Subset
    <3>2. /\ Holders({n \in dead : gen[n] = k}, c)
               = Cardinality({n \in dead : gen[n] = k /\ c \in attached[n]})
          /\ Holders(old, c) = Cardinality({n \in old : c \in attached[n]})
      BY <1>14
    <3> QED
      BY <3>1, <3>2, FS_CardinalityType, Zenon
  <2> DEFINE less(c, k) == Holders({n \in dead : gen[n] = k}, c)
             more(c) == Holders(old, c)
  <2>3. \A c \in Nodes, k \in Gens : less(c, k) \in Nat /\ more(c) \in Nat
    BY <2>2
  <2>4. retain' = [c \in Nodes |-> [k \in Gens |->
                      retain[c][k] - (less(c, k) + (IF k = g THEN more(c) ELSE 0))
                      + (IF k = g - 1 THEN more(c) ELSE 0)]]
    BY <1>1
  <2> HIDE DEF less, more
  <2> QED
    BY <2>1, <2>3, <2>4
<1>16. attached' \in [Nodes -> SUBSET (1 .. used')]
  BY <1>1 DEF Inv, Typed
<1>17. Typed'
  <2>1. wild' \in BOOLEAN
    BY <1>1
  <2>2. /\ used' \in 0 .. MaxNodes /\ nodes' \subseteq 1 .. used'
        /\ isRoot' \subseteq 1 .. used' /\ handles' \subseteq isRoot'
    BY <1>1 DEF Inv, Typed
  <2> QED
    BY <2>1, <2>2, <1>10, <1>11, <1>12, <1>15, <1>16, Zenon DEF Typed
<1>18. Fresh'
  <2>1. ASSUME NEW n \in Nodes \ 1 .. used
        PROVE  gen'[n] = Youngest /\ retain'[n] = [k \in Gens |-> 0]
    <3>1. n \notin nodes /\ gen[n] = Youngest /\ retain[n] = [k \in Gens |-> 0]
      BY DEF Inv, Typed, Fresh
    <3>2. gen'[n] = Youngest
      BY <3>1, <1>1, <1>7
    <3>3. \A m \in nodes : n \notin attached[m]
      BY Small DEF Inv, Typed
    <3>4. ASSUME NEW k \in Gens
          PROVE  Holders({m \in dead : gen[m] = k}, n) = 0 /\ Holders(old, n) = 0
      <4>1. {m \in dead : gen[m] = k /\ n \in attached[m]} = {}
        BY <3>3
      <4>2. {m \in old : n \in attached[m]} = {}
        BY <3>3, <1>7
      <4> QED
        <5>1. Holders({m \in dead : gen[m] = k}, n)
                 = Cardinality({m \in dead : gen[m] = k /\ n \in attached[m]})
              /\ Holders(old, n) = Cardinality({m \in old : n \in attached[m]})
          BY <1>14
        <5> QED
          BY <5>1, <4>1, <4>2, FS_EmptySet, Zenon
    <3>5. \A k \in Gens : retain'[n][k] = 0
      BY <3>1, <3>4, <1>1
    <3>6. retain'[n] = [k \in Gens |-> retain'[n][k]]
      BY <1>15
    <3> QED
      BY <3>2, <3>5, <3>6
  <2> QED
    BY <2>1, <1>1 DEF Fresh
<1>19. Gone'
  BY <1>1 DEF Inv, Gone
<1>20. Counts'
  <2>1. ASSUME NEW c \in nodes', NEW k \in Gens
        PROVE  retain'[c][k] = Cardinality(HeldFrom(k, c)')
    <3> DEFINE H == HeldFrom(k, c)
               D == {n \in dead : gen[n] = k /\ c \in attached[n]}
               O == {n \in old : c \in attached[n]}
    <3>1. c \in nodes /\ c \in Nodes
      BY <1>1, Small DEF Inv
    <3>2. retain[c][k] = Cardinality(H)
      BY <3>1 DEF Inv, Counts
    <3>3. /\ Holders({n \in dead : gen[n] = k}, c) = Cardinality(D)
          /\ Holders(old, c) = Cardinality(O)
          /\ D \subseteq H /\ O \subseteq HeldFrom(g, c)
          /\ IsFiniteSet(H) /\ IsFiniteSet(HeldFrom(g, c))
      BY <3>1, <1>14
    <3>4. retain'[c][k] = Cardinality(H)
             - (Cardinality(D) + (IF k = g THEN Cardinality(O) ELSE 0))
             + (IF k = g - 1 THEN Cardinality(O) ELSE 0)
      BY <3>1, <3>2, <3>3, <1>1
    <3>5. HeldFrom(k, c)' =
            {n \in nodes \ dead : (IF n \in old THEN g - 1 ELSE gen[n]) = k
                                    /\ c \in attached[n]}
      <4>1. \A n \in nodes \ dead : n \in Nodes
        BY Small DEF Inv
      <4>2. \A n \in nodes \ dead : gen'[n] = (IF n \in old THEN g - 1 ELSE gen[n])
                                    /\ attached'[n] = attached[n]
        BY <4>1, <1>1
      <4> QED
        BY <4>2, <1>1 DEF HeldFrom
    <3>6. O \cap D = {} /\ IsFiniteSet(O)
      BY <3>3, <1>7, CountWithout
    <3>7. CASE k = g
      <4>1. HeldFrom(k, c)' = (H \ D) \ O
        BY <3>5, <3>7, <1>7 DEF HeldFrom
      <4>2. O \subseteq H \ D
        BY <3>3, <3>6, <3>7
      <4>3. IsFiniteSet(H \ D)
        BY <3>3, FS_Subset
      <4>4. Cardinality(H \ D) = Cardinality(H) - Cardinality(D)
            /\ Cardinality(H) \in Nat /\ Cardinality(D) \in Nat
        BY <3>3, CountWithout
      <4>5. Cardinality((H \ D) \ O) = Cardinality(H \ D) - Cardinality(O)
            /\ Cardinality(O) \in Nat
        BY <4>2, <4>3, CountWithout
      <4>6. retain'[c][k] = Cardinality(H) - (Cardinality(D) + Cardinality(O)) + 0
        BY <3>4, <3>7
      <4> QED
        BY <4>1, <4>4, <4>5, <4>6
    <3>8. CASE k = g - 1
      <4>1. HeldFrom(k, c)' = (H \ D) \cup O
        BY <3>5, <3>8, <1>7 DEF HeldFrom
      <4>2. (H \ D) \cap O = {}
        BY <3>8, <1>7 DEF HeldFrom
      <4>3. IsFiniteSet(H \ D)
        BY <3>3, FS_Subset
      <4>4. Cardinality(H \ D) = Cardinality(H) - Cardinality(D)
            /\ Cardinality(H) \in Nat /\ Cardinality(D) \in Nat
        BY <3>3, CountWithout
      <4>5. Cardinality((H \ D) \cup O) = Cardinality(H \ D) + Cardinality(O)
        BY <4>2, <4>3, <3>6, CountBoth
      <4>6. Cardinality(O) \in Nat
        BY <3>6, FS_CardinalityType
      <4>7. retain'[c][k] = Cardinality(H) - (Cardinality(D) + 0) + Cardinality(O)
        BY <3>4, <3>8
      <4> QED
        BY <4>1, <4>4, <4>5, <4>6, <4>7
    <3>9. CASE k # g /\ k # g - 1
      <4>1. HeldFrom(k, c)' = H \ D
        BY <3>5, <3>9, <1>7 DEF HeldFrom
      <4>2. Cardinality(H \ D) = Cardinality(H) - Cardinality(D)
            /\ Cardinality(H) \in Nat /\ Cardinality(D) \in Nat
        BY <3>3, CountWithout
      <4>3. retain'[c][k] = Cardinality(H) - (Cardinality(D) + 0) + 0
        BY <3>4, <3>9
      <4> QED
        BY <4>1, <4>2, <4>3
    <3> QED
      BY <3>7, <3>8, <3>9
  <2> QED
    BY <2>1 DEF Counts
<1> QED
  BY <1>13, <1>17, <1>18, <1>19, <1>20 DEF Inv

\* Every step keeps the lists and the counters right.
LEMMA InvNext == Inv /\ [Next]_vars => Inv'
<1> SUFFICES ASSUME Inv, [Next]_vars
             PROVE  Inv'
  OBVIOUS
<1>1. ASSUME NEW n \in Nodes, AllocMem(n)
      PROVE  Inv'
  <2>1. /\ Alloc(n) /\ UNCHANGED <<gen, attached, retain>>
        /\ isRoot' = isRoot /\ handles' = handles /\ roots' = roots /\ wild' = wild
    BY <1>1 DEF AllocMem
  <2>2. /\ isRoot' \in SUBSET (isRoot \cup {n}) /\ handles' \subseteq isRoot'
        /\ roots' \in RootLists /\ wild' \in BOOLEAN
    BY <2>1 DEF Inv, Typed
  <2> QED
    BY <2>1, <2>2, AllocKeeps
<1>2. ASSUME NEW n \in Nodes, AllocRootMem(n)
      PROVE  Inv'
  <2>1. /\ Alloc(n) /\ UNCHANGED <<gen, attached, retain>>
        /\ isRoot' = isRoot \cup {n} /\ handles' = handles \cup {n}
        /\ roots' = LinkRoot(roots, Youngest, n, nodes) /\ wild' = roots'.wild
    BY <1>2 DEF AllocRootMem
  <2>2. roots' \in RootLists
    BY <2>1, LinkRootTyped, Generations DEF Inv, Typed
  <2>3. wild' \in BOOLEAN
    BY <2>1, <2>2 DEF RootLists
  <2>4. isRoot' \in SUBSET (isRoot \cup {n}) /\ handles' \subseteq isRoot'
    BY <2>1 DEF Inv, Typed
  <2> QED
    BY <2>1, <2>2, <2>3, <2>4, AllocKeeps
<1>3. ASSUME NEW n \in Nodes, DetachRoot(n)
      PROVE  Inv'
  <2>1. /\ handles' = handles \ {n}
        /\ roots' = UnlinkRoot(roots, gen[n], n, nodes) /\ wild' = roots'.wild /\ fulls' = 0
        /\ nodes' = nodes /\ used' = used /\ isRoot' = isRoot /\ gen' = gen /\ mem' = mem
        /\ attached' = attached /\ retain' = retain
    BY <1>3 DEF DetachRoot
  <2>2. roots' \in RootLists
    BY <2>1, UnlinkRootTyped DEF Inv, Typed
  <2>3. wild' \in BOOLEAN /\ fulls' \in 0 .. MAX_GENERATIONS
    BY <2>1, <2>2, Generations DEF RootLists
  <2>4. /\ used' \in 0 .. MaxNodes /\ nodes' \subseteq 1 .. used'
        /\ isRoot' \subseteq 1 .. used' /\ handles' \subseteq isRoot'
        /\ gen' \in [Nodes -> Gens] /\ mem' \in [Gens -> Seq(Nodes)]
    BY <2>1 DEF Inv, Typed
  <2>5. attached' \in [Nodes -> SUBSET (1 .. used')] /\ retain' \in [Nodes -> [Gens -> Int]]
    BY <2>1 DEF Inv, Typed
  <2>6. Typed'
    BY <2>2, <2>3, <2>4, <2>5, Zenon DEF Typed
  <2>7. Lists' /\ Fresh' /\ Gone'
    BY <2>1 DEF Inv, Lists, Fresh, Gone
  <2>8. Counts'
    BY <2>1 DEF Inv, Counts, HeldFrom
  <2> QED
    BY <2>6, <2>7, <2>8 DEF Inv
<1>4. ASSUME NEW parent \in Nodes, NEW child \in Nodes,
             Attach(parent, child) \/ Detach(parent, child)
      PROVE  Inv'
  BY <1>4, AttachKeeps, DetachKeeps
<1>5. ASSUME NEW g \in Gens, Collect(g)
      PROVE  Inv'
  <2>1. PICK d : d = Dead(g)
    OBVIOUS
  <2>2. d \subseteq nodes
    BY <2>1, DeadWithin
  <2>3. PICK aged \in 0 .. Len(mem[g]) :
          (g = 0 => aged = 0) /\ CollectFrom(g, d, aged)
    BY <1>5, <2>1 DEF Collect, CollectFrom
  <2>4. aged \in Nat /\ fulls' \in 0 .. MAX_GENERATIONS
    <3>1. fulls' = 0
      BY <1>5 DEF Collect
    <3>2. mem[g] \in Seq(Nodes)
      BY DEF Inv, Typed
    <3> QED
      BY <3>1, <3>2, Generations
  <2> QED
    BY <2>2, <2>3, <2>4, CollectFromKeeps
<1>6. ASSUME FullCollect
      PROVE  Inv'
  <2>1. PICK d : d = Dead(0)
    OBVIOUS
  <2>2. 0 \in Gens /\ d \subseteq nodes
    BY <2>1, DeadWithin, Generations
  <2>3. CollectFrom(0, d, 0)
    BY <1>6, <2>1 DEF FullCollect, CollectFrom
  <2>4. fulls' \in 0 .. MAX_GENERATIONS
    <3>1. fulls \in 0 .. MAX_GENERATIONS
      BY DEF Inv, Typed
    <3> QED
      BY <1>6, <3>1, Generations DEF FullCollect
  <2> QED
    BY <2>2, <2>3, <2>4, CollectFromKeeps
<1>7. CASE UNCHANGED vars
  BY <1>7 DEF vars, Inv, Typed, Lists, Fresh, Gone, Counts, HeldFrom
<1> QED
  BY <1>1, <1>2, <1>3, <1>4, <1>5, <1>6, <1>7 DEF Next

\* With one handle at a time the list of a generation is the handle in it,
\* alone, and nothing holds a root.
OneHandle == \A h1, h2 \in handles : h1 = h2

HandlesIn(k) == {h \in handles : gen[h] = k}

Roots ==
  /\ OneHandle
  /\ handles \subseteq nodes
  /\ \A k \in Gens : /\ roots.tail[k] = roots.head[k]
                     /\ {roots.head[k]} \ {Null} = HandlesIn(k)
  /\ \A n \in Nodes : roots.prev[n] = Null /\ roots.next[n] = Null
  /\ \A n \in Nodes : attached[n] \cap isRoot = {}

\* The forced nodes are those that an older generation holds.
LEMMA ForcedIs ==
  ASSUME Inv, NEW k \in Gens
  PROVE  Forced(k) = {n \in nodes : gen[n] = k
                        /\ \E m \in nodes : gen[m] < k /\ n \in attached[m]}
<1>1. ToSet(mem[k]) = {n \in nodes : gen[n] = k}
  BY DEF Inv, Lists
<1>2. ASSUME NEW n \in nodes, NEW i \in Gens
      PROVE  retain[n][i] > 0 <=> \E m \in nodes : gen[m] = i /\ n \in attached[m]
  <2>1. retain[n][i] = Cardinality(HeldFrom(i, n))
    BY DEF Inv, Counts
  <2>2. IsFiniteSet(HeldFrom(i, n))
    <3>1. HeldFrom(i, n) \subseteq nodes /\ IsFiniteSet(nodes)
      BY Small DEF HeldFrom, Inv
    <3> QED
      BY <3>1, FS_Subset
  <2>3. Cardinality(HeldFrom(i, n)) \in Nat
        /\ (Cardinality(HeldFrom(i, n)) = 0 <=> HeldFrom(i, n) = {})
    BY <2>2, FS_CardinalityType, FS_EmptySet
  <2> QED
    BY <2>1, <2>3 DEF HeldFrom
<1>3. \A m \in nodes : gen[m] \in Gens
  BY Small DEF Inv, Typed
<1> QED
  BY <1>1, <1>2, <1>3 DEF Forced

\* The loop over a root list visits the handle in it.
LEMMA ListedIs ==
  ASSUME Inv, Roots, NEW k \in Gens
  PROVE  Listed(roots, k) = HandlesIn(k)
<1> DEFINE S == {roots.head[k]} \ {Null}
           follow == [n \in Nodes |-> {roots.next[n]} \ {Null}]
<1>1. S = HandlesIn(k) /\ HandlesIn(k) \subseteq Nodes
  BY Small DEF Inv, Roots, HandlesIn
<1>2. \A n \in Nodes : follow[n] = {}
  BY DEF Roots
<1>3. follow \in [Nodes -> SUBSET Nodes]
  BY <1>2
<1>4. Listed(roots, k) = ReachableFrom(S, follow)
  BY DEF Listed
<1> HIDE DEF S, follow
<1>5. S \subseteq ReachableFrom(S, follow)
  BY <1>1, <1>3, ReachFacts
<1>6. ReachableFrom(S, follow) \subseteq S
  BY <1>1, <1>2, ReachLeast
<1> QED
  BY <1>1, <1>4, <1>5, <1>6

\* What MarkAlived() of generation k reaches, given the nodes alive before.
Reached(k, alive) ==
  ReachableFrom(
    Forced(k) \cup UNION {attached[r] : r \in HandlesIn(k) \ alive},
    [n \in Nodes |-> {c \in attached[n] \ (alive \cup HandlesIn(k)) : gen[c] >= k}])

\* Marking adds the listed roots and what is reached.
LEMMA MarkedIs ==
  ASSUME Inv, Roots, NEW k \in Gens, NEW alive, alive \subseteq Nodes
  PROVE  /\ Marked(k, alive) = alive \cup HandlesIn(k) \cup Reached(k, alive)
         /\ Marked(k, alive) \subseteq Nodes
<1>1. Listed(roots, k) = HandlesIn(k)
  BY ListedIs
<1>2. Marked(k, alive) = alive \cup HandlesIn(k) \cup Reached(k, alive)
  BY <1>1 DEF Marked, Reached
<1>3. HandlesIn(k) \subseteq Nodes /\ Reached(k, alive) \subseteq Nodes
  BY Small DEF Inv, HandlesIn, Reached, ReachableFrom
<1> QED
  BY <1>2, <1>3

\* It is the least set that has what is forced, what the roots hold and, with a
\* node, what that one holds in its own or a younger generation.
LEMMA ReachedFacts ==
  ASSUME Inv, Roots, NEW k \in Gens, NEW alive, alive \subseteq Nodes
  PROVE  /\ Reached(k, alive) \subseteq Nodes
         /\ Forced(k) \subseteq Reached(k, alive)
         /\ \A r \in HandlesIn(k) \ alive : attached[r] \subseteq Reached(k, alive)
         /\ \A n \in Reached(k, alive) : \A c \in attached[n] :
              gen[c] >= k => c \in Reached(k, alive) \cup alive \cup HandlesIn(k)
         /\ \A C \in SUBSET Nodes :
              /\ Forced(k) \subseteq C
              /\ \A r \in HandlesIn(k) \ alive : attached[r] \subseteq C
              /\ \A n \in C : \A c \in attached[n] \ (alive \cup HandlesIn(k)) :
                   gen[c] >= k => c \in C
              => Reached(k, alive) \subseteq C
<1> DEFINE S == Forced(k) \cup UNION {attached[r] : r \in HandlesIn(k) \ alive}
           follow == [n \in Nodes |-> {c \in attached[n] \ (alive \cup HandlesIn(k)) :
                                         gen[c] >= k}]
<1>1. Reached(k, alive) = ReachableFrom(S, follow)
  BY DEF Reached
<1>2. \A n \in Nodes : attached[n] \subseteq Nodes
  BY Small DEF Inv
<1>3. Forced(k) \subseteq Nodes /\ HandlesIn(k) \subseteq Nodes
  BY ForcedIs, Small DEF Inv, HandlesIn
<1>4. S \subseteq Nodes
  BY <1>2, <1>3
<1>5. follow \in [Nodes -> SUBSET Nodes]
  BY <1>2
<1>6. \A n \in Nodes : follow[n] = {c \in attached[n] \ (alive \cup HandlesIn(k)) : gen[c] >= k}
  OBVIOUS
<1>7. /\ Forced(k) \subseteq S
      /\ \A r \in HandlesIn(k) \ alive : attached[r] \subseteq S
      /\ \A C : Forced(k) \subseteq C /\ (\A r \in HandlesIn(k) \ alive : attached[r] \subseteq C)
                  => S \subseteq C
  OBVIOUS
<1> HIDE DEF S, follow
<1>8. /\ ReachableFrom(S, follow) \subseteq Nodes
      /\ S \subseteq ReachableFrom(S, follow)
      /\ \A n \in ReachableFrom(S, follow) : follow[n] \subseteq ReachableFrom(S, follow)
  BY <1>4, <1>5, ReachFacts
<1>9. ASSUME NEW C \in SUBSET Nodes, Forced(k) \subseteq C,
             \A r \in HandlesIn(k) \ alive : attached[r] \subseteq C,
             \A n \in C : \A c \in attached[n] \ (alive \cup HandlesIn(k)) :
               gen[c] >= k => c \in C
      PROVE  ReachableFrom(S, follow) \subseteq C
  <2>1. S \subseteq C
    BY <1>7, <1>9
  <2>2. \A n \in C : follow[n] \subseteq C
    BY <1>6, <1>9
  <2> QED
    BY <2>1, <2>2, ReachLeast
<1>10. \A n \in ReachableFrom(S, follow) : \A c \in attached[n] :
         gen[c] >= k => c \in ReachableFrom(S, follow) \cup alive \cup HandlesIn(k)
  BY <1>6, <1>8
<1> QED
  BY <1>1, <1>7, <1>8, <1>9, <1>10

\* A collection from g on, generation by generation: A[k] is alive when k has
\* been marked, R[k] is what marking it reaches.
Marks(g, A, R) ==
  /\ A \in [g - 1 .. 2 -> SUBSET Nodes] /\ R \in [g .. 2 -> SUBSET Nodes]
  /\ A[g - 1] = UNION {Forced(i) : i \in g .. 2}
  /\ \A k \in g .. 2 :
       /\ A[k] = A[k - 1] \cup HandlesIn(k) \cup R[k]
       /\ Forced(k) \subseteq R[k]
       /\ \A r \in HandlesIn(k) \ A[k - 1] : attached[r] \subseteq R[k]
       /\ \A n \in R[k] : \A c \in attached[n] :
            gen[c] >= k => c \in R[k] \cup A[k - 1] \cup HandlesIn(k)
       /\ \A C \in SUBSET Nodes :
            /\ Forced(k) \subseteq C
            /\ \A r \in HandlesIn(k) \ A[k - 1] : attached[r] \subseteq C
            /\ \A n \in C : \A c \in attached[n] \ (A[k - 1] \cup HandlesIn(k)) :
                 gen[c] >= k => c \in C
            => R[k] \subseteq C
  /\ Dead(g) = {n \in nodes : gen[n] >= g /\ n \notin A[gen[n]]}

\* Every collection marks so, and what it deletes is what it did not mark.
LEMMA MarksExist ==
  ASSUME Inv, Roots, NEW g \in Gens
  PROVE  \E A, R : Marks(g, A, R)
<1> USE Generations
<1> DEFINE F == UNION {Forced(i) : i \in g .. Youngest}
           P(f) == f = [k \in g - 1 .. Youngest |-> IF k < g THEN F ELSE Marked(k, f[k - 1])]
           a1 == Marked(g, F)
           a2 == Marked(g + 1, a1)
           w == [k \in g - 1 .. Youngest |-> IF k < g THEN F
                   ELSE IF k = g THEN a1 ELSE IF k = g + 1 THEN a2 ELSE Marked(g + 2, a2)]
<1>1. P(w)
  <2>1. ASSUME NEW k \in g - 1 .. Youngest
        PROVE  w[k] = IF k < g THEN F ELSE Marked(k, w[k - 1])
    <3>1. k \in {g - 1, g, g + 1, g + 2}
      OBVIOUS
    <3>2. CASE k = g - 1
      BY <3>2
    <3>3. CASE k = g
      <4>1. w[k - 1] = F
        BY <3>3
      <4> QED
        BY <4>1, <3>3
    <3>4. CASE k = g + 1
      <4>1. w[k - 1] = a1
        BY <3>4
      <4> QED
        BY <4>1, <3>4
    <3>5. CASE k = g + 2
      <4>1. w[k - 1] = a2
        BY <3>5
      <4> QED
        BY <4>1, <3>5
    <3> QED
      BY <3>1, <3>2, <3>3, <3>4, <3>5
  <2> HIDE DEF F, a1, a2
  <2>2. w = [k \in g - 1 .. Youngest |-> w[k]]
    OBVIOUS
  <2> QED
    BY <2>1, <2>2, Zenon
<1> DEFINE A == CHOOSE f : P(f)
<1>2. P(A)
  BY <1>1, Zenon
<1>3. Alive(g) = A
  BY DEF Alive
<1> HIDE DEF A, a1, a2, w
<1>4. A[g - 1] = F /\ DOMAIN A = g - 1 .. 2
  BY <1>2
<1>5. \A k \in g .. 2 : A[k] = Marked(k, A[k - 1])
  <2> HIDE DEF F
  <2>1. A = [k \in g - 1 .. Youngest |-> IF k < g THEN F ELSE Marked(k, A[k - 1])]
    BY <1>2
  <2>2. \A k \in g .. 2 : k \in g - 1 .. Youngest /\ ~(k < g)
    OBVIOUS
  <2> QED
    BY <2>1, <2>2, Zenon
<1>6. F \subseteq Nodes
  <2>1. \A i \in g .. Youngest : Forced(i) \subseteq Nodes
    <3>1. ASSUME NEW i \in g .. Youngest
          PROVE  Forced(i) \subseteq Nodes
      <4>1. i \in Gens
        OBVIOUS
      <4> QED
        BY <4>1, ForcedIs, Small DEF Inv
    <3> QED
      BY <3>1
  <2> QED
    BY <2>1
<1> HIDE DEF F, P
<1>7. \A k \in g .. 2 : A[k - 1] \subseteq Nodes => A[k] \subseteq Nodes
  <2>1. ASSUME NEW k \in g .. 2, A[k - 1] \subseteq Nodes
        PROVE  A[k] \subseteq Nodes
    <3>1. k \in Gens
      OBVIOUS
    <3> QED
      BY <3>1, <2>1, <1>5, MarkedIs
  <2> QED
    BY <2>1
<1>8. \A k \in g - 1 .. 2 : A[k] \subseteq Nodes
  <2>1. A[g - 1] \subseteq Nodes
    BY <1>4, <1>6
  <2>2. g <= 2 => A[g] \subseteq Nodes
    BY <2>1, <1>7
  <2>3. g + 1 <= 2 => A[g + 1] \subseteq Nodes
    <3>1. ASSUME g + 1 <= 2
          PROVE  A[g + 1] \subseteq Nodes
      <4>1. g + 1 \in g .. 2 /\ (g + 1) - 1 = g
        BY <3>1
      <4> QED
        BY <4>1, <2>2, <1>7, <3>1
    <3> QED
      BY <3>1
  <2>4. g + 2 <= 2 => A[g + 2] \subseteq Nodes
    <3>1. ASSUME g + 2 <= 2
          PROVE  A[g + 2] \subseteq Nodes
      <4>1. g + 2 \in g .. 2 /\ (g + 2) - 1 = g + 1
        BY <3>1
      <4> QED
        BY <4>1, <2>3, <1>7, <3>1
    <3> QED
      BY <3>1
  <2>5. \A k \in g - 1 .. 2 : k = g - 1 \/ k = g \/ k = g + 1 \/ k = g + 2
    OBVIOUS
  <2> QED
    BY <2>1, <2>2, <2>3, <2>4, <2>5
<1> DEFINE R == [k \in g .. 2 |-> Reached(k, A[k - 1])]
<1>9. ASSUME NEW k \in g .. 2
      PROVE  k \in Gens /\ A[k - 1] \subseteq Nodes /\ R[k] = Reached(k, A[k - 1])
  <2>1. k \in Gens /\ k - 1 \in g - 1 .. 2
    OBVIOUS
  <2> QED
    BY <2>1, <1>8
<1>10. DOMAIN R = g .. 2 /\ R = [k \in g .. 2 |-> R[k]]
  OBVIOUS
<1> HIDE DEF R
<1>11. R \in [g .. 2 -> SUBSET Nodes]
  BY <1>9, <1>10, ReachedFacts
<1>12. A \in [g - 1 .. 2 -> SUBSET Nodes]
  <2>1. A = [k \in g - 1 .. 2 |-> A[k]]
    BY <1>2 DEF P
  <2> QED
    BY <2>1, <1>8
<1>13. Dead(g) = {n \in nodes : gen[n] >= g /\ n \notin A[gen[n]]}
  <2>1. Dead(g) = UNION {ToSet(mem[k]) \ A[k] : k \in g .. Youngest}
    BY <1>3 DEF Dead
  <2>2. \A k \in g .. Youngest : ToSet(mem[k]) = {n \in nodes : gen[n] = k}
    BY DEF Inv, Lists
  <2>3. \A n \in nodes : gen[n] \in Gens
    BY Small DEF Inv, Typed
  <2>4. \A n \in nodes : gen[n] >= g => gen[n] \in g .. Youngest
    BY <2>3
  <2>5. \A k \in g .. Youngest : k >= g
    OBVIOUS
  <2> QED
    BY <2>1, <2>2, <2>4, <2>5
<1>14. ASSUME NEW k \in g .. 2
       PROVE  A[k] = A[k - 1] \cup HandlesIn(k) \cup R[k]
  BY <1>5, <1>9, MarkedIs
<1>15. A[g - 1] = UNION {Forced(i) : i \in g .. 2}
  BY <1>4 DEF F
<1>16. Marks(g, A, R)
  <2>1. ASSUME NEW k \in g .. 2
        PROVE  /\ Forced(k) \subseteq R[k]
               /\ \A r \in HandlesIn(k) \ A[k - 1] : attached[r] \subseteq R[k]
               /\ \A n \in R[k] : \A c \in attached[n] :
                    gen[c] >= k => c \in R[k] \cup A[k - 1] \cup HandlesIn(k)
               /\ \A C \in SUBSET Nodes :
                    /\ Forced(k) \subseteq C
                    /\ \A r \in HandlesIn(k) \ A[k - 1] : attached[r] \subseteq C
                    /\ \A n \in C : \A c \in attached[n] \ (A[k - 1] \cup HandlesIn(k)) :
                         gen[c] >= k => c \in C
                    => R[k] \subseteq C
    BY <1>9, ReachedFacts
  <2> QED
    BY <2>1, <1>11, <1>12, <1>13, <1>14, <1>15 DEF Marks
<1> QED
  BY <1>16

\* What Marks() says of one generation, and how far the marks of the ones
\* before it go.
LEMMA MarksGrow ==
  ASSUME NEW g \in Gens, NEW A, NEW R, Marks(g, A, R)
  PROVE  /\ \A i, k \in g - 1 .. 2 : i <= k => A[i] \subseteq A[k]
         /\ \A k \in g - 1 .. 2 : \A n \in A[k] :
              \/ \E i \in g .. 2 : n \in Forced(i)
              \/ \E i \in g .. k : n \in HandlesIn(i) \cup R[i]
<1> USE Generations
<1>1. A[g - 1] = UNION {Forced(i) : i \in g .. 2}
  BY DEF Marks
<1>2. \A k \in g .. 2 : A[k] = A[k - 1] \cup HandlesIn(k) \cup R[k]
  BY DEF Marks
<1>3. \A k \in g .. 2 : A[k - 1] \subseteq A[k]
  BY <1>2
<1>4. ASSUME NEW i \in g - 1 .. 2, NEW k \in g - 1 .. 2, i <= k
      PROVE  A[i] \subseteq A[k]
  <2>1. \/ k = i \/ k = i + 1 \/ k = i + 2 \/ k = i + 3
    BY <1>4
  <2>2. i + 1 <= 2 => A[i] \subseteq A[i + 1]
    <3>1. i + 1 <= 2 => i + 1 \in g .. 2 /\ (i + 1) - 1 = i
      OBVIOUS
    <3> QED
      BY <3>1, <1>3
  <2>3. i + 2 <= 2 => A[i + 1] \subseteq A[i + 2]
    <3>1. i + 2 <= 2 => i + 2 \in g .. 2 /\ (i + 2) - 1 = i + 1
      OBVIOUS
    <3> QED
      BY <3>1, <1>3
  <2>4. i + 3 <= 2 => A[i + 2] \subseteq A[i + 3]
    <3>1. i + 3 <= 2 => i + 3 \in g .. 2 /\ (i + 3) - 1 = i + 2
      OBVIOUS
    <3> QED
      BY <3>1, <1>3
  <2> QED
    BY <2>1, <2>2, <2>3, <2>4
<1> DEFINE From(n, k) == \/ \E i \in g .. 2 : n \in Forced(i)
                         \/ \E i \in g .. k : n \in HandlesIn(i) \cup R[i]
           Good(k) == \A n \in A[k] : From(n, k)
<1>5. Good(g - 1)
  BY <1>1
<1>6. ASSUME NEW k \in g .. 2, Good(k - 1)
      PROVE  Good(k)
  <2>1. ASSUME NEW n \in A[k]
        PROVE  From(n, k)
    <3>1. CASE n \in A[k - 1]
      <4>1. \A i \in g .. k - 1 : i \in g .. k
        OBVIOUS
      <4> QED
        BY <3>1, <4>1, <1>6
    <3>2. CASE n \in HandlesIn(k) \cup R[k]
      <4>1. k \in g .. k
        OBVIOUS
      <4> QED
        BY <3>2, <4>1
    <3> QED
      BY <3>1, <3>2, <2>1, <1>2
  <2> QED
    BY <2>1
<1>7. g <= 2 => Good(g)
  <2> HIDE DEF Good
  <2> QED
    BY <1>5, <1>6
<1>8. g + 1 <= 2 => Good(g + 1)
  <2>1. g + 1 <= 2 => g + 1 \in g .. 2 /\ (g + 1) - 1 = g
    OBVIOUS
  <2> HIDE DEF Good
  <2> QED
    BY <2>1, <1>6, <1>7
<1>9. g + 2 <= 2 => Good(g + 2)
  <2>1. g + 2 <= 2 => g + 2 \in g .. 2 /\ (g + 2) - 1 = g + 1
    OBVIOUS
  <2> HIDE DEF Good
  <2> QED
    BY <2>1, <1>6, <1>8
<1>10. \A k \in g - 1 .. 2 : Good(k)
  <2>1. \A k \in g - 1 .. 2 : k = g - 1 \/ k = g \/ k = g + 1 \/ k = g + 2
    OBVIOUS
  <2> HIDE DEF Good
  <2> QED
    BY <2>1, <1>5, <1>7, <1>8, <1>9
<1> QED
  BY <1>4, <1>10

\* No root is forced or reached: it is alive only as the handle in its list.
LEMMA RootsUnmarked ==
  ASSUME Inv, Roots, NEW g \in Gens, NEW A, NEW R, Marks(g, A, R)
  PROVE  /\ \A k \in Gens : Forced(k) \cap isRoot = {}
         /\ \A k \in g .. 2 : R[k] \cap isRoot = {}
         /\ \A k \in g .. 2 : HandlesIn(k) \cap A[k - 1] = {}
<1> USE Generations
<1>1. \A n \in Nodes : attached[n] \cap isRoot = {} /\ attached[n] \subseteq Nodes
  BY Small DEF Inv, Roots
<1>2. ASSUME NEW k \in Gens
      PROVE  Forced(k) \cap isRoot = {} /\ Forced(k) \subseteq Nodes
  BY <1>1, ForcedIs, Small DEF Inv
<1>3. ASSUME NEW k \in g .. 2
      PROVE  R[k] \cap isRoot = {}
  <2> DEFINE C == Nodes \ isRoot
  <2>1. C \in SUBSET Nodes /\ k \in Gens
    OBVIOUS
  <2>2. Forced(k) \subseteq C
    BY <2>1, <1>2
  <2>3. \A r \in HandlesIn(k) \ A[k - 1] : attached[r] \subseteq C
    <3>1. HandlesIn(k) \subseteq Nodes
      BY Small DEF Inv, HandlesIn
    <3> QED
      BY <3>1, <1>1
  <2>4. \A n \in C : \A c \in attached[n] \ (A[k - 1] \cup HandlesIn(k)) :
          gen[c] >= k => c \in C
    BY <1>1
  <2>5. R[k] \subseteq C
    <3>1. \A D \in SUBSET Nodes :
            /\ Forced(k) \subseteq D
            /\ \A r \in HandlesIn(k) \ A[k - 1] : attached[r] \subseteq D
            /\ \A n \in D : \A c \in attached[n] \ (A[k - 1] \cup HandlesIn(k)) :
                 gen[c] >= k => c \in D
            => R[k] \subseteq D
      BY DEF Marks
    <3> HIDE DEF C
    <3> QED
      BY <3>1, <2>1, <2>2, <2>3, <2>4
  <2> QED
    BY <2>5
<1>4. ASSUME NEW k \in g .. 2, NEW h \in HandlesIn(k), h \in A[k - 1]
      PROVE  FALSE
  <2>1. h \in isRoot /\ gen[h] = k
    BY DEF Inv, Typed, HandlesIn
  <2>2. k - 1 \in g - 1 .. 2 /\ \A i \in g .. k - 1 : i \in g .. 2 /\ i < k
    OBVIOUS
  <2>3. \/ \E i \in g .. 2 : h \in Forced(i)
        \/ \E i \in g .. k - 1 : h \in HandlesIn(i) \cup R[i]
    BY <2>2, <1>4, MarksGrow
  <2>4. \A i \in g .. 2 : i \in Gens
    OBVIOUS
  <2>5. \A i \in g .. k - 1 : h \notin HandlesIn(i)
    BY <2>1, <2>2 DEF HandlesIn
  <2> QED
    BY <2>1, <2>2, <2>3, <2>4, <2>5, <1>2, <1>3
<1> QED
  BY <1>2, <1>3, <1>4

\* A handle's root survives.
LEMMA HandlesLive ==
  ASSUME Inv, Roots, NEW g \in Gens
  PROVE  handles \cap Dead(g) = {}
<1> USE Generations
<1>1. PICK A, R : Marks(g, A, R)
  BY MarksExist
<1>2. ASSUME NEW h \in handles, h \in Dead(g)
      PROVE  FALSE
  <2>1. h \in nodes /\ gen[h] >= g /\ h \notin A[gen[h]] /\ gen[h] \in Gens
    BY <1>1, <1>2, Small DEF Marks, Inv, Typed
  <2>2. gen[h] \in g .. 2
    BY <2>1
  <2>3. HandlesIn(gen[h]) \subseteq A[gen[h]]
    BY <2>2, <1>1 DEF Marks
  <2> QED
    BY <2>1, <2>3 DEF HandlesIn
<1> QED
  BY <1>2

\* A root whose handle is gone dies in the first collection of its
\* generation.
LEMMA OldRootsDie ==
  ASSUME Inv, Roots, NEW g \in Gens, NEW n \in nodes, n \in isRoot, gen[n] >= g,
         n \notin Dead(g)
  PROVE  n \in handles
<1> USE Generations
<1>1. PICK A, R : Marks(g, A, R)
  BY MarksExist
<1>2. gen[n] \in Gens /\ gen[n] \in g .. 2 /\ gen[n] \in g - 1 .. 2
  BY Small DEF Inv, Typed
<1>3. n \in A[gen[n]]
  BY <1>1 DEF Marks
<1>4. \/ \E i \in g .. 2 : n \in Forced(i)
      \/ \E i \in g .. gen[n] : n \in HandlesIn(i) \cup R[i]
  BY <1>1, <1>2, <1>3, MarksGrow
<1>5. /\ \A k \in Gens : Forced(k) \cap isRoot = {}
      /\ \A k \in g .. 2 : R[k] \cap isRoot = {}
  BY <1>1, RootsUnmarked
<1>6. \A i \in g .. 2 : i \in Gens
  OBVIOUS
<1>7. \A i \in g .. gen[n] : i \in g .. 2
  BY <1>2
<1>8. PICK i \in g .. gen[n] : n \in HandlesIn(i)
  BY <1>4, <1>5, <1>6, <1>7
<1> QED
  BY <1>8 DEF HandlesIn

\* A survivor's nodes of its own generation or a younger one survive too.
LEMMA MarkingCloses ==
  ASSUME Inv, Roots, NEW g \in Gens, NEW n \in nodes, n \notin Dead(g),
         NEW c \in nodes, c \in attached[n], gen[c] >= gen[n]
  PROVE  c \notin Dead(g)
<1> USE Generations
<1>1. PICK A, R : Marks(g, A, R)
  BY MarksExist
<1>2. gen[n] \in Gens /\ gen[c] \in Gens
  BY Small DEF Inv, Typed
<1>3. CASE ~(gen[c] >= g)
  BY <1>1, <1>3 DEF Marks
<1>4. CASE gen[c] >= g
  <2>1. PICK k : k = gen[c]
    OBVIOUS
  <2>2. k \in g .. 2 /\ k \in Gens /\ k \in g - 1 .. 2
    BY <2>1, <1>2, <1>4
  <2>3. c \in A[k] => c \notin Dead(g)
    BY <2>1, <1>1 DEF Marks
  <2>4. Forced(k) \subseteq A[k]
    BY <2>2, <1>1 DEF Marks
  <2>5. CASE gen[n] < k
    <3>1. c \in Forced(k)
      BY <2>1, <2>2, <2>5, ForcedIs
    <3> QED
      BY <3>1, <2>3, <2>4
  <2>6. CASE gen[n] = k
    <3>1. n \in A[k]
      BY <2>2, <2>6, <1>1 DEF Marks
    <3>2. \/ \E i \in g .. 2 : n \in Forced(i)
          \/ \E i \in g .. k : n \in HandlesIn(i) \cup R[i]
      BY <3>1, <2>2, <1>1, MarksGrow
    <3>3. ASSUME NEW i \in g .. 2, i <= k, n \in R[i]
          PROVE  c \in A[k]
      <4>1. c \in R[i] \cup A[i - 1] \cup HandlesIn(i)
        BY <3>3, <2>1, <2>2, <1>1 DEF Marks
      <4>2. A[i] = A[i - 1] \cup HandlesIn(i) \cup R[i]
        BY <1>1 DEF Marks
      <4>3. A[i] \subseteq A[k]
        <5>1. i \in g - 1 .. 2
          OBVIOUS
        <5> QED
          BY <5>1, <2>2, <3>3, <1>1, MarksGrow
      <4> QED
        BY <4>1, <4>2, <4>3
    <3>4. ASSUME NEW i \in g .. 2, n \in Forced(i)
          PROVE  c \in A[k]
      <4>1. i \in Gens
        OBVIOUS
      <4>2. i = k
        BY <4>1, <3>4, <2>6, ForcedIs
      <4>3. n \in R[k]
        BY <4>2, <3>4, <1>1 DEF Marks
      <4> QED
        BY <4>3, <2>2, <3>3
    <3>5. ASSUME NEW i \in g .. k, n \in HandlesIn(i)
          PROVE  c \in A[k]
      <4>1. i = k
        BY <3>5, <2>6 DEF HandlesIn
      <4>2. n \notin A[k - 1]
        BY <4>1, <3>5, <2>2, <1>1, RootsUnmarked
      <4>3. c \in R[k]
        BY <4>1, <4>2, <3>5, <2>2, <1>1 DEF Marks
      <4> QED
        BY <4>3, <2>2, <1>1 DEF Marks
    <3>6. \A i \in g .. k : i \in g .. 2 /\ i <= k
      BY <2>2
    <3> QED
      BY <3>2, <3>3, <3>4, <3>5, <3>6, <2>3
  <2> QED
    BY <2>1, <2>2, <2>5, <2>6, <1>2
<1> QED
  BY <1>3, <1>4

\* Unlinking a root that is in no list changes nothing.
LEMMA UnlinkNothing ==
  ASSUME Inv, Roots, NEW n \in Nodes, n \notin handles, NEW k \in Gens, NEW live
  PROVE  UnlinkRoot(roots, k, n, live) = roots
<1>1. /\ roots = [head |-> roots.head, tail |-> roots.tail, prev |-> roots.prev,
                  next |-> roots.next, wild |-> roots.wild]
      /\ roots.wild \in BOOLEAN
  BY DEF Inv, Typed, RootLists
<1>2. roots.prev[n] = Null /\ roots.next[n] = Null /\ roots.tail[k] = roots.head[k]
  BY DEF Roots
<1>3. n # Null
  BY DEF Nodes, Null
<1>4. n # roots.head[k]
  BY <1>3 DEF Roots, HandlesIn
<1>5. UnlinkRoot(roots, k, n, live) =
        [head |-> roots.head, tail |-> roots.tail, next |-> roots.next,
         prev |-> roots.prev,
         wild |-> roots.wild \/ ~({roots.prev[n], roots.next[n]} \subseteq live \cup {Null})]
  BY <1>2, <1>4 DEF UnlinkRoot
<1>6. (roots.wild \/ ~({roots.prev[n], roots.next[n]} \subseteq live \cup {Null})) = roots.wild
  BY <1>1, <1>2
<1> QED
  BY <1>1, <1>5, <1>6

\* So a collection that deletes no handle leaves the root lists as they are.
LEMMA NothingSwept ==
  ASSUME Inv, Roots, NEW dead, dead \subseteq nodes, dead \cap handles = {}
  PROVE  SweptRoots(dead) = roots
<1> USE Generations
<1>1. PICK list : list = mem[2] \o mem[1] \o mem[0]
  OBVIOUS
<1>2. mem[2] \in Seq(Nodes) /\ mem[1] \in Seq(Nodes) /\ mem[0] \in Seq(Nodes)
  BY DEF Inv, Typed
<1>3. list \in Seq(Nodes)
  BY <1>1, <1>2
<1>4. PICK gone : gone = Only(list, dead \cap isRoot)
  OBVIOUS
<1>5. gone \in Seq(Nodes) /\ ToSet(gone) \subseteq dead
  BY <1>3, <1>4, OnlyFacts
<1>6. DeadRoots(gone, dead)
  BY <1>1, <1>4 DEF DeadRoots
<1>7. PICK f : SweptBy(f, gone, dead)
  BY <1>5, <1>6, SweptRecursion DEF Inv, Typed
<1>8. /\ f[0] = roots
      /\ \A i \in 1 .. Len(gone) :
           f[i] = UnlinkRoot(f[i - 1], gen[gone[i]], gone[i], LeftFor(gen[gone[i]], dead))
      /\ SweptRoots(dead) = f[Len(gone)]
  BY <1>7 DEF SweptBy
<1>9. Len(gone) \in Nat
  BY <1>5
<1>10. \A i \in 1 .. Len(gone) : gone[i] \in Nodes /\ gone[i] \notin handles
                                  /\ gen[gone[i]] \in Gens
  <2>1. ASSUME NEW i \in 1 .. Len(gone)
        PROVE  gone[i] \in Nodes /\ gone[i] \in ToSet(gone)
    BY <1>5, ListSet
  <2> QED
    BY <2>1, <1>5 DEF Inv, Typed
<1> DEFINE T == {i \in 0 .. Len(gone) : f[i] = roots}
<1>11. 0 \in T
  BY <1>8, <1>9
<1>12. ASSUME NEW i \in 0 .. Len(gone), i < Len(gone), i \in T
       PROVE  i + 1 \in T
  <2>1. i + 1 \in 1 .. Len(gone) /\ (i + 1) - 1 = i /\ i + 1 \in 0 .. Len(gone)
    BY <1>9, <1>12
  <2>2. PICK n : n = gone[i + 1]
    OBVIOUS
  <2>3. f[i + 1] = UnlinkRoot(roots, gen[n], n, LeftFor(gen[n], dead))
    BY <2>1, <2>2, <1>8, <1>12
  <2>4. n \in Nodes /\ n \notin handles /\ gen[n] \in Gens
    BY <2>1, <2>2, <1>10
  <2>5. f[i + 1] = roots
    BY <2>3, <2>4, UnlinkNothing
  <2> QED
    BY <2>1, <2>5
<1> HIDE DEF T
<1>13. 0 .. Len(gone) \subseteq T
  BY <1>9, <1>11, <1>12, UpTo
<1> QED
  BY <1>8, <1>9, <1>13 DEF T

\* The handle's root moves from the list of its generation to the older one.
LEMMA MovedRoot ==
  ASSUME Inv, Roots, NEW k \in Gens, k # 0, NEW h \in handles, gen[h] = k, NEW live,
         NEW new, new = MoveRoot(roots, k, h, live)
  PROVE  /\ new.head = [roots.head EXCEPT ![k] = Null, ![k - 1] = h]
         /\ new.tail = [roots.tail EXCEPT ![k] = Null, ![k - 1] = h]
         /\ new.prev = roots.prev /\ new.next = roots.next
<1> USE Generations
<1>1. h \in Nodes /\ k - 1 \in Gens /\ h # Null
  BY Small DEF Inv, Nodes, Null
<1>2. roots.prev[h] = Null /\ roots.next[h] = Null
  BY <1>1 DEF Roots
<1>3. /\ roots.head \in [Gens -> Nodes \cup {Null}] /\ roots.tail \in [Gens -> Nodes \cup {Null}]
      /\ roots.prev \in [Nodes -> Nodes \cup {Null}] /\ roots.next \in [Nodes -> Nodes \cup {Null}]
  BY DEF Inv, Typed, RootLists
<1>4. roots.head[k] = h /\ roots.tail[k] = h
  <2>1. h \in HandlesIn(k)
    BY DEF HandlesIn
  <2> QED
    BY <2>1 DEF Roots
<1>5. roots.tail[k - 1] = Null
  <2>1. HandlesIn(k - 1) = {}
    BY DEF HandlesIn, Roots, OneHandle
  <2> QED
    BY <2>1, <1>1 DEF Roots
<1> DEFINE cut == UnlinkRoot(roots, k, h, live)
           bare == [cut EXCEPT !.prev[h] = Null, !.next[h] = Null]
           w == roots.wild \/ ~({Null, Null} \subseteq live \cup {Null})
<1>6. cut = [head |-> [roots.head EXCEPT ![k] = Null], tail |-> [roots.tail EXCEPT ![k] = Null],
             next |-> roots.next, prev |-> roots.prev, wild |-> w]
  BY <1>2, <1>4 DEF UnlinkRoot
<1> HIDE DEF cut, w
<1>7. [roots.prev EXCEPT ![h] = Null] = roots.prev /\ [roots.next EXCEPT ![h] = Null] = roots.next
  BY <1>1, <1>2, <1>3
<1>8. cut \in RootLists
  BY <1>1, UnlinkRootTyped DEF cut, Inv, Typed
<1>9. bare \in RootLists
  BY <1>1, <1>8 DEF RootLists
<1>10. /\ bare.head = [roots.head EXCEPT ![k] = Null]
       /\ bare.tail = [roots.tail EXCEPT ![k] = Null]
       /\ bare.prev = roots.prev /\ bare.next = roots.next
  <2>1. /\ cut.head = [roots.head EXCEPT ![k] = Null]
        /\ cut.tail = [roots.tail EXCEPT ![k] = Null]
        /\ cut.prev = roots.prev /\ cut.next = roots.next
    BY <1>6
  <2>2. /\ bare.head = cut.head /\ bare.tail = cut.tail
        /\ bare.prev = [cut.prev EXCEPT ![h] = Null]
        /\ bare.next = [cut.next EXCEPT ![h] = Null]
    BY <1>8 DEF RootLists
  <2> HIDE DEF bare
  <2> QED
    BY <2>1, <2>2, <1>7
<1>11. new = LinkRoot(bare, k - 1, h, live)
  BY DEF MoveRoot, bare, cut
<1> HIDE DEF bare
<1>12. bare.tail[k - 1] = Null
  BY <1>1, <1>3, <1>5, <1>10
<1>13. new = [bare EXCEPT !.head[k - 1] = h, !.tail[k - 1] = h]
  BY <1>11, <1>12 DEF LinkRoot
<1>14. /\ new.head = [bare.head EXCEPT ![k - 1] = h]
       /\ new.tail = [bare.tail EXCEPT ![k - 1] = h]
       /\ new.prev = bare.prev /\ new.next = bare.next
  BY <1>9, <1>13 DEF RootLists
<1> QED
  BY <1>10, <1>14

\* Collections keep the root lists in order.
LEMMA CollectKeepsRoots ==
  ASSUME Inv, Roots, NEW g \in Gens, NEW dead, dead = Dead(g), NEW aged \in Nat,
         g = 0 => aged = 0, CollectFrom(g, dead, aged)
  PROVE  Roots'
<1> USE Generations
<1> DEFINE left == [k \in Gens |-> Only(mem[k], nodes \ dead)]
           moved == SubSeq(left[g], 1, aged)
           old == ToSet(moved)
<1>1. /\ aged <= Len(left[g])
      /\ nodes' = nodes \ dead
      /\ gen' = [n \in Nodes |-> IF n \in old THEN g - 1 ELSE gen[n]]
      /\ roots' = AgedRoots(SweptRoots(dead), g, moved, nodes \ dead)
      /\ attached' = [n \in Nodes |-> IF n \in dead THEN {} ELSE attached[n]]
      /\ isRoot' = isRoot /\ handles' = handles
  BY DEF CollectFrom
<1>2. left[g] = Left(g, dead)
  BY DEF Left
<1> HIDE DEF left
<1>3. dead \subseteq nodes /\ dead \cap handles = {}
  BY DeadWithin, HandlesLive
<1>4. /\ left[g] \in Seq(Nodes) /\ IsInjective(left[g])
      /\ ToSet(left[g]) = {n \in nodes \ dead : gen[n] = g}
  BY <1>2, <1>3, LeftFacts
<1>5. aged \in 0 .. Len(left[g])
  BY <1>1
<1>6. /\ moved \in Seq(Nodes) /\ old \subseteq {n \in nodes \ dead : gen[n] = g}
      /\ IsInjective(moved) /\ old = ToSet(moved)
  BY <1>4, <1>5, SplitFacts
<1>7. g = 0 => moved = <<>>
  BY <1>4
<1> HIDE DEF moved, old
<1>8. PICK moving : moving = Only(moved, isRoot)
  OBVIOUS
<1>9. moving \in Seq(Nodes) /\ ToSet(moving) = old \cap isRoot /\ IsInjective(moving)
  BY <1>6, <1>8, OnlyFacts
<1>10. ToSet(moving) = {h \in handles : h \in old}
  <2>1. \A n \in old \cap isRoot : n \in handles
    BY <1>6, OldRootsDie
  <2>2. handles \subseteq isRoot
    BY DEF Inv, Typed
  <2> QED
    BY <2>1, <2>2, <1>9
<1>11. g = 0 => moving = <<>>
  <2>1. Only(<<>>, isRoot) \in Seq({})
    <3>1. <<>> \in Seq({})
      OBVIOUS
    <3> QED
      BY <3>1, OnlyFacts
  <2>2. Only(<<>>, isRoot) = <<>>
    BY <2>1
  <2> QED
    BY <2>2, <1>7, <1>8
<1>12. SweptRoots(dead) = roots /\ roots \in RootLists
  BY <1>3, NothingSwept DEF Inv, Typed
<1>13. PICK f : AgedBy(f, moving, roots, g, moved, nodes \ dead)
  BY <1>8, <1>9, <1>11, <1>12, AgedRecursion
<1>14. /\ f[0] = roots
       /\ \A i \in 1 .. Len(moving) : f[i] = MoveRoot(f[i - 1], g, moving[i], nodes \ dead)
       /\ roots' = f[Len(moving)]
  BY <1>1, <1>12, <1>13 DEF AgedBy
<1>15. Len(moving) \in Nat /\ Len(moving) <= 1
  <2>1. Len(moving) \in Nat
    BY <1>9
  <2>2. ASSUME Len(moving) >= 2
        PROVE  FALSE
    <3>1. 1 \in 1 .. Len(moving) /\ 2 \in 1 .. Len(moving)
      BY <2>1, <2>2
    <3>2. moving[1] \in ToSet(moving) /\ moving[2] \in ToSet(moving)
      BY <3>1, <1>9, ListSet
    <3>3. moving[1] = moving[2]
      BY <3>2, <1>10 DEF Roots, OneHandle
    <3> QED
      BY <3>1, <3>3, <1>9, ListSet
  <2> QED
    BY <2>1, <2>2
<1>16. \A h \in handles : h \in Nodes /\ gen'[h] = IF h \in old THEN g - 1 ELSE gen[h]
  BY <1>1, Small DEF Inv
<1>17. /\ \A k \in Gens : /\ roots'.tail[k] = roots'.head[k]
                          /\ {roots'.head[k]} \ {Null} = {h \in handles : gen'[h] = k}
       /\ roots'.prev = roots.prev /\ roots'.next = roots.next
  <2>1. CASE Len(moving) = 0
    <3>1. ToSet(moving) = {}
      <4>1. ToSet(moving) = {moving[i] : i \in 1 .. Len(moving)}
        BY <1>9, ListSet
      <4>2. 1 .. Len(moving) = {}
        BY <2>1
      <4> QED
        BY <4>1, <4>2
    <3>2. \A h \in handles : gen'[h] = gen[h]
      BY <3>1, <1>10, <1>16
    <3>3. roots' = roots
      BY <2>1, <1>14
    <3> QED
      BY <3>2, <3>3 DEF Roots, HandlesIn
  <2>2. CASE Len(moving) = 1
    <3>1. PICK h : h = moving[1]
      OBVIOUS
    <3>2. 1 \in 1 .. Len(moving) /\ moving[1] \in ToSet(moving)
      BY <2>2, <1>9, ListSet
    <3>11. moving # <<>>
      BY <2>2
    <3>3. h \in handles /\ h \in old /\ gen[h] = g /\ g # 0
      BY <3>1, <3>2, <3>11, <1>6, <1>10, <1>11
    <3>4. roots' = MoveRoot(roots, g, h, nodes \ dead)
      <4>1. f[1] = MoveRoot(f[1 - 1], g, moving[1], nodes \ dead)
        BY <3>2, <1>14
      <4> QED
        BY <4>1, <3>1, <2>2, <1>14
    <3>5. PICK new : new = roots'
      OBVIOUS
    <3>6. /\ new.head = [roots.head EXCEPT ![g] = Null, ![g - 1] = h]
          /\ new.tail = [roots.tail EXCEPT ![g] = Null, ![g - 1] = h]
          /\ new.prev = roots.prev /\ new.next = roots.next
      BY <3>3, <3>4, <3>5, MovedRoot
    <3>7. roots.head \in [Gens -> Nodes \cup {Null}] /\ roots.tail \in [Gens -> Nodes \cup {Null}]
      BY <1>12 DEF RootLists
    <3>8. \A x \in handles : x = h
      BY <3>3 DEF Roots, OneHandle
    <3>9. gen'[h] = g - 1 /\ h # Null
      BY <3>3, <1>16 DEF Nodes, Null
    <3>10. ASSUME NEW k \in Gens
           PROVE  /\ new.tail[k] = new.head[k]
                  /\ {new.head[k]} \ {Null} = {x \in handles : gen'[x] = k}
      <4>1. CASE k = g - 1
        BY <4>1, <3>3, <3>6, <3>7, <3>8, <3>9
      <4>2. CASE k = g
        BY <4>2, <3>3, <3>6, <3>7, <3>8, <3>9
      <4>3. CASE k # g /\ k # g - 1
        <5>1. {roots.head[k]} \ {Null} = {} /\ roots.tail[k] = roots.head[k]
          BY <4>3, <3>3, <3>8 DEF Roots, HandlesIn
        <5> QED
          BY <5>1, <4>3, <3>3, <3>6, <3>7, <3>8, <3>9
      <4> QED
        BY <4>1, <4>2, <4>3
    <3> QED
      BY <3>5, <3>6, <3>10
  <2>3. Len(moving) = 0 \/ Len(moving) = 1
    <3>1. PICK m : m = Len(moving)
      OBVIOUS
    <3>2. m \in Nat /\ m <= 1
      BY <3>1, <1>15
    <3>3. m = 0 \/ m = 1
      BY <3>2
    <3> QED
      BY <3>1, <3>3
  <2> QED
    BY <2>1, <2>2, <2>3
<1>18. OneHandle' /\ handles' \subseteq nodes'
  BY <1>1, <1>3 DEF Roots, OneHandle
<1>19. \A n \in Nodes : attached'[n] \cap isRoot' = {}
  BY <1>1 DEF Roots
<1>20. \A n \in Nodes : roots'.prev[n] = Null /\ roots'.next[n] = Null
  BY <1>17 DEF Roots
<1> QED
  BY <1>1, <1>17, <1>18, <1>19, <1>20 DEF Roots, HandlesIn

\* Until a deleted node is accessed, what a node holds of the deleted ones
\* was of an older generation than its own.
Upward ==
  ~wild => \A n \in nodes : \A c \in attached[n] : c \in nodes \/ gen[c] < gen[n]

\* A collection deletes nothing that a survivor of its generation or an older
\* one holds, and ages no node that holds a deleted one.
LEMMA CollectKeepsUpward ==
  ASSUME Inv, Roots, Upward, ~wild, NEW g \in Gens, NEW dead, dead = Dead(g),
         NEW aged \in Nat, g = 0 => aged = 0, CollectFrom(g, dead, aged)
  PROVE  Upward'
<1> USE Generations
<1> DEFINE left == [k \in Gens |-> Only(mem[k], nodes \ dead)]
           moved == SubSeq(left[g], 1, aged)
           old == ToSet(moved)
<1>1. /\ aged <= Len(left[g])
      /\ nodes' = nodes \ dead
      /\ gen' = [n \in Nodes |-> IF n \in old THEN g - 1 ELSE gen[n]]
      /\ attached' = [n \in Nodes |-> IF n \in dead THEN {} ELSE attached[n]]
      /\ wild' = (roots'.wild \/ TouchesDeleted(g, dead))
  BY DEF CollectFrom
<1>2. left[g] = Left(g, dead)
  BY DEF Left
<1> HIDE DEF left
<1>3. dead \subseteq nodes /\ \A c \in dead : gen[c] >= g
  BY DeadWithin
<1>4. /\ left[g] \in Seq(Nodes) /\ IsInjective(left[g])
      /\ ToSet(left[g]) = {n \in nodes \ dead : gen[n] = g}
  BY <1>2, <1>3, LeftFacts
<1>5. aged \in 0 .. Len(left[g])
  BY <1>1
<1>6. old \subseteq {n \in nodes \ dead : gen[n] = g}
  BY <1>4, <1>5, SplitFacts
<1> HIDE DEF moved, old
<1>7. SUFFICES ASSUME ~wild', NEW n \in nodes', NEW c \in attached'[n], c \notin nodes'
               PROVE  gen'[c] < gen'[n]
  BY DEF Upward
<1>8. n \in nodes \ dead /\ n \in Nodes /\ c \in attached[n] /\ c \in Nodes
      /\ gen[n] \in Gens /\ gen[c] \in Gens
  BY <1>1, <1>7, Small DEF Inv, Typed
<1>9. gen'[c] = gen[c] /\ gen'[n] = IF n \in old THEN g - 1 ELSE gen[n]
  BY <1>1, <1>6, <1>7, <1>8
<1>10. gen[n] >= g => c \in nodes
  <2>1. ASSUME gen[n] >= g
        PROVE  c \in nodes
    <3> DEFINE collected == UNION {ToSet(mem[k]) : k \in g .. Youngest}
               listed == UNION {Listed(roots, k) : k \in g .. Youngest}
               held(S) == UNION {attached[m] : m \in S \cap nodes}
               visited == collected \cup listed \cup held(listed)
    <3>1. n \in collected
      <4>1. gen[n] \in g .. Youngest /\ n \in ToSet(mem[gen[n]])
        BY <2>1, <1>8 DEF Inv, Lists
      <4> QED
        BY <4>1
    <3>2. ~(visited \cup held(visited) \subseteq nodes) => TouchesDeleted(g, dead)
      BY DEF TouchesDeleted
    <3>3. ~TouchesDeleted(g, dead)
      BY <1>1, <1>7
    <3> HIDE DEF collected, listed
    <3>4. held(visited) \subseteq nodes
      BY <3>2, <3>3
    <3>5. n \in visited \cap nodes
      BY <3>1, <1>8
    <3> HIDE DEF visited
    <3> QED
      BY <3>4, <3>5, <1>8
  <2> QED
    BY <2>1
<1>11. CASE c \in nodes
  <2>1. c \in dead /\ gen[c] >= g
    BY <1>1, <1>3, <1>7, <1>11
  <2>2. gen[c] < gen[n]
    <3>1. ~(gen[c] >= gen[n])
      BY <2>1, <1>8, <1>11, MarkingCloses
    <3> QED
      BY <3>1, <1>8
  <2>3. n \notin old
    BY <2>1, <2>2, <1>6, <1>8
  <2> QED
    BY <2>2, <2>3, <1>9
<1>12. CASE c \notin nodes
  <2>1. gen[c] < gen[n]
    BY <1>8, <1>12 DEF Upward
  <2>2. n \notin old
    <3>1. n \in old => gen[n] = g
      BY <1>6
    <3> QED
      BY <3>1, <1>8, <1>10, <1>12
  <2> QED
    BY <2>1, <2>2, <1>9
<1> QED
  BY <1>11, <1>12

\* What is reached from the handles without going to an older generation
\* survives a collection.
LEMMA KeptByCollect ==
  ASSUME Inv, Roots, Upward, ~wild, NEW g \in Gens
  PROVE  ReachableFrom(handles, [n \in Nodes |-> {c \in attached[n] : gen[c] >= gen[n]}])
           \subseteq nodes \ Dead(g)
<1> DEFINE follow == [n \in Nodes |-> {c \in attached[n] : gen[c] >= gen[n]}]
           C == nodes \ Dead(g)
<1>1. C \subseteq Nodes
  BY Small DEF Inv
<1>2. handles \subseteq C
  BY HandlesLive DEF Roots
<1>3. ASSUME NEW n \in C
      PROVE  follow[n] \subseteq C
  <2>1. n \in nodes /\ n \notin Dead(g) /\ n \in Nodes
    BY <1>1
  <2>2. ASSUME NEW c \in attached[n], gen[c] >= gen[n]
        PROVE  c \in C
    <3>1. gen[c] \in Gens /\ gen[n] \in Gens
      BY <2>1, <2>2, Small DEF Inv, Typed
    <3>2. c \in nodes
      BY <3>1, <2>1, <2>2, Generations DEF Upward
    <3> QED
      BY <3>2, <2>1, <2>2, MarkingCloses
  <2>3. follow[n] = {c \in attached[n] : gen[c] >= gen[n]}
    BY <2>1
  <2> QED
    BY <2>2, <2>3
<1> HIDE DEF C, follow
<1>4. ReachableFrom(handles, follow) \subseteq C
  BY <1>1, <1>2, <1>3, ReachLeast
<1> QED
  BY <1>4 DEF C, follow

\* After as many FullCollect()s the next one finds nothing to delete in as
\* many of the oldest generations.
Again == \A n \in Dead(0) : gen[n] >= fulls

OneInv == Inv /\ Roots /\ Upward /\ Again

\* What is known of the marks of a FullCollect(), as one formula so that it
\* can be said of the state after a step.
MarkingFacts ==
  Inv /\ Roots =>
    /\ \A k \in Gens : Forced(k) = {n \in nodes : gen[n] = k
                                   /\ \E m \in nodes : gen[m] < k /\ n \in attached[m]}
    /\ \E A, R : Marks(0, A, R)
    /\ \A A, R : Marks(0, A, R) =>
         /\ \A i, k \in 0 - 1 .. 2 : i <= k => A[i] \subseteq A[k]
         /\ \A k \in 0 - 1 .. 2 : \A n \in A[k] :
              \/ \E i \in 0 .. 2 : n \in Forced(i)
              \/ \E i \in 0 .. k : n \in HandlesIn(i) \cup R[i]
         /\ \A k \in 0 .. 2 : HandlesIn(k) \cap A[k - 1] = {}

\* It holds in every state,
LEMMA MarkingFactsHold == MarkingFacts
<1> SUFFICES ASSUME Inv, Roots
             PROVE  MarkingFacts
  BY DEF MarkingFacts
<1>1. \A k \in Gens : Forced(k) = {n \in nodes : gen[n] = k
                                   /\ \E m \in nodes : gen[m] < k /\ n \in attached[m]}
  BY ForcedIs
<1>2. \E A, R : Marks(0, A, R)
  BY MarksExist, Generations
<1>3. ASSUME NEW A, NEW R, Marks(0, A, R)
      PROVE  /\ \A i, k \in 0 - 1 .. 2 : i <= k => A[i] \subseteq A[k]
             /\ \A k \in 0 - 1 .. 2 : \A n \in A[k] :
                  \/ \E i \in 0 .. 2 : n \in Forced(i)
                  \/ \E i \in 0 .. k : n \in HandlesIn(i) \cup R[i]
             /\ \A k \in 0 .. 2 : HandlesIn(k) \cap A[k - 1] = {}
  BY <1>3, MarksGrow, RootsUnmarked, Generations
<1> QED
  BY <1>1, <1>2, <1>3 DEF MarkingFacts

\* the next one included.
LEMMA MarkingFactsNext == MarkingFacts'
  BY MarkingFactsHold, PTL

\* What one FullCollect() leaves to the next: what it marked in the
\* generations that have settled is marked again.
LEMMA FullCollectSettles ==
  ASSUME Inv, Roots, Inv', Roots', NEW dead, dead = Dead(0), CollectFrom(0, dead, 0),
         NEW j \in 0 .. 3, \A n \in dead : gen[n] >= j
  PROVE  \A n \in Dead(0)' : gen'[n] > j
<1> USE Generations
<1> DEFINE left == [k \in Gens |-> Only(mem[k], nodes \ dead)]
           moved == SubSeq(left[0], 1, 0)
           old == ToSet(moved)
<1>1. /\ nodes' = nodes \ dead
      /\ gen' = [n \in Nodes |-> IF n \in old THEN 0 - 1 ELSE gen[n]]
      /\ attached' = [n \in Nodes |-> IF n \in dead THEN {} ELSE attached[n]]
      /\ isRoot' = isRoot /\ handles' = handles
  BY DEF CollectFrom
<1>2. left[0] = Left(0, dead)
  BY DEF Left
<1> HIDE DEF left
<1>3. dead \subseteq nodes
  BY DeadWithin
<1>4. old = {}
  <2>1. left[0] \in Seq(Nodes)
    BY <1>2, <1>3, LeftFacts
  <2>2. moved = <<>>
    BY <2>1
  <2>3. ToSet(<<>>) = {}
    BY DEF ToSet
  <2> QED
    BY <2>2, <2>3
<1> HIDE DEF old
<1>5. gen' = gen
  <2>1. gen = [n \in Nodes |-> gen[n]]
    BY DEF Inv, Typed
  <2> QED
    BY <2>1, <1>1, <1>4
<1>6. \A n \in Nodes \ dead : attached'[n] = attached[n]
  BY <1>1
<1>7. \A k \in Gens : HandlesIn(k)' = HandlesIn(k)
  BY <1>1, <1>5 DEF HandlesIn
<1>8. PICK A, R : Marks(0, A, R)
  BY MarksExist
<1>9. PICK B, S : Marks(0, B, S)'
  BY MarkingFactsNext DEF MarkingFacts
<1>22. \A n \in nodes : n \in Nodes /\ gen[n] \in Gens
  BY Small DEF Inv, Typed
<1>23. /\ \A k \in 0 .. 2 : k \in Gens /\ k \in 0 - 1 .. 2
      /\ \A k \in 0 .. 2 : \A i \in 0 .. k : i \in 0 .. 2 /\ i <= k
  OBVIOUS
\* The marks of the first collection.
<1>10. /\ A[0 - 1] = UNION {Forced(i) : i \in 0 .. 2}
       /\ \A k \in 0 .. 2 : A[k] = A[k - 1] \cup HandlesIn(k) \cup R[k]
       /\ \A k \in 0 .. 2 : R[k] \subseteq Nodes
       /\ \A k \in 0 .. 2 : \A n \in R[k] : \A c \in attached[n] :
            gen[c] >= k => c \in R[k] \cup A[k - 1] \cup HandlesIn(k)
       /\ dead = {n \in nodes : gen[n] >= 0 /\ n \notin A[gen[n]]}
  BY <1>8 DEF Marks
<1>11. /\ \A i, k \in 0 - 1 .. 2 : i <= k => A[i] \subseteq A[k]
       /\ \A k \in 0 - 1 .. 2 : \A n \in A[k] :
            \/ \E i \in 0 .. 2 : n \in Forced(i)
            \/ \E i \in 0 .. k : n \in HandlesIn(i) \cup R[i]
  BY <1>8, MarksGrow
<1>12. \A k \in 0 .. 2 : HandlesIn(k) \cap A[k - 1] = {}
  BY <1>8, RootsUnmarked
\* Those of the second one.
<1>13. /\ B[0 - 1] = UNION {Forced(i)' : i \in 0 .. 2}
       /\ \A k \in 0 .. 2 : B[k] = B[k - 1] \cup HandlesIn(k) \cup S[k]
       /\ \A k \in 0 .. 2 : Forced(k)' \subseteq S[k]
       /\ \A k \in 0 .. 2 : \A r \in HandlesIn(k) \ B[k - 1] : attached'[r] \subseteq S[k]
       /\ \A k \in 0 .. 2 : \A n \in S[k] : \A c \in attached'[n] :
            gen[c] >= k => c \in S[k] \cup B[k - 1] \cup HandlesIn(k)
       /\ Dead(0)' = {n \in nodes' : gen[n] >= 0 /\ n \notin B[gen[n]]}
  BY <1>5, <1>7, <1>9, <1>23 DEF Marks
\* No other node is forced, and in the settled generations none ceases to be.
<1>14. \A k \in 0 .. 2 :
         /\ Forced(k) = {n \in nodes : gen[n] = k
                          /\ \E m \in nodes : gen[m] < k /\ n \in attached[m]}
         /\ Forced(k)' = {n \in nodes' : gen[n] = k
                          /\ \E m \in nodes' : gen[m] < k /\ n \in attached'[m]}
  BY <1>5, <1>23, MarkingFactsHold, MarkingFactsNext DEF MarkingFacts
<1>15. \A k \in 0 .. 2 : Forced(k)' \subseteq Forced(k)
  BY <1>1, <1>22, <1>14
<1>16. ASSUME NEW k \in 0 .. 2, k <= j
       PROVE  Forced(k) \subseteq Forced(k)'
  <2>1. ASSUME NEW n \in Forced(k)
        PROVE  n \in Forced(k)'
    <3>1. PICK m \in nodes : n \in nodes /\ gen[n] = k /\ gen[m] < k /\ n \in attached[m]
      BY <2>1, <1>14
    <3>2. n \in A[0 - 1]
      BY <2>1, <1>10
    <3>3. n \in A[k]
      BY <3>2, <1>11, <1>23
    <3>4. n \notin dead
      BY <3>1, <3>3, <1>10
    <3>5. m \notin dead
      BY <3>1, <1>16, <1>22
    <3>6. attached'[m] = attached[m]
      BY <3>5, <1>6, <1>22
    <3> QED
      BY <3>1, <3>4, <3>5, <3>6, <1>1, <1>14
  <2> QED
    BY <2>1
<1>17. /\ \A i, k \in 0 - 1 .. 2 : i <= k => B[i] \subseteq B[k]
       /\ \A k \in 0 - 1 .. 2 : \A n \in B[k] :
            \/ \E i \in 0 .. 2 : n \in Forced(i)'
            \/ \E i \in 0 .. k : n \in HandlesIn(i) \cup S[i]
       /\ \A k \in 0 .. 2 : HandlesIn(k) \cap B[k - 1] = {}
  BY <1>7, <1>9, <1>23, MarkingFactsNext DEF MarkingFacts
<1>18. /\ \A k \in 0 .. 2 : R[k] \cap isRoot = {}
       /\ \A k \in 0 .. 2 : HandlesIn(k) \subseteq isRoot /\ HandlesIn(k) \subseteq Nodes
  BY <1>8, RootsUnmarked, Small DEF Inv, Typed, HandlesIn
\* What is reached is reached again, perhaps for an older generation.
<1>19. ASSUME NEW k \in 0 .. 2, k <= j
       PROVE  \A n \in R[k] : \E i \in 0 .. k : n \in S[i]
  <2> DEFINE C == {n \in R[k] : \E i \in 0 .. k : n \in S[i]}
  <2>1. \A n \in R[k] : n \in Nodes /\ n \notin dead
    <3>1. ASSUME NEW n \in R[k], n \in dead
          PROVE  FALSE
      <4>1. n \in nodes /\ gen[n] \in 0 .. 2 /\ k <= gen[n] /\ n \notin A[gen[n]]
        BY <3>1, <1>10, <1>19, <1>22
      <4>2. A[k] \subseteq A[gen[n]]
        BY <4>1, <1>11, <1>23
      <4>3. n \in A[k]
        BY <3>1, <1>10
      <4> QED
        BY <4>1, <4>2, <4>3
    <3> QED
      BY <3>1, <1>10
  <2>2. C \in SUBSET Nodes
    BY <2>1
  <2>3. Forced(k) \subseteq C
    <3>1. Forced(k) \subseteq R[k]
      BY <1>8 DEF Marks
    <3>2. Forced(k) \subseteq S[k]
      BY <1>13, <1>16, <1>19
    <3>3. k \in 0 .. k
      OBVIOUS
    <3> QED
      BY <3>1, <3>2, <3>3
  <2>4. \A r \in HandlesIn(k) \ A[k - 1] : attached[r] \subseteq C
    <3>1. ASSUME NEW r \in HandlesIn(k) \ A[k - 1]
          PROVE  attached[r] \subseteq C
      <4>1. attached[r] \subseteq R[k]
        BY <1>8 DEF Marks
      <4>2. r \in Nodes /\ r \notin dead
        <5>1. r \in handles
          BY DEF HandlesIn
        <5> QED
          BY <5>1, <1>18, HandlesLive
      <4>3. attached'[r] \subseteq S[k]
        BY <1>13, <1>17
      <4>4. k \in 0 .. k
        OBVIOUS
      <4> QED
        BY <4>1, <4>2, <4>3, <4>4, <1>6
    <3> QED
      BY <3>1
  <2>5. ASSUME NEW n \in C, NEW c \in attached[n] \ (A[k - 1] \cup HandlesIn(k)),
               gen[c] >= k
        PROVE  c \in C
    <3>1. c \in R[k]
      BY <2>5, <1>10
    <3>2. PICK i \in 0 .. k : n \in S[i]
      BY <2>5
    <3>3. i \in 0 .. 2 /\ i <= k /\ i - 1 \in 0 - 1 .. 2
      OBVIOUS
    <3>4. c \in attached'[n]
      BY <2>1, <2>5, <1>6
    <3>5. gen[c] >= i
      <4>1. c \in Nodes
        BY <3>1, <1>10
      <4>2. gen[c] \in Int
        BY <4>1 DEF Inv, Typed
      <4> QED
        BY <4>2, <3>3, <2>5
    <3>6. c \in S[i] \cup B[i - 1] \cup HandlesIn(i)
      BY <3>2, <3>3, <3>4, <3>5, <1>13
    <3>7. \A l \in 0 .. 2 : c \notin HandlesIn(l) /\ c \notin Forced(l)'
      <4>1. c \notin A[0 - 1]
        <5>1. k - 1 \in 0 - 1 .. 2 /\ 0 - 1 \in 0 - 1 .. 2 /\ 0 - 1 <= k - 1
          OBVIOUS
        <5> QED
          BY <5>1, <2>5, <1>11
      <4> QED
        BY <4>1, <3>1, <1>10, <1>15, <1>18
    <3>8. CASE c \in S[i]
      BY <3>8, <3>1
    <3>9. CASE c \in B[i - 1]
      <4>1. PICK l \in 0 .. i - 1 : c \in HandlesIn(l) \cup S[l]
        BY <3>3, <3>7, <3>9, <1>17
      <4>2. l \in 0 .. 2 /\ l \in 0 .. k
        OBVIOUS
      <4> QED
        BY <4>1, <4>2, <3>1, <3>7
    <3> QED
      BY <3>3, <3>6, <3>7, <3>8, <3>9
  <2>6. \A D \in SUBSET Nodes :
          /\ Forced(k) \subseteq D
          /\ \A r \in HandlesIn(k) \ A[k - 1] : attached[r] \subseteq D
          /\ \A n \in D : \A c \in attached[n] \ (A[k - 1] \cup HandlesIn(k)) :
               gen[c] >= k => c \in D
          => R[k] \subseteq D
    BY <1>8 DEF Marks
  <2>7. R[k] \subseteq C
    <3> HIDE DEF C
    <3> QED
      BY <2>2, <2>3, <2>4, <2>5, <2>6
  <2> QED
    BY <2>7
<1>20. ASSUME NEW n \in Dead(0)', gen[n] <= j
       PROVE  FALSE
  <2>1. n \in nodes' /\ n \in nodes /\ gen[n] \in 0 .. 2 /\ n \notin B[gen[n]]
    BY <1>20, <1>13, <1>1, <1>22
  <2>2. PICK k \in 0 .. 2 : k = gen[n]
    BY <2>1
  <2>3. n \in A[k] /\ k <= j /\ k \in 0 - 1 .. 2
    BY <2>1, <2>2, <1>1, <1>10, <1>20
  <2>4. \/ \E i \in 0 .. 2 : n \in Forced(i)
        \/ \E i \in 0 .. k : n \in HandlesIn(i) \cup R[i]
    BY <2>3, <1>11
  <2>5. \A i \in 0 .. k : S[i] \subseteq B[k]
    <3>1. ASSUME NEW i \in 0 .. k
          PROVE  S[i] \subseteq B[k]
      <4>1. i \in 0 .. 2 /\ i \in 0 - 1 .. 2 /\ i <= k
        OBVIOUS
      <4>2. S[i] \subseteq B[i] /\ B[i] \subseteq B[k]
        BY <4>1, <2>3, <1>13, <1>17
      <4> QED
        BY <4>2
    <3> QED
      BY <3>1
  <2>6. k \in 0 .. k
    OBVIOUS
  <2>7. ASSUME NEW i \in 0 .. 2, n \in Forced(i)
        PROVE  FALSE
    <3>1. i = k
      BY <2>2, <2>7, <1>14
    <3>2. n \in S[k]
      BY <3>1, <2>3, <2>7, <1>13, <1>16
    <3> QED
      BY <3>2, <2>1, <2>2, <2>5, <2>6
  <2>8. ASSUME NEW i \in 0 .. k, n \in HandlesIn(i)
        PROVE  FALSE
    <3>1. i = k
      BY <2>2, <2>8 DEF HandlesIn
    <3> QED
      BY <3>1, <2>1, <2>2, <2>8, <1>13
  <2>9. ASSUME NEW i \in 0 .. k, n \in R[i]
        PROVE  FALSE
    <3>1. i \in 0 .. 2 /\ i <= j
      BY <2>3
    <3>2. PICK l \in 0 .. i : n \in S[l]
      BY <3>1, <2>9, <1>19
    <3>3. l \in 0 .. k
      OBVIOUS
    <3> QED
      BY <3>2, <3>3, <2>1, <2>2, <2>5
  <2> QED
    BY <2>4, <2>7, <2>8, <2>9
<1>21. \A n \in Dead(0)' : gen[n] \in Int
  BY <1>1, <1>13, <1>22
<1> QED
  BY <1>5, <1>20, <1>21

\* After anything but a FullCollect() there is nothing to show of the garbage.
LEMMA AgainAtFirst == Inv /\ fulls = 0 => Again
  BY DeadWithin, Generations DEF Again

\* The same of the state after a step.
LEMMA AgainAtFirstNext == (Inv /\ fulls = 0 => Again)'
  BY AgainAtFirst, PTL

\* With no node there is no root.
LEMMA OneInvInit == Init => OneInv
<1> SUFFICES ASSUME Init
             PROVE  OneInv
  OBVIOUS
<1> USE Generations
<1>1. Inv
  BY InvInit
<1>2. Roots
  BY DEF Init, Roots, OneHandle, HandlesIn, Nodes
<1>3. Upward
  BY DEF Init, Upward
<1>4. Again
  BY <1>1, AgainAtFirst DEF Init
<1> QED
  BY <1>1, <1>2, <1>3, <1>4 DEF OneInv

\* A new root is linked into an empty list.
LEMMA AllocRootKeepsRoots ==
  ASSUME Inv, Roots, NEW n \in Nodes, AllocRootMem(n), MaxHandles <= 1
  PROVE  Roots'
<1> USE Generations
<1>1. /\ n = used + 1 /\ nodes' = nodes \cup {n} /\ gen' = gen /\ attached' = attached
      /\ isRoot' = isRoot \cup {n} /\ handles' = handles \cup {n}
      /\ roots' = LinkRoot(roots, Youngest, n, nodes)
      /\ Cardinality(handles) < MaxHandles
  BY DEF AllocRootMem, Alloc
<1>2. handles = {}
  <2>1. IsFiniteSet(handles)
    <3>1. handles \subseteq nodes
      BY DEF Roots
    <3> QED
      BY <3>1, Small, FS_Subset DEF Inv
  <2>2. Cardinality(handles) \in Nat /\ (Cardinality(handles) = 0 <=> handles = {})
    BY <2>1, FS_CardinalityType, FS_EmptySet
  <2>3. MaxHandles \in Nat
    BY NodesAssumption
  <2> QED
    BY <2>2, <2>3, <1>1
<1>3. n \notin 1 .. used /\ gen[n] = Youngest /\ n # Null
  BY <1>1, Small DEF Inv, Fresh, Nodes, Null
<1>4. \A k \in Gens : roots.head[k] = Null /\ roots.tail[k] = Null
  BY <1>2 DEF Roots, HandlesIn
<1>5. /\ roots.head \in [Gens -> Nodes \cup {Null}] /\ roots.tail \in [Gens -> Nodes \cup {Null}]
      /\ roots \in RootLists
  BY DEF Inv, Typed, RootLists
<1>6. roots' = [roots EXCEPT !.head[Youngest] = n, !.tail[Youngest] = n]
  BY <1>1, <1>4 DEF LinkRoot
<1>7. /\ roots'.head = [roots.head EXCEPT ![Youngest] = n]
      /\ roots'.tail = [roots.tail EXCEPT ![Youngest] = n]
      /\ roots'.prev = roots.prev /\ roots'.next = roots.next
  BY <1>5, <1>6 DEF RootLists
<1>8. \A k \in Gens : /\ roots'.tail[k] = roots'.head[k]
                      /\ {roots'.head[k]} \ {Null} = {h \in handles' : gen'[h] = k}
  <2>1. ASSUME NEW k \in Gens
        PROVE  /\ roots'.tail[k] = roots'.head[k]
               /\ {roots'.head[k]} \ {Null} = {h \in handles' : gen'[h] = k}
    <3>1. CASE k = Youngest
      BY <3>1, <1>1, <1>2, <1>3, <1>5, <1>7
    <3>2. CASE k # Youngest
      BY <3>2, <1>1, <1>2, <1>3, <1>4, <1>5, <1>7
    <3> QED
      BY <3>1, <3>2
  <2> QED
    BY <2>1
<1>9. OneHandle' /\ handles' \subseteq nodes'
  BY <1>1, <1>2 DEF OneHandle
<1>10. \A m \in Nodes : attached'[m] \cap isRoot' = {}
  BY <1>1, <1>3 DEF Roots, Inv, Typed
<1>11. \A m \in Nodes : roots'.prev[m] = Null /\ roots'.next[m] = Null
  BY <1>7 DEF Roots
<1> QED
  BY <1>8, <1>9, <1>10, <1>11 DEF Roots, HandlesIn

\* The only root leaves its list empty.
LEMMA DetachRootKeepsRoots ==
  ASSUME Inv, Roots, NEW n \in Nodes, DetachRoot(n)
  PROVE  Roots'
<1> USE Generations
<1>1. /\ n \in handles /\ handles' = handles \ {n} /\ nodes' = nodes /\ gen' = gen
      /\ attached' = attached /\ isRoot' = isRoot
      /\ roots' = UnlinkRoot(roots, gen[n], n, nodes)
  BY DEF DetachRoot
<1>2. PICK k : k = gen[n]
  OBVIOUS
<1>3. k \in Gens
  BY <1>2 DEF Inv, Typed
<1>4. handles = {n}
  BY <1>1 DEF Roots, OneHandle
<1>5. roots.head[k] = n /\ roots.tail[k] = n
  <2>1. n \in HandlesIn(k)
    BY <1>1, <1>2 DEF HandlesIn
  <2> QED
    BY <2>1, <1>3 DEF Roots
<1>6. \A i \in Gens : i # k => roots.head[i] = Null /\ roots.tail[i] = Null
  BY <1>2, <1>4 DEF Roots, HandlesIn
<1>7. roots.prev[n] = Null /\ roots.next[n] = Null
  BY DEF Roots
<1>8. /\ roots'.head = [roots.head EXCEPT ![k] = Null]
      /\ roots'.tail = [roots.tail EXCEPT ![k] = Null]
      /\ roots'.prev = roots.prev /\ roots'.next = roots.next
  BY <1>1, <1>2, <1>5, <1>7 DEF UnlinkRoot
<1>9. roots.head \in [Gens -> Nodes \cup {Null}] /\ roots.tail \in [Gens -> Nodes \cup {Null}]
  BY DEF Inv, Typed, RootLists
<1>10. \A i \in Gens : roots'.head[i] = Null /\ roots'.tail[i] = Null
  BY <1>3, <1>6, <1>8, <1>9
<1>11. handles' = {}
  BY <1>1, <1>4
<1> QED
  BY <1>1, <1>8, <1>10, <1>11 DEF Roots, OneHandle, HandlesIn

\* An allocation adds a node that holds nothing.
LEMMA AllocKeepsOne ==
  ASSUME OneInv, ~wild, NEW n \in Nodes, AllocMem(n) \/ AllocRootMem(n), MaxHandles <= 1
  PROVE  Roots' /\ Upward' /\ fulls' = 0
<1>1. /\ n = used + 1 /\ nodes' = nodes \cup {n} /\ fulls' = 0
      /\ gen' = gen /\ attached' = attached
  BY DEF AllocMem, AllocRootMem, Alloc
<1>2. n \notin nodes
  BY <1>1 DEF OneInv, Inv, Typed
<1>3. attached[n] = {}
  BY <1>2 DEF OneInv, Inv, Gone
<1>4. Upward'
  BY <1>1, <1>3 DEF OneInv, Upward
<1>5. CASE AllocMem(n)
  <2>1. /\ handles' = handles /\ roots' = roots /\ isRoot' = isRoot
    BY <1>5 DEF AllocMem
  <2>2. Roots'
    BY <2>1, <1>1 DEF OneInv, Roots, OneHandle, HandlesIn
  <2> QED
    BY <2>2, <1>1, <1>4
<1>6. CASE AllocRootMem(n)
  BY <1>1, <1>4, <1>6, AllocRootKeepsRoots DEF OneInv
<1> QED
  BY <1>5, <1>6

\* A new reference leads to a node that is there and is no root.
LEMMA ReferenceKeepsOne ==
  ASSUME OneInv, ~wild, NEW parent \in Nodes, NEW child \in Nodes,
         Attach(parent, child) \/ Detach(parent, child)
  PROVE  Roots' /\ Upward' /\ fulls' = 0
<1>1. /\ nodes' = nodes /\ gen' = gen /\ handles' = handles /\ roots' = roots
      /\ isRoot' = isRoot /\ fulls' = 0 /\ attached \in [Nodes -> SUBSET (1 .. used)]
  BY DEF Attach, Detach, OneInv, Inv, Typed
<1>2. \A n \in Nodes : \A c \in attached'[n] :
        c \in attached[n] \/ (c \in nodes /\ c \notin isRoot)
  <2>1. CASE Attach(parent, child)
    <3>1. /\ attached' = [attached EXCEPT ![parent] = @ \cup {child}]
          /\ child \in nodes /\ child \notin isRoot
      BY <2>1 DEF Attach
    <3> QED
      BY <3>1, <1>1
  <2>2. CASE Detach(parent, child)
    <3>1. attached' = [attached EXCEPT ![parent] = @ \ {child}]
      BY <2>2 DEF Detach
    <3> QED
      BY <3>1, <1>1
  <2> QED
    BY <2>1, <2>2
<1>3. Roots'
  BY <1>1, <1>2 DEF OneInv, Roots, OneHandle, HandlesIn
<1>4. Upward'
  <2>1. nodes \subseteq Nodes
    BY Small DEF OneInv, Inv
  <2> QED
    BY <2>1, <1>1, <1>2 DEF OneInv, Upward
<1> QED
  BY <1>1, <1>3, <1>4

\* A step that changes nothing leaves the garbage as it is.
LEMMA ForcedStill ==
  ASSUME UNCHANGED vars
  PROVE  \A k : Forced(k)' = Forced(k)
  BY DEF Forced, vars

\* Nor what is marked.
LEMMA MarkedStill ==
  ASSUME UNCHANGED vars, NEW k, NEW a
  PROVE  Marked(k, a)' = Marked(k, a)
<1> DEFINE listed == Listed(roots, k)
           rooted == a \cup listed
           start  == Forced(k) \cup UNION {attached[r] : r \in listed \ a}
           visits == [n \in Nodes |-> {c \in attached[n] \ rooted : gen[c] >= k}]
<1>1. listed' = listed
  <2>1. roots' = roots
    BY DEF vars
  <2> QED
    BY <2>1
<1>2. Forced(k)' = Forced(k)
  BY ForcedStill
<1>3. attached' = attached /\ gen' = gen
  BY DEF vars
<1> HIDE DEF listed
<1>4. start' = start
  BY <1>1, <1>2, <1>3
<1>5. visits' = visits
  BY <1>1, <1>3
<1> HIDE DEF start, visits
<1>6. ReachableFrom(start, visits)' = ReachableFrom(start, visits)
  BY <1>4, <1>5
<1> QED
  BY <1>1, <1>6 DEF Marked, listed, start, visits

\* Nor what is dead.
LEMMA DeadStill ==
  ASSUME UNCHANGED vars
  PROVE  Dead(0)' = Dead(0)
<1> DEFINE F == UNION {Forced(i) : i \in 0 .. Youngest}
           P(f) == f = [k \in 0 - 1 .. Youngest |-> IF k < 0 THEN F ELSE Marked(k, f[k - 1])]
<1>1. F' = F
  BY ForcedStill
<1>2. \A f : P(f)' <=> P(f)
  BY <1>1, MarkedStill
<1>3. Alive(0)' = Alive(0)
  BY <1>2, Zenon DEF Alive
<1> QED
  BY <1>3 DEF Dead, vars

\* Garbage has a generation.
LEMMA DeadHasGeneration == Inv => \A n \in Dead(0) : gen[n] \in Int
<1> SUFFICES ASSUME Inv, NEW n \in Dead(0)
             PROVE  gen[n] \in Int
  OBVIOUS
<1>1. n \in Nodes
  BY DeadWithin, Small, Generations DEF Inv
<1> QED
  BY <1>1, Generations DEF Inv, Typed

\* The same of the state after a step.
LEMMA DeadHasGenerationNext == (Inv => \A n \in Dead(0) : gen[n] \in Int)'
  BY DeadHasGeneration, PTL

\* Every step keeps the roots, what the nodes hold and the garbage in order.
LEMMA OneInvNext ==
  ASSUME MaxHandles <= 1
  PROVE  OneInv /\ [Next]_vars => OneInv'
<1> SUFFICES ASSUME OneInv, [Next]_vars
             PROVE  OneInv'
  OBVIOUS
<1> USE Generations
<1>1. Inv /\ Roots /\ Upward /\ Again
  BY DEF OneInv
<1>2. Inv'
  BY <1>1, InvNext
<1>3. ASSUME Roots', Upward', fulls' = 0
      PROVE  OneInv'
  BY <1>2, <1>3, AgainAtFirstNext DEF OneInv
<1>4. ASSUME ~wild, NEW n \in Nodes, AllocMem(n) \/ AllocRootMem(n)
      PROVE  OneInv'
  BY <1>3, <1>4, AllocKeepsOne
<1>5. ASSUME ~wild, NEW n \in Nodes, DetachRoot(n)
      PROVE  OneInv'
  <2>1. Roots'
    BY <1>1, <1>5, DetachRootKeepsRoots
  <2>2. nodes' = nodes /\ gen' = gen /\ attached' = attached /\ fulls' = 0
    BY <1>5 DEF DetachRoot
  <2>3. Upward'
    BY <2>2, <1>1, <1>5 DEF Upward
  <2> QED
    BY <2>1, <2>2, <2>3, <1>3
<1>6. ASSUME ~wild, NEW parent \in Nodes, NEW child \in Nodes,
             Attach(parent, child) \/ Detach(parent, child)
      PROVE  OneInv'
  BY <1>3, <1>6, ReferenceKeepsOne
<1>7. ASSUME ~wild, NEW g \in Gens, NEW d, d = Dead(g), NEW aged \in Nat,
             g = 0 => aged = 0, CollectFrom(g, d, aged)
      PROVE  Roots' /\ Upward'
  BY <1>1, <1>7, CollectKeepsRoots, CollectKeepsUpward
<1>8. ASSUME ~wild, NEW g \in Gens, Collect(g)
      PROVE  OneInv'
  <2>1. PICK d : d = Dead(g)
    OBVIOUS
  <2>2. PICK aged \in 0 .. Len(mem[g]) :
          (g = 0 => aged = 0) /\ CollectFrom(g, d, aged)
    BY <1>8, <2>1 DEF Collect, CollectFrom
  <2>3. aged \in Nat
    <3>1. mem[g] \in Seq(Nodes)
      BY <1>1 DEF Inv, Typed
    <3> QED
      BY <3>1
  <2>4. Roots' /\ Upward'
    BY <2>1, <2>2, <2>3, <1>7, <1>8
  <2>5. fulls' = 0
    BY <1>8 DEF Collect
  <2> QED
    BY <2>4, <2>5, <1>3
<1>9. ASSUME ~wild, FullCollect
      PROVE  OneInv'
  <2>1. PICK d : d = Dead(0)
    OBVIOUS
  <2>2. CollectFrom(0, d, 0)
    BY <1>9, <2>1 DEF FullCollect, CollectFrom
  <2>3. Roots' /\ Upward'
    BY <2>1, <2>2, <1>7, <1>9
  <2>4. fulls \in 0 .. 3 /\ fulls' = IF fulls < 3 THEN fulls + 1 ELSE fulls
    BY <1>1, <1>9 DEF FullCollect, Inv, Typed
  <2>5. PICK j \in 0 .. 3 : j = fulls
    BY <2>4
  <2>6. \A n \in d : gen[n] >= j
    BY <2>1, <2>5, <1>1 DEF Again
  <2>7. \A n \in Dead(0)' : gen'[n] > j
    BY <2>1, <2>2, <2>3, <2>6, <1>1, <1>2, FullCollectSettles
  <2>8. Again'
    <3>1. \A n \in Dead(0)' : gen'[n] \in Int
      BY <1>2, DeadHasGenerationNext
    <3> QED
      BY <3>1, <2>4, <2>5, <2>7 DEF Again
  <2> QED
    BY <2>3, <2>8, <1>2 DEF OneInv
<1>10. ASSUME UNCHANGED vars
       PROVE  OneInv'
  <2>1. Roots' /\ Upward'
    BY <1>1, <1>10 DEF vars, Roots, OneHandle, HandlesIn, Upward
  <2>2. Again'
    BY <1>1, <1>10, DeadStill DEF vars, Again
  <2> QED
    BY <2>1, <2>2, <1>2 DEF OneInv
<1> QED
  BY <1>4, <1>5, <1>6, <1>8, <1>9, <1>10 DEF Next

\* With nothing left to delete, generation by generation from the oldest one,
\* what a FullCollect() has marked is reachable from the handles.
LEMMA NothingLeftIsReachable ==
  ASSUME Inv, Roots, Dead(0) = {}
  PROVE  nodes \subseteq ReachableFrom(handles, attached)
<1> USE Generations
<1> DEFINE C == ReachableFrom(handles, attached)
<1>1. PICK A, R : Marks(0, A, R)
  BY MarksExist
<1>2. handles \subseteq Nodes /\ attached \in [Nodes -> SUBSET Nodes]
  BY Small DEF Inv, Typed
<1>3. C \subseteq Nodes /\ handles \subseteq C /\ \A n \in C : attached[n] \subseteq C
  BY <1>2, ReachFacts
<1> HIDE DEF C
<1>4. \A n \in nodes : gen[n] \in 0 .. 2 /\ n \in A[gen[n]]
  <2>1. \A n \in nodes : gen[n] \in 0 .. 2
    BY Small DEF Inv, Typed
  <2> QED
    BY <2>1, <1>1 DEF Marks
<1>5. \A k \in 0 - 1 .. 2 : \A n \in A[k] :
        \/ \E i \in 0 .. 2 : n \in Forced(i)
        \/ \E i \in 0 .. k : n \in HandlesIn(i) \cup R[i]
  BY <1>1, MarksGrow
<1>6. \A i \in 0 .. 2 : Forced(i) = {n \in nodes : gen[n] = i
                          /\ \E m \in nodes : gen[m] < i /\ n \in attached[m]}
  BY ForcedIs
<1> DEFINE Good(k) == \A n \in nodes : gen[n] = k => n \in C
           Held(k) == R[k] \subseteq C
<1>7. ASSUME NEW k \in 0 .. 2, \A i \in 0 .. 2 : i < k => Good(i) /\ Held(i)
      PROVE  Good(k) /\ Held(k)
  <2>1. Forced(k) \subseteq C
    <3>1. ASSUME NEW n \in Forced(k)
          PROVE  n \in C
      <4>1. PICK m \in nodes : gen[m] < k /\ n \in attached[m]
        BY <3>1, <1>6
      <4>2. gen[m] \in 0 .. 2
        BY <1>4
      <4>3. m \in C
        BY <4>1, <4>2, <1>7
      <4> QED
        BY <4>1, <4>3, <1>3
    <3> QED
      BY <3>1
  <2>2. \A r \in HandlesIn(k) \ A[k - 1] : attached[r] \subseteq C
    BY <1>3 DEF HandlesIn
  <2>3. \A n \in C : \A c \in attached[n] \ (A[k - 1] \cup HandlesIn(k)) :
          gen[c] >= k => c \in C
    BY <1>3
  <2>4. R[k] \subseteq C
    <3>1. \A D \in SUBSET Nodes :
            /\ Forced(k) \subseteq D
            /\ \A r \in HandlesIn(k) \ A[k - 1] : attached[r] \subseteq D
            /\ \A n \in D : \A c \in attached[n] \ (A[k - 1] \cup HandlesIn(k)) :
                 gen[c] >= k => c \in D
            => R[k] \subseteq D
      BY <1>1 DEF Marks
    <3> QED
      BY <3>1, <2>1, <2>2, <2>3, <1>3
  <2>5. ASSUME NEW n \in nodes, gen[n] = k
        PROVE  n \in C
    <3>1. n \in A[k] /\ k \in 0 - 1 .. 2
      BY <2>5, <1>4
    <3>2. ASSUME NEW i \in 0 .. 2, n \in Forced(i)
          PROVE  n \in C
      BY <3>2, <2>1, <2>5, <1>6
    <3>3. ASSUME NEW i \in 0 .. k, n \in HandlesIn(i) \cup R[i]
          PROVE  n \in C
      <4>1. i \in 0 .. 2 /\ (i < k \/ i = k)
        OBVIOUS
      <4>2. R[i] \subseteq C
        BY <4>1, <2>4, <1>7
      <4> QED
        BY <4>2, <3>3, <1>3 DEF HandlesIn
    <3> QED
      BY <3>1, <3>2, <3>3, <1>5
  <2> QED
    BY <2>4, <2>5
<1>8. \A k \in 0 .. 2 : Good(k)
  <2> HIDE DEF Good, Held
  <2>1. Good(0) /\ Held(0)
    BY <1>7
  <2>2. Good(1) /\ Held(1)
    BY <2>1, <1>7
  <2>3. Good(2) /\ Held(2)
    BY <2>1, <2>2, <1>7
  <2> QED
    BY <2>1, <2>2, <2>3
<1> QED
  BY <1>4, <1>8 DEF C

\* Three FullCollect()s settle all three generations.
LEMMA OneInvReclaims == OneInv => FullCollectsReclaim
<1> SUFFICES ASSUME OneInv, fulls = MAX_GENERATIONS
             PROVE  nodes \subseteq ReachableFrom(handles, attached)
  BY DEF FullCollectsReclaim
<1> USE Generations
<1>1. Inv /\ Roots /\ \A n \in Dead(0) : gen[n] >= 3
  BY DEF OneInv, Again
<1>2. ASSUME NEW n \in Dead(0)
      PROVE  FALSE
  <2>1. n \in Nodes
    BY <1>1, DeadWithin, Small DEF Inv
  <2>2. gen[n] \in 0 .. 2
    BY <2>1, <1>1 DEF Inv, Typed
  <2> QED
    BY <2>2, <1>1
<1> QED
  BY <1>1, <1>2, NothingLeftIsReachable

\* What a step may never delete.
LEMMA OneInvKeeps ==
  ASSUME OneInv, Next
  PROVE  ReachableFrom(handles, [n \in Nodes |-> {c \in attached[n] : gen[c] >= gen[n]}])
           \subseteq nodes'
<1> USE Generations
<1> DEFINE K == ReachableFrom(handles,
                  [n \in Nodes |-> {c \in attached[n] : gen[c] >= gen[n]}])
<1>1. Inv /\ Roots /\ Upward /\ ~wild
  BY DEF OneInv, Next
<1>2. \A g \in Gens : K \subseteq nodes \ Dead(g)
  BY <1>1, KeptByCollect
<1> HIDE DEF K
<1>3. K \subseteq nodes
  BY <1>2
<1>4. ASSUME NEW n \in Nodes, AllocMem(n) \/ AllocRootMem(n) \/ DetachRoot(n)
      PROVE  nodes \subseteq nodes'
  BY <1>4 DEF AllocMem, AllocRootMem, Alloc, DetachRoot
<1>5. ASSUME NEW parent \in Nodes, NEW child \in Nodes,
             Attach(parent, child) \/ Detach(parent, child)
      PROVE  nodes \subseteq nodes'
  BY <1>5 DEF Attach, Detach
<1>6. ASSUME NEW g \in Gens, Collect(g)
      PROVE  nodes' = nodes \ Dead(g)
  BY <1>6 DEF Collect, CollectFrom
<1>7. ASSUME FullCollect
      PROVE  nodes' = nodes \ Dead(0)
  BY <1>7 DEF FullCollect, CollectFrom
<1>8. K \subseteq nodes'
  BY <1>2, <1>3, <1>4, <1>5, <1>6, <1>7 DEF Next
<1> QED
  BY <1>8 DEF K
-----------------------------------------------------------------------------
\* Every variable keeps its type, and PushNode(), PickNode() and Aging() leave
\* each node in the one list of its generation, for any number of handles.
THEOREM TypeCorrect == Spec => []TypeOK
<1>1. Inv => TypeOK
  <2> SUFFICES ASSUME Inv
               PROVE  TypeOK
    OBVIOUS
  <2>1. /\ nodes \subseteq Nodes /\ isRoot \subseteq Nodes
        /\ \A n \in Nodes : attached[n] \subseteq Nodes
    BY Small DEF Inv
  <2> QED
    BY <2>1 DEF Inv, Typed, Lists, TypeOK
<1> QED
  BY <1>1, InvInit, InvNext, PTL DEF Spec

\* retainCounts of a node are the numbers of its holders in each generation,
\* through Attach, Detach, Aging and Collect, for any number of handles.
THEOREM RetainCountsExactCorrect == Spec => []RetainCountsExact
<1>1. Inv => RetainCountsExact
  BY CountsAreExact DEF Inv
<1> QED
  BY <1>1, InvInit, InvNext, PTL DEF Spec

\* With one GCRootHandle at a time, MarkAlived() finds its root in the root
\* lists: the root is not deleted while the handle exists.
THEOREM HandlesSurviveCorrect ==
  ASSUME MaxHandles <= 1
  PROVE  Spec => []HandlesSurvive
<1>1. OneInv => HandlesSurvive
  BY DEF OneInv, Roots, HandlesSurvive
<1> QED
  BY <1>1, OneInvInit, OneInvNext, PTL DEF Spec

\* With one GCRootHandle at a time, no Collect() or FullCollect() deletes what
\* its root reaches by references that never lead to an older generation.
THEOREM KeepsWhatOlderHoldsCorrect ==
  ASSUME MaxHandles <= 1
  PROVE  Spec => KeepsWhatOlderHolds
<1>1. OneInv /\ [Next]_vars =>
        [LET older == [n \in Nodes |-> {c \in attached[n] : gen[c] >= gen[n]}]
         IN  ReachableFrom(handles, older) \subseteq nodes']_vars
  BY OneInvKeeps
<1> QED
  BY <1>1, OneInvInit, OneInvNext, PTL DEF Spec, KeepsWhatOlderHolds

\* With one GCRootHandle at a time, as many calls of FullCollect() in a row as
\* there are generations leave only what the root reaches.
THEOREM FullCollectsReclaimCorrect ==
  ASSUME MaxHandles <= 1
  PROVE  Spec => []FullCollectsReclaim
  BY OneInvReclaims, OneInvInit, OneInvNext, PTL DEF Spec
=============================================================================
