-------------------------- MODULE GarbageCollector --------------------------
(***************************************************************************)
(* The generational mark-and-sweep collector of                            *)
(* xstl/xhn_garbage_collector.hpp.  Generation 2 is the youngest; a node   *)
(* counts its references by the generation of the referring node, and a    *)
(* collection of the generations from g on keeps what an older one holds.  *)
(*                                                                         *)
(* Nodes are numbered as they are allocated and never reused.  Sizes and   *)
(* birth times are abstracted: any generation that has a node may be the   *)
(* one Collect() finds too large, and any prefix of its list may be old    *)
(* enough to age.  isAlived is local to a collection, which resets it.     *)
(***************************************************************************)
EXTENDS Integers, Sequences, FiniteSets, SequencesExt

CONSTANTS
  MaxNodes,   \* bound on allocations
  MaxHandles  \* bound on the GCRootHandles alive at a time

ASSUME NodesAssumption == MaxNodes \in Nat /\ MaxHandles \in Nat

MAX_GENERATIONS == 3
Gens     == 0 .. MAX_GENERATIONS - 1
Youngest == MAX_GENERATIONS - 1
Nodes    == 1 .. MaxNodes
Null     == 0

VARIABLES
  nodes,     \* the nodes allocated and not yet deleted
  used,      \* how many were ever allocated
  isRoot,    \* the GCRootNodes among them
  handles,   \* the root nodes whose GCRootHandle still exists
  gen,       \* generationIndex of each node
  mem,       \* by generation: the list from memHead to memTail
  roots,     \* the root lists: rootHead and rootTail by generation, rootPrev
             \* and rootNext by node; wild once a deleted node was written
  attached,  \* attachedNodes of each node
  retain,    \* retainCounts of each node
  wild,      \* a deleted node has been read or written
  fulls      \* history: FullCollect() calls since anything else ran

vars == <<nodes, used, isRoot, handles, gen, mem, roots, attached, retain,
          wild, fulls>>

Init ==
  /\ nodes = {} /\ used = 0 /\ isRoot = {} /\ handles = {}
  /\ gen = [n \in Nodes |-> Youngest]
  /\ mem = [g \in Gens |-> <<>>]
  /\ roots = [head |-> [g \in Gens |-> Null], tail |-> [g \in Gens |-> Null],
              prev |-> [n \in Nodes |-> Null], next |-> [n \in Nodes |-> Null],
              wild |-> FALSE]
  /\ attached = [n \in Nodes |-> {}]
  /\ retain = [n \in Nodes |-> [g \in Gens |-> 0]]
  /\ wild = FALSE /\ fulls = 0

\* The nodes reached from S, where n leads to follow[n]: the least set that
\* has S and is closed under follow.
ReachableFrom(S, follow) ==
  LET Closed == {C \in SUBSET Nodes : /\ S \subseteq C
                                     /\ \A n \in C : follow[n] \subseteq C}
  IN  {n \in Nodes : \A C \in Closed : n \in C}

\* How many nodes of S hold c.
Holders(S, c) == Cardinality({n \in S : c \in attached[n]})

\* The nodes of the list s that are in S, in their order.
Only(s, S) ==
  LET first[i \in 0 .. Len(s)] ==
        IF i = 0 THEN <<>>
        ELSE IF s[i] \in S THEN Append(first[i - 1], s[i]) ELSE first[i - 1]
  IN  first[Len(s)]
-----------------------------------------------------------------------------
(* Operations with a mistake in them, each refuted by the property named. *)

AllocUnlisted(n) ==                  \* TypeOK: PushNode() forgotten
  /\ n = used + 1 /\ n \in Nodes
  /\ used' = n /\ nodes' = nodes \cup {n} /\ fulls' = 0
  /\ UNCHANGED mem

AttachAgain(parent, child) ==        \* RetainCountsExact: no find() first
  /\ {parent, child} \subseteq nodes /\ child \notin isRoot
  /\ retain[child][gen[parent]] < 2 * MaxNodes
  /\ attached' = [attached EXCEPT ![parent] = @ \cup {child}]
  /\ retain' = [retain EXCEPT ![child][gen[parent]] = @ + 1]
  /\ fulls' = 0
  /\ UNCHANGED <<nodes, used, isRoot, handles, gen, mem, roots, wild>>

ForcedByOwn(k) ==                    \* FullCollectsReclaim: i <= k
  {n \in ToSet(mem[k]) : \E i \in Gens : i <= k /\ retain[n][i] > 0}

ForcedByOldest(k) ==                 \* KeepsWhatOlderHolds: i < k - 1
  {n \in ToSet(mem[k]) : \E i \in Gens : i < k - 1 /\ retain[n][i] > 0}
-----------------------------------------------------------------------------
(* The root lists. *)

LinkRoot(r, g, n, live) ==
  LET last == r.tail[g]
  IN  IF last = Null
      THEN [r EXCEPT !.head[g] = n, !.tail[g] = n]
      ELSE [r EXCEPT !.next[last] = n, !.prev[n] = last, !.tail[g] = n,
                     !.wild = @ \/ last \notin live]

\* The root part of EraseNotFree(), and DetachRoot(): the links of n itself
\* stay as they were.
UnlinkRoot(r, g, n, live) ==
  LET p == r.prev[n]
      q == r.next[n]
  IN  [head |-> IF n = r.head[g] THEN [r.head EXCEPT ![g] = q] ELSE r.head,
       tail |-> IF n = r.tail[g] THEN [r.tail EXCEPT ![g] = p] ELSE r.tail,
       next |-> IF p # Null THEN [r.next EXCEPT ![p] = q] ELSE r.next,
       prev |-> IF q # Null THEN [r.prev EXCEPT ![q] = p] ELSE r.prev,
       wild |-> r.wild \/ ~({p, q} \subseteq live \cup {Null})]

\* Aging moves a root from list g to the next older one.
MoveRoot(r, g, n, live) ==
  LET cut == UnlinkRoot(r, g, n, live)
  IN  LinkRoot([cut EXCEPT !.prev[n] = Null, !.next[n] = Null], g - 1, n, live)

\* What the loop over list g visits.
Listed(r, g) ==
  ReachableFrom({r.head[g]} \ {Null}, [n \in Nodes |-> {r.next[n]} \ {Null}])
-----------------------------------------------------------------------------
(* Allocation and references. *)

\* AllocMem() and AllocRootMem(): into the youngest generation.
Alloc(n) ==
  /\ n = used + 1 /\ n \in Nodes
  /\ used' = n
  /\ nodes' = nodes \cup {n}
  /\ mem' = [mem EXCEPT ![Youngest] = Append(@, n)]
  /\ fulls' = 0

AllocMem(n) ==
  /\ Alloc(n)
  /\ UNCHANGED <<isRoot, handles, gen, roots, attached, retain, wild>>

\* GCRootHandle()
AllocRootMem(n) ==
  /\ Cardinality(handles) < MaxHandles
  /\ Alloc(n)
  /\ isRoot' = isRoot \cup {n}
  /\ handles' = handles \cup {n}
  /\ roots' = LinkRoot(roots, Youngest, n, nodes)
  /\ wild' = roots'.wild
  /\ UNCHANGED <<gen, attached, retain>>

\* ~GCRootHandle()
DetachRoot(n) ==
  /\ n \in handles \cap nodes
  /\ handles' = handles \ {n}
  /\ roots' = UnlinkRoot(roots, gen[n], n, nodes)
  /\ wild' = roots'.wild
  /\ fulls' = 0
  /\ UNCHANGED <<nodes, used, isRoot, gen, mem, attached, retain>>

\* Nothing is attached to the object that a GCRootHandle keeps to itself.
Attach(parent, child) ==
  /\ {parent, child} \subseteq nodes /\ child \notin isRoot
  /\ child \notin attached[parent]
  /\ attached' = [attached EXCEPT ![parent] = @ \cup {child}]
  /\ retain' = [retain EXCEPT ![child][gen[parent]] = @ + 1]
  /\ fulls' = 0
  /\ UNCHANGED <<nodes, used, isRoot, handles, gen, mem, roots, wild>>

Detach(parent, child) ==
  /\ parent \in nodes /\ child \in attached[parent]
  /\ attached' = [attached EXCEPT ![parent] = @ \ {child}]
  /\ retain' = [retain EXCEPT ![child][gen[parent]] = @ - 1]
  /\ wild' = (child \notin nodes)
  /\ fulls' = 0
  /\ UNCHANGED <<nodes, used, isRoot, handles, gen, mem, roots>>
-----------------------------------------------------------------------------
(* Collection. *)

\* PrepareCollect(): the nodes of generation k that an older one holds.
Forced(k) ==
  {n \in ToSet(mem[k]) : \E i \in Gens : i < k /\ retain[n][i] > 0}

\* MarkAlived() of generation k, given the nodes alive before it.  A node
\* that is alive already is not visited again, nor is one of an older
\* generation, except as what a root holds.
Marked(k, alive) ==
  LET listed == Listed(roots, k)
      rooted == alive \cup listed
      start  == Forced(k) \cup UNION {attached[r] : r \in listed \ alive}
      visits == [n \in Nodes |-> {c \in attached[n] \ rooted : gen[c] >= k}]
  IN  rooted \cup ReachableFrom(start, visits)

\* What is alive when a collection of the generations from g on has marked
\* generation k: the oldest is marked first.
Alive(g) ==
  LET alive[k \in g - 1 .. Youngest] ==
        IF k < g THEN UNION {Forced(i) : i \in g .. Youngest}
        ELSE Marked(k, alive[k - 1])
  IN  alive

\* The dead of a generation are listed before the next one is marked.
Dead(g) ==
  LET alive == Alive(g)
  IN  UNION {ToSet(mem[k]) \ alive[k] : k \in g .. Youngest}

\* The nodes left when Collect() of generation k starts: the dead of the
\* younger ones are deleted.
LeftFor(k, dead) == nodes \ {n \in dead : gen[n] > k}

\* Collect() from generation 2 down unlinks the dead roots in list order.
SweptRoots(dead) ==
  LET gone == Only(mem[2] \o mem[1] \o mem[0], dead \cap isRoot)
      swept[i \in 0 .. Len(gone)] ==
        IF i = 0 THEN roots
        ELSE UnlinkRoot(swept[i - 1], gen[gone[i]], gone[i],
                        LeftFor(gen[gone[i]], dead))
  IN  swept[Len(gone)]

\* Aging() of the nodes moved, from the root list g of r to the older one.
AgedRoots(r, g, moved, live) ==
  LET moving == Only(moved, isRoot)
      aged[i \in 0 .. Len(moving)] ==
        IF i = 0 THEN r ELSE MoveRoot(aged[i - 1], g, moving[i], live)
  IN  aged[Len(moving)]

\* Marking reads, and sweeping writes, the nodes that those of the collected
\* generations hold; a root also has the older nodes it holds visited.
TouchesDeleted(g, dead) ==
  LET collected == UNION {ToSet(mem[k]) : k \in g .. Youngest}
      listed    == UNION {Listed(roots, k) : k \in g .. Youngest}
      held(S)   == UNION {attached[n] : n \in S \cap nodes}
      visited   == collected \cup listed \cup held(listed)
  IN  \/ ~(visited \cup held(visited) \subseteq nodes)
      \/ \E n \in dead : ~(attached[n] \subseteq LeftFor(gen[n], dead))

\* One collection, with aged the nodes of generation g old enough to move on.
CollectFrom(g, dead, aged) ==
  LET left  == [k \in Gens |-> Only(mem[k], nodes \ dead)]
      moved == SubSeq(left[g], 1, aged)
      old   == ToSet(moved)
      leave(c, k)  == Holders({n \in dead : gen[n] = k}, c)
                      + (IF k = g THEN Holders(old, c) ELSE 0)
      arrive(c, k) == IF k = g - 1 THEN Holders(old, c) ELSE 0
  IN  /\ aged <= Len(left[g])
      /\ nodes' = nodes \ dead
      /\ mem' = [k \in Gens |->
                   CASE k = g     -> SubSeq(left[k], aged + 1, Len(left[k]))
                     [] k = g - 1 -> left[k] \o moved
                     [] OTHER     -> left[k]]
      /\ gen' = [n \in Nodes |-> IF n \in old THEN g - 1 ELSE gen[n]]
      /\ roots' = AgedRoots(SweptRoots(dead), g, moved, nodes \ dead)
      /\ retain' = [c \in Nodes |-> [k \in Gens |->
                      retain[c][k] - leave(c, k) + arrive(c, k)]]
      /\ attached' = [n \in Nodes |-> IF n \in dead THEN {} ELSE attached[n]]
      /\ wild' = (roots'.wild \/ TouchesDeleted(g, dead))
      /\ UNCHANGED <<used, isRoot, handles>>

\* Collect(): the oldest generation that is too large decides; the permanent
\* generation 0 does not age.
Collect(g) ==
  /\ mem[g] # <<>>
  /\ LET dead == Dead(g)
     IN  \E aged \in 0 .. Len(mem[g]) :
           (g = 0 => aged = 0) /\ CollectFrom(g, dead, aged)
  /\ fulls' = 0

FullCollect ==
  /\ nodes # {}
  /\ CollectFrom(0, Dead(0), 0)
  /\ fulls' = IF fulls < MAX_GENERATIONS THEN fulls + 1 ELSE fulls
-----------------------------------------------------------------------------
\* What happens after an access to a deleted node is undefined.
Next ==
  /\ ~wild
  /\ \/ \E n \in Nodes : AllocMem(n) \/ AllocRootMem(n) \/ DetachRoot(n)
     \/ \E parent, child \in Nodes :
          Attach(parent, child) \/ Detach(parent, child)
     \/ \E g \in Gens : Collect(g)
     \/ FullCollect

Spec == Init /\ [][Next]_vars
-----------------------------------------------------------------------------
(* Properties. *)

\* Every variable keeps its type, and the lists hold each node once.
TypeOK ==
  /\ nodes \subseteq Nodes /\ used \in 0 .. MaxNodes
  /\ isRoot \subseteq Nodes /\ handles \subseteq isRoot
  /\ gen \in [Nodes -> Gens]
  /\ \A g \in Gens : /\ ToSet(mem[g]) = {n \in nodes : gen[n] = g}
                     /\ IsInjective(mem[g])
  /\ \A n \in Nodes : attached[n] \subseteq Nodes
  /\ wild \in BOOLEAN /\ fulls \in 0 .. MAX_GENERATIONS

\* Each node's counters are the numbers of its holders in each generation,
\* through attachments, ageing and collections.
RetainCountsExact ==
  \A n \in nodes, g \in Gens :
    retain[n][g] = Holders({m \in nodes : gen[m] = g}, n)

\* What a live root holds along references that never lead from a younger to
\* an older generation survives every collection, cycles included.
KeepsWhatOlderHolds ==
  [][LET older == [n \in Nodes |-> {c \in attached[n] : gen[c] >= gen[n]}]
     IN  ReachableFrom(handles, older) \subseteq nodes']_vars

\* A FullCollect() for each generation reclaims everything unreachable: what
\* garbage of an older generation still holds goes in the next one.
FullCollectsReclaim ==
  fulls = MAX_GENERATIONS => nodes \subseteq ReachableFrom(handles, attached)

\* "When an old node is reclaimed, the young node's reference to it must be
\* cleared, or the output table of the young node has a wild pointer" (line
\* 300): no node holds a deleted one.
NoDanglingReferences == \A n \in nodes : attached[n] \subseteq nodes

\* "Traverse all live root nodes and set their isAlived to true" (line 276):
\* a root is not reclaimed while its handle exists.
HandlesSurvive == handles \subseteq nodes
=============================================================================
