--------------------------- MODULE GpuLevelProofs ---------------------------
(***************************************************************************)
(* Proofs about what a GPU keeps of the tree being grown.                  *)
(*                                                                         *)
(* The split cache, for every capacity, packet window, depth and number of *)
(* trees: every split is searched in the histogram of its own node, no     *)
(* check of the device path fails, and each histogram that the next level  *)
(* may subtract from is kept in exactly one place.                         *)
(*                                                                         *)
(* The row arena, for every number of rows, features, levels and trees and *)
(* every way the splits send the rows: the spans of the open nodes hold    *)
(* each row once, every row is paid once, and the arena with its batched   *)
(* launches implements the splitting of row lists.                         *)
(***************************************************************************)
EXTENDS SplitCache, RowArena, FiniteSetTheorems, WellFoundedInduction, TLAPS

----------------------------------------------------------------------------
\* The inductive invariant of the cache

\* The numbers up to n.
LEMMA Counted ==
  ASSUME NEW n \in Nat
  PROVE  IsFiniteSet(1..n) /\ Cardinality(1..n) = n
<1>1. 1 \in Int /\ n \in Int
  OBVIOUS
<1>2. /\ IsFiniteSet(1..n)
      /\ Cardinality(1..n) = IF 1 > n THEN 0 ELSE n - 1 + 1
  BY <1>1, FS_Interval
<1> QED
  BY <1>2

Phases == {"begin", "submit", "collect", "host", "chosen"}

Buffers ==
  /\ DOMAIN packets = 1..Cap * Window /\ DOMAIN hist_out = 1..Cap
  /\ DOMAIN previous = 1..Cap /\ DOMAIN next = 1..Cap

LevelNode == [n : Nat \ {0}, parent : Nat, sibling : Nat]
SplitGroup == [small : Nat, large : Nat, parent : Nat]
Packet == [index : Nat, work : Nat, cached : BOOLEAN]

TypeInv ==
  /\ tree \in Nat \ {0} /\ depth \in 0..MaxDepth - 1 /\ phase \in Phases
  /\ level \in Seq(LevelNode)
  /\ todo \in Seq(SplitGroup)
  /\ pending \in Seq(Packet)
  /\ batches \in Nat /\ packet_nodes \in Nat
  /\ previous_ids \in Seq(Nat) /\ Len(previous_ids) <= Cap
  /\ next_ids \in Seq(Nat) /\ Len(next_ids) <= Cap
  /\ done \subseteq DOMAIN level
  /\ Buffers

\* The histogram the parent of node i had.
ParentOf(i) == << tree, level[i].n \div 2 >>

\* The two children of a node are at two places of the level, and at most one of them is
\* to be subtracted.
Siblings(i, s) ==
  /\ s \in DOMAIN level /\ level[s].sibling = 0
  /\ level[s].parent = level[i].parent
  /\ level[s].n # level[i].n /\ level[s].n \div 2 = level[i].n \div 2

LevelInv ==
  /\ level # << >>
  /\ depth = 0 => level = RootLevel
  /\ \A i \in DOMAIN level : level[i].sibling # 0 => Siblings(i, level[i].sibling)
  /\ \A i, j \in DOMAIN level :
       level[i].sibling # 0 /\ level[i].sibling = level[j].sibling => i = j

\* Every node finds its parent's histogram in the cache, or else on the host.
ParentsFound ==
  \A i \in DOMAIN level :
    IF CachedIn(previous_ids, level[i].parent)
    THEN \A k \in DOMAIN previous_ids :
           previous_ids[k] = level[i].parent => previous[k] = ParentOf(i)
    ELSE parents[level[i].parent] = ParentOf(i)

GroupNodes(k) == {todo[k].small, todo[k].large} \ {0}
Waiting == UNION {GroupNodes(k) : k \in DOMAIN todo}
Submitted == {pending[k].index : k \in DOMAIN pending}

\* A generation of the cache holds what its ids say.
Holds(buffer, ids) ==
  \A k \in DOMAIN ids : buffer[k] = Own(ids[k]) /\ ids[k] \in done \cup Submitted

\* What the device is through with has its winner, and its histogram one home.
Settled(ids) ==
  \A i \in done :
    /\ cand[i] = Own(i)
    /\ keep_next => IF CachedIn(ids, i) THEN host[i] = None ELSE host[i] = Own(i)

\* A group is a pair of siblings whose parent is cached, or the root.
IsGroup(k) ==
  \/ depth = 0 /\ k = 1 /\ todo[k].small = 1 /\ todo[k].large = 0 /\ todo[k].parent = 0
  \/ /\ depth > 0 /\ todo[k].large \in CachedLarge
     /\ todo[k].small = level[todo[k].large].sibling
     /\ todo[k].parent \in DOMAIN previous_ids
     /\ previous_ids[todo[k].parent] = level[todo[k].large].parent

GroupInv ==
  /\ \A k \in DOMAIN todo : IsGroup(k)
  /\ \A j, k \in DOMAIN todo : todo[j].large = todo[k].large => j = k

\* Nodes wait, are submitted and are done, and siblings are so together.
StageInv ==
  /\ GroupInv
  /\ CachedLarge \subseteq Waiting \cup Submitted \cup done
  /\ Waiting \cap (Submitted \cup done) = {} /\ Submitted \cap done = {}
  /\ Submitted \subseteq DOMAIN level
  /\ \A i \in DOMAIN level :
       level[i].sibling # 0 => /\ i \in Submitted <=> level[i].sibling \in Submitted
                               /\ i \in done <=> level[i].sibling \in done

PendingInv ==
  /\ Len(pending) = packet_nodes /\ packet_nodes <= Cap * batches
  /\ batches <= Window /\ (phase = "submit" => batches < Window)
  /\ batches = 0 <=> pending = << >>
  /\ \A j, k \in DOMAIN pending : pending[j].index = pending[k].index => j = k
  /\ \A k \in DOMAIN pending :
       /\ packets[k] = Own(pending[k].index)
       /\ pending[k].cached <=> CachedIn(next_ids, pending[k].index)
       /\ keep_next /\ ~pending[k].cached =>
            /\ batches = 1 /\ phase = "collect"
            /\ hist_out[pending[k].work] = Own(pending[k].index)

DeviceInv ==
  phase \in {"submit", "collect"} =>
    /\ depth > 0 => ParentsFound
    /\ StageInv /\ PendingInv
    /\ Holds(next, next_ids) /\ (~keep_next => next_ids = << >>)
    /\ Settled(next_ids) /\ DOMAIN host = DOMAIN level /\ DOMAIN cand = DOMAIN level
    /\ \A i \in DOMAIN level \ done : host[i] = None

HostInv ==
  phase = "host" =>
    /\ pending = << >>
    /\ Holds(previous, previous_ids) /\ cache_depth = depth
    /\ Settled(previous_ids) /\ DOMAIN host = DOMAIN level /\ DOMAIN cand = DOMAIN level
    /\ \A i \in DOMAIN level \ done :
         /\ host[i] \in {None, Own(i)}
         /\ level[i].sibling # 0 => host[i] = None /\ parents[level[i].parent] = ParentOf(i)
    /\ \A i \in DOMAIN level :
         level[i].sibling # 0 => (i \in done <=> level[i].sibling \in done)

BetweenInv ==
  /\ phase = "begin" /\ depth > 0 => ParentsFound /\ cache_depth = depth - 1
  /\ phase = "chosen" =>
       /\ cache_depth = depth /\ DOMAIN host = DOMAIN level
       /\ \A i \in DOMAIN level : cand[i] = Own(i)
       /\ keep_next => \A i \in DOMAIN level :
            IF CachedIn(previous_ids, i)
            THEN host[i] = None /\ \A k \in DOMAIN previous_ids :
                                     previous_ids[k] = i => previous[k] = Own(i)
            ELSE host[i] = Own(i)

Inv == TypeInv /\ LevelInv /\ DeviceInv /\ HostInv /\ BetweenInv
----------------------------------------------------------------------------
\* Lemmas about a level and its groups

LEMMA LevelTypes ==
  ASSUME TypeInv
  PROVE  /\ Len(level) \in Nat /\ DOMAIN level = 1..Len(level)
         /\ \A i \in DOMAIN level : /\ i \in Nat \ {0} /\ level[i].n \in Nat \ {0}
                                    /\ level[i].parent \in Nat /\ level[i].sibling \in Nat
<1>1. level \in Seq(LevelNode)
  BY DEF TypeInv
<1>2. Len(level) \in Nat /\ DOMAIN level = 1..Len(level)
  BY <1>1
<1>3. \A i \in DOMAIN level : level[i] \in LevelNode /\ i \in Nat \ {0}
  BY <1>1, <1>2
<1> QED
  BY <1>2, <1>3 DEF LevelNode

\* The increasing sequence of a finite set has its members, each once.
LEMMA OrderOfSet ==
  ASSUME NEW S \in SUBSET Nat, IsFiniteSet(S), NEW s \in InOrder(S)
  PROVE  /\ s \in Seq(S) /\ DOMAIN s = 1..Len(s)
         /\ \A i \in S : \E k \in DOMAIN s : s[k] = i
         /\ \A j, k \in DOMAIN s : s[j] = s[k] => j = k
<1>1. Cardinality(S) \in Nat
  BY FS_CardinalityType
<1> DEFINE c == Cardinality(S)
<1>2. s \in [1..c -> S] /\ \A j, k \in 1..c : j < k => s[j] < s[k]
  BY DEF InOrder
<1>3. IsFiniteSet(1..c) /\ Cardinality(1..c) = c
  BY <1>1, Counted
<1>4. \A j, k \in 1..c : s[j] = s[k] => j = k
  <2> SUFFICES ASSUME NEW j \in 1..c, NEW k \in 1..c, s[j] = s[k], j # k PROVE FALSE
    OBVIOUS
  <2>1. s[j] \in Nat /\ s[k] \in Nat
    BY <1>2
  <2> QED
    BY <1>1, <1>2, <2>1
<1>5. s \in Injection(1..c, S)
  BY <1>2, <1>4 DEF Injection, IsInjective
<1>6. s \in Surjection(1..c, S)
  BY <1>3, <1>5, FS_Injection
<1> QED
  BY <1>1, <1>2, <1>4, <1>6 DEF Surjection

LEMMA LevelIsFinite ==
  ASSUME TypeInv, NEW S \in SUBSET DOMAIN level
  PROVE  S \in SUBSET Nat /\ IsFiniteSet(S)
<1>1. DOMAIN level = 1..Len(level) /\ Len(level) \in Nat
  BY LevelTypes
<1>2. IsFiniteSet(1..Len(level))
  BY <1>1, Counted
<1> QED
  BY <1>1, <1>2, FS_Subset

LEMMA Halves == \A n \in Nat : n \div 2 \in Nat /\ n \in {2 * (n \div 2), 2 * (n \div 2) + 1}
  OBVIOUS

LEMMA ChildHalf ==
  ASSUME NEW n \in Nat \ {0}, NEW d \in {0, 1}, NEW c, c = 2 * n + d
  PROVE  c \in Nat \ {0} /\ c \div 2 = n
  OBVIOUS

\* The histogram of a node is its parent's minus its sibling's.
LEMMA MinusSibling ==
  ASSUME TypeInv, NEW i \in DOMAIN level, NEW s \in DOMAIN level,
         level[s].n # level[i].n, level[s].n \div 2 = level[i].n \div 2
  PROVE  Minus(ParentOf(i), Own(s)) = Own(i)
<1> DEFINE q == level[i].n \div 2
<1>1. level[i].n \in Nat /\ level[s].n \in Nat /\ tree \in Nat
  BY LevelTypes DEF TypeInv
<1>2. level[i].n \in {2 * q, 2 * q + 1} /\ level[s].n \in {2 * q, 2 * q + 1} /\ q \in Nat
  BY <1>1, Halves
<1>3. 4 * q + 1 - level[s].n = level[i].n
  BY <1>1, <1>2
<1> QED
  BY <1>2, <1>3 DEF Minus, ParentOf, Own

\* The nodes of different groups are different nodes of the level.
LEMMA GroupFacts ==
  ASSUME TypeInv, LevelInv, GroupInv
  PROVE  /\ \A k \in DOMAIN todo : GroupNodes(k) \subseteq DOMAIN level /\ todo[k].small \in GroupNodes(k)
         /\ \A j, k \in DOMAIN todo : j # k => GroupNodes(j) \cap GroupNodes(k) = {}
         /\ \A k \in DOMAIN todo :
              todo[k].large # 0 => /\ depth > 0 /\ todo[k].large \in DOMAIN level
                                   /\ Siblings(todo[k].large, todo[k].small)
<1>1. 0 \notin DOMAIN level
  BY LevelTypes
<1>2. ASSUME NEW k \in DOMAIN todo
      PROVE  /\ GroupNodes(k) \subseteq DOMAIN level /\ todo[k].small \in GroupNodes(k)
             /\ todo[k].large # 0 => /\ depth > 0 /\ todo[k].large \in DOMAIN level
                                     /\ Siblings(todo[k].large, todo[k].small)
  <2>1. IsGroup(k)
    BY DEF GroupInv
  <2>2. CASE depth = 0
    <3>1. 1 \in DOMAIN level
      BY <2>2 DEF LevelInv, RootLevel
    <3> QED
      BY <2>1, <2>2, <3>1 DEF IsGroup, GroupNodes
  <2>3. CASE depth > 0
    <3>1. todo[k].large \in DOMAIN level /\ level[todo[k].large].sibling # 0
          /\ todo[k].small = level[todo[k].large].sibling
      BY <2>1, <2>3 DEF IsGroup, CachedLarge
    <3>2. Siblings(todo[k].large, todo[k].small) /\ todo[k].small \in DOMAIN level
      BY <3>1 DEF LevelInv, Siblings
    <3> QED
      BY <1>1, <2>3, <3>1, <3>2 DEF GroupNodes
  <2> QED
    BY <2>2, <2>3 DEF TypeInv
<1>3. ASSUME NEW j \in DOMAIN todo, NEW k \in DOMAIN todo, j # k
      PROVE  GroupNodes(j) \cap GroupNodes(k) = {}
  <2>1. IsGroup(j) /\ IsGroup(k)
    BY DEF GroupInv
  <2>2. depth > 0
    BY <1>3, <2>1 DEF IsGroup
  <2>3. todo[j].large # todo[k].large
    BY <1>3 DEF GroupInv
  <2>4. /\ todo[j].large \in DOMAIN level /\ level[todo[j].large].sibling = todo[j].small
        /\ todo[k].large \in DOMAIN level /\ level[todo[k].large].sibling = todo[k].small
        /\ todo[j].small # 0 /\ todo[k].small # 0
    BY <2>1, <2>2 DEF IsGroup, CachedLarge
  <2>5. todo[j].small # todo[k].small
    BY <2>3, <2>4 DEF LevelInv
  <2>6. level[todo[j].small].sibling = 0 /\ level[todo[k].small].sibling = 0
    BY <2>4 DEF LevelInv, Siblings
  <2>7. todo[j].small # todo[k].large /\ todo[j].large # todo[k].small
    BY <2>4, <2>6
  <2> QED
    BY <2>3, <2>5, <2>7 DEF GroupNodes
<1> QED
  BY <1>2, <1>3

LEMMA ChunkFacts ==
  ASSUME TypeInv, todo # << >>
  PROVE  /\ Len(todo) \in Nat /\ DOMAIN todo = 1..Len(todo)
         /\ Len(Chunk) \in 1..Len(todo) /\ 2 * Len(Chunk) <= Cap
         /\ \A k \in 1..Len(Chunk) : Chunk[k] = todo[k]
<1> DEFINE half == Cap \div 2
<1>1. half \in Nat \ {0} /\ 2 * half <= Cap
  BY SplitCacheParams DEF CacheParams
<1>2. todo \in Seq(SplitGroup) /\ Len(todo) \in Nat \ {0} /\ DOMAIN todo = 1..Len(todo)
  BY DEF TypeInv
<1> DEFINE c == IF Len(todo) < half THEN Len(todo) ELSE half
<1>3. c \in 1..Len(todo) /\ c <= half
  BY <1>1, <1>2
<1> HIDE DEF half
<1>4. Chunk = SubSeq(todo, 1, c)
  BY DEF Chunk, half
<1> HIDE DEF c
<1>5. Len(Chunk) = c /\ \A k \in 1..c : Chunk[k] = todo[k]
  BY <1>2, <1>3, <1>4
<1>6. 2 * c <= Cap
  BY <1>1, <1>2, <1>3, SplitCacheParams DEF CacheParams
<1> QED
  BY <1>2, <1>3, <1>5, <1>6

\* What the e-th entry of a chunk is.
EntryOf(e, k) ==
  \/ e % 2 = 1 /\ Entries(Chunk)[e] =
                    [index |-> todo[k].small, work |-> k, small |-> k, parent |-> 0]
  \/ /\ e % 2 = 0 /\ depth > 0 /\ todo[k].large # 0
     /\ Entries(Chunk)[e] = [index |-> todo[k].large, work |-> Len(Chunk) + k, small |-> k,
                             parent |-> todo[k].parent]

LEMMA Entry ==
  ASSUME TypeInv, LevelInv, GroupInv, todo # << >>
  PROVE  /\ NodesOf(Chunk) \in 1..Cap /\ DOMAIN Entries(Chunk) = 1..NodesOf(Chunk)
         /\ NodesOf(Chunk) = IF depth = 0 THEN 1 ELSE 2 * Len(Chunk)
         /\ \A e \in 1..NodesOf(Chunk) :
              /\ (e + 1) \div 2 \in 1..Len(Chunk)
              /\ EntryOf(e, (e + 1) \div 2)
<1>1. /\ Len(Chunk) \in Nat \ {0} /\ Len(Chunk) <= Len(todo) /\ 2 * Len(Chunk) <= Cap
      /\ DOMAIN todo = 1..Len(todo) /\ Len(todo) \in Nat
      /\ \A k \in 1..Len(Chunk) : Chunk[k] = todo[k]
  BY ChunkFacts
<1>2. \A k \in 1..Len(Chunk) : IsGroup(k)
  BY <1>1 DEF GroupInv
<1>3. 1 \in 1..Len(Chunk) /\ Chunk[1] = todo[1]
  BY <1>1
<1>4. NodesOf(Chunk) = IF depth = 0 THEN 1 ELSE 2 * Len(Chunk)
  <2>1. CASE depth = 0
    BY <1>2, <1>3, <2>1 DEF IsGroup, NodesOf
  <2>2. CASE depth > 0
    <3>1. todo[1].large \in DOMAIN level
      BY <1>2, <1>3, <2>2 DEF IsGroup, CachedLarge
    <3>2. todo[1].large # 0
      BY <3>1, LevelTypes
    <3> QED
      BY <1>3, <2>2, <3>2 DEF NodesOf
  <2> QED
    BY <2>1, <2>2 DEF TypeInv
<1>5. NodesOf(Chunk) \in 1..Cap
  BY <1>1, <1>4, SplitCacheParams DEF CacheParams
<1>6. DOMAIN Entries(Chunk) = 1..NodesOf(Chunk)
  BY DEF Entries
<1>7. ASSUME NEW e \in 1..NodesOf(Chunk), NEW k, k = (e + 1) \div 2
      PROVE  k \in 1..Len(Chunk) /\ EntryOf(e, k)
  <2>1. k \in 1..Len(Chunk) /\ e % 2 \in {0, 1} /\ (depth = 0 => e % 2 = 1)
    BY <1>1, <1>4, <1>5, <1>7
  <2>2. Chunk[k] = todo[k] /\ IsGroup(k)
    BY <1>1, <1>2, <2>1
  <2>3. Entries(Chunk)[e] =
          IF e % 2 = 1
          THEN [index |-> Chunk[k].small, work |-> k, small |-> k, parent |-> 0]
          ELSE [index |-> Chunk[k].large, work |-> Len(Chunk) + k, small |-> k,
                parent |-> Chunk[k].parent]
    BY <1>7 DEF Entries
  <2>4. CASE e % 2 = 1
    BY <2>1, <2>2, <2>3, <2>4 DEF EntryOf
  <2>5. CASE e % 2 = 0
    <3>1. depth > 0
      BY <2>1, <2>5 DEF TypeInv
    <3>2. todo[k].large \in DOMAIN level
      BY <2>2, <3>1 DEF IsGroup, CachedLarge
    <3>3. todo[k].large # 0
      BY <3>2, LevelTypes
    <3> QED
      BY <2>1, <2>2, <2>3, <2>5, <3>1, <3>3 DEF EntryOf
  <2> QED
    BY <2>1, <2>4, <2>5
<1> QED
  BY <1>4, <1>5, <1>6, <1>7

\* The entries of a chunk are the nodes of its groups, each once and with a working slot
\* of its own, and the histogram computed for an entry is that of its node.
LEMMA EntryFacts ==
  ASSUME TypeInv, LevelInv, GroupInv, depth > 0 => ParentsFound, todo # << >>,
         NEW e \in 1..NodesOf(Chunk)
  PROVE  LET E == Entries(Chunk) IN
         /\ \E k \in 1..Len(Chunk) : E[e].index \in GroupNodes(k)
         /\ E[e].index \in DOMAIN level /\ E[e].work \in 1..NodesOf(Chunk)
         /\ \A f \in 1..NodesOf(Chunk) : /\ E[e].index = E[f].index => e = f
                                         /\ E[e].work = E[f].work => e = f
         /\ Own(E[e].index) =
              IF E[e].parent = 0 THEN << tree, level[Chunk[E[e].work].small].n >>
              ELSE Minus(previous[E[e].parent], << tree, level[Chunk[E[e].small].small].n >>)
<1> DEFINE E == Entries(Chunk)
           K(x) == (x + 1) \div 2
<1>1. /\ Len(Chunk) \in Nat \ {0} /\ Len(Chunk) <= Len(todo)
      /\ DOMAIN todo = 1..Len(todo) /\ Len(todo) \in Nat
      /\ \A k \in 1..Len(Chunk) : Chunk[k] = todo[k] /\ k \in DOMAIN todo
  BY ChunkFacts
<1>2. NodesOf(Chunk) \in Nat /\ NodesOf(Chunk) = IF depth = 0 THEN 1 ELSE 2 * Len(Chunk)
  BY Entry, SplitCacheParams DEF CacheParams
<1>3. \A f \in 1..NodesOf(Chunk) : K(f) \in 1..Len(Chunk) /\ EntryOf(f, K(f))
  BY Entry
<1>4. depth \in Nat
  BY DEF TypeInv
<1>5. ASSUME NEW f \in 1..NodesOf(Chunk), NEW k, k = K(f)
      PROVE  E[f].index \in GroupNodes(k) /\ E[f].work \in 1..NodesOf(Chunk)
  <2>1. k \in 1..Len(Chunk) /\ k \in DOMAIN todo /\ EntryOf(f, k)
    BY <1>1, <1>3, <1>5
  <2>2. todo[k].small \in GroupNodes(k)
    BY <2>1, GroupFacts
  <2>3. CASE f % 2 = 1
    <3>1. E[f].index = todo[k].small /\ E[f].work = k
      BY <2>1, <2>3 DEF EntryOf
    <3>2. k \in 1..NodesOf(Chunk)
      BY <1>2, <1>5, <2>1
    <3> QED
      BY <2>2, <3>1, <3>2
  <2>4. CASE f % 2 = 0
    <3>1. E[f].index = todo[k].large /\ E[f].work = Len(Chunk) + k
          /\ depth > 0 /\ todo[k].large # 0
      BY <2>1, <2>4 DEF EntryOf
    <3>2. E[f].work \in 1..NodesOf(Chunk)
      BY <1>1, <1>2, <2>1, <3>1
    <3> QED
      BY <3>1, <3>2 DEF GroupNodes
  <2> QED
    BY <1>2, <2>1, <2>3, <2>4 DEF EntryOf
<1>6. ASSUME NEW f \in 1..NodesOf(Chunk), E[e].index = E[f].index PROVE e = f
  <2>1. K(e) = K(f)
    <3>1. K(e) \in DOMAIN todo /\ K(f) \in DOMAIN todo
      BY <1>1, <1>3
    <3> QED
      BY <1>5, <1>6, <3>1, GroupFacts
  <2>2. CASE e % 2 = f % 2
    BY <1>2, <2>1, <2>2
  <2>3. CASE e % 2 # f % 2
    <3>1. PICK k \in 1..Len(Chunk) : k = K(e)
      BY <1>3
    <3>2. EntryOf(e, k) /\ EntryOf(f, k) /\ k \in DOMAIN todo
      BY <1>1, <1>3, <2>1, <3>1
    <3>3. todo[k].large = todo[k].small /\ todo[k].large # 0
      BY <1>6, <2>3, <3>2 DEF EntryOf
    <3>4. Siblings(todo[k].large, todo[k].small)
      BY <3>2, <3>3, GroupFacts
    <3> QED
      BY <3>3, <3>4 DEF Siblings
  <2> QED
    BY <2>2, <2>3
<1>7. ASSUME NEW f \in 1..NodesOf(Chunk), E[e].work = E[f].work PROVE e = f
  <2>1. PICK j \in 1..Len(Chunk), k \in 1..Len(Chunk) : j = K(e) /\ k = K(f)
    BY <1>3
  <2>2. EntryOf(e, j) /\ EntryOf(f, k)
    BY <1>3, <2>1
  <2>3. j = k /\ e % 2 = f % 2
    BY <1>1, <1>7, <2>2 DEF EntryOf
  <2> QED
    BY <1>2, <2>1, <2>3
<1>8. Own(E[e].index) =
        IF E[e].parent = 0 THEN << tree, level[Chunk[E[e].work].small].n >>
        ELSE Minus(previous[E[e].parent], << tree, level[Chunk[E[e].small].small].n >>)
  <2>1. PICK k \in 1..Len(Chunk) : k = K(e)
    BY <1>3
  <2>2. EntryOf(e, k) /\ k \in DOMAIN todo /\ Chunk[k] = todo[k]
    BY <1>1, <1>3, <2>1
  <2>3. CASE e % 2 = 1
    <3>1. E[e].parent = 0 /\ E[e].work = k /\ E[e].index = todo[k].small
      BY <2>2, <2>3 DEF EntryOf
    <3> QED
      BY <2>2, <3>1 DEF Own
  <2>4. CASE e % 2 = 0
    <3>1. /\ depth > 0 /\ E[e].index = todo[k].large /\ E[e].small = k
          /\ E[e].parent = todo[k].parent /\ todo[k].large # 0
      BY <2>2, <2>4 DEF EntryOf
    <3>2. IsGroup(k)
      BY <2>2 DEF GroupInv
    <3>3. /\ todo[k].parent \in DOMAIN previous_ids
          /\ previous_ids[todo[k].parent] = level[todo[k].large].parent
          /\ todo[k].large \in DOMAIN level
      BY <3>1, <3>2 DEF IsGroup, CachedLarge
    <3>4. previous[todo[k].parent] = ParentOf(todo[k].large)
      BY <3>1, <3>3 DEF ParentsFound, CachedIn
    <3>5. Siblings(todo[k].large, todo[k].small)
      BY <2>2, <3>1, GroupFacts
    <3>6. Minus(ParentOf(todo[k].large), Own(todo[k].small)) = Own(todo[k].large)
      BY <3>3, <3>5, MinusSibling DEF Siblings
    <3>7. todo[k].parent # 0
      BY <3>3 DEF TypeInv
    <3> QED
      BY <2>2, <3>1, <3>4, <3>6, <3>7 DEF Own
  <2> QED
    BY <1>2, <2>2, <2>3, <2>4 DEF EntryOf
<1>9. PICK k \in 1..Len(Chunk) : k = K(e)
  BY <1>3
<1>10. E[e].index \in GroupNodes(k) /\ E[e].work \in 1..NodesOf(Chunk) /\ GroupNodes(k) \subseteq DOMAIN level
  BY <1>1, <1>5, <1>9, GroupFacts
<1> QED
  BY <1>6, <1>7, <1>8, <1>9, <1>10

----------------------------------------------------------------------------
\* Every step keeps the invariant

LEMMA Initially ==
  ASSUME Init
  PROVE  Inv
<1>1. TypeInv
  <2>1. RootLevel \in Seq(LevelNode) /\ DOMAIN RootLevel = {1}
    BY DEF RootLevel, LevelNode
  <2>2. << >> \in Seq(SplitGroup) /\ << >> \in Seq(Packet) /\ << >> \in Seq(Nat)
        /\ Len(<< >>) = 0
    OBVIOUS
  <2>3. Cap \in Nat /\ 0 \in 0..MaxDepth - 1
    BY SplitCacheParams DEF CacheParams
  <2> QED
    BY <2>1, <2>2, <2>3 DEF Init, TypeInv, Phases, Buffers
<1>2. LevelInv
  BY DEF Init, LevelInv, RootLevel
<1> QED
  BY <1>1, <1>2 DEF Init, Inv, DeviceInv, HostInv, BetweenInv

LEMMA CacheBeginKeeps ==
  ASSUME Inv, BeginSplitLevel
  PROVE  Inv'
<1>1. /\ TypeInv /\ LevelInv /\ phase = "begin" /\ depth \in Nat
      /\ depth > 0 => ParentsFound /\ cache_depth = depth - 1
  BY DEF Inv, BetweenInv, BeginSplitLevel, TypeInv
<1>2. /\ UNCHANGED << tree, depth, level, parents, packets, hist_out, previous, next, cache_depth >>
      /\ next_ids' = << >> /\ batches' = 0 /\ pending' = << >> /\ packet_nodes' = 0 /\ done' = {}
      /\ previous_ids' = (IF depth = 0 THEN << >> ELSE previous_ids)
      /\ cand' = [i \in DOMAIN level |-> None] /\ host' = [i \in DOMAIN level |-> None]
      /\ phase' = "submit"
  BY <1>1 DEF BeginSplitLevel, device
<1>3. LevelInv'
  BY <1>1, <1>2 DEF LevelInv, RootLevel, Siblings
<1>4. CASE depth = 0
  <2>1. todo' = RootGroup
    BY <1>4 DEF BeginSplitLevel
  <2>2. todo' \in Seq(SplitGroup) /\ DOMAIN todo' = {1} /\ todo'[1].small = 1
        /\ todo'[1].large = 0 /\ todo'[1].parent = 0
    BY <2>1 DEF RootGroup, SplitGroup
  <2>3. TypeInv'
    BY <1>1, <1>2, <1>4, <2>2, SplitCacheParams DEF TypeInv, Phases, Buffers, CacheParams
  <2>4. GroupInv'
    BY <1>2, <1>4, <2>2 DEF GroupInv, IsGroup
  <2>5. CachedLarge' = {}
    BY <1>2, <1>4 DEF CachedLarge, CachedIn
  <2> QED
    BY <1>2, <1>3, <1>4, <2>3, <2>4, <2>5, SplitCacheParams
    DEF Inv, DeviceInv, HostInv, BetweenInv, StageInv, PendingInv, Holds, Settled, Submitted,
        CacheParams
<1>5. CASE depth > 0
  <2>1. PICK big \in InOrder(CachedLarge) : todo' = Groups(big)
    BY <1>5 DEF BeginSplitLevel
  <2>2. CachedLarge \subseteq DOMAIN level
    BY DEF CachedLarge
  <2>3. /\ big \in Seq(CachedLarge) /\ DOMAIN big = 1..Len(big) /\ Len(big) \in Nat
        /\ \A i \in CachedLarge : \E k \in DOMAIN big : big[k] = i
        /\ \A j, k \in DOMAIN big : big[j] = big[k] => j = k
        /\ \A k \in DOMAIN big : big[k] \in CachedLarge
    BY <1>1, <2>1, <2>2, LevelIsFinite, OrderOfSet
  <2>4. previous_ids' = previous_ids /\ CachedLarge' = CachedLarge
    BY <1>2, <1>5 DEF CachedLarge, CachedIn
  <2>5. ASSUME NEW k \in DOMAIN big
        PROVE  /\ todo'[k] \in SplitGroup /\ todo'[k].large = big[k]
               /\ todo'[k].small = level[big[k]].sibling
               /\ todo'[k].parent \in DOMAIN previous_ids
               /\ previous_ids[todo'[k].parent] = level[big[k]].parent
    <3>1. todo'[k] = [small |-> level[big[k]].sibling, large |-> big[k],
                      parent |-> SlotOf(previous_ids, level[big[k]].parent)]
      BY <2>1 DEF Groups
    <3>2. big[k] \in DOMAIN level /\ CachedIn(previous_ids, level[big[k]].parent)
      BY <2>3 DEF CachedLarge
    <3>3. SlotOf(previous_ids, level[big[k]].parent) \in DOMAIN previous_ids
          /\ previous_ids[SlotOf(previous_ids, level[big[k]].parent)] = level[big[k]].parent
      BY <3>2 DEF CachedIn, SlotOf
    <3>4. DOMAIN previous_ids \subseteq Nat
      BY <1>1 DEF TypeInv
    <3>5. big[k] \in Nat /\ level[big[k]].sibling \in Nat
      BY <1>1, <3>2, LevelTypes
    <3>6. SlotOf(previous_ids, level[big[k]].parent) \in Nat
      BY <3>3, <3>4, Zenon
    <3> QED
      BY <3>1, <3>3, <3>5, <3>6 DEF SplitGroup
  <2>6. DOMAIN todo' = DOMAIN big /\ todo' \in Seq(SplitGroup)
    <3>1. todo' = [k \in 1..Len(big) |-> todo'[k]]
      BY <2>1, <2>3 DEF Groups
    <3> QED
      BY <2>3, <2>5, <3>1
  <2>7. TypeInv'
    BY <1>1, <1>2, <2>4, <2>6, SplitCacheParams DEF TypeInv, Phases, Buffers, CacheParams
  <2>8. GroupInv'
    BY <1>2, <1>5, <2>3, <2>4, <2>5, <2>6 DEF GroupInv, IsGroup
  <2>9. CachedLarge' \subseteq Waiting'
    <3> SUFFICES ASSUME NEW i \in CachedLarge PROVE \E k \in DOMAIN todo' : i \in GroupNodes(k)'
      BY <2>4 DEF Waiting
    <3>1. PICK k \in DOMAIN big : big[k] = i
      BY <2>3
    <3>2. i # 0
      BY <1>1, LevelTypes DEF CachedLarge
    <3> QED
      BY <2>5, <2>6, <3>1, <3>2 DEF GroupNodes
  <2>10. ParentsFound'
    BY <1>1, <1>2, <1>5, <2>4 DEF ParentsFound, CachedIn, ParentOf
  <2> QED
    BY <1>2, <1>3, <1>5, <2>7, <2>8, <2>9, <2>10, SplitCacheParams
    DEF Inv, DeviceInv, HostInv, BetweenInv, StageInv, PendingInv, Holds, Settled, Submitted,
        CacheParams
<1> QED
  BY <1>1, <1>4, <1>5

\* The nodes of the next chunk.
ChunkNodes == UNION {GroupNodes(k) : k \in 1..Len(Chunk)}

LEMMA ChunkNodesFacts ==
  ASSUME TypeInv, LevelInv, GroupInv, depth > 0 => ParentsFound, todo # << >>
  PROVE  /\ ChunkNodes = {Entries(Chunk)[e].index : e \in 1..NodesOf(Chunk)}
         /\ ChunkNodes \subseteq Waiting /\ ChunkNodes \subseteq DOMAIN level
         /\ \A k \in (Len(Chunk) + 1)..Len(todo) : GroupNodes(k) \cap ChunkNodes = {}
         /\ \A i \in DOMAIN level : level[i].sibling # 0 =>
              (i \in ChunkNodes <=> level[i].sibling \in ChunkNodes)
<1>1. /\ Len(Chunk) \in Nat \ {0} /\ Len(Chunk) <= Len(todo)
      /\ DOMAIN todo = 1..Len(todo) /\ Len(todo) \in Nat
      /\ \A k \in 1..Len(Chunk) : k \in DOMAIN todo
  BY ChunkFacts
<1>2. NodesOf(Chunk) \in Nat /\ NodesOf(Chunk) = IF depth = 0 THEN 1 ELSE 2 * Len(Chunk)
  <2>1. NodesOf(Chunk) \in 1..Cap /\ NodesOf(Chunk) = IF depth = 0 THEN 1 ELSE 2 * Len(Chunk)
    BY Entry, Zenon
  <2>2. \A m \in 1..Cap : m \in Nat
    BY SplitCacheParams DEF CacheParams
  <2> QED
    BY <2>1, <2>2, Zenon
<1>3. \A e \in 1..NodesOf(Chunk) : Entries(Chunk)[e].index \in ChunkNodes
  BY EntryFacts DEF ChunkNodes
<1>4. ASSUME NEW k \in 1..Len(Chunk), NEW i \in GroupNodes(k)
      PROVE  \E e \in 1..NodesOf(Chunk) : Entries(Chunk)[e].index = i
  <2>1. IsGroup(k)
    BY <1>1 DEF GroupInv
  <2>2. CASE i = todo[k].small
    <3>1. 2 * k - 1 \in 1..NodesOf(Chunk)
      BY <1>1, <1>2, <2>1 DEF IsGroup
    <3>2. EntryOf(2 * k - 1, k)
      <4>1. (2 * k - 1 + 1) \div 2 = k
        OBVIOUS
      <4> QED
        BY <3>1, <4>1, Entry
    <3>3. (2 * k - 1) % 2 = 1
      OBVIOUS
    <3> QED
      BY <2>2, <3>1, <3>2, <3>3 DEF EntryOf
  <2>3. CASE i # todo[k].small
    <3>1. i = todo[k].large /\ i # 0
      BY <2>3 DEF GroupNodes
    <3>2. depth > 0
      BY <2>1, <3>1 DEF IsGroup
    <3>3. 2 * k \in 1..NodesOf(Chunk)
      BY <1>1, <1>2, <3>2
    <3>4. EntryOf(2 * k, k)
      <4>1. (2 * k + 1) \div 2 = k
        OBVIOUS
      <4> QED
        BY <3>3, <4>1, Entry
    <3>5. (2 * k) % 2 = 0
      OBVIOUS
    <3> QED
      BY <3>1, <3>3, <3>4, <3>5 DEF EntryOf
  <2> QED
    BY <2>2, <2>3
<1>5. ChunkNodes = {Entries(Chunk)[e].index : e \in 1..NodesOf(Chunk)}
  BY <1>3, <1>4 DEF ChunkNodes
<1>6. ChunkNodes \subseteq Waiting
  BY <1>1 DEF ChunkNodes, Waiting
<1>7. ChunkNodes \subseteq DOMAIN level
  BY <1>1, GroupFacts DEF ChunkNodes
<1>8. ASSUME NEW k \in (Len(Chunk) + 1)..Len(todo) PROVE GroupNodes(k) \cap ChunkNodes = {}
  <2> SUFFICES ASSUME NEW j \in 1..Len(Chunk) PROVE GroupNodes(k) \cap GroupNodes(j) = {}
    BY DEF ChunkNodes
  <2>1. k \in DOMAIN todo /\ j \in DOMAIN todo /\ j # k
    BY <1>1
  <2> QED
    BY <2>1, GroupFacts
<1>9. ASSUME NEW i \in DOMAIN level, level[i].sibling # 0
      PROVE  i \in ChunkNodes <=> level[i].sibling \in ChunkNodes
  <2>1. depth > 0
    BY <1>9 DEF LevelInv, RootLevel, TypeInv
  <2>2. \A k \in 1..Len(Chunk) : /\ todo[k].large \in DOMAIN level
                                 /\ level[todo[k].large].sibling = todo[k].small
                                 /\ level[todo[k].large].sibling # 0
    BY <1>1, <2>1 DEF GroupInv, IsGroup, CachedLarge
  <2>3. \A k \in 1..Len(Chunk) : level[todo[k].small].sibling = 0
    BY <2>2 DEF LevelInv, Siblings
  <2>4. level[level[i].sibling].sibling = 0
    BY <1>9 DEF LevelInv, Siblings
  <2>5. ASSUME i \in ChunkNodes PROVE level[i].sibling \in ChunkNodes
    <3>1. PICK k \in 1..Len(Chunk) : i \in GroupNodes(k)
      BY <2>5 DEF ChunkNodes
    <3>2. i = todo[k].large
      BY <1>9, <2>3, <3>1 DEF GroupNodes
    <3>3. level[i].sibling \in GroupNodes(k)
      BY <1>9, <2>2, <3>2 DEF GroupNodes
    <3> QED
      BY <3>3 DEF ChunkNodes
  <2>6. ASSUME level[i].sibling \in ChunkNodes PROVE i \in ChunkNodes
    <3>1. PICK k \in 1..Len(Chunk) : level[i].sibling \in GroupNodes(k)
      BY <2>6 DEF ChunkNodes
    <3>2. level[i].sibling = todo[k].small
      BY <2>2, <2>4, <3>1 DEF GroupNodes
    <3>3. i = todo[k].large
      BY <1>9, <2>2, <3>2 DEF LevelInv
    <3>4. i # 0
      BY LevelTypes
    <3> QED
      BY <3>3, <3>4 DEF GroupNodes, ChunkNodes
  <2> QED
    BY <2>5, <2>6
<1> QED
  BY <1>5, <1>6, <1>7, <1>8, <1>9

\* What Submit does when nothing is refused.
Fitting == IF ~keep_next THEN 0
        ELSE IF Cap - Len(next_ids) < NodesOf(Chunk) THEN Cap - Len(next_ids) ELSE NodesOf(Chunk)

Batch == Entries(Chunk)
ChunkSize == NodesOf(Chunk)

LEMMA SubmitEffect ==
  ASSUME Inv, Submit
  PROVE  /\ TypeInv /\ LevelInv /\ StageInv /\ PendingInv /\ Holds(next, next_ids)
         /\ Settled(next_ids) /\ (~keep_next => next_ids = << >>)
         /\ DOMAIN host = DOMAIN level /\ DOMAIN cand = DOMAIN level
         /\ \A i \in DOMAIN level \ done : host[i] = None
         /\ depth > 0 => ParentsFound
         /\ phase = "submit" /\ todo # << >> /\ ~(Spills /\ batches > 0)
         /\ ChunkSize \in 1..Cap /\ DOMAIN Batch = 1..ChunkSize
         /\ UNCHANGED << tree, depth, level, parents, host, previous, previous_ids, cache_depth,
                         done, cand >>
         /\ next_ids' = next_ids \o [k \in 1..Fitting |-> Batch[k].index]
         /\ batches' = batches + 1
         /\ pending' = pending \o [k \in DOMAIN Batch |->
              [index |-> Batch[k].index, work |-> Batch[k].work, cached |-> k <= Fitting]]
         /\ packet_nodes' = packet_nodes + ChunkSize
         /\ todo' = SubSeq(todo, Len(Chunk) + 1, Len(todo))
         /\ phase' = IF Spills \/ batches + 1 = Window THEN "collect" ELSE "submit"
         /\ DOMAIN packets' = DOMAIN packets /\ DOMAIN next' = 1..Cap
         /\ DOMAIN hist_out' = 1..Cap
         /\ \A p \in DOMAIN packets :
              /\ p - packet_nodes \in 1..ChunkSize =>
                   packets'[p] = Own(Batch[p - packet_nodes].index)
              /\ p - packet_nodes \notin 1..ChunkSize => packets'[p] = packets[p]
         /\ \A d \in 1..Cap :
              /\ d - Len(next_ids) \in 1..Fitting => next'[d] = Own(Batch[d - Len(next_ids)].index)
              /\ d - Len(next_ids) \notin 1..Fitting => next'[d] = next[d]
         /\ \A e \in 1..ChunkSize : hist_out'[Batch[e].work] = Own(Batch[e].index)
<1>1. /\ TypeInv /\ LevelInv /\ StageInv /\ PendingInv /\ Holds(next, next_ids) /\ GroupInv
      /\ Settled(next_ids) /\ (~keep_next => next_ids = << >>)
      /\ DOMAIN host = DOMAIN level /\ DOMAIN cand = DOMAIN level
      /\ \A i \in DOMAIN level \ done : host[i] = None
      /\ depth > 0 => ParentsFound
      /\ phase = "submit" /\ todo # << >> /\ ~(Spills /\ batches > 0)
  BY DEF Inv, Submit, DeviceInv, StageInv
<1>2. ChunkSize \in 1..Cap /\ DOMAIN Batch = 1..ChunkSize /\ Cap \in Nat /\ Window \in Nat
  BY <1>1, Entry, SplitCacheParams DEF CacheParams, Batch, ChunkSize
<1>3. Batch = [k \in 1..ChunkSize |-> Batch[k]]
  BY <1>2 DEF Batch, Entries
<1>4. Len(Batch) = ChunkSize
  BY <1>2, <1>3
<1>5. packet_nodes + ChunkSize <= Cap * Window
  <2>1. packet_nodes \in Nat /\ batches \in Nat /\ packet_nodes <= Cap * batches
        /\ batches + 1 <= Window
    BY <1>1, <1>2 DEF PendingInv, TypeInv
  <2>2. Cap * (batches + 1) <= Cap * Window
    BY <1>2, <2>1
  <2>3. Cap * (batches + 1) = Cap * batches + Cap
    BY <1>2, <2>1
  <2> QED
    BY <1>2, <2>1, <2>2, <2>3
<1> DEFINE built(k) == << tree, level[Chunk[k].small].n >>
           sum(k) == IF Batch[k].parent = 0 THEN built(Batch[k].work)
                     ELSE Minus(previous[Batch[k].parent], built(Batch[k].small))
           sums == [k \in DOMAIN Batch |-> sum(k)]
           fits == IF ~keep_next THEN 0
                   ELSE IF Cap - Len(next_ids) < Len(Batch) THEN Cap - Len(next_ids) ELSE Len(Batch)
<1>6. fits = Fitting
  BY <1>4 DEF Fitting, ChunkSize
<1>7. \A k \in 1..ChunkSize : sum(k) = Own(Batch[k].index)
  BY <1>1, EntryFacts DEF Batch, ChunkSize
<1>8. /\ hist_out' = [w \in 1..Cap |->
           IF \E k \in DOMAIN Batch : Batch[k].work = w
           THEN sums[CHOOSE k \in DOMAIN Batch : Batch[k].work = w] ELSE hist_out[w]]
      /\ packets' = [p \in DOMAIN packets |->
           IF p - packet_nodes \in DOMAIN Batch THEN sums[p - packet_nodes] ELSE packets[p]]
      /\ next' = [d \in 1..Cap |->
           IF d - Len(next_ids) \in 1..fits THEN sums[d - Len(next_ids)] ELSE next[d]]
      /\ next_ids' = next_ids \o [k \in 1..fits |-> Batch[k].index]
      /\ batches' = batches + 1
      /\ pending' = pending \o [k \in DOMAIN Batch |->
           [index |-> Batch[k].index, work |-> Batch[k].work, cached |-> k <= fits]]
      /\ packet_nodes' = packet_nodes + Len(Batch)
      /\ todo' = SubSeq(todo, Len(Chunk) + 1, Len(todo))
      /\ phase' = IF Spills \/ batches + 1 = Window THEN "collect" ELSE "submit"
  <2>1. Len(Entries(Chunk)) <= Cap /\ packet_nodes + Len(Entries(Chunk)) <= Cap * Window
    BY <1>2, <1>4, <1>5 DEF Batch
  <2> QED
    BY <2>1, ZenonT(60) DEF Submit, Batch
<1>9. UNCHANGED << tree, depth, level, parents, host, previous, previous_ids, cache_depth,
                   done, cand >>
  BY DEF Submit
<1>10. fits \in 0..ChunkSize /\ fits <= Cap - Len(next_ids)
  BY <1>1, <1>2, <1>4 DEF TypeInv
<1> HIDE DEF fits, sum
<1>11. \A k \in 1..ChunkSize : sums[k] = Own(Batch[k].index)
  BY <1>2, <1>7
<1> HIDE DEF sums
<1>12. \A p \in DOMAIN packets :
         /\ p - packet_nodes \in 1..ChunkSize => packets'[p] = Own(Batch[p - packet_nodes].index)
         /\ p - packet_nodes \notin 1..ChunkSize => packets'[p] = packets[p]
  BY <1>2, <1>8, <1>11
<1>13. \A d \in 1..Cap :
         /\ d - Len(next_ids) \in 1..fits => next'[d] = Own(Batch[d - Len(next_ids)].index)
         /\ d - Len(next_ids) \notin 1..fits => next'[d] = next[d]
  BY <1>2, <1>8, <1>10, <1>11
<1>14. ASSUME NEW e \in 1..ChunkSize PROVE hist_out'[Batch[e].work] = Own(Batch[e].index)
  <2>1. Batch[e].work \in 1..Cap /\ \A f \in 1..ChunkSize : Batch[f].work = Batch[e].work => f = e
    <3>1. Batch[e].work \in 1..ChunkSize
          /\ \A f \in 1..ChunkSize : Batch[e].work = Batch[f].work => e = f
      BY <1>1, EntryFacts DEF Batch, ChunkSize
    <3> QED
      BY <1>2, <3>1
  <2>2. (CHOOSE k \in DOMAIN Batch : Batch[k].work = Batch[e].work) = e
    BY <1>2, <2>1
  <2> QED
    BY <1>2, <1>8, <1>11, <2>1, <2>2
<1>15. DOMAIN packets' = DOMAIN packets /\ DOMAIN next' = 1..Cap /\ DOMAIN hist_out' = 1..Cap
  BY <1>8
<1>16. /\ next_ids' = next_ids \o [k \in 1..Fitting |-> Batch[k].index]
       /\ pending' = pending \o [k \in DOMAIN Batch |->
            [index |-> Batch[k].index, work |-> Batch[k].work, cached |-> k <= Fitting]]
  BY <1>6, <1>8
<1>17. /\ batches' = batches + 1
       /\ packet_nodes' = packet_nodes + ChunkSize
       /\ todo' = SubSeq(todo, Len(Chunk) + 1, Len(todo))
       /\ phase' = IF Spills \/ batches + 1 = Window THEN "collect" ELSE "submit"
  BY <1>4, <1>8
<1>18. \A d \in 1..Cap :
         /\ d - Len(next_ids) \in 1..Fitting => next'[d] = Own(Batch[d - Len(next_ids)].index)
         /\ d - Len(next_ids) \notin 1..Fitting => next'[d] = next[d]
  BY <1>6, <1>13
<1>19. \A e \in 1..ChunkSize : hist_out'[Batch[e].work] = Own(Batch[e].index)
  BY <1>14
<1> QED
  BY <1>1, <1>2, <1>9, <1>12, <1>15, <1>16, <1>17, <1>18, <1>19, Zenon

LEMMA Monotone ==
  ASSUME NEW a \in Nat, NEW b \in Nat, NEW c \in Nat, b <= c
  PROVE  a * b <= a * c /\ a * b \in Nat /\ a * c \in Nat
<1>1. PICK d \in Nat : c = b + d
  <2>1. c - b \in Nat /\ c = b + (c - b)
    OBVIOUS
  <2> QED
    BY <2>1
<1>2. a * c = a * b + a * d /\ a * d \in Nat
  BY <1>1
<1> QED
  BY <1>2

LEMMA Split ==
  ASSUME NEW p \in Nat, NEW q \in Nat, NEW k \in 1..(p + q), k \notin 1..p
  PROVE  \E e \in 1..q : k = p + e
<1>1. k - p \in 1..q /\ k = p + (k - p)
  OBVIOUS
<1> QED
  BY <1>1

LEMMA Concatenated ==
  ASSUME NEW S, NEW a \in Seq(S), NEW b \in Seq(S), NEW c, c = a \o b,
         NEW p, p = Len(a), NEW q, q = Len(b)
  PROVE  /\ c \in Seq(S) /\ Len(c) = p + q /\ DOMAIN c = 1..(p + q)
         /\ \A k \in 1..p : k \in DOMAIN c /\ c[k] = a[k]
         /\ \A e \in 1..q : p + e \in DOMAIN c /\ c[p + e] = b[e]
  OBVIOUS

LEMMA SubmitKeeps ==
  ASSUME Inv, Submit
  PROVE  Inv'
<1> SUFFICES ASSUME NEW m, m = ChunkSize, NEW n, n = Len(pending),
                    NEW first, first = Len(next_ids)
             PROVE  Inv'
  OBVIOUS
<1>1. /\ TypeInv /\ LevelInv /\ StageInv /\ PendingInv /\ Holds(next, next_ids)
      /\ Settled(next_ids) /\ (~keep_next => next_ids = << >>)
      /\ DOMAIN host = DOMAIN level /\ DOMAIN cand = DOMAIN level
      /\ \A i \in DOMAIN level \ done : host[i] = None
      /\ depth > 0 => ParentsFound
      /\ phase = "submit" /\ todo # << >> /\ ~(Spills /\ batches > 0)
  BY SubmitEffect
<1>2. UNCHANGED << tree, depth, level, parents, host, previous, previous_ids, cache_depth,
                   done, cand >>
  BY SubmitEffect
<1>3. m \in 1..Cap /\ DOMAIN Batch = 1..m /\ Cap \in Nat
  BY SubmitEffect, SplitCacheParams DEF CacheParams
<1>4. /\ first \in 0..Cap /\ DOMAIN next_ids = 1..first /\ n \in Nat /\ DOMAIN pending = 1..n
      /\ packet_nodes = n /\ batches \in Nat /\ next_ids \in Seq(Nat) /\ pending \in Seq(Packet)
  BY <1>1, <1>3 DEF TypeInv, PendingInv
<1>5. Fitting \in 0..m /\ first + Fitting <= Cap /\ (~keep_next => Fitting = 0)
      /\ (keep_next /\ Fitting < m => Spills)
  BY <1>1, <1>3, <1>4 DEF Fitting, ChunkSize, Spills
<1>6. GroupInv /\ \A e \in 1..m : /\ Batch[e].index \in DOMAIN level
                                  /\ Batch[e].index \in Nat /\ Batch[e].work \in Nat
  <2>1. GroupInv
    BY <1>1 DEF StageInv
  <2>2. \A e \in 1..m : Batch[e].index \in DOMAIN level /\ Batch[e].work \in 1..m
    BY <1>1, <2>1, EntryFacts DEF Batch, ChunkSize
  <2> QED
    BY <1>1, <1>3, <2>1, <2>2, LevelTypes
<1>7. /\ ChunkNodes = {Batch[e].index : e \in 1..m}
      /\ ChunkNodes \subseteq Waiting /\ ChunkNodes \subseteq DOMAIN level
      /\ \A k \in (Len(Chunk) + 1)..Len(todo) : GroupNodes(k) \cap ChunkNodes = {}
      /\ \A i \in DOMAIN level : level[i].sibling # 0 =>
           (i \in ChunkNodes <=> level[i].sibling \in ChunkNodes)
  BY <1>1, <1>6, ChunkNodesFacts DEF Batch, ChunkSize
<1>8. ChunkNodes \cap (Submitted \cup done) = {}
  BY <1>1, <1>7 DEF StageInv
<1>9. /\ Len(next_ids') = first + Fitting /\ next_ids' \in Seq(Nat)
      /\ DOMAIN next_ids' = 1..(first + Fitting)
      /\ \A k \in 1..first : k \in DOMAIN next_ids' /\ next_ids'[k] = next_ids[k]
      /\ \A e \in 1..Fitting : first + e \in DOMAIN next_ids' /\ next_ids'[first + e] = Batch[e].index
      /\ \A k \in DOMAIN next_ids' : k \in 1..first \/ \E e \in 1..Fitting : k = first + e
  <2> DEFINE more == [k \in 1..Fitting |-> Batch[k].index]
  <2>1. more \in Seq(Nat) /\ Len(more) = Fitting /\ \A e \in 1..Fitting : more[e] = Batch[e].index
    <3>1. Fitting \in Nat /\ \A e \in 1..Fitting : Batch[e].index \in Nat
      BY <1>3, <1>5, <1>6
    <3> QED
      BY <3>1
  <2>2. next_ids' = next_ids \o more
    BY SubmitEffect
  <2> HIDE DEF more
  <2>3. /\ next_ids \in Seq(Nat) /\ more \in Seq(Nat) /\ next_ids' = next_ids \o more
        /\ first = Len(next_ids) /\ Fitting = Len(more)
    BY <1>4, <2>1, <2>2
  <2>4. /\ next_ids' \in Seq(Nat) /\ Len(next_ids') = first + Fitting
        /\ DOMAIN next_ids' = 1..(first + Fitting)
        /\ \A k \in 1..first : k \in DOMAIN next_ids' /\ next_ids'[k] = next_ids[k]
        /\ \A e \in 1..Fitting : first + e \in DOMAIN next_ids' /\ next_ids'[first + e] = more[e]
    BY <2>3, SMTT(30)
  <2>5. \A k \in 1..(first + Fitting) : k \in 1..first \/ \E e \in 1..Fitting : k = first + e
    <3>1. first \in Nat /\ Fitting \in Nat
      BY <1>3, <1>4, <1>5
    <3> QED
      BY <3>1, Split
  <2> QED
    BY <2>1, <2>4, <2>5
<1>10. /\ Len(pending') = n + m /\ pending' \in Seq(Packet) /\ DOMAIN pending' = 1..(n + m)
       /\ \A k \in 1..n : k \in DOMAIN pending' /\ pending'[k] = pending[k]
       /\ \A e \in 1..m : /\ n + e \in DOMAIN pending'
                          /\ pending'[n + e].index = Batch[e].index
                          /\ pending'[n + e].work = Batch[e].work
                          /\ pending'[n + e].cached <=> e <= Fitting
       /\ \A k \in DOMAIN pending' : k \in 1..n \/ \E e \in 1..m : k = n + e
  <2> DEFINE packet(k) ==
               [index |-> Batch[k].index, work |-> Batch[k].work, cached |-> k <= Fitting]
             more == [k \in DOMAIN Batch |-> packet(k)]
  <2>1. \A e \in 1..m : packet(e) \in Packet
    BY <1>6 DEF Packet
  <2>2. more = [k \in 1..m |-> packet(k)]
    BY <1>3
  <2>3. /\ \A e \in 1..m : /\ more[e].index = Batch[e].index /\ more[e].work = Batch[e].work
                           /\ more[e].cached <=> e <= Fitting
    BY <2>2
  <2>4. pending' = pending \o more
    BY SubmitEffect
  <2> HIDE DEF packet
  <2>5. more \in Seq(Packet) /\ Len(more) = m
    BY <1>3, <2>1, <2>2
  <2> HIDE DEF more
  <2>6. /\ pending \in Seq(Packet) /\ more \in Seq(Packet) /\ pending' = pending \o more
        /\ n = Len(pending) /\ m = Len(more)
    BY <1>4, <2>4, <2>5
  <2>7. /\ Len(pending') = n + m /\ pending' \in Seq(Packet) /\ DOMAIN pending' = 1..(n + m)
        /\ \A k \in 1..n : k \in DOMAIN pending' /\ pending'[k] = pending[k]
        /\ \A e \in 1..m : n + e \in DOMAIN pending' /\ pending'[n + e] = more[e]
    BY <2>6, Concatenated
  <2>8. \A k \in 1..(n + m) : k \in 1..n \/ \E e \in 1..m : k = n + e
    <3>1. n \in Nat /\ m \in Nat
      BY <1>3, <1>4
    <3> QED
      BY <3>1, Split
  <2> QED
    BY <2>3, <2>7, <2>8
<1>11. /\ Len(todo) \in Nat /\ DOMAIN todo = 1..Len(todo) /\ Len(Chunk) \in 1..Len(todo)
       /\ todo' \in Seq(SplitGroup) /\ DOMAIN todo' = 1..(Len(todo) - Len(Chunk))
       /\ \A k \in DOMAIN todo' : todo'[k] = todo[k + Len(Chunk)]
  <2> DEFINE c == Len(Chunk)
  <2>1. Len(todo) \in Nat /\ DOMAIN todo = 1..Len(todo) /\ c \in 1..Len(todo)
    BY <1>1, ChunkFacts
  <2>2. todo' = SubSeq(todo, c + 1, Len(todo)) /\ todo \in Seq(SplitGroup)
    BY <1>1, SubmitEffect DEF TypeInv
  <2> HIDE DEF c
  <2>3. todo' \in Seq(SplitGroup) /\ DOMAIN todo' = 1..(Len(todo) - c)
        /\ \A k \in DOMAIN todo' : todo'[k] = todo[k + c]
    BY <2>1, <2>2
  <2> QED
    BY <2>1, <2>3 DEF c
<1>12. /\ batches' = batches + 1 /\ packet_nodes' = packet_nodes + m
       /\ phase' = (IF Spills \/ batches + 1 = Window THEN "collect" ELSE "submit")
       /\ DOMAIN packets' = DOMAIN packets /\ DOMAIN next' = 1..Cap /\ DOMAIN hist_out' = 1..Cap
  BY SubmitEffect
<1>13. TypeInv'
  <2>1. Buffers'
    BY <1>1, <1>2, <1>12 DEF TypeInv, Buffers
  <2>2. phase' \in Phases /\ batches' \in Nat /\ packet_nodes' \in Nat
    BY <1>3, <1>4, <1>12 DEF Phases
  <2>3. next_ids' \in Seq(Nat) /\ Len(next_ids') <= Cap
    BY <1>5, <1>9
  <2> QED
    BY <1>1, <1>2, <1>10, <1>11, <2>1, <2>2, <2>3 DEF TypeInv
<1>14. LevelInv' /\ (depth' > 0 => ParentsFound')
  BY <1>1, <1>2 DEF LevelInv, RootLevel, Siblings, ParentsFound, ParentOf, CachedIn
<1>15. Submitted' = Submitted \cup ChunkNodes
  <2>1. Submitted = {pending[k].index : k \in 1..n}
    BY <1>4 DEF Submitted
  <2>2. Submitted' = {pending'[k].index : k \in DOMAIN pending'}
    BY DEF Submitted
  <2>3. ASSUME NEW k \in DOMAIN pending' PROVE pending'[k].index \in Submitted \cup ChunkNodes
    <3>1. CASE k \in 1..n
      BY <1>10, <2>1, <3>1
    <3>2. CASE k \notin 1..n
      BY <1>7, <1>10, <3>2
    <3> QED
      BY <3>1, <3>2
  <2>4. ASSUME NEW k \in 1..n PROVE pending[k].index \in Submitted'
    BY <1>10, <2>2
  <2>5. ASSUME NEW e \in 1..m PROVE Batch[e].index \in Submitted'
    BY <1>10, <2>2
  <2> QED
    BY <1>7, <2>1, <2>2, <2>3, <2>4, <2>5
<1>16. /\ \A k \in DOMAIN todo' : /\ k + Len(Chunk) \in DOMAIN todo
                                  /\ k + Len(Chunk) \in (Len(Chunk) + 1)..Len(todo)
                                  /\ GroupNodes(k)' = GroupNodes(k + Len(Chunk))
  BY <1>11 DEF GroupNodes
<1>17. GroupInv'
  <2>1. ASSUME NEW k \in DOMAIN todo' PROVE IsGroup(k)'
    <3>1. IsGroup(k + Len(Chunk)) /\ k + Len(Chunk) # 1
      BY <1>6, <1>11, <1>16 DEF GroupInv
    <3> QED
      BY <1>2, <1>11, <3>1 DEF IsGroup, CachedLarge, CachedIn
  <2>2. ASSUME NEW j \in DOMAIN todo', NEW k \in DOMAIN todo', todo'[j].large = todo'[k].large
        PROVE  j = k
    <3>1. j + Len(Chunk) = k + Len(Chunk)
      BY <1>6, <1>11, <1>16, <2>2 DEF GroupInv
    <3> QED
      BY <1>11, <3>1
  <2> QED
    BY <2>1, <2>2 DEF GroupInv
<1>18. Waiting' \cap ChunkNodes = {} /\ Waiting' \subseteq Waiting
       /\ Waiting \subseteq Waiting' \cup ChunkNodes
  <2>1. Waiting' = UNION {GroupNodes(k + Len(Chunk)) : k \in DOMAIN todo'}
    BY <1>16 DEF Waiting
  <2>2. Waiting' \cap ChunkNodes = {}
    BY <1>7, <1>16, <2>1
  <2>3. Waiting' \subseteq Waiting
    BY <1>16, <2>1 DEF Waiting
  <2>4. ASSUME NEW k \in DOMAIN todo PROVE GroupNodes(k) \subseteq Waiting' \cup ChunkNodes
    <3>1. CASE k \in 1..Len(Chunk)
      BY <3>1 DEF ChunkNodes
    <3>2. CASE k \notin 1..Len(Chunk)
      <4>1. k - Len(Chunk) \in DOMAIN todo' /\ (k - Len(Chunk)) + Len(Chunk) = k
        BY <1>11, <3>2
      <4> QED
        BY <2>1, <4>1
    <3> QED
      BY <3>1, <3>2
  <2> QED
    BY <2>2, <2>3, <2>4 DEF Waiting
<1>19. StageInv'
  <2>1. CachedLarge' = CachedLarge
    BY <1>2 DEF CachedLarge, CachedIn
  <2>2. Submitted' \subseteq DOMAIN level
    BY <1>1, <1>7, <1>15 DEF StageInv
  <2>3. CachedLarge \subseteq Waiting' \cup Submitted' \cup done
    BY <1>1, <1>15, <1>18 DEF StageInv
  <2>4. Waiting' \cap (Submitted' \cup done) = {} /\ Submitted' \cap done = {}
    BY <1>1, <1>8, <1>15, <1>18 DEF StageInv
  <2>5. ASSUME NEW i \in DOMAIN level, level[i].sibling # 0
        PROVE  (i \in Submitted' <=> level[i].sibling \in Submitted')
               /\ (i \in done <=> level[i].sibling \in done)
    BY <1>1, <1>7, <1>15, <2>5 DEF StageInv
  <2> QED
    BY <1>2, <1>17, <2>1, <2>2, <2>3, <2>4, <2>5 DEF StageInv
<1>20. ASSUME NEW i \in DOMAIN level
       PROVE  CachedIn(next_ids', i)
                <=> CachedIn(next_ids, i) \/ \E e \in 1..Fitting : Batch[e].index = i
  <2>1. ASSUME CachedIn(next_ids', i)
        PROVE  CachedIn(next_ids, i) \/ \E e \in 1..Fitting : Batch[e].index = i
    <3>1. PICK k \in DOMAIN next_ids' : next_ids'[k] = i
      BY <2>1 DEF CachedIn
    <3> QED
      BY <1>4, <1>9, <3>1 DEF CachedIn
  <2>2. ASSUME CachedIn(next_ids, i) PROVE CachedIn(next_ids', i)
    BY <1>4, <1>9, <2>2 DEF CachedIn
  <2>3. ASSUME NEW e \in 1..Fitting, Batch[e].index = i PROVE CachedIn(next_ids', i)
    BY <1>9, <2>3 DEF CachedIn
  <2> QED
    BY <2>1, <2>2, <2>3
<1>21. Holds(next, next_ids)'
  <2>1. ASSUME NEW k \in DOMAIN next_ids'
        PROVE  next'[k] = << tree, level[next_ids'[k]].n >>
               /\ next_ids'[k] \in done \cup Submitted \cup ChunkNodes
    <3>1. k \in 1..(first + Fitting) /\ k \in 1..Cap
      BY <1>3, <1>4, <1>5, <1>9
    <3>2. CASE k \in 1..first
      <4>1. k - first \notin 1..Fitting
        BY <1>4, <1>5, <3>2
      <4>2. next'[k] = next[k]
        BY <3>1, <4>1, SubmitEffect
      <4>3. next[k] = Own(next_ids[k]) /\ next_ids[k] \in done \cup Submitted
        BY <1>1, <1>4, <3>2 DEF Holds
      <4> QED
        BY <1>9, <3>2, <4>2, <4>3 DEF Own
    <3>3. CASE k \notin 1..first
      <4>1. PICK e \in 1..Fitting : k = first + e
        BY <1>9, <3>3
      <4>2. k - first = e
        BY <1>4, <1>5, <4>1
      <4>3. next'[k] = Own(Batch[e].index)
        BY <3>1, <4>2, SubmitEffect
      <4>4. next_ids'[k] = Batch[e].index
        BY <1>9, <4>1
      <4>5. e \in 1..m
        BY <1>3, <1>5
      <4> QED
        BY <1>7, <4>3, <4>4, <4>5 DEF Own
    <3> QED
      BY <3>2, <3>3
  <2> QED
    BY <1>2, <1>15, <2>1 DEF Holds, Own
<1>22. Settled(next_ids)'
  <2> SUFFICES ASSUME NEW i \in done
               PROVE  /\ cand[i] = Own(i)
                      /\ keep_next => IF CachedIn(next_ids', i) THEN host[i] = None
                                      ELSE host[i] = Own(i)
    BY <1>2 DEF Settled, Own, keep_next, CachedIn
  <2>1. i \in DOMAIN level
    BY <1>1 DEF TypeInv
  <2>2. ~\E e \in 1..Fitting : Batch[e].index = i
    <3>1. \A e \in 1..Fitting : e \in 1..m
      BY <1>3, <1>5
    <3> QED
      BY <1>7, <1>8, <3>1
  <2> QED
    BY <1>1, <1>20, <2>1, <2>2 DEF Settled
<1>23. PendingInv'
  <2>1. DOMAIN pending' = 1..(n + m) /\ n + m \in Nat
    BY <1>3, <1>4, <1>10
  <2>2. \A k \in DOMAIN pending' : k \in 1..n \/ \E e \in 1..m : k = n + e
    BY <1>10
  <2>3. Len(pending') = packet_nodes' /\ packet_nodes' <= Cap * batches'
    <3>1. packet_nodes' = n + m
      BY <1>4, <1>12
    <3>2. Cap * (batches + 1) = Cap * batches + Cap /\ Cap * batches \in Nat
      BY <1>3, <1>4
    <3>3. n <= Cap * batches
      BY <1>1, <1>4 DEF PendingInv
    <3> QED
      BY <1>3, <1>4, <1>10, <1>12, <3>1, <3>2, <3>3
  <2>4. batches' <= Window /\ (phase' = "submit" => batches' < Window)
    <3>1. batches < Window /\ Window \in Nat
      BY <1>1, SplitCacheParams DEF PendingInv, CacheParams
    <3> QED
      BY <1>4, <1>12, <3>1
  <2>5. batches' # 0 /\ pending' # << >>
    <3>1. 1 \in DOMAIN pending'
      BY <1>3, <1>4, <2>1
    <3> QED
      BY <1>4, <1>12, <3>1
  <2>6. ASSUME NEW k \in 1..n
        PROVE  pending'[k] = pending[k] /\ pending[k].index \in Submitted
    BY <1>4, <1>10 DEF Submitted
  <2>7. ASSUME NEW e \in 1..m
        PROVE  pending'[n + e].index = Batch[e].index /\ Batch[e].index \in ChunkNodes
    BY <1>7, <1>10
  <2>8. ASSUME NEW j \in DOMAIN pending', NEW k \in DOMAIN pending',
               pending'[j].index = pending'[k].index
        PROVE  j = k
    <3>1. CASE j \in 1..n /\ k \in 1..n
      BY <1>1, <1>4, <2>6, <2>8, <3>1 DEF PendingInv
    <3>2. CASE j \in 1..n /\ k \notin 1..n
      BY <1>8, <2>2, <2>6, <2>7, <2>8, <3>2
    <3>3. CASE j \notin 1..n /\ k \in 1..n
      BY <1>8, <2>2, <2>6, <2>7, <2>8, <3>3
    <3>4. CASE j \notin 1..n /\ k \notin 1..n
      <4>1. PICK e \in 1..m, f \in 1..m : j = n + e /\ k = n + f
        BY <2>2, <3>4
      <4>2. Batch[e].index = Batch[f].index
        BY <2>7, <2>8, <4>1
      <4>3. e = f
        BY <1>1, <1>6, <4>2, EntryFacts DEF Batch, ChunkSize
      <4> QED
        BY <4>1, <4>3
    <3> QED
      BY <3>1, <3>2, <3>3, <3>4
  <2>9. ASSUME NEW k \in 1..n
        PROVE  /\ packets'[k] = Own(pending'[k].index)
               /\ pending'[k].cached <=> CachedIn(next_ids', pending'[k].index)
               /\ ~(keep_next /\ ~pending'[k].cached)
    <3>1. packets'[k] = packets[k]
      <4>1. k \in DOMAIN packets /\ k - packet_nodes \notin 1..ChunkSize
        <5>1. n <= Cap * batches /\ batches <= Window /\ Window \in Nat
          BY <1>1, <1>4, SplitCacheParams DEF PendingInv, CacheParams
        <5>2. Cap * batches <= Cap * Window /\ Cap * batches \in Nat /\ Cap * Window \in Nat
          BY <1>3, <1>4, <5>1, Monotone
        <5>3. DOMAIN packets = 1..Cap * Window
          BY <1>1 DEF TypeInv, Buffers
        <5> QED
          BY <1>3, <1>4, <5>1, <5>2, <5>3
      <4> QED
        BY <4>1, SubmitEffect
    <3>2. /\ packets[k] = Own(pending[k].index) /\ ~(keep_next /\ ~pending[k].cached)
          /\ pending[k].cached <=> CachedIn(next_ids, pending[k].index)
      BY <1>1, <1>4 DEF PendingInv
    <3>3. pending[k].index \in DOMAIN level
      BY <1>1, <2>6 DEF StageInv
    <3>4. ~\E e \in 1..Fitting : Batch[e].index = pending[k].index
      <4>1. \A e \in 1..Fitting : Batch[e].index \in ChunkNodes
        BY <1>3, <1>5, <1>7
      <4> QED
        BY <1>8, <2>6, <4>1
    <3> QED
      BY <1>20, <2>6, <3>1, <3>2, <3>3, <3>4
  <2>10. ASSUME NEW e \in 1..m
         PROVE  /\ packets'[n + e] = Own(Batch[e].index)
                /\ e <= Fitting <=> CachedIn(next_ids', Batch[e].index)
                /\ keep_next /\ ~(e <= Fitting) => /\ batches' = 1 /\ phase' = "collect"
                                                   /\ hist_out'[Batch[e].work] = Own(Batch[e].index)
    <3>1. packets'[n + e] = Own(Batch[e].index)
      <4>1. n + e \in DOMAIN packets /\ (n + e) - packet_nodes = e
        <5>1. n + m <= Cap * batches' /\ batches' <= Window /\ Window \in Nat /\ batches' \in Nat
          BY <1>4, <1>10, <1>12, <2>3, <2>4, SplitCacheParams DEF CacheParams
        <5>2. Cap * batches' <= Cap * Window /\ Cap * batches' \in Nat /\ Cap * Window \in Nat
          BY <1>3, <5>1, Monotone
        <5>3. DOMAIN packets = 1..Cap * Window
          BY <1>1 DEF TypeInv, Buffers
        <5> QED
          BY <1>3, <1>4, <5>1, <5>2, <5>3
      <4> QED
        BY <4>1, SubmitEffect
    <3>2. \A f \in 1..m : Batch[f].index = Batch[e].index => f = e
      <4>1. \A f \in 1..m : Batch[e].index = Batch[f].index => e = f
        BY <1>1, <1>6, EntryFacts DEF Batch, ChunkSize
      <4> QED
        BY <4>1
    <3>3. Batch[e].index \in DOMAIN level /\ ~CachedIn(next_ids, Batch[e].index)
      <4>1. \A k \in DOMAIN next_ids : next_ids[k] \in done \cup Submitted
        BY <1>1 DEF Holds
      <4> QED
        BY <1>6, <1>8, <2>7, <4>1 DEF CachedIn
    <3>4. e <= Fitting <=> CachedIn(next_ids', Batch[e].index)
      BY <1>3, <1>5, <1>20, <3>2, <3>3
    <3>5. ASSUME keep_next, ~(e <= Fitting)
          PROVE  batches' = 1 /\ phase' = "collect"
                 /\ hist_out'[Batch[e].work] = Own(Batch[e].index)
      <4>1. Spills
        BY <1>3, <1>5, <3>5
      <4>2. batches = 0
        BY <1>1, <1>4, <4>1
      <4> QED
        BY <1>12, <4>1, <4>2, SubmitEffect
    <3> QED
      BY <3>1, <3>4, <3>5
  <2>11. ASSUME NEW k \in DOMAIN pending'
         PROVE  /\ packets'[k] = Own(pending'[k].index)
                /\ pending'[k].cached <=> CachedIn(next_ids', pending'[k].index)
                /\ keep_next /\ ~pending'[k].cached =>
                     /\ batches' = 1 /\ phase' = "collect"
                     /\ hist_out'[pending'[k].work] = Own(pending'[k].index)
    <3>1. CASE k \in 1..n
      BY <1>2, <2>9, <3>1 DEF Own
    <3>2. CASE k \notin 1..n
      <4>1. PICK e \in 1..m : k = n + e
        BY <2>2, <3>2
      <4>2. /\ pending'[k].index = Batch[e].index /\ pending'[k].work = Batch[e].work
            /\ pending'[k].cached <=> e <= Fitting
        BY <1>10, <4>1
      <4> QED
        BY <1>2, <2>10, <4>1, <4>2 DEF Own
    <3> QED
      BY <3>1, <3>2
  <2> QED
    BY <1>2, <2>3, <2>4, <2>5, <2>8, <2>11 DEF PendingInv, keep_next, CachedIn, Own
<1>24. keep_next' = keep_next /\ (~keep_next => next_ids' = << >>)
  <2>1. ASSUME ~keep_next PROVE next_ids' = << >>
    <3>1. Len(next_ids') = 0
      <4>1. first = 0
        BY <1>1, <2>1
      <4> QED
        BY <1>5, <1>9, <2>1, <4>1
    <3> QED
      BY <1>9, <3>1
  <2> QED
    BY <1>2, <2>1 DEF keep_next
<1>25. phase' \in {"submit", "collect"}
  BY <1>12
<1> QED
  BY <1>1, <1>2, <1>13, <1>14, <1>19, <1>21, <1>22, <1>23, <1>24, <1>25
  DEF Inv, DeviceInv, HostInv, BetweenInv

LEMMA CollectKeeps ==
  ASSUME Inv, Collect
  PROVE  Inv'
<1>1. /\ TypeInv /\ LevelInv /\ StageInv /\ PendingInv /\ Holds(next, next_ids)
      /\ Settled(next_ids) /\ (~keep_next => next_ids = << >>)
      /\ DOMAIN host = DOMAIN level /\ DOMAIN cand = DOMAIN level
      /\ \A i \in DOMAIN level \ done : host[i] = None
      /\ depth > 0 => ParentsFound
  BY DEF Inv, Collect, DeviceInv
<1>2. /\ UNCHANGED << tree, depth, level, parents, todo, packets, hist_out, previous, next,
                      previous_ids, next_ids, cache_depth >>
      /\ batches' = 0 /\ pending' = << >> /\ packet_nodes' = 0
  BY DEF Collect, device
<1> DEFINE at(i) == CHOOSE k \in DOMAIN pending : pending[k].index = i
           here(i) == \E k \in DOMAIN pending : pending[k].index = i
<1>3. /\ cand' = [i \in DOMAIN level |-> IF here(i) THEN packets[at(i)] ELSE cand[i]]
      /\ host' = [i \in DOMAIN level |->
           IF here(i) /\ keep_next /\ ~pending[at(i)].cached
           THEN hist_out[pending[at(i)].work] ELSE host[i]]
      /\ done' = done \cup Submitted /\ phase' = "submit"
  <2>1. /\ batches <= Window /\ Len(pending) = packet_nodes
        /\ ~keep_next \/ batches = 1 \/ \A k \in DOMAIN pending : pending[k].cached
    BY <1>1 DEF PendingInv
  <2> QED
    BY <2>1, ZenonT(60) DEF Collect, Submitted
<1>4. \A i \in DOMAIN level : here(i) <=> i \in Submitted
  BY DEF Submitted
<1>5. ASSUME NEW i \in Submitted
      PROVE  /\ packets[at(i)] = Own(i) /\ (pending[at(i)].cached <=> CachedIn(next_ids, i))
             /\ keep_next /\ ~pending[at(i)].cached => hist_out[pending[at(i)].work] = Own(i)
  <2>1. at(i) \in DOMAIN pending /\ pending[at(i)].index = i
    BY DEF Submitted
  <2> HIDE DEF at
  <2> QED
    BY <1>1, <2>1 DEF PendingInv
<1> HIDE DEF at, here
<1>6. Submitted \subseteq DOMAIN level /\ Submitted \cap done = {} /\ done \subseteq DOMAIN level
  BY <1>1 DEF StageInv, TypeInv
<1>7. Submitted' = {} /\ Waiting' = Waiting /\ CachedLarge' = CachedLarge
  BY <1>2 DEF Submitted, Waiting, GroupNodes, CachedLarge, CachedIn
<1>8. DOMAIN host' = DOMAIN level /\ DOMAIN cand' = DOMAIN level
  BY <1>3
<1>9. TypeInv'
  <2>1. Buffers'
    BY <1>1, <1>2 DEF TypeInv, Buffers
  <2> QED
    BY <1>1, <1>2, <1>3, <1>6, <2>1 DEF TypeInv, Phases
<1>10. LevelInv' /\ (depth' > 0 => ParentsFound')
  BY <1>1, <1>2 DEF LevelInv, RootLevel, Siblings, ParentsFound, ParentOf, CachedIn
<1>11. StageInv'
  <2>1. GroupInv'
    BY <1>1, <1>2, <1>7 DEF StageInv, GroupInv, IsGroup
  <2>2. /\ CachedLarge \subseteq Waiting \cup done' /\ Waiting \cap done' = {}
    BY <1>1, <1>3 DEF StageInv
  <2>3. \A i \in DOMAIN level :
          level[i].sibling # 0 => (i \in done' <=> level[i].sibling \in done')
    BY <1>1, <1>3 DEF StageInv
  <2> QED
    BY <1>2, <1>7, <2>1, <2>2, <2>3 DEF StageInv
<1>12. PendingInv'
  BY <1>2, <1>3, SplitCacheParams DEF PendingInv, CacheParams
<1>13. Holds(next, next_ids)'
  <2>1. \A k \in DOMAIN next_ids : next[k] = Own(next_ids[k]) /\ next_ids[k] \in done'
    BY <1>1, <1>3 DEF Holds
  <2> QED
    BY <1>2, <2>1 DEF Holds, Own
<1>14. ASSUME NEW i \in done'
       PROVE  /\ cand'[i] = Own(i)
              /\ keep_next => IF CachedIn(next_ids, i) THEN host'[i] = None ELSE host'[i] = Own(i)
  <2>1. CASE i \in done
    <3>1. i \in DOMAIN level /\ ~here(i)
      BY <1>4, <1>6, <2>1
    <3>2. cand'[i] = cand[i] /\ host'[i] = host[i]
      BY <1>3, <3>1
    <3> QED
      BY <1>1, <2>1, <3>2 DEF Settled
  <2>2. CASE i \in Submitted
    <3>1. i \in DOMAIN level /\ here(i) /\ host[i] = None
      BY <1>1, <1>4, <1>6, <2>2
    <3>2. cand'[i] = packets[at(i)]
      BY <1>3, <3>1
    <3>3. host'[i] = IF keep_next /\ ~pending[at(i)].cached
                     THEN hist_out[pending[at(i)].work] ELSE None
      BY <1>3, <3>1
    <3> QED
      BY <1>5, <2>2, <3>2, <3>3
  <2> QED
    BY <1>3, <2>1, <2>2
<1>15. Settled(next_ids)'
  BY <1>2, <1>14 DEF Settled, Own, keep_next, CachedIn
<1>16. \A i \in DOMAIN level \ done' : host'[i] = None
  BY <1>1, <1>3, <1>4
<1>17. ~keep_next' => next_ids' = << >>
  BY <1>1, <1>2 DEF keep_next
<1> QED
  BY <1>2, <1>3, <1>8, <1>9, <1>10, <1>11, <1>12, <1>13, <1>15, <1>16, <1>17
  DEF Inv, DeviceInv, HostInv, BetweenInv

LEMMA CacheFinishKeeps ==
  ASSUME Inv, FinishSplitLevel
  PROVE  Inv'
<1>1. /\ TypeInv /\ LevelInv /\ StageInv /\ PendingInv /\ Holds(next, next_ids)
      /\ Settled(next_ids)
      /\ DOMAIN host = DOMAIN level /\ DOMAIN cand = DOMAIN level
      /\ \A i \in DOMAIN level \ done : host[i] = None
      /\ depth > 0 => ParentsFound
  BY DEF Inv, FinishSplitLevel, DeviceInv
<1>2. /\ UNCHANGED << tree, depth, level, parents, host, todo, batches, pending, packet_nodes,
                      packets, hist_out, done, cand >>
      /\ previous' = next /\ next' = previous
      /\ previous_ids' = next_ids /\ next_ids' = previous_ids
      /\ cache_depth' = depth /\ phase' = "host" /\ todo = << >> /\ batches = 0
  BY DEF FinishSplitLevel
<1>3. pending = << >> /\ Submitted = {} /\ Waiting = {}
  <2>1. pending = << >>
    BY <1>1, <1>2 DEF PendingInv
  <2> QED
    BY <1>2, <2>1 DEF Submitted, Waiting
<1>4. TypeInv'
  <2>1. Buffers'
    BY <1>1, <1>2 DEF TypeInv, Buffers
  <2> QED
    BY <1>1, <1>2, <2>1 DEF TypeInv, Phases
<1>5. LevelInv'
  BY <1>1, <1>2 DEF LevelInv, RootLevel, Siblings
<1>6. Holds(previous, previous_ids)'
  BY <1>1, <1>2, <1>3 DEF Holds, Own, Submitted
<1>7. Settled(previous_ids)'
  BY <1>1, <1>2 DEF Settled, Own, keep_next, CachedIn
<1>8. ASSUME NEW i \in DOMAIN level \ done, level[i].sibling # 0
      PROVE  parents[level[i].parent] = ParentOf(i)
  <2>1. depth > 0
    BY <1>1, <1>8 DEF LevelInv, RootLevel, TypeInv
  <2>2. i \notin CachedLarge
    BY <1>1, <1>3 DEF StageInv
  <2>3. ~CachedIn(previous_ids, level[i].parent)
    BY <1>8, <2>2 DEF CachedLarge
  <2> QED
    BY <1>1, <2>1, <2>3 DEF ParentsFound
<1>9. \A i \in DOMAIN level :
        level[i].sibling # 0 => (i \in done <=> level[i].sibling \in done)
  BY <1>1 DEF StageInv
<1>10. HostInv'
  BY <1>1, <1>2, <1>3, <1>6, <1>7, <1>8, <1>9 DEF HostInv, Own, ParentOf
<1> QED
  BY <1>2, <1>4, <1>5, <1>10 DEF Inv, DeviceInv, BetweenInv

\* A level is left as it is.
LEMMA SameLevel ==
  ASSUME LevelInv, UNCHANGED << level, depth >>
  PROVE  LevelInv'
BY DEF LevelInv, RootLevel, Siblings

LEMMA HistogramKeeps ==
  ASSUME Inv, HistogramDeviceBatch
  PROVE  Inv'
<1>1. TypeInv /\ LevelInv /\ HostInv /\ phase = "host"
  BY DEF Inv, HistogramDeviceBatch
<1>2. UNCHANGED << tree, depth, phase, level, parents, todo, batches, pending, packet_nodes,
                   packets, previous, next, previous_ids, next_ids, cache_depth, done, cand >>
  BY DEF HistogramDeviceBatch
<1>3. PICK order \in InOrder(Rest) :
        LET now == SubSeq(order, 1, IF Len(order) < Cap THEN Len(order) ELSE Cap)
        IN  /\ hist_out' = [w \in 1..Cap |-> IF w \in DOMAIN now THEN Own(now[w]) ELSE hist_out[w]]
            /\ host' = [i \in DOMAIN level |->
                          IF \E w \in DOMAIN now : now[w] = i THEN Own(i) ELSE host[i]]
  BY DEF HistogramDeviceBatch
<1> DEFINE c == IF Len(order) < Cap THEN Len(order) ELSE Cap
           now == SubSeq(order, 1, c)
<1>4. Rest \subseteq DOMAIN level
  BY DEF Rest
<1>5. order \in Seq(Rest)
  BY <1>1, <1>3, <1>4, LevelIsFinite, OrderOfSet
<1>6. c \in 0..Len(order) /\ Len(order) \in Nat
  BY <1>5, SplitCacheParams DEF CacheParams
<1>7. /\ DOMAIN hist_out' = 1..Cap
      /\ host' = [i \in DOMAIN level |->
                    IF \E w \in DOMAIN now : now[w] = i THEN Own(i) ELSE host[i]]
  BY <1>3
<1> HIDE DEF c
<1>8. \A w \in DOMAIN now : now[w] \in Rest
  BY <1>5, <1>6
<1> HIDE DEF now
<1>9. TypeInv'
  <2>1. Buffers'
    BY <1>1, <1>2, <1>7 DEF TypeInv, Buffers
  <2> QED
    BY <1>1, <1>2, <2>1 DEF TypeInv
<1>10. \A i \in DOMAIN level : /\ host'[i] \in {host[i], Own(i)}
                               /\ i \notin Rest => host'[i] = host[i]
  BY <1>7, <1>8
<1>11. \A i \in DOMAIN level : i \in done \/ level[i].sibling # 0 => i \notin Rest
  BY DEF Rest
<1>12. Holds(previous, previous_ids)'
  BY <1>1, <1>2 DEF HostInv, Holds, Own, Submitted
<1>13. Settled(previous_ids)'
  <2>1. done \subseteq DOMAIN level /\ Settled(previous_ids)
    BY <1>1 DEF TypeInv, HostInv
  <2> QED
    BY <1>2, <1>10, <1>11, <2>1 DEF Settled, Own, keep_next, CachedIn
<1>14. \A i \in DOMAIN level \ done :
         /\ host'[i] \in {None, Own(i)}
         /\ level[i].sibling # 0 => host'[i] = None /\ parents[level[i].parent] = ParentOf(i)
  BY <1>1, <1>10, <1>11 DEF HostInv
<1>15. HostInv'
  BY <1>1, <1>2, <1>7, <1>12, <1>13, <1>14 DEF HostInv, Own, ParentOf
<1> QED
  BY <1>1, <1>2, <1>9, <1>15, SameLevel DEF Inv, DeviceInv, BetweenInv

LEMMA SubtractKeeps ==
  ASSUME Inv, SubtractOnHost
  PROVE  Inv'
<1>1. TypeInv /\ LevelInv /\ HostInv /\ phase = "host" /\ Rest = {}
  BY DEF Inv, SubtractOnHost
<1>2. UNCHANGED << tree, depth, level, parents, todo, batches, pending, packet_nodes, packets,
                   hist_out, previous, next, previous_ids, next_ids, cache_depth, done >>
  BY DEF SubtractOnHost, device
<1> DEFINE big == {i \in DOMAIN level : i \notin done /\ level[i].sibling # 0}
           hist(i) == IF i \in big THEN Minus(parents[level[i].parent], host[level[i].sibling])
                      ELSE host[i]
<1>3. \A i \in big : /\ parents[level[i].parent] = ParentOf(i)
                     /\ ParentOf(i) # None
  <2>1. \A i \in big : parents[level[i].parent] = ParentOf(i)
    BY <1>1 DEF HostInv
  <2> QED
    BY <1>1, <2>1 DEF TypeInv, ParentOf, None
<1>4. /\ phase' = "chosen"
      /\ host' = [i \in DOMAIN level |-> hist(i)]
      /\ cand' = [i \in DOMAIN level |-> IF i \in done THEN cand[i] ELSE hist(i)]
  <2>1. ~\E i \in big : parents[level[i].parent] = None
    BY <1>3
  <2> QED
    BY <2>1, ZenonT(60) DEF SubtractOnHost
<1>5. ASSUME NEW i \in DOMAIN level, i \notin done PROVE hist(i) = Own(i)
  <2>1. CASE level[i].sibling = 0
    <3>1. host[i] \in {None, Own(i)} /\ i \notin Rest
      BY <1>1, <1>5 DEF HostInv
    <3> QED
      BY <1>5, <2>1, <3>1 DEF Rest
  <2>2. CASE level[i].sibling # 0
    <3>1. Siblings(i, level[i].sibling)
      BY <1>1, <2>2 DEF LevelInv
    <3>2. level[i].sibling \in DOMAIN level /\ level[i].sibling \notin done
          /\ level[level[i].sibling].sibling = 0
      BY <1>1, <1>5, <2>2, <3>1 DEF HostInv, Siblings
    <3>3. host[level[i].sibling] = Own(level[i].sibling)
      BY <1>1, <3>2 DEF HostInv, Rest
    <3>4. Minus(ParentOf(i), Own(level[i].sibling)) = Own(i)
      BY <1>1, <3>1, MinusSibling DEF Siblings
    <3> QED
      BY <1>3, <1>5, <2>2, <3>3, <3>4
  <2> QED
    BY <2>1, <2>2
<1>6. \A i \in done : i \notin big
  OBVIOUS
<1> HIDE DEF big
<1>7. TypeInv'
  <2>1. Buffers'
    BY <1>1, <1>2 DEF TypeInv, Buffers
  <2> QED
    BY <1>1, <1>2, <1>4, <2>1 DEF TypeInv, Phases
<1>8. /\ done \subseteq DOMAIN level /\ Settled(previous_ids)
      /\ Holds(previous, previous_ids) /\ cache_depth = depth /\ pending = << >>
  BY <1>1 DEF TypeInv, HostInv
<1>9. \A i \in done : hist(i) = host[i]
  BY <1>6
<1> HIDE DEF hist
<1>10. ASSUME NEW i \in DOMAIN level PROVE cand'[i] = Own(i)
  BY <1>4, <1>5, <1>8 DEF Settled
<1>11. ASSUME NEW i \in DOMAIN level, keep_next
       PROVE  IF CachedIn(previous_ids, i)
              THEN host'[i] = None /\ \A k \in DOMAIN previous_ids :
                                        previous_ids[k] = i => previous[k] = Own(i)
              ELSE host'[i] = Own(i)
  <2>1. host'[i] = hist(i)
    BY <1>4
  <2>2. CASE CachedIn(previous_ids, i)
    <3>1. i \in done
      BY <1>8, <2>2 DEF CachedIn, Holds, Submitted
    <3>2. \A k \in DOMAIN previous_ids : previous_ids[k] = i => previous[k] = Own(i)
      BY <1>8 DEF Holds
    <3> QED
      BY <1>8, <1>9, <1>11, <2>1, <2>2, <3>1, <3>2 DEF Settled
  <2>3. CASE ~CachedIn(previous_ids, i)
    BY <1>5, <1>8, <1>9, <1>11, <2>1, <2>3 DEF Settled
  <2> QED
    BY <2>2, <2>3
<1>12. DOMAIN host' = DOMAIN level
  BY <1>4
<1>13. BetweenInv'
  BY <1>2, <1>4, <1>8, <1>10, <1>11, <1>12 DEF BetweenInv, Own, keep_next, CachedIn
<1> QED
  BY <1>1, <1>2, <1>4, <1>7, <1>13, SameLevel DEF Inv, DeviceInv, HostInv

LEMMA NextLevelKeeps ==
  ASSUME Inv, NextLevel
  PROVE  Inv'
<1>1. /\ TypeInv /\ LevelInv /\ phase = "chosen" /\ keep_next /\ cache_depth = depth
      /\ DOMAIN host = DOMAIN level
      /\ \A i \in DOMAIN level :
           IF CachedIn(previous_ids, i)
           THEN \A k \in DOMAIN previous_ids : previous_ids[k] = i => previous[k] = Own(i)
           ELSE host[i] = Own(i)
  BY DEF Inv, NextLevel, BetweenInv
<1>2. /\ UNCHANGED << tree, todo, batches, pending, packet_nodes, packets, hist_out, previous,
                      next, previous_ids, next_ids, cache_depth >>
      /\ parents' = host /\ depth' = depth + 1 /\ phase' = "begin" /\ done' = {}
  BY DEF NextLevel, device
<1>3. PICK S \in (SUBSET DOMAIN level) \ {{}} :
        \E light \in [S -> {0, 1}], order \in InOrder(S) : level' = Children(order, light)
  BY DEF NextLevel
<1>4. PICK light \in [S -> {0, 1}], order \in InOrder(S) : level' = Children(order, light)
  BY <1>3
<1>5. /\ S \subseteq DOMAIN level /\ light \in [S -> {0, 1}]
      /\ order \in Seq(S) /\ Len(order) \in Nat \ {0} /\ DOMAIN order = 1..Len(order)
  <2>1. S \subseteq DOMAIN level /\ S # {}
    BY <1>3
  <2>2. order \in Seq(S) /\ DOMAIN order = 1..Len(order)
        /\ \A i \in S : \E k \in DOMAIN order : order[k] = i
    BY <1>1, <1>4, <2>1, LevelIsFinite, OrderOfSet
  <2>3. Len(order) # 0
    BY <2>1, <2>2
  <2> QED
    BY <1>4, <2>1, <2>2, <2>3
<1> DEFINE len == 2 * Len(order)
           up(at) == order[(at + 1) \div 2]
           side(at) == (at + 1) % 2
<1>6. len \in Nat \ {0} /\ DOMAIN level' = 1..len
  BY <1>4, <1>5 DEF Children
<1>7. ASSUME NEW at \in 1..len
      PROVE  /\ up(at) \in S /\ up(at) \in DOMAIN level /\ side(at) \in {0, 1}
             /\ light[up(at)] \in {0, 1}
             /\ level'[at].parent = up(at) /\ level'[at].n = 2 * level[up(at)].n + side(at)
             /\ level'[at].sibling = IF side(at) = light[up(at)] THEN 0
                                     ELSE IF side(at) = 0 THEN at + 1 ELSE at - 1
             /\ level'[at] = [n |-> level'[at].n, parent |-> level'[at].parent,
                              sibling |-> level'[at].sibling]
  <2>1. (at + 1) \div 2 \in 1..Len(order)
    BY <1>5
  <2>2. up(at) \in S
    BY <1>5, <2>1
  <2>3. side(at) \in {0, 1}
    OBVIOUS
  <2>4. level'[at] = [n |-> 2 * level[up(at)].n + side(at), parent |-> up(at),
                      sibling |-> IF side(at) = light[up(at)] THEN 0
                                  ELSE IF side(at) = 0 THEN at + 1 ELSE at - 1]
    BY <1>4 DEF Children
  <2> HIDE DEF up, side
  <2> QED
    BY <1>5, <2>2, <2>3, <2>4
<1> HIDE DEF up, side
<1>8. ASSUME NEW at \in 1..len
      PROVE  /\ level'[at] \in LevelNode /\ level'[at].parent \in DOMAIN level
             /\ level'[at].n \div 2 = level[level'[at].parent].n
  <2>1. up(at) \in Nat /\ level[up(at)].n \in Nat \ {0}
    BY <1>1, <1>7, LevelTypes
  <2>2. level'[at].n \in Nat \ {0} /\ level'[at].n \div 2 = level[up(at)].n
    <3>1. level'[at].n = 2 * level[up(at)].n + side(at) /\ side(at) \in {0, 1}
      BY <1>7
    <3> QED
      BY <2>1, <3>1, ChildHalf
  <2>3. level'[at].sibling \in Nat
    <3>1. level'[at].sibling \in {0, at + 1, at - 1}
      BY <1>7
    <3> QED
      BY <3>1
  <2>4. level'[at].parent = up(at) /\ up(at) \in DOMAIN level
        /\ level'[at] = [n |-> level'[at].n, parent |-> level'[at].parent,
                         sibling |-> level'[at].sibling]
    BY <1>7
  <2> QED
    BY <2>1, <2>2, <2>3, <2>4 DEF LevelNode
<1>9. level' \in Seq(LevelNode)
  <2>1. level' = [at \in 1..len |-> level'[at]]
    BY <1>4 DEF Children
  <2> QED
    BY <1>6, <1>8, <2>1
<1>10. TypeInv'
  <2>1. Buffers'
    BY <1>1, <1>2 DEF TypeInv, Buffers
  <2>2. depth' \in 0..MaxDepth - 1
    BY <1>1, <1>2, SplitCacheParams DEF TypeInv, keep_next, CacheParams
  <2> QED
    BY <1>1, <1>2, <1>9, <2>1, <2>2 DEF TypeInv, Phases
\* The other child of the same node.
<1>11. ASSUME NEW at \in 1..len, level'[at].sibling # 0
       PROVE  /\ level'[at].sibling \in 1..len
              /\ up(level'[at].sibling) = up(at) /\ side(level'[at].sibling) = 1 - side(at)
              /\ at = IF side(at) = 0 THEN level'[at].sibling - 1 ELSE level'[at].sibling + 1
  <2>1. side(at) \in {0, 1} /\ level'[at].sibling = IF side(at) = 0 THEN at + 1 ELSE at - 1
    BY <1>7, <1>11
  <2>2. CASE side(at) = 0
    <3>1. /\ at + 1 \in 1..len /\ (at + 1 + 1) \div 2 = (at + 1) \div 2
          /\ (at + 1 + 1) % 2 = 1 /\ at = (at + 1) - 1
      BY <1>5, <2>2 DEF side
    <3> QED
      BY <2>1, <2>2, <3>1 DEF up, side
  <2>3. CASE side(at) = 1
    <3>1. /\ at - 1 \in 1..len /\ (at - 1 + 1) \div 2 = (at + 1) \div 2
          /\ (at - 1 + 1) % 2 = 0 /\ at = (at - 1) + 1
      BY <1>5, <2>3 DEF side
    <3> QED
      BY <2>1, <2>3, <3>1 DEF up, side
  <2> QED
    BY <2>1, <2>2, <2>3
<1>12. LevelInv'
  <2>1. level' # << >>
    BY <1>6
  <2>2. depth' # 0
    BY <1>1, <1>2 DEF TypeInv
  <2>3. ASSUME NEW i \in DOMAIN level', level'[i].sibling # 0
        PROVE  Siblings(i, level[i].sibling)'
    <3>1. PICK s \in 1..len : s = level'[i].sibling
      BY <1>6, <1>11, <2>3
    <3>2. /\ up(s) = up(i) /\ side(s) = 1 - side(i) /\ side(i) \in {0, 1}
          /\ light[up(i)] \in {0, 1} /\ side(i) # light[up(i)]
      BY <1>6, <1>7, <1>11, <2>3, <3>1
    <3>3. level'[s].sibling = 0
      <4>1. side(s) = light[up(s)]
        BY <3>2
      <4> QED
        BY <1>7, <4>1
    <3>4. level'[s].parent = level'[i].parent /\ level'[s].n \div 2 = level'[i].n \div 2
      BY <1>6, <1>7, <1>8, <3>2
    <3>5. level'[s].n # level'[i].n
      <4>1. level'[s].n = 2 * level[up(i)].n + side(s) /\ level'[i].n = 2 * level[up(i)].n + side(i)
        BY <1>6, <1>7, <3>2
      <4>2. level[up(i)].n \in Nat
        BY <1>1, <1>6, <1>7, LevelTypes
      <4> QED
        BY <3>2, <4>1, <4>2
    <3> QED
      BY <1>6, <3>1, <3>3, <3>4, <3>5 DEF Siblings
  <2>4. ASSUME NEW i \in DOMAIN level', NEW j \in DOMAIN level',
               level'[i].sibling # 0, level'[i].sibling = level'[j].sibling
        PROVE  i = j
    <3>1. PICK s \in 1..len : s = level'[i].sibling
      BY <1>6, <1>11, <2>4
    <3>2. /\ side(s) = 1 - side(i) /\ side(s) = 1 - side(j)
          /\ side(i) \in {0, 1} /\ side(j) \in {0, 1}
      BY <1>6, <1>7, <1>11, <2>4, <3>1
    <3>3. /\ i = IF side(i) = 0 THEN s - 1 ELSE s + 1
          /\ j = IF side(j) = 0 THEN s - 1 ELSE s + 1
      BY <1>6, <1>11, <2>4, <3>1
    <3>4. side(i) = side(j)
      BY <3>2
    <3> QED
      BY <3>3, <3>4
  <2> QED
    BY <2>1, <2>2, <2>3, <2>4 DEF LevelInv
<1>13. ParentsFound'
  <2>1. ASSUME NEW i \in DOMAIN level', NEW p, p = level'[i].parent
        PROVE  IF CachedIn(previous_ids, p)
               THEN \A k \in DOMAIN previous_ids :
                      previous_ids[k] = p => previous[k] = << tree, level'[i].n \div 2 >>
               ELSE host[p] = << tree, level'[i].n \div 2 >>
    <3>1. p \in DOMAIN level /\ level'[i].n \div 2 = level[p].n
      BY <1>6, <1>8, <2>1
    <3> QED
      BY <1>1, <3>1 DEF Own
  <2>2. \A i \in DOMAIN level' :
          IF CachedIn(previous_ids, level'[i].parent)
          THEN \A k \in DOMAIN previous_ids : previous_ids[k] = level'[i].parent =>
                 previous[k] = << tree, level'[i].n \div 2 >>
          ELSE host[level'[i].parent] = << tree, level'[i].n \div 2 >>
    BY <2>1
  <2> QED
    BY <1>2, <2>2, Zenon DEF ParentsFound, ParentOf, CachedIn
<1>14. BetweenInv'
  BY <1>1, <1>2, <1>13 DEF BetweenInv, TypeInv
<1> QED
  BY <1>2, <1>10, <1>12, <1>14 DEF Inv, DeviceInv, HostInv

LEMMA BeginTreeKeeps ==
  ASSUME Inv, BeginTree
  PROVE  Inv'
<1>1. TypeInv /\ UNCHANGED << todo, batches, pending, packet_nodes, packets, hist_out, previous,
                              next, previous_ids, next_ids, cache_depth >>
      /\ tree' = tree + 1 /\ depth' = 0 /\ phase' = "begin" /\ level' = RootLevel /\ done' = {}
  BY DEF Inv, BeginTree, device
<1>2. TypeInv'
  <2>1. Buffers'
    BY <1>1 DEF TypeInv, Buffers
  <2>2. RootLevel \in Seq(LevelNode) /\ 0 \in 0..MaxDepth - 1
    BY SplitCacheParams DEF RootLevel, LevelNode, CacheParams
  <2> QED
    BY <1>1, <2>1, <2>2 DEF TypeInv, Phases
<1>3. LevelInv'
  BY <1>1 DEF LevelInv, RootLevel
<1> QED
  BY <1>1, <1>2, <1>3 DEF Inv, DeviceInv, HostInv, BetweenInv

LEMMA StepKeeps ==
  ASSUME Inv, [Next]_vars
  PROVE  Inv'
<1>1. CASE BeginSplitLevel
  BY <1>1, CacheBeginKeeps
<1>2. CASE Submit
  BY <1>2, SubmitKeeps
<1>3. CASE Collect
  BY <1>3, CollectKeeps
<1>4. CASE FinishSplitLevel
  BY <1>4, CacheFinishKeeps
<1>5. CASE HistogramDeviceBatch
  BY <1>5, HistogramKeeps
<1>6. CASE SubtractOnHost
  BY <1>6, SubtractKeeps
<1>7. CASE NextLevel
  BY <1>7, NextLevelKeeps
<1>8. CASE BeginTree
  BY <1>8, BeginTreeKeeps
<1>9. CASE UNCHANGED vars
  <2>1. UNCHANGED << tree, depth, phase, level, parents, host, todo, batches, pending,
                     packet_nodes, packets, hist_out, previous, next, previous_ids, next_ids,
                     cache_depth, done, cand >>
    BY <1>9 DEF vars, device
  <2>2. TypeInv' /\ LevelInv'
    BY <2>1, SameLevel DEF Inv, TypeInv, Buffers
  <2>3. /\ ParentsFound' <=> ParentsFound
        /\ Holds(next, next_ids)' <=> Holds(next, next_ids)
        /\ Holds(previous, previous_ids)' <=> Holds(previous, previous_ids)
        /\ Settled(next_ids)' <=> Settled(next_ids)
        /\ Settled(previous_ids)' <=> Settled(previous_ids)
    BY <2>1 DEF ParentsFound, ParentOf, CachedIn, Holds, Settled, Own, Submitted, keep_next
  <2>4. StageInv' <=> StageInv
    BY <2>1 DEF StageInv, GroupInv, IsGroup, CachedLarge, CachedIn, Waiting, GroupNodes, Submitted
  <2>5. PendingInv' <=> PendingInv
    BY <2>1 DEF PendingInv, Own, CachedIn, keep_next
  <2>6. DeviceInv'
    BY <2>1, <2>3, <2>4, <2>5 DEF Inv, DeviceInv, keep_next
  <2>7. HostInv'
    BY <2>1, <2>3 DEF Inv, HostInv, Own, ParentOf
  <2>8. BetweenInv'
    BY <2>1, <2>3 DEF Inv, BetweenInv, Own, CachedIn, keep_next
  <2> QED
    BY <2>2, <2>6, <2>7, <2>8 DEF Inv
<1> QED
  BY <1>1, <1>2, <1>3, <1>4, <1>5, <1>6, <1>7, <1>8, <1>9 DEF Next, Terminated

LEMMA InvIsExact ==
  ASSUME Inv
  PROVE  CacheIsExact
<1>1. SearchesOwnHistogram
  BY DEF Inv, BetweenInv, SearchesOwnHistogram
<1>2. NeverRefused
  BY DEF Inv, TypeInv, Phases, NeverRefused
<1>3. OneHome
  <2> SUFFICES ASSUME phase = "chosen", keep_next, NEW i \in DOMAIN level,
                      CachedIn(previous_ids, i)
               PROVE  previous[SlotOf(previous_ids, i)] = Own(i)
    BY DEF Inv, BetweenInv, OneHome
  <2>1. SlotOf(previous_ids, i) \in DOMAIN previous_ids
        /\ previous_ids[SlotOf(previous_ids, i)] = i
    BY DEF SlotOf, CachedIn
  <2> QED
    BY <2>1 DEF Inv, BetweenInv
<1> QED
  BY <1>1, <1>2, <1>3 DEF CacheIsExact

----------------------------------------------------------------------------
\* The theorems about the cache

\* The invariant of the split cache holds in every state, for every width of a batch, window,
\* depth and number of trees.
THEOREM SplitCacheInvariant == Spec => []Inv
<1>1. Init => Inv
  BY Initially
<1>2. Inv /\ [Next]_vars => Inv'
  BY StepKeeps
<1> QED
  BY <1>1, <1>2, PTL DEF Spec

\* For every width of a batch, window, depth and number of trees: no split is ever searched
\* in another node's histogram, no check of the device path fails, and the next level finds
\* every histogram in exactly one place.
THEOREM SplitCacheExact == Spec => []CacheIsExact
BY SplitCacheInvariant, InvIsExact, PTL

----------------------------------------------------------------------------
(***************************************************************************)
(* The row arena                                                           *)
(***************************************************************************)

\* Induction over the numbers, for a set instead of an operator.
LEMMA NatSetInduction ==
  ASSUME NEW S \in SUBSET Nat, 0 \in S, \A n \in S : n + 1 \in S
  PROVE  S = Nat
<1> DEFINE T == Nat \ S
<1> SUFFICES ASSUME T # {} PROVE FALSE
  OBVIOUS
<1>1. PICK x \in T : \A y \in T : ~ (<<y, x>> \in OpToRel(<,Nat))
  BY NatLessThanWellFounded, WFMin
<1>2. \A y \in Nat : y < x => <<y, x>> \in OpToRel(<, Nat)
  BY DEF OpToRel
<1>3. x \in Nat /\ x # 0 /\ x - 1 \in Nat /\ x - 1 < x
  OBVIOUS
<1>4. x - 1 \in S
  BY <1>1, <1>2, <1>3
<1>5. (x - 1) + 1 = x
  BY <1>3
<1> QED
  BY <1>4, <1>5

----------------------------------------------------------------------------
(***************************************************************************)
(* Stable partitioning: what Kept keeps                                    *)
(***************************************************************************)

KeptStep(s, S, v, i) ==
  IF i = 0 THEN << >> ELSE IF s[i] \in S THEN Append(v[i - 1], s[i]) ELSE v[i - 1]

\* The prefixes of Kept(s, S), one for every prefix of s.
ArePrefixes(v, s, S) ==
  /\ \A i \in 0..Len(s) : v[i] = KeptStep(s, S, v, i)
  /\ Kept(s, S) = v[Len(s)]

LEMMA KeptPrefixes ==
  ASSUME NEW R, NEW s \in Seq(R), NEW S
  PROVE  \E v \in [0..Len(s) -> Seq(R)] : ArePrefixes(v, s, S)
<1> DEFINE n == Len(s)
           Right(v, k) == \A i \in 0..n : i < k => v[i] = KeptStep(s, S, v, i)
           K == {k \in Nat : \E v \in [0..n -> Seq(R)] : Right(v, k)}
           IsKept(v) == v = [i \in 0..n |-> KeptStep(s, S, v, i)]
<1>1. n \in Nat
  OBVIOUS
<1>2. 0 \in K
  <2>1. Right([i \in 0..n |-> << >>], 0)
    BY <1>1
  <2>2. [i \in 0..n |-> << >>] \in [0..n -> Seq(R)]
    OBVIOUS
  <2> QED
    BY <2>1, <2>2
<1>3. ASSUME NEW k \in K PROVE k + 1 \in K
  <2>1. k \in Nat
    OBVIOUS
  <2>2. PICK v \in [0..n -> Seq(R)] : Right(v, k)
    BY <1>3
  <2> DEFINE w == [v EXCEPT ![k] = KeptStep(s, S, v, k)]
  <2>3. CASE k \in 0..n
    <3>1. KeptStep(s, S, v, k) \in Seq(R)
      <4>1. CASE k = 0
        BY <4>1 DEF KeptStep
      <4>2. CASE k # 0
        <5>1. s[k] \in R /\ k - 1 \in 0..n
          BY <1>1, <2>1, <2>3, <4>2
        <5>2. v[k - 1] \in Seq(R)
          BY <5>1
        <5> QED
          BY <4>2, <5>1, <5>2 DEF KeptStep
      <4> QED
        BY <4>1, <4>2
    <3>2. w \in [0..n -> Seq(R)]
      BY <3>1
    <3>3. ASSUME NEW i \in 0..n, i < k + 1 PROVE w[i] = KeptStep(s, S, w, i)
      <4>1. i # 0 => w[i - 1] = v[i - 1]
        BY <1>1, <2>1, <3>3
      <4>2. KeptStep(s, S, w, i) = KeptStep(s, S, v, i)
        BY <4>1 DEF KeptStep
      <4>3. w[i] = KeptStep(s, S, v, i)
        BY <1>1, <2>1, <2>2, <3>3
      <4> QED
        BY <4>2, <4>3
    <3> HIDE DEF w
    <3>4. Right(w, k + 1)
      BY <3>3
    <3> QED
      BY <2>1, <3>2, <3>4
  <2>4. CASE k \notin 0..n
    <3>1. Right(v, k + 1)
      BY <1>1, <2>1, <2>2, <2>4
    <3> QED
      BY <2>1, <3>1
  <2> QED
    BY <2>3, <2>4
<1>4. K \in SUBSET Nat
  OBVIOUS
<1> HIDE DEF K
<1>5. n + 1 \in K
  BY <1>1, <1>2, <1>3, <1>4, NatSetInduction
<1>6. PICK v \in [0..n -> Seq(R)] : Right(v, n + 1)
  BY <1>5 DEF K
<1>7. \A i \in 0..n : v[i] = KeptStep(s, S, v, i)
  BY <1>1, <1>6
<1> HIDE DEF Right
<1>8. IsKept(v)
  <2>1. v = [i \in 0..n |-> v[i]]
    BY <1>6
  <2> QED
    BY <1>7, <2>1
<1> DEFINE u == CHOOSE x : IsKept(x)
<1>9. IsKept(u)
  BY <1>8
<1>10. Kept(s, S) = u[n]
  BY DEF Kept, KeptStep
<1> HIDE DEF u
<1>11. DOMAIN u = 0..n /\ \A i \in 0..n : u[i] = KeptStep(s, S, u, i)
  BY <1>9, Zenon
<1> DEFINE U == {i \in Nat : i \in 0..n => u[i] = v[i]}
<1>12. U = Nat
  <2>1. 0 \in U
    BY <1>1, <1>7, <1>11 DEF KeptStep
  <2>2. ASSUME NEW i \in U PROVE i + 1 \in U
    <3>1. SUFFICES ASSUME i + 1 \in 0..n PROVE u[i + 1] = v[i + 1]
      OBVIOUS
    <3>2. u[i] = v[i] /\ i + 1 # 0 /\ (i + 1) - 1 = i
      BY <1>1, <2>2, <3>1
    <3>3. KeptStep(s, S, u, i + 1) = KeptStep(s, S, v, i + 1)
      BY <3>2, Zenon DEF KeptStep
    <3> QED
      BY <1>7, <1>11, <3>1, <3>3
  <2>3. U \in SUBSET Nat
    OBVIOUS
  <2> HIDE DEF U
  <2> QED
    BY <2>1, <2>2, <2>3, NatSetInduction
<1>13. u[n] = v[n]
  BY <1>1, <1>12
<1>14. ArePrefixes(v, s, S)
  BY <1>7, <1>10, <1>13 DEF ArePrefixes
<1> QED
  BY <1>14

\* x is somewhere in s; s has something twice.
Occurs(x, s) == \E m \in 1..Len(s) : s[m] = x
Repeats(s) == \E i, j \in 1..Len(s) : i # j /\ s[i] = s[j]

\* What is in a sequence after appending to it.
LEMMA AppendOccurs ==
  ASSUME NEW R, NEW s \in Seq(R), NEW e \in R
  PROVE  /\ Append(s, e) \in Seq(R) /\ Len(Append(s, e)) = Len(s) + 1
         /\ \A x : Occurs(x, Append(s, e)) <=> Occurs(x, s) \/ x = e
         /\ ~Repeats(s) /\ ~Occurs(e, s) => ~Repeats(Append(s, e))
<1> DEFINE t == Append(s, e)
<1>1. t \in Seq(R) /\ Len(t) = Len(s) + 1 /\ Len(s) \in Nat
  OBVIOUS
<1>2. t[Len(s) + 1] = e /\ \A m \in 1..Len(s) : t[m] = s[m]
  OBVIOUS
<1> HIDE DEF t
<1>3. \A x : Occurs(x, t) <=> Occurs(x, s) \/ x = e
  <2> TAKE x
  <2>1. Occurs(x, t) => Occurs(x, s) \/ x = e
    BY <1>1, <1>2 DEF Occurs
  <2>2. Occurs(x, s) => Occurs(x, t)
    BY <1>1, <1>2 DEF Occurs
  <2>3. Occurs(e, t)
    <3>1. Len(s) + 1 \in 1..Len(t)
      BY <1>1
    <3> QED
      BY <1>2, <3>1, Zenon DEF Occurs
  <2> QED
    BY <2>1, <2>2, <2>3
<1>4. ASSUME ~Repeats(s), ~Occurs(e, s), NEW i \in 1..Len(t), NEW j \in 1..Len(t), i # j
      PROVE  t[i] # t[j]
  <2>1. (i \in 1..Len(s) \/ i = Len(s) + 1) /\ (j \in 1..Len(s) \/ j = Len(s) + 1)
    BY <1>1
  <2> QED
    BY <1>2, <1>4, <2>1 DEF Repeats, Occurs
<1> QED
  BY <1>1, <1>3, <1>4 DEF Repeats, t

\* Kept(s, S) holds the elements of s that are in S, each as often as s does.
LEMMA KeptHas ==
  ASSUME NEW R, NEW s \in Seq(R), NEW S
  PROVE  /\ Kept(s, S) \in Seq(R)
         /\ \A x : Occurs(x, Kept(s, S)) <=> x \in S /\ Occurs(x, s)
         /\ ~Repeats(s) => ~Repeats(Kept(s, S))
<1> DEFINE n == Len(s)
<1>1. n \in Nat
  OBVIOUS
<1>a. PICK v \in [0..n -> Seq(R)] : ArePrefixes(v, s, S)
  BY KeptPrefixes
<1>2. /\ v \in [0..n -> Seq(R)]
      /\ \A i \in 0..n : v[i] = KeptStep(s, S, v, i)
      /\ Kept(s, S) = v[n]
  BY <1>a DEF ArePrefixes
<1> DEFINE Before_(x, i) == \E m \in 1..i : s[m] = x
           KeptUpTo(i) == /\ \A x : Occurs(x, v[i]) <=> x \in S /\ Before_(x, i)
                          /\ ~Repeats(s) => ~Repeats(v[i])
           U == {i \in Nat : i \in 0..n => KeptUpTo(i)}
<1>3. KeptUpTo(0)
  <2>1. v[0] = << >>
    BY <1>1, <1>2 DEF KeptStep
  <2> QED
    BY <2>1 DEF Occurs, Repeats
<1>4. ASSUME NEW i \in Nat, i + 1 \in 0..n, KeptUpTo(i) PROVE KeptUpTo(i + 1)
  <2>0. i \in 0..n /\ i + 1 \in 1..n /\ (i + 1) - 1 = i /\ i + 1 # 0
    BY <1>1, <1>4
  <2>h. /\ \A x : Occurs(x, v[i]) <=> x \in S /\ Before_(x, i)
        /\ ~Repeats(s) => ~Repeats(v[i])
    BY <1>4
  <2>a. v[i + 1] = KeptStep(s, S, v, i + 1)
    BY <1>2, <2>0
  <2>1. v[i + 1] = IF s[i + 1] \in S THEN Append(v[i], s[i + 1]) ELSE v[i]
    BY <2>0, <2>a, Zenon DEF KeptStep
  <2>2. v[i] \in Seq(R) /\ s[i + 1] \in R
    BY <1>2, <2>0
  <2>3. \A x : Before_(x, i + 1) <=> Before_(x, i) \/ x = s[i + 1]
    BY <2>0
  <2>4. ~Repeats(s) => ~Before_(s[i + 1], i)
    <3>1. \A m \in 1..i : m \in 1..n /\ m # i + 1
      BY <1>1, <2>0
    <3> QED
      BY <2>0, <3>1 DEF Repeats
  <2> HIDE DEF Before_
  <2>5. CASE s[i + 1] \in S
    <3> DEFINE w == v[i]
               e == s[i + 1]
    <3>1. w \in Seq(R) /\ e \in R
      BY <2>2
    <3> HIDE DEF w, e
    <3>2. /\ \A x : Occurs(x, Append(w, e)) <=> Occurs(x, w) \/ x = e
          /\ ~Repeats(w) /\ ~Occurs(e, w) => ~Repeats(Append(w, e))
      BY <3>1, AppendOccurs
    <3>3. v[i + 1] = Append(w, e)
      BY <2>1, <2>5 DEF w, e
    <3>a. \A x : Occurs(x, w) <=> x \in S /\ Before_(x, i)
      BY <2>h, Zenon DEF w
    <3>b. ~Repeats(s) => ~Repeats(w)
      BY <2>h, Zenon DEF w
    <3>c. /\ \A x : Before_(x, i + 1) <=> Before_(x, i) \/ x = e
          /\ ~Repeats(s) => ~Before_(e, i)
          /\ e \in S
      BY <2>3, <2>4, <2>5, Zenon DEF e
    <3>4. \A x : Occurs(x, v[i + 1]) <=> x \in S /\ Before_(x, i + 1)
      <4>1. \A x : Occurs(x, Append(w, e)) <=> x \in S /\ Before_(x, i + 1)
        BY <3>2, <3>a, <3>c
      <4> QED
        BY <3>3, <4>1, Zenon
    <3>5. ~Repeats(s) => ~Repeats(v[i + 1])
      <4>1. ~Repeats(s) => ~Repeats(Append(w, e))
        BY <3>2, <3>a, <3>b, <3>c
      <4> QED
        BY <3>3, <4>1, Zenon
    <3> QED
      BY <3>4, <3>5
  <2>6. CASE s[i + 1] \notin S
    <3>1. v[i + 1] = v[i]
      BY <2>1, <2>6, Zenon
    <3> QED
      BY <2>h, <2>3, <2>6, <3>1, Zenon
  <2> QED
    BY <2>5, <2>6
<1>5. n \in U
  <2>1. 0 \in U
    BY <1>3
  <2> HIDE DEF KeptUpTo
  <2>2. ASSUME NEW i \in U PROVE i + 1 \in U
    <3>1. i \in Nat /\ (i + 1 \in 0..n => i \in 0..n)
      BY <1>1
    <3> QED
      BY <1>4, <2>2, <3>1
  <2>3. U \in SUBSET Nat
    OBVIOUS
  <2> HIDE DEF U
  <2> QED
    BY <1>1, <2>1, <2>2, <2>3, NatSetInduction
<1>6. n \in 0..n
  BY <1>1
<1>7. \A x : Before_(x, n) <=> Occurs(x, s)
  BY DEF Occurs
<1> HIDE DEF Before_
<1>8. KeptUpTo(n)
  <2> HIDE DEF KeptUpTo
  <2> QED
    BY <1>5, <1>6
<1>9. v[n] \in Seq(R) /\ Kept(s, S) = v[n]
  BY <1>2, <1>6, Zenon
<1>10. /\ \A x : Occurs(x, v[n]) <=> x \in S /\ Occurs(x, s)
       /\ ~Repeats(s) => ~Repeats(v[n])
  BY <1>7, <1>8, Zenon
<1> QED
  BY <1>9, <1>10, Zenon

\* What S keeps and what the others keep make up the whole.
LEMMA KeptLengths ==
  ASSUME NEW R, NEW s \in Seq(R), NEW S
  PROVE  Len(Kept(s, S)) + Len(Kept(s, R \ S)) = Len(s)
<1> DEFINE n == Len(s)
           C == R \ S
<1> HIDE DEF C
<1>1. n \in Nat
  OBVIOUS
<1>a. PICK v \in [0..n -> Seq(R)] : ArePrefixes(v, s, S)
  BY KeptPrefixes
<1>2. /\ v \in [0..n -> Seq(R)]
      /\ \A i \in 0..n : v[i] = KeptStep(s, S, v, i)
      /\ Kept(s, S) = v[n]
  BY <1>a DEF ArePrefixes
<1>b. PICK w \in [0..n -> Seq(R)] : ArePrefixes(w, s, C)
  BY KeptPrefixes
<1>3. /\ w \in [0..n -> Seq(R)]
      /\ \A i \in 0..n : w[i] = KeptStep(s, C, w, i)
      /\ Kept(s, C) = w[n]
  BY <1>b DEF ArePrefixes
<1> DEFINE U == {i \in Nat : i \in 0..n => Len(v[i]) + Len(w[i]) = i}
<1>4. 0 \in U
  BY <1>1, <1>2, <1>3 DEF KeptStep
<1>5. ASSUME NEW i \in U PROVE i + 1 \in U
  <2>1. SUFFICES ASSUME i + 1 \in 0..n PROVE Len(v[i + 1]) + Len(w[i + 1]) = i + 1
    OBVIOUS
  <2>2. i \in Nat /\ i \in 0..n /\ i + 1 \in 1..n /\ (i + 1) - 1 = i /\ i + 1 # 0
    BY <1>1, <1>5, <2>1
  <2>3. Len(v[i]) + Len(w[i]) = i
    BY <1>5, <2>2
  <2>4. v[i] \in Seq(R) /\ w[i] \in Seq(R) /\ s[i + 1] \in R
    BY <1>2, <1>3, <2>2
  <2>5. v[i + 1] = IF s[i + 1] \in S THEN Append(v[i], s[i + 1]) ELSE v[i]
    <3>1. v[i + 1] = KeptStep(s, S, v, i + 1)
      BY <1>2, <2>2
    <3> QED
      BY <2>2, <3>1, Zenon DEF KeptStep
  <2>6. w[i + 1] = IF s[i + 1] \in C THEN Append(w[i], s[i + 1]) ELSE w[i]
    <3>1. w[i + 1] = KeptStep(s, C, w, i + 1)
      BY <1>3, <2>2
    <3> QED
      BY <2>2, <3>1, Zenon DEF KeptStep
  <2>7. s[i + 1] \in C <=> s[i + 1] \notin S
    BY <2>4 DEF C
  <2>8. /\ Len(Append(v[i], s[i + 1])) = Len(v[i]) + 1
        /\ Len(Append(w[i], s[i + 1])) = Len(w[i]) + 1
        /\ Len(v[i]) \in Nat /\ Len(w[i]) \in Nat
    BY <2>4
  <2>c. \A p, q \in Nat : p + q = i => (p + 1) + q = i + 1 /\ p + (q + 1) = i + 1
    BY <2>2
  <2>d. (Len(v[i]) + 1) + Len(w[i]) = i + 1 /\ Len(v[i]) + (Len(w[i]) + 1) = i + 1
    BY <2>3, <2>8, <2>c
  <2>9. CASE s[i + 1] \in S
    <3>1. Len(v[i + 1]) = Len(v[i]) + 1 /\ Len(w[i + 1]) = Len(w[i])
      BY <2>5, <2>6, <2>7, <2>8, <2>9
    <3> QED
      BY <2>d, <3>1, Zenon
  <2>10. CASE s[i + 1] \notin S
    <3>1. Len(v[i + 1]) = Len(v[i]) /\ Len(w[i + 1]) = Len(w[i]) + 1
      BY <2>5, <2>6, <2>7, <2>8, <2>10
    <3> QED
      BY <2>d, <3>1, Zenon
  <2> QED
    BY <2>9, <2>10
<1>6. U \in SUBSET Nat
  OBVIOUS
<1> HIDE DEF U
<1>7. n \in U
  BY <1>1, <1>4, <1>5, <1>6, NatSetInduction
<1>8. n \in 0..n
  BY <1>1
<1> QED
  BY <1>2, <1>3, <1>7, <1>8 DEF U, C

----------------------------------------------------------------------------
(***************************************************************************)
(* The open nodes and the way rows take through the tree                   *)
(***************************************************************************)

\* The tree so far: children come behind their parent.
TreeNode == [feat : Feature \cup {0}, child : Nat]

GrownTree ==
  /\ left \in [Feature -> SUBSET Row]
  /\ nodes \in Seq(TreeNode) /\ nodes # << >>
  /\ delta \in [Row -> 0..Len(nodes)]
  /\ \A i \in 1..Len(nodes) :
       nodes[i].feat # 0 => nodes[i].child > i /\ nodes[i].child + 1 <= Len(nodes)

\* Open nodes are leaves of the tree so far, no row is in two of them or twice in one,
\* and the rows in none are those that have been paid.
OpenInv ==
  /\ \A n \in Open : /\ n.id \in 1..Len(nodes) /\ nodes[n.id].feat = 0
                     /\ n.rows \in Seq(Row) /\ ~Repeats(n.rows)
  /\ \A n, m \in Open : n.id = m.id => n = m
  /\ \A n, m \in Open : \A r \in Row : Occurs(r, n.rows) /\ Occurs(r, m.rows) => n = m
  /\ \A r \in Row : delta[r] = 0 <=> \E n \in Open : Occurs(r, n.rows)

\* The way of a row leads to node l: it visits the nodes of P.
StepOf(r, i) == IF r \in left[nodes[i].feat] THEN nodes[i].child ELSE nodes[i].child + 1
Leads(r, l) ==
  \E P \in SUBSET (1..Len(nodes)) :
    /\ 1 \in P /\ l \in P /\ nodes[l].feat = 0
    /\ \A i \in P \ {l} : nodes[i].feat # 0 /\ StepOf(r, i) \in P

\* Every row is on its way to the open node that has it or to the leaf that paid it.
RouteInv ==
  /\ \A n \in Open : \A r \in Row : Occurs(r, n.rows) => Leads(r, n.id)
  /\ \A r \in Row : delta[r] # 0 => /\ Leads(r, delta[r])
                                    /\ \A n \in Open : n.id # delta[r]

\* Two leaves are added behind the nodes of a tree (Tree::split_leaf); the others stay.
LEMMA Growth ==
  ASSUME NEW t \in Seq(TreeNode), NEW i \in 1..Len(t), NEW f \in Feature
  PROVE  LET u == [t EXCEPT ![i] = [feat |-> f, child |-> Len(t) + 1]] \o << Leaf, Leaf >>
         IN  /\ u \in Seq(TreeNode) /\ Len(u) = Len(t) + 2
             /\ u[i] = [feat |-> f, child |-> Len(t) + 1]
             /\ \A k \in 1..Len(t) : k # i => u[k] = t[k]
             /\ u[Len(t) + 1] = Leaf /\ u[Len(t) + 2] = Leaf
<1> DEFINE e == [feat |-> f, child |-> Len(t) + 1]
           w == [t EXCEPT ![i] = e]
           u == w \o << Leaf, Leaf >>
<1>1. e \in TreeNode /\ Leaf \in TreeNode
  BY DEF TreeNode, Leaf
<1> HIDE DEF e
<1>2. w \in Seq(TreeNode) /\ Len(w) = Len(t) /\ w[i] = e /\ \A k \in 1..Len(t) : k # i => w[k] = t[k]
  BY <1>1
<1> HIDE DEF w
<1>3. << Leaf, Leaf >> \in Seq(TreeNode) /\ Len(<< Leaf, Leaf >>) = 2
  BY <1>1
<1>4. u \in Seq(TreeNode) /\ Len(u) = Len(t) + 2
  BY <1>2, <1>3
<1>5. \A k \in 1..Len(t) : u[k] = w[k]
  BY <1>2, <1>3
<1>6. u[Len(t) + 1] = Leaf /\ u[Len(t) + 2] = Leaf
  BY <1>2, <1>3
<1> QED
  BY <1>2, <1>4, <1>5, <1>6 DEF e, w

\* The step that pays node n and closes it.
PaidBy(n) ==
  /\ Open' = Open \ {n}
  /\ delta' = [r \in Row |-> IF Occurs(r, n.rows) THEN n.id ELSE delta[r]]
  /\ UNCHANGED << left, nodes >>

\* Closing a node by paying its rows keeps the tree, the open nodes and the ways of the rows.
LEMMA SettleKeepsOpen ==
  ASSUME GrownTree, OpenInv, RouteInv, NEW n \in Open, PaidBy(n)
  PROVE  GrownTree' /\ OpenInv' /\ RouteInv'
<1>1. n.id \in 1..Len(nodes) /\ n.id # 0 /\ nodes[n.id].feat = 0
  BY DEF OpenInv
<1>2. left' = left /\ nodes' = nodes /\ Open' = Open \ {n}
  BY DEF PaidBy
<1>3. delta' \in [Row -> 0..Len(nodes)]
  BY <1>1 DEF PaidBy, GrownTree
<1>4. \A r \in Row : delta'[r] = IF Occurs(r, n.rows) THEN n.id ELSE delta[r]
  BY DEF PaidBy
<1>5. GrownTree'
  BY <1>2, <1>3 DEF GrownTree
<1>6. OpenInv'
  <2>1. \A r \in Row : delta'[r] = 0 <=> \E m \in Open \ {n} : Occurs(r, m.rows)
    <3> TAKE r \in Row
    <3>1. CASE Occurs(r, n.rows)
      BY <1>1, <1>4, <3>1 DEF OpenInv
    <3>2. CASE ~Occurs(r, n.rows)
      BY <1>4, <3>2 DEF OpenInv
    <3> QED
      BY <3>1, <3>2
  <2> QED
    BY <1>2, <2>1 DEF OpenInv
<1>7. RouteInv'
  <2>1. \A r, l : Leads(r, l)' <=> Leads(r, l)
    BY <1>2 DEF Leads, StepOf
  <2>2. \A m \in Open \ {n} : \A r \in Row : Occurs(r, m.rows) => Leads(r, m.id)
    BY DEF RouteInv
  <2>3. \A r \in Row : delta'[r] # 0 => /\ Leads(r, delta'[r])
                                        /\ \A m \in Open \ {n} : m.id # delta'[r]
    <3> TAKE r \in Row
    <3>1. CASE Occurs(r, n.rows)
      BY <1>4, <3>1 DEF OpenInv, RouteInv
    <3>2. CASE ~Occurs(r, n.rows)
      BY <1>4, <3>2 DEF OpenInv, RouteInv
    <3> QED
      BY <3>1, <3>2
  <2> HIDE DEF RouteInv
  <2> QED
    BY <1>2, <2>1, <2>2, <2>3 DEF RouteInv
<1> QED
  BY <1>5, <1>6, <1>7

SplitBy(n, f) ==
  /\ Open' = (Open \ {n}) \cup {[id |-> Len(nodes) + 1, rows |-> Kept(n.rows, left[f])],
                                [id |-> Len(nodes) + 2, rows |-> Kept(n.rows, Row \ left[f])]}
  /\ nodes' = [nodes EXCEPT ![n.id] = [feat |-> f, child |-> Len(nodes) + 1]]
                \o << Leaf, Leaf >>
  /\ UNCHANGED << left, delta >>

\* So does splitting a node in two that share its rows.
LEMMA SplitKeepsOpen ==
  ASSUME GrownTree, OpenInv, RouteInv, Feature \subseteq Nat \ {0},
         NEW n \in Open, NEW f \in Feature, SplitBy(n, f)
  PROVE  GrownTree' /\ OpenInv' /\ RouteInv'
<1> DEFINE N == Len(nodes)
           L == left[f]
           a == [id |-> N + 1, rows |-> Kept(n.rows, L)]
           b == [id |-> N + 2, rows |-> Kept(n.rows, Row \ L)]
<1>1. /\ nodes \in Seq(TreeNode) /\ N \in Nat /\ f # 0
      /\ n.id \in 1..N /\ nodes[n.id].feat = 0
      /\ n.rows \in Seq(Row) /\ ~Repeats(n.rows)
      /\ left \in [Feature -> SUBSET Row]
  BY DEF GrownTree, OpenInv
<1>2. /\ nodes' \in Seq(TreeNode) /\ Len(nodes') = N + 2
      /\ nodes'[n.id] = [feat |-> f, child |-> N + 1]
      /\ \A k \in 1..N : k # n.id => nodes'[k] = nodes[k]
      /\ nodes'[N + 1] = Leaf /\ nodes'[N + 2] = Leaf
  BY <1>1, Growth DEF SplitBy
<1>3. left' = left /\ delta' = delta /\ Open' = (Open \ {n}) \cup {a, b}
  BY DEF SplitBy
<1>4. \A i \in 1..N + 2 : i \in 1..N \/ i = N + 1 \/ i = N + 2
  BY <1>1
<1>5. nodes'[n.id].feat = f /\ nodes'[n.id].child = N + 1
      /\ nodes'[N + 1].feat = 0 /\ nodes'[N + 2].feat = 0
  BY <1>2 DEF Leaf
<1>6. GrownTree'
  <2>1. delta' \in [Row -> 0..N + 2]
    BY <1>1, <1>3 DEF GrownTree
  <2>2. ASSUME NEW i \in 1..N + 2, nodes'[i].feat # 0
        PROVE  nodes'[i].child > i /\ nodes'[i].child + 1 <= N + 2
    <3>1. CASE i = n.id
      BY <1>1, <1>5, <3>1
    <3>2. CASE i # n.id
      <4>1. i \in 1..N /\ nodes'[i] = nodes[i]
        BY <1>2, <1>4, <1>5, <2>2, <3>2
      <4>2. nodes[i].child > i /\ nodes[i].child + 1 <= N
        BY <2>2, <4>1 DEF GrownTree
      <4>3. nodes[i] \in TreeNode
        BY <1>1, <4>1
      <4>4. nodes[i].child \in Nat
        BY <4>3 DEF TreeNode
      <4> QED
        BY <1>1, <4>1, <4>2, <4>4
    <3> QED
      BY <3>1, <3>2
  <2>3. nodes' # << >>
    BY <1>1, <1>2
  <2> QED
    BY <1>1, <1>2, <1>3, <2>1, <2>2, <2>3 DEF GrownTree
<1>7. /\ a.rows \in Seq(Row) /\ ~Repeats(a.rows)
      /\ \A r : Occurs(r, a.rows) <=> r \in L /\ Occurs(r, n.rows)
  BY <1>1, KeptHas
<1>8. /\ b.rows \in Seq(Row) /\ ~Repeats(b.rows)
      /\ \A r : Occurs(r, b.rows) <=> r \in Row \ L /\ Occurs(r, n.rows)
  BY <1>1, KeptHas
<1>9. a.id = N + 1 /\ b.id = N + 2
  OBVIOUS
<1> HIDE DEF a, b, L
<1>10. \A m \in Open \ {n} : m.id \in 1..N /\ m.id # n.id /\ nodes[m.id].feat = 0
  BY DEF OpenInv
<1>11. OpenInv'
  <2>1. ASSUME NEW m \in Open'
        PROVE  /\ m.id \in 1..N + 2 /\ nodes'[m.id].feat = 0
               /\ m.rows \in Seq(Row) /\ ~Repeats(m.rows)
    <3>1. CASE m \in Open \ {n}
      BY <1>1, <1>2, <1>10, <3>1 DEF OpenInv
    <3>2. CASE m = a
      BY <1>1, <1>5, <1>7, <1>9, <3>2
    <3>3. CASE m = b
      BY <1>1, <1>5, <1>8, <1>9, <3>3
    <3> QED
      BY <1>3, <3>1, <3>2, <3>3
  <2>2. ASSUME NEW m \in Open', NEW o \in Open', m.id = o.id PROVE m = o
    <3>1. m \in Open \ {n} \/ m = a \/ m = b
      BY <1>3
    <3>2. o \in Open \ {n} \/ o = a \/ o = b
      BY <1>3
    <3>3. \A x \in Open \ {n} : x.id # N + 1 /\ x.id # N + 2
      BY <1>1, <1>10
    <3>4. N + 1 # N + 2
      BY <1>1
    <3>5. \A x, y \in Open \ {n} : x.id = y.id => x = y
      BY DEF OpenInv
    <3>6. CASE m \in Open \ {n}
      <4>1. o \in Open \ {n}
        BY <1>9, <2>2, <3>2, <3>3, <3>6
      <4> QED
        BY <2>2, <3>5, <3>6, <4>1
    <3>7. CASE m = a \/ m = b
      <4>1. o = a \/ o = b
        BY <1>9, <2>2, <3>2, <3>3, <3>7
      <4> QED
        BY <1>9, <2>2, <3>4, <3>7, <4>1
    <3> QED
      BY <3>1, <3>6, <3>7
  <2>3. ASSUME NEW m \in Open', NEW o \in Open', NEW r \in Row,
               Occurs(r, m.rows), Occurs(r, o.rows)
        PROVE  m = o
    <3>1. m \in Open \ {n} \/ m = a \/ m = b
      BY <1>3
    <3>2. o \in Open \ {n} \/ o = a \/ o = b
      BY <1>3
    <3>3. \A x \in Open \ {n} : Occurs(r, x.rows) => ~Occurs(r, n.rows)
      BY DEF OpenInv
    <3>4. \A x, y \in Open \ {n} : Occurs(r, x.rows) /\ Occurs(r, y.rows) => x = y
      BY DEF OpenInv
    <3>5. Occurs(r, a.rows) => r \in L /\ Occurs(r, n.rows)
      BY <1>7
    <3>6. Occurs(r, b.rows) => r \notin L /\ Occurs(r, n.rows)
      BY <1>8
    <3>7. CASE m \in Open \ {n}
      <4>1. o \in Open \ {n}
        BY <2>3, <3>2, <3>3, <3>5, <3>6, <3>7
      <4> QED
        BY <2>3, <3>4, <3>7, <4>1
    <3>8. CASE m = a \/ m = b
      <4>1. Occurs(r, n.rows) /\ (m = a => r \in L) /\ (m = b => r \notin L)
        BY <2>3, <3>5, <3>6, <3>8
      <4>2. o = a \/ o = b
        BY <2>3, <3>2, <3>3, <4>1
      <4>3. (o = a => r \in L) /\ (o = b => r \notin L)
        BY <2>3, <3>5, <3>6
      <4> QED
        BY <3>8, <4>1, <4>2, <4>3
    <3> QED
      BY <3>1, <3>7, <3>8
  <2>4. ASSUME NEW r \in Row
        PROVE  delta[r] = 0 <=> \E m \in Open' : Occurs(r, m.rows)
    <3>1. delta[r] = 0 <=> \E m \in Open : Occurs(r, m.rows)
      BY DEF OpenInv
    <3>2. Occurs(r, n.rows) <=> Occurs(r, a.rows) \/ Occurs(r, b.rows)
      BY <1>7, <1>8
    <3> QED
      BY <1>3, <3>1, <3>2, Zenon
  <2> QED
    BY <1>2, <1>3, <2>1, <2>2, <2>3, <2>4 DEF OpenInv
<1>12. ASSUME NEW r, NEW l, Leads(r, l), l # n.id PROVE Leads(r, l)'
  <2>1. PICK P \in SUBSET (1..N) :
          /\ 1 \in P /\ l \in P /\ nodes[l].feat = 0
          /\ \A i \in P \ {l} : nodes[i].feat # 0 /\ StepOf(r, i) \in P
    BY <1>12 DEF Leads
  <2>2. n.id \notin P
    BY <1>1, <1>12, <2>1
  <2>3. \A i \in P : nodes'[i] = nodes[i] /\ StepOf(r, i)' = StepOf(r, i)
    <3> TAKE i \in P
    <3>1. nodes'[i] = nodes[i]
      BY <1>2, <2>1, <2>2
    <3> QED
      BY <1>3, <3>1 DEF StepOf
  <2>4. P \in SUBSET (1..N + 2)
    BY <1>1, <2>1
  <2> QED
    BY <1>2, <2>1, <2>3, <2>4 DEF Leads
<1>p. PICK p, q : p = N + 1 /\ q = N + 2
  OBVIOUS
<1>13. ASSUME NEW r \in Row, Leads(r, n.id)
       PROVE  /\ r \in L => Leads(r, p)'
              /\ r \notin L => Leads(r, q)'
  <2>1. PICK P \in SUBSET (1..N) :
          /\ 1 \in P /\ n.id \in P /\ nodes[n.id].feat = 0
          /\ \A i \in P \ {n.id} : nodes[i].feat # 0 /\ StepOf(r, i) \in P
    BY <1>13 DEF Leads
  <2>c. PICK c : c = IF r \in L THEN p ELSE q
    OBVIOUS
  <2> DEFINE Q == P \cup {c}
  <2>2. c \in {N + 1, N + 2} /\ c \notin P /\ Q \in SUBSET (1..N + 2)
    <3>1. c \in {N + 1, N + 2}
      BY <1>p, <2>c
    <3> QED
      BY <1>1, <2>1, <3>1
  <2>3. StepOf(r, n.id)' = c
    <3>1. StepOf(r, n.id)' = IF r \in left[f] THEN N + 1 ELSE (N + 1) + 1
      BY <1>3, <1>5, Zenon DEF StepOf
    <3> QED
      BY <1>1, <1>p, <2>c, <3>1 DEF L
  <2>4. \A i \in P \ {n.id} : nodes'[i] = nodes[i] /\ StepOf(r, i)' = StepOf(r, i)
    <3> TAKE i \in P \ {n.id}
    <3>1. nodes'[i] = nodes[i]
      BY <1>2, <2>1
    <3> QED
      BY <1>3, <3>1 DEF StepOf
  <2>5. nodes'[c].feat = 0
    BY <1>5, <2>2
  <2>6. \A i \in Q \ {c} : nodes'[i].feat # 0 /\ StepOf(r, i)' \in Q
    <3> TAKE i \in Q \ {c}
    <3>1. CASE i = n.id
      BY <1>1, <1>5, <2>3, <3>1
    <3>2. CASE i # n.id
      BY <2>1, <2>4, <3>2
    <3> QED
      BY <3>1, <3>2
  <2>7. 1 \in Q /\ c \in Q
    BY <2>1
  <2> HIDE DEF Q
  <2>8. Leads(r, c)'
    <3>1. Q \in SUBSET (1..Len(nodes'))
      BY <1>2, <2>2
    <3> QED
      BY <2>5, <2>6, <2>7, <3>1, Zenon DEF Leads
  <2>9. CASE r \in L
    <3>1. c = p
      BY <2>c, <2>9
    <3>2. Leads(r, p)'
      BY <2>8, <3>1
    <3> QED
      BY <2>9, <3>2
  <2>10. CASE r \notin L
    <3>1. c = q
      BY <2>c, <2>10
    <3>2. Leads(r, q)'
      BY <2>8, <3>1
    <3> QED
      BY <2>10, <3>2
  <2> QED
    BY <2>9, <2>10
<1>14. RouteInv'
  <2>1. ASSUME NEW m \in Open', NEW r \in Row, Occurs(r, m.rows) PROVE Leads(r, m.id)'
    <3>1. CASE m \in Open \ {n}
      BY <1>10, <1>12, <2>1, <3>1 DEF RouteInv
    <3>2. CASE m = a
      <4>1. r \in L /\ Occurs(r, n.rows)
        BY <1>7, <2>1, <3>2
      <4>2. Leads(r, n.id)
        BY <4>1 DEF RouteInv
      <4>3. Leads(r, p)'
        BY <1>13, <4>1, <4>2
      <4> QED
        BY <1>9, <1>p, <3>2, <4>3
    <3>3. CASE m = b
      <4>1. r \notin L /\ Occurs(r, n.rows)
        BY <1>8, <2>1, <3>3
      <4>2. Leads(r, n.id)
        BY <4>1 DEF RouteInv
      <4>3. Leads(r, q)'
        BY <1>13, <4>1, <4>2
      <4> QED
        BY <1>9, <1>p, <3>3, <4>3
    <3> QED
      BY <1>3, <3>1, <3>2, <3>3
  <2>2. ASSUME NEW r \in Row, delta[r] # 0
        PROVE  Leads(r, delta[r])' /\ \A m \in Open' : m.id # delta[r]
    <3>1. Leads(r, delta[r]) /\ delta[r] # n.id /\ \A m \in Open \ {n} : m.id # delta[r]
      BY <2>2 DEF RouteInv
    <3>2. delta[r] \in 0..N
      BY DEF GrownTree
    <3>3. delta[r] # N + 1 /\ delta[r] # N + 2
      BY <1>1, <3>2
    <3> QED
      BY <1>3, <1>9, <1>12, <3>1, <3>3
  <2> QED
    BY <1>3, <2>1, <2>2 DEF RouteInv
<1> QED
  BY <1>6, <1>11, <1>14

\* Descending the tree is following the way.
LEMMA DescendIs ==
  ASSUME GrownTree, NEW r \in Row, NEW l, Leads(r, l)
  PROVE  Descend(r) = l
<1> DEFINE N == Len(nodes)
           Go(v, i) == IF nodes[i].feat = 0 THEN i ELSE v[StepOf(r, i)]
           Right(v, k) == \A i \in 1..N : i > N - k => v[i] = Go(v, i)
           K == {k \in Nat : \E v \in [1..N -> Nat] : Right(v, k)}
           IsDescent(v) == v = [i \in 1..N |-> Go(v, i)]
           u == CHOOSE v : IsDescent(v)
<1>1. N \in Nat /\ DOMAIN nodes = 1..N
  BY DEF GrownTree
<1>2. ASSUME NEW i \in 1..N, nodes[i].feat # 0
      PROVE  StepOf(r, i) \in 1..N /\ StepOf(r, i) > i
  <2>1. nodes[i].child > i /\ nodes[i].child + 1 <= N
    BY <1>2 DEF GrownTree
  <2>2. nodes[i] \in TreeNode
    BY DEF GrownTree
  <2>3. nodes[i].child \in Nat
    BY <2>2 DEF TreeNode
  <2> QED
    BY <1>1, <2>1, <2>3 DEF StepOf
<1>3. Descend(r) = u[1]
  BY <1>1 DEF Descend, StepOf
<1>4. 0 \in K
  <2>1. [i \in 1..N |-> 0] \in [1..N -> Nat]
    OBVIOUS
  <2>2. Right([i \in 1..N |-> 0], 0)
    BY <1>1
  <2> QED
    BY <2>1, <2>2
<1>5. ASSUME NEW k \in K PROVE k + 1 \in K
  <2>1. k \in Nat
    OBVIOUS
  <2>2. PICK v \in [1..N -> Nat] : Right(v, k)
    BY <1>5
  <2>3. PICK j : j = N - k
    OBVIOUS
  <2>4. j \in Int
    BY <1>1, <2>1, <2>3
  <2>5. CASE j \notin 1..N
    <3>1. Right(v, k + 1)
      BY <1>1, <2>1, <2>2, <2>3, <2>5
    <3> QED
      BY <2>1, <3>1
  <2>6. CASE j \in 1..N
    <3> DEFINE w == [v EXCEPT ![j] = Go(v, j)]
    <3>1. Go(v, j) \in Nat
      BY <1>2, <2>2, <2>6
    <3>2. w \in [1..N -> Nat] /\ w[j] = Go(v, j) /\ \A i \in 1..N : i # j => w[i] = v[i]
      BY <2>2, <2>6, <3>1
    <3> HIDE DEF w
    <3>3. ASSUME NEW i \in 1..N, i >= j PROVE Go(w, i) = Go(v, i)
      <4>1. nodes[i].feat # 0 => w[StepOf(r, i)] = v[StepOf(r, i)]
        BY <1>1, <1>2, <2>4, <3>2, <3>3
      <4> QED
        BY <4>1
    <3>4. ASSUME NEW i \in 1..N, i > N - (k + 1) PROVE w[i] = Go(w, i)
      <4>1. i >= j
        BY <1>1, <2>1, <2>3, <3>4
      <4>2. CASE i = j
        BY <3>2, <3>3, <4>1, <4>2
      <4>3. CASE i # j
        <5>a. i \in Int /\ i # j
          BY <1>1, <4>3
        <5>b. i > j
          BY <2>4, <4>1, <5>a
        <5>1. i > N - k
          BY <2>3, <5>b
        <5>2. v[i] = Go(v, i)
          BY <2>2, <5>1
        <5> QED
          BY <3>2, <3>3, <4>1, <4>3, <5>2
      <4> QED
        BY <4>2, <4>3
    <3> HIDE DEF Go
    <3>5. Right(w, k + 1)
      BY <3>4
    <3> QED
      BY <2>1, <3>2, <3>5
  <2> QED
    BY <2>5, <2>6
<1>6. K \in SUBSET Nat
  OBVIOUS
<1> HIDE DEF K
<1>7. N \in K
  BY <1>1, <1>4, <1>5, <1>6, NatSetInduction
<1>8. PICK v \in [1..N -> Nat] : Right(v, N)
  BY <1>7 DEF K
<1> HIDE DEF Go
<1>9. \A i \in 1..N : v[i] = Go(v, i)
  BY <1>1, <1>8
<1>10. IsDescent(v)
  <2>1. v = [i \in 1..N |-> v[i]]
    OBVIOUS
  <2> QED
    BY <1>9, <2>1, Zenon
<1>11. IsDescent(u)
  BY <1>10
<1> HIDE DEF u
<1>12. \A i \in 1..N : u[i] = Go(u, i)
  BY <1>11, Zenon
<1> HIDE DEF IsDescent
<1>13. PICK P \in SUBSET (1..N) :
         /\ 1 \in P /\ l \in P /\ nodes[l].feat = 0
         /\ \A i \in P \ {l} : nodes[i].feat # 0 /\ StepOf(r, i) \in P
  BY DEF Leads
<1> DEFINE S == {k \in Nat : \A i \in P : i >= N - k => u[i] = l}
<1>14. ASSUME NEW i \in P, \A j \in P : j > i => u[j] = l PROVE u[i] = l
  <2>1. CASE i = l
    BY <1>12, <1>13, <2>1 DEF Go
  <2>2. CASE i # l
    <3>1. nodes[i].feat # 0 /\ StepOf(r, i) \in P
      BY <1>13, <2>2
    <3>2. StepOf(r, i) > i
      BY <1>2, <1>13, <3>1
    <3>3. u[i] = u[StepOf(r, i)]
      BY <1>12, <1>13, <3>1 DEF Go
    <3> QED
      BY <1>14, <3>1, <3>2, <3>3
  <2> QED
    BY <2>1, <2>2
<1>15. 0 \in S
  BY <1>1, <1>14
<1>16. ASSUME NEW k \in S PROVE k + 1 \in S
  <2>1. k \in Nat /\ \A i \in P : i >= N - k => u[i] = l
    BY <1>16
  <2>2. ASSUME NEW i \in P, i >= N - (k + 1) PROVE u[i] = l
    <3>1. \A j \in P : j > i => j >= N - k
      BY <1>1, <2>1, <2>2
    <3> QED
      BY <1>14, <2>1, <3>1
  <2> QED
    BY <2>1, <2>2
<1>17. S \in SUBSET Nat
  OBVIOUS
<1> HIDE DEF S
<1>18. N \in S
  BY <1>1, <1>15, <1>16, <1>17, NatSetInduction
<1>19. u[1] = l
  <2>1. 1 >= N - N
    BY <1>1
  <2> QED
    BY <1>13, <1>18, <2>1 DEF S
<1> QED
  BY <1>3, <1>19

----------------------------------------------------------------------------
(***************************************************************************)
(* The inductive invariant of the arena                                    *)
(***************************************************************************)

\* The types of the arena.
Owner == [node : Nat \ {0}, span : Spans]
PendingEntry == [out_offset : 0..NRows, n_selected : 0..NRows]
Fits(span) == span.offset + span.len <= NRows

ArenaType ==
  /\ stage \in {"choose", "partition", "settle", "done"}
  /\ at_depth \in 0..MaxLevels
  /\ owners \in Seq(Owner) /\ \A k \in 1..Len(owners) : Fits(owners[k].span)
  /\ next_owners \in Seq(Owner) /\ \A k \in 1..Len(next_owners) : Fits(next_owners[k].span)
  /\ rows \in [1..NRows -> Row] /\ next_rows \in [1..NRows -> Row]
  /\ cursor \in 0..NRows
  /\ part_pending \in Seq(PendingEntry) /\ part_totals \in Seq(0..NRows)
  /\ Len(part_pending) = Len(part_totals)
  /\ slot \in 1..Len(owners) + 1

\* What each stage of a level has left behind; a level is at most twice as wide as the last.
FlowInv ==
  /\ stage \in {"choose", "done"} =>
       next_owners = << >> /\ cursor = 0 /\ part_pending = << >> /\ part_totals = << >>
  /\ stage = "partition" => next_owners = << >> /\ slot = 1
  /\ stage \in {"partition", "settle"} =>
       at_depth < MaxLevels /\ chosen \in [1..Len(owners) -> Feature \cup {0}]
  /\ stage = "choose" /\ slot # 1 => at_depth = MaxLevels
  /\ Len(owners) <= 2 ^ at_depth
  /\ stage = "settle" => Len(next_owners) <= 2 * (slot - 1)

\* The nodes of the level that are still open.
Live == {k \in 1..Len(owners) : stage # "done" /\ slot <= k}

\* No node is open twice.
IdInv ==
  /\ \A j, k \in Live : owners[j].node = owners[k].node => j = k
  /\ \A j, k \in 1..Len(next_owners) : next_owners[j].node = next_owners[k].node => j = k
  /\ \A j \in Live : \A k \in 1..Len(next_owners) : owners[j].node # next_owners[k].node

\* The rows of a node, and of the nodes that have been launched.
Held(k) == {r \in Row : Occurs(r, RowsOf(owners[k].span))}
Tokened == {k \in 1..Len(owners) : part_tokens[k] # 0}
HeldBy(K) == UNION {Held(k) : k \in K}

\* The next arena has the rows of node k behind place o, those that go left first.
Placed(k, o) ==
  /\ o + owners[k].span.len <= NRows
  /\ \A i \in 1..owners[k].span.len : next_rows[o + i] = Scattered(k)[i]

\* What the token of node k stands for.
Delivered(k, t) ==
  /\ t \in 1..Len(part_pending)
  /\ part_pending[t].n_selected = owners[k].span.len
  /\ part_totals[t] = Len(GoLeft(k))
  /\ Placed(k, part_pending[t].out_offset)
  /\ owners[k].span.len > 0 => part_pending[t].out_offset + owners[k].span.len <= cursor

\* Every node with a split waits for its launch or has an entry, and the arena is
\* filled with exactly the rows of the latter.
LaunchInv ==
  /\ unlaunched \subseteq {k \in 1..Len(owners) : chosen[k] # 0}
  /\ part_tokens \in [1..Len(owners) -> Nat]
  /\ \A k \in 1..Len(owners) : part_tokens[k] = 0 <=> chosen[k] = 0 \/ k \in unlaunched
  /\ Len(part_pending) + Cardinality(unlaunched) <= Len(owners)
  /\ \A k \in Tokened : Delivered(k, part_tokens[k])
  /\ Cardinality(HeldBy(Tokened)) = cursor

\* The spans of the children hold the rows the split sends each way.
PairFound(k) ==
  /\ parts[k][1] \in Spans /\ Fits(parts[k][1]) /\ RowsIn(next_rows, parts[k][1]) = GoLeft(k)
  /\ parts[k][2] \in Spans /\ Fits(parts[k][2]) /\ RowsIn(next_rows, parts[k][2]) = GoRight(k)

PairsInv == \A k \in slot..Len(owners) : chosen[k] # 0 => PairFound(k)

\* The inductive invariant.
ArenaInv ==
  /\ ArenaType /\ FlowInv /\ IdInv
  /\ stage = "partition" => LaunchInv
  /\ stage = "settle" => PairsInv
  /\ GrownTree /\ OpenInv /\ RouteInv

LEMMA ArenaNumbers ==
  /\ NRows \in Nat \ {0} /\ MaxLevels \in Nat \ {0} /\ BatchCap \in Nat \ {0}
  /\ MaxLevelNodes \in Nat /\ Feature \subseteq Nat \ {0}
  BY RowArenaParams DEF ArenaParams

\* The rows of a span that lies in the arena.
LEMMA RowsInSeq ==
  ASSUME NEW array \in [1..NRows -> Row], NEW span \in Spans, Fits(span)
  PROVE  /\ RowsIn(array, span) \in Seq(Row) /\ Len(RowsIn(array, span)) = span.len
         /\ \A i \in 1..span.len : RowsIn(array, span)[i] = array[span.offset + i]
<1>1. span.len \in Nat /\ span.offset \in Nat /\ NRows \in Nat
  BY ArenaNumbers DEF Spans
<1>2. \A i \in 1..span.len : span.offset + i \in 1..NRows
  BY <1>1 DEF Fits
<1>3. \A i \in 1..span.len : array[span.offset + i] \in Row
  BY <1>2
<1> QED
  BY <1>1, <1>3 DEF RowsIn

\* The open nodes one by one.
LiveNode(k) == [id |-> owners[k].node, rows |-> RowsOf(owners[k].span)]
NextNode(k) == [id |-> next_owners[k].node, rows |-> RowsIn(next_rows, next_owners[k].span)]

\* The open nodes are those of this level not yet reached and the children collected so far.
LEMMA OpenNodes ==
  ASSUME owners \in Seq(Owner), next_owners \in Seq(Owner)
  PROVE  Open = {LiveNode(k) : k \in Live} \cup {NextNode(k) : k \in 1..Len(next_owners)}
<1>1. DOMAIN owners = 1..Len(owners) /\ DOMAIN next_owners = 1..Len(next_owners)
  OBVIOUS
<1>2. {k \in DOMAIN owners : stage # "done" /\ slot <= k} = Live
  BY <1>1 DEF Live
<1> QED
  BY <1>1, <1>2 DEF Open, LiveNode, NextNode

\* What the invariant says of an open node of the level.
LEMMA LiveFacts ==
  ASSUME ArenaType, OpenInv, IdInv
  PROVE  /\ \A k \in Live :
              /\ k \in 1..Len(owners) /\ LiveNode(k) \in Open
              /\ owners[k] \in Owner /\ owners[k].span \in Spans /\ Fits(owners[k].span)
              /\ owners[k].node \in 1..Len(nodes) /\ nodes[owners[k].node].feat = 0
              /\ RowsOf(owners[k].span) \in Seq(Row) /\ ~Repeats(RowsOf(owners[k].span))
              /\ Len(RowsOf(owners[k].span)) = owners[k].span.len
         /\ \A j, k \in Live : \A r \in Row :
              Occurs(r, RowsOf(owners[j].span)) /\ Occurs(r, RowsOf(owners[k].span)) => j = k
<1>1. Open = {LiveNode(k) : k \in Live} \cup {NextNode(k) : k \in 1..Len(next_owners)}
  BY OpenNodes DEF ArenaType
<1>2. ASSUME NEW k \in Live
      PROVE  /\ k \in 1..Len(owners) /\ LiveNode(k) \in Open
             /\ owners[k] \in Owner /\ owners[k].span \in Spans /\ Fits(owners[k].span)
             /\ owners[k].node \in 1..Len(nodes) /\ nodes[owners[k].node].feat = 0
             /\ RowsOf(owners[k].span) \in Seq(Row) /\ ~Repeats(RowsOf(owners[k].span))
             /\ Len(RowsOf(owners[k].span)) = owners[k].span.len
  <2>1. k \in 1..Len(owners) /\ LiveNode(k) \in Open
    BY <1>1 DEF Live
  <2>2. owners[k] \in Owner /\ Fits(owners[k].span)
    BY <2>1 DEF ArenaType
  <2>3. owners[k].span \in Spans
    BY <2>2 DEF Owner
  <2>4. LiveNode(k).id = owners[k].node /\ LiveNode(k).rows = RowsOf(owners[k].span)
    BY DEF LiveNode
  <2>5. owners[k].node \in 1..Len(nodes) /\ nodes[owners[k].node].feat = 0
        /\ ~Repeats(RowsOf(owners[k].span))
    BY <2>1, <2>4 DEF OpenInv
  <2>6. rows \in [1..NRows -> Row]
    BY DEF ArenaType
  <2>7. /\ RowsOf(owners[k].span) \in Seq(Row)
        /\ Len(RowsOf(owners[k].span)) = owners[k].span.len
    BY <2>2, <2>3, <2>6, RowsInSeq DEF RowsOf
  <2> QED
    BY <2>1, <2>2, <2>3, <2>5, <2>7
<1>3. ASSUME NEW j \in Live, NEW k \in Live, NEW r \in Row,
             Occurs(r, RowsOf(owners[j].span)), Occurs(r, RowsOf(owners[k].span))
      PROVE  j = k
  <2>1. LiveNode(j) \in Open /\ LiveNode(k) \in Open
    BY <1>2
  <2>2. /\ LiveNode(j).rows = RowsOf(owners[j].span) /\ LiveNode(j).id = owners[j].node
        /\ LiveNode(k).rows = RowsOf(owners[k].span) /\ LiveNode(k).id = owners[k].node
    BY DEF LiveNode
  <2>3. LiveNode(j) = LiveNode(k)
    BY <1>3, <2>1, <2>2 DEF OpenInv
  <2> QED
    BY <2>2, <2>3 DEF IdInv
<1> QED
  BY <1>2, <1>3

----------------------------------------------------------------------------
(***************************************************************************)
(* Leaf values                                                             *)
(***************************************************************************)

\* SettleSlot and SettleRest do this.
PayStep ==
  /\ slot \in Live
  /\ Pays(rows, owners[slot].span, owners[slot].node)
  /\ slot' = slot + 1
  /\ UNCHANGED << left, stage, at_depth, owners, chosen, unlaunched, part_tokens, arena, parts,
                  next_owners, nodes, trees >>

\* add_row_values closes the node at slot.
LEMMA PayingCloses ==
  ASSUME ArenaType, OpenInv, IdInv, PayStep
  PROVE  LiveNode(slot) \in Open /\ PaidBy(LiveNode(slot))
<1> DEFINE n == LiveNode(slot)
<1>1. /\ slot \in Live /\ slot \in Nat /\ slot' = slot + 1
      /\ UNCHANGED << left, stage, owners, rows, next_rows, next_owners, nodes >>
  BY DEF PayStep, arena, ArenaType
<1>2. /\ n \in Open /\ n.id = owners[slot].node /\ n.rows = RowsOf(owners[slot].span)
      /\ Len(RowsOf(owners[slot].span)) = owners[slot].span.len
  BY <1>1, LiveFacts DEF LiveNode
<1>3. \A r : Occurs(r, n.rows) <=>
              \E i \in 1..owners[slot].span.len : RowsIn(rows, owners[slot].span)[i] = r
  BY <1>2 DEF Occurs, RowsOf
<1>4. delta' = [r \in Row |-> IF Occurs(r, n.rows) THEN n.id ELSE delta[r]]
  BY <1>2, <1>3 DEF PayStep, Pays
<1>5. Open = {LiveNode(k) : k \in Live} \cup {NextNode(k) : k \in 1..Len(next_owners)}
  BY OpenNodes DEF ArenaType
<1>6. Open' = {LiveNode(k)' : k \in Live'} \cup {NextNode(k)' : k \in 1..Len(next_owners')}
  <2>1. DOMAIN owners' = 1..Len(owners') /\ DOMAIN next_owners' = 1..Len(next_owners')
    BY <1>1 DEF ArenaType
  <2>2. {k \in DOMAIN owners' : stage' # "done" /\ slot' <= k} = Live'
    BY <2>1 DEF Live
  <2> QED
    BY <2>1, <2>2 DEF Open, LiveNode, NextNode
<1>7. Live' = Live \ {slot}
  BY <1>1 DEF Live
<1>8. \A k : LiveNode(k)' = LiveNode(k) /\ NextNode(k)' = NextNode(k)
  BY <1>1 DEF LiveNode, NextNode, RowsOf, RowsIn
<1>9. Len(next_owners') = Len(next_owners)
  BY <1>1
<1>10. \A k \in Live \ {slot} : LiveNode(k) # n
  BY <1>1 DEF LiveNode, IdInv
<1>11. \A k \in 1..Len(next_owners) : NextNode(k) # n
  BY <1>1 DEF LiveNode, NextNode, IdInv
<1> HIDE DEF n
<1>12. Open' = {LiveNode(k) : k \in Live \ {slot}} \cup
               {NextNode(k) : k \in 1..Len(next_owners)}
  BY <1>6, <1>7, <1>8, <1>9
<1>13. Open' = Open \ {n}
  BY <1>1, <1>5, <1>10, <1>11, <1>12 DEF n
<1> QED
  BY <1>1, <1>2, <1>4, <1>13 DEF PaidBy, n

\* Paying a node of the level, split or not, keeps the invariant.
LEMMA PayKeeps ==
  ASSUME ArenaInv, PayStep, stage = "settle" \/ at_depth = MaxLevels, stage # "partition"
  PROVE  ArenaInv'
<1>1. ArenaType /\ OpenInv /\ IdInv /\ FlowInv /\ GrownTree /\ RouteInv
      /\ (stage = "settle" => PairsInv)
  BY DEF ArenaInv
<1>2. GrownTree' /\ OpenInv' /\ RouteInv'
  BY <1>1, PayingCloses, SettleKeepsOpen
<1>3. /\ slot \in Live /\ slot \in 1..Len(owners) /\ slot' = slot + 1 /\ Len(owners) \in Nat
      /\ UNCHANGED << left, stage, at_depth, owners, chosen, part_pending, part_totals, cursor,
                      rows, next_rows, next_owners, parts >>
  BY <1>1 DEF PayStep, arena, Live, ArenaType
<1>4. ArenaType'
  <2>1. slot' \in 1..Len(owners) + 1
    BY <1>3
  <2> QED
    BY <1>1, <1>3, <2>1 DEF ArenaType
<1>5. FlowInv'
  <2>1. Len(next_owners) <= 2 * (slot - 1) => Len(next_owners) <= 2 * ((slot + 1) - 1)
    BY <1>1, <1>3 DEF ArenaType
  <2> QED
    BY <1>1, <1>3, <2>1 DEF FlowInv
<1>6. IdInv'
  <2>1. Live' \subseteq Live
    BY <1>3 DEF Live
  <2> QED
    BY <1>1, <1>3, <2>1 DEF IdInv
<1>7. stage' = "settle" => PairsInv'
  <2>1. \A k : GoLeft(k)' = GoLeft(k) /\ GoRight(k)' = GoRight(k)
    BY <1>3 DEF GoLeft, GoRight, RowsOf, RowsIn, Kept
  <2>2. \A k : PairFound(k)' <=> PairFound(k)
    BY <1>3, <2>1 DEF PairFound, RowsIn, Fits
  <2>3. \A k \in slot + 1..Len(owners) : k \in slot..Len(owners)
    BY <1>3
  <2> QED
    BY <1>1, <1>3, <2>2, <2>3 DEF PairsInv
<1> QED
  BY <1>2, <1>3, <1>4, <1>5, <1>6, <1>7 DEF ArenaInv

\* The nodes of a level are at most twice those of the level above.
LEMMA Doubling ==
  ASSUME NEW n \in Nat
  PROVE  2 ^ n \in Nat /\ 2 ^ (n + 1) = 2 * 2 ^ n
<1> DEFINE S == SUBSET (1..n)
           T == {x \cup {n + 1} : x \in S}
           f == [x \in S |-> x \cup {n + 1}]
           U == SUBSET (1..n + 1)
<1>1. /\ IsFiniteSet(1..n) /\ Cardinality(1..n) = n
      /\ IsFiniteSet(1..n + 1) /\ Cardinality(1..n + 1) = n + 1
  <2>1. n \in Nat /\ n + 1 \in Nat
    OBVIOUS
  <2> QED
    BY <2>1, Counted
<1>2. IsFiniteSet(S) /\ Cardinality(S) = 2 ^ n
  BY <1>1, FS_SUBSET
<1>3. IsFiniteSet(U) /\ Cardinality(U) = 2 ^ (n + 1)
  <2>1. IsFiniteSet(U) /\ Cardinality(U) = 2 ^ Cardinality(1..n + 1)
    BY <1>1, FS_SUBSET
  <2> QED
    BY <1>1, <2>1
<1>4. f \in Bijection(S, T)
  <2>1. \A x, y \in S : f[x] = f[y] => x = y
    <3> TAKE x, y \in S
    <3>1. n + 1 \notin x /\ n + 1 \notin y
      OBVIOUS
    <3> QED
      BY <3>1
  <2>2. f \in [S -> T] /\ \A y \in T : \E x \in S : f[x] = y
    OBVIOUS
  <2> HIDE DEF S, T, f
  <2> QED
    BY <2>1, <2>2 DEF Bijection, Injection, Surjection, IsInjective
<1>5. IsFiniteSet(T) /\ Cardinality(T) = 2 ^ n
  BY <1>2, <1>4, FS_Bijection DEF ExistsBijection
<1>6. U = S \cup T
  <2>1. \A x \in U : x \in S \cup T
    <3> TAKE x \in U
    <3>1. CASE n + 1 \in x
      <4>1. x \ {n + 1} \in S /\ x = (x \ {n + 1}) \cup {n + 1}
        BY <3>1
      <4> QED
        BY <4>1
    <3>2. CASE n + 1 \notin x
      BY <3>2
    <3> QED
      BY <3>1, <3>2
  <2>2. S \subseteq U
    OBVIOUS
  <2>3. \A x \in S : x \cup {n + 1} \in U
    OBVIOUS
  <2>4. T \subseteq U
    BY <2>3
  <2> HIDE DEF S, T, U
  <2> QED
    BY <2>1, <2>2, <2>4
<1>7. S \cap T = {}
  OBVIOUS
<1>8. Cardinality(S) \in Nat
  BY <1>2, FS_CardinalityType
<1> HIDE DEF S, T, U
<1>9. Cardinality(U) = Cardinality(S) + Cardinality(T) - Cardinality(S \cap T)
  BY <1>2, <1>5, <1>6, FS_Union
<1>10. Cardinality(S \cap T) = 0
  BY <1>7, FS_EmptySet
<1> QED
  BY <1>2, <1>3, <1>5, <1>8, <1>9, <1>10

\* A level is never wider than the last one may be.
LEMMA WiderBelow ==
  ASSUME NEW m \in Nat, NEW n \in Nat, m <= n
  PROVE  2 ^ m <= 2 ^ n
<1>1. /\ IsFiniteSet(1..m) /\ Cardinality(1..m) = m
      /\ IsFiniteSet(1..n) /\ Cardinality(1..n) = n
  BY Counted
<1>2. /\ IsFiniteSet(SUBSET (1..n)) /\ Cardinality(SUBSET (1..n)) = 2 ^ n
      /\ Cardinality(SUBSET (1..m)) = 2 ^ m
  BY <1>1, FS_SUBSET
<1>3. SUBSET (1..m) \in SUBSET (SUBSET (1..n))
  OBVIOUS
<1> QED
  BY <1>2, <1>3, FS_Subset

----------------------------------------------------------------------------
(***************************************************************************)
(* The beginning of a tree and of a level                                  *)
(***************************************************************************)

\* A tree begins.
Fresh ==
  /\ left \in [Feature -> SUBSET Row]
  /\ stage = "choose" /\ at_depth = 0 /\ slot = 1
  /\ owners = RootOwner /\ next_owners = << >>
  /\ rows = Identity /\ next_rows \in [1..NRows -> Row]
  /\ cursor = 0 /\ part_pending = << >> /\ part_totals = << >>
  /\ nodes = << Leaf >> /\ delta = [r \in Row |-> 0]

\* Of a fresh tree the root alone is open, with every row.
LEMMA FreshOpen == Fresh => Open = {[id |-> 1, rows |-> Identity]} /\ Len(nodes) = 1
<1> SUFFICES ASSUME Fresh PROVE Open = {[id |-> 1, rows |-> Identity]} /\ Len(nodes) = 1
  OBVIOUS
<1> DEFINE o == [node |-> 1, span |-> Span(0, NRows)]
<1>1. /\ NRows \in Nat \ {0} /\ stage = "choose" /\ slot = 1 /\ next_owners = << >>
      /\ rows = Identity /\ nodes = << Leaf >> /\ owners = << o >>
  BY ArenaNumbers DEF Fresh, RootOwner
<1>2. o.node = 1 /\ o.span.offset = 0 /\ o.span.len = NRows
  BY DEF Span
<1> HIDE DEF o
<1>3. {k \in DOMAIN owners : stage # "done" /\ slot <= k} = {1} /\ DOMAIN next_owners = {}
  BY <1>1
<1>4. RowsOf(owners[1].span) = Identity
  BY <1>1, <1>2 DEF RowsOf, RowsIn, Identity
<1>5. Open = {[id |-> owners[1].node, rows |-> RowsOf(owners[1].span)]}
  BY <1>3 DEF Open
<1> QED
  BY <1>1, <1>2, <1>4, <1>5

\* The root has every row once: the invariant holds at begin_tree.
LEMMA FreshHolds == Fresh => ArenaInv
<1> SUFFICES ASSUME Fresh PROVE ArenaInv
  OBVIOUS
<1> DEFINE o == [node |-> 1, span |-> Span(0, NRows)]
           n == [id |-> 1, rows |-> Identity]
<1>1. NRows \in Nat \ {0} /\ MaxLevels \in Nat \ {0}
  BY ArenaNumbers
<1>2. o \in Owner /\ o.node = 1 /\ o.span = Span(0, NRows) /\ Fits(o.span)
  BY <1>1 DEF Owner, Spans, Span, Fits
<1>3. owners = << o >>
  BY DEF Fresh, RootOwner
<1> HIDE DEF o
<1>4. owners \in Seq(Owner) /\ Len(owners) = 1 /\ owners[1] = o
  BY <1>2, <1>3
<1>5. /\ stage = "choose" /\ at_depth = 0 /\ slot = 1 /\ next_owners = << >>
      /\ rows = Identity /\ next_rows \in [1..NRows -> Row] /\ cursor = 0
      /\ part_pending = << >> /\ part_totals = << >> /\ nodes = << Leaf >>
      /\ delta = [r \in Row |-> 0] /\ left \in [Feature -> SUBSET Row]
  BY DEF Fresh
<1>6. Identity \in [1..NRows -> Row]
  BY DEF Identity, Row
<1>7. ArenaType
  <2>1. next_owners \in Seq(Owner) /\ Len(next_owners) = 0
    BY <1>5
  <2>2. part_pending \in Seq(PendingEntry) /\ part_totals \in Seq(0..NRows)
    BY <1>5
  <2>3. \A k \in 1..Len(owners) : Fits(owners[k].span)
    BY <1>2, <1>4
  <2>4. 0 \in 0..MaxLevels /\ 0 \in 0..NRows /\ 1 \in 1..Len(owners) + 1
    BY <1>1, <1>4
  <2> QED
    BY <1>4, <1>5, <1>6, <2>1, <2>2, <2>3, <2>4 DEF ArenaType
<1>8. FlowInv
  <2>1. Len(owners) <= 2 ^ 0
    BY <1>4
  <2> QED
    BY <1>5, <2>1 DEF FlowInv
<1>9. IdInv
  BY <1>4, <1>5 DEF IdInv, Live
<1>10. Open = {n}
  BY FreshOpen
<1>11. nodes \in Seq(TreeNode) /\ nodes # << >> /\ Len(nodes) = 1 /\ nodes[1].feat = 0
  <2>1. Leaf \in TreeNode
    BY DEF Leaf, TreeNode
  <2> QED
    BY <1>5, <2>1 DEF Leaf
<1>12. GrownTree
  BY <1>5, <1>11 DEF GrownTree
<1>13. n.rows \in Seq(Row) /\ n.id = 1 /\ ~Repeats(n.rows) /\ \A r \in Row : Occurs(r, n.rows)
  <2>1. Identity \in Seq(Row) /\ Len(Identity) = NRows
    BY <1>1, <1>6 DEF Identity
  <2>2. \A i \in 1..NRows : Identity[i] = i
    BY DEF Identity
  <2> HIDE DEF n
  <2>3. ~Repeats(Identity) /\ \A r \in Row : Occurs(r, Identity)
    BY <2>1, <2>2 DEF Repeats, Occurs, Row
  <2> QED
    BY <2>1, <2>3 DEF n
<1> HIDE DEF n
<1>14. \A r \in Row : delta[r] = 0
  BY <1>5
<1>15. OpenInv
  BY <1>10, <1>11, <1>13, <1>14 DEF OpenInv
<1>16. \A r : Leads(r, 1)
  <2> TAKE r
  <2>1. {1} \in SUBSET (1..Len(nodes))
    BY <1>11
  <2> QED
    BY <1>11, <2>1 DEF Leads
<1>17. RouteInv
  BY <1>10, <1>13, <1>14, <1>16 DEF RouteInv
<1> QED
  BY <1>5, <1>7, <1>8, <1>9, <1>12, <1>15, <1>17 DEF ArenaInv

\* A step that leaves the open nodes, the tree and the values alone keeps what is said of them.
LEMMA SameTree ==
  ASSUME GrownTree, OpenInv, RouteInv, Open' = Open, UNCHANGED << left, nodes, delta >>
  PROVE  GrownTree' /\ OpenInv' /\ RouteInv'
<1>1. \A r, l : Leads(r, l)' <=> Leads(r, l)
  BY DEF Leads, StepOf
<1>2. GrownTree'
  BY DEF GrownTree
<1>3. OpenInv'
  BY DEF OpenInv
<1>4. RouteInv'
  BY <1>1 DEF RouteInv
<1> QED
  BY <1>2, <1>3, <1>4

\* A step inside a level that only writes the next arena while nothing lies there.
LEMMA SameOpen ==
  ASSUME next_owners = << >>, Live' = Live, UNCHANGED << owners, next_owners, rows >>,
         owners \in Seq(Owner)
  PROVE  Open' = Open
<1>1. DOMAIN owners = 1..Len(owners) /\ DOMAIN next_owners = {}
  OBVIOUS
<1>2. {k \in DOMAIN owners : stage # "done" /\ slot <= k} = Live
  BY <1>1 DEF Live
<1>3. {k \in DOMAIN owners' : stage' # "done" /\ slot' <= k} = Live
  BY <1>1 DEF Live
<1>4. Open = {[id |-> owners[k].node, rows |-> RowsOf(owners[k].span)] : k \in Live}
  BY <1>1, <1>2 DEF Open
<1>5. Open' = {[id |-> owners[k].node, rows |-> RowsOf(owners[k].span)] : k \in Live}
  BY <1>1, <1>3 DEF Open, RowsOf, RowsIn
<1> QED
  BY <1>4, <1>5

\* The level's splits are chosen; no launch has been made.
LEMMA ChooseKeeps == ArenaInv /\ Choose => ArenaInv'
<1> SUFFICES ASSUME ArenaInv, Choose PROVE ArenaInv'
  OBVIOUS
<1>1. ArenaType /\ FlowInv /\ IdInv /\ GrownTree /\ OpenInv /\ RouteInv
  BY DEF ArenaInv
<1>2. /\ stage = "choose" /\ stage' = "partition" /\ at_depth < MaxLevels
      /\ chosen' \in [1..Len(owners) -> Feature \cup {0}]
      /\ part_tokens' = [k \in 1..Len(owners) |-> 0]
      /\ unlaunched' = {k \in 1..Len(owners) : chosen'[k] # 0}
      /\ UNCHANGED << left, at_depth, owners, rows, next_rows, cursor, part_pending,
                      part_totals, slot, next_owners, nodes, delta >>
  BY DEF Choose, arena
<1>3. next_owners = << >> /\ cursor = 0 /\ part_pending = << >> /\ slot = 1
  <2>1. MaxLevels \in Nat /\ at_depth \in 0..MaxLevels
    BY <1>1, ArenaNumbers DEF ArenaType
  <2> QED
    BY <1>1, <1>2, <2>1 DEF FlowInv
<1>4. Live' = Live
  BY <1>2 DEF Live
<1>5. GrownTree' /\ OpenInv' /\ RouteInv'
  <2>1. Open' = Open
    BY <1>1, <1>2, <1>3, <1>4, SameOpen DEF ArenaType
  <2> QED
    BY <1>1, <1>2, <2>1, SameTree
<1>6. ArenaType'
  BY <1>1, <1>2 DEF ArenaType
<1>7. FlowInv'
  BY <1>1, <1>2, <1>3 DEF FlowInv
<1>8. IdInv'
  BY <1>1, <1>2, <1>4 DEF IdInv
<1>9. LaunchInv'
  <2>1. IsFiniteSet(1..Len(owners)) /\ Cardinality(1..Len(owners)) = Len(owners)
        /\ Len(owners) \in Nat
    <3>1. Len(owners) \in Nat
      BY <1>1 DEF ArenaType
    <3> QED
      BY <3>1, Counted
  <2>2. unlaunched' \in SUBSET (1..Len(owners))
    BY <1>2
  <2>3. IsFiniteSet(unlaunched') /\ Cardinality(unlaunched') <= Len(owners)
    BY <2>1, <2>2, FS_Subset
  <2>4. Cardinality(unlaunched') \in Nat
    BY <2>3, FS_CardinalityType
  <2>5. Len(part_pending') + Cardinality(unlaunched') <= Len(owners')
    <3>1. Len(part_pending') = 0
      BY <1>2, <1>3
    <3> QED
      BY <1>2, <2>3, <2>4, <3>1
  <2>6. Tokened' = {}
    BY <1>2 DEF Tokened
  <2>7. HeldBy(Tokened)' = {}
    BY <2>6 DEF HeldBy
  <2>8. Cardinality(HeldBy(Tokened)') = cursor'
    BY <1>2, <1>3, <2>7, FS_EmptySet
  <2>9. part_tokens' \in [1..Len(owners') -> Nat]
    BY <1>2
  <2>10. \A k \in 1..Len(owners') :
           part_tokens'[k] = 0 <=> chosen'[k] = 0 \/ k \in unlaunched'
    BY <1>2
  <2> QED
    BY <1>2, <2>2, <2>5, <2>6, <2>8, <2>9, <2>10 DEF LaunchInv
<1> QED
  BY <1>2, <1>5, <1>6, <1>7, <1>8, <1>9 DEF ArenaInv

\* The loop ends: no node is left open.
LEMMA FinishKeeps == ArenaInv /\ FinishTree => ArenaInv' /\ Open = {} /\ Open' = {}
<1> SUFFICES ASSUME ArenaInv, FinishTree PROVE ArenaInv' /\ Open = {} /\ Open' = {}
  OBVIOUS
<1>1. ArenaType /\ FlowInv /\ IdInv /\ GrownTree /\ OpenInv /\ RouteInv
  BY DEF ArenaInv
<1>2. /\ stage = "choose" /\ stage' = "done"
      /\ UNCHANGED << left, at_depth, owners, rows, next_rows, cursor, part_pending,
                      part_totals, slot, next_owners, nodes, delta, chosen >>
  BY DEF FinishTree, arena
<1>3. next_owners = << >>
  BY <1>1, <1>2 DEF FlowInv
<1>4. Live = {}
  BY <1>1 DEF FinishTree, Live, ArenaType
<1>5. Live' = {}
  BY <1>2 DEF Live
<1>6. Open = {}
  BY <1>1, <1>3, <1>4, OpenNodes DEF ArenaType
<1>7. Open' = {}
  BY <1>1, <1>2, <1>3, <1>4, <1>5, <1>6, SameOpen DEF ArenaType
<1>8. GrownTree' /\ OpenInv' /\ RouteInv'
  BY <1>1, <1>2, <1>6, <1>7, SameTree
<1>9. ArenaType'
  BY <1>1, <1>2 DEF ArenaType
<1>10. FlowInv'
  BY <1>1, <1>2 DEF FlowInv
<1>11. IdInv'
  BY <1>1, <1>2, <1>5 DEF IdInv
<1> QED
  BY <1>2, <1>6, <1>7, <1>8, <1>9, <1>10, <1>11 DEF ArenaInv

\* The next tree begins (begin_tree).
LEMMA BeginKeeps == ArenaInv /\ BeginTreeRows => ArenaInv'
<1> SUFFICES ASSUME ArenaInv, BeginTreeRows PROVE ArenaInv'
  OBVIOUS
<1>1. ArenaType /\ FlowInv /\ GrownTree
  BY DEF ArenaInv
<1>2. Fresh'
  BY <1>1 DEF BeginTreeRows, Fresh, ArenaType, FlowInv, GrownTree
<1>3. Fresh' => ArenaInv'
  BY FreshHolds, PTL
<1> QED
  BY <1>2, <1>3

\* The first tree begins.
LEMMA InitHolds == ArenaInit => ArenaInv
<1> SUFFICES ASSUME ArenaInit PROVE ArenaInv
  OBVIOUS
<1>1. Identity \in [1..NRows -> Row]
  BY DEF Identity, Row
<1>2. left \in [Feature -> SUBSET Row]
  BY RowArenaParams DEF ArenaInit, ArenaParams
<1> QED
  BY <1>1, <1>2, FreshHolds DEF ArenaInit, Fresh

----------------------------------------------------------------------------
(***************************************************************************)
(* The launches of a level                                                 *)
(***************************************************************************)

\* What the kernels of a node leave: as many rows as it has, of the node's own.
LEMMA ScatteredRows ==
  ASSUME ArenaType, FlowInv, GrownTree, stage \in {"partition", "settle"},
         NEW k \in 1..Len(owners), chosen[k] # 0
  PROVE  /\ GoLeft(k) \in Seq(Row) /\ GoRight(k) \in Seq(Row) /\ Scattered(k) \in Seq(Row)
         /\ Len(GoLeft(k)) + Len(GoRight(k)) = owners[k].span.len
         /\ Len(Scattered(k)) = owners[k].span.len
<1>1. owners[k] \in Owner /\ Fits(owners[k].span) /\ rows \in [1..NRows -> Row]
  BY DEF ArenaType
<1>2. owners[k].span \in Spans
  BY <1>1 DEF Owner
<1> DEFINE t == RowsOf(owners[k].span)
           S == left[chosen[k]]
<1>3. t \in Seq(Row) /\ Len(t) = owners[k].span.len
  BY <1>1, <1>2, RowsInSeq DEF RowsOf
<1> HIDE DEF t, S
<1>4. Kept(t, S) \in Seq(Row) /\ Kept(t, Row \ S) \in Seq(Row)
  BY <1>3, KeptHas
<1>5. Len(Kept(t, S)) + Len(Kept(t, Row \ S)) = Len(t)
  BY <1>3, KeptLengths
<1>6. GoLeft(k) = Kept(t, S) /\ GoRight(k) = Kept(t, Row \ S)
  BY DEF GoLeft, GoRight, t, S
<1>7. GoLeft(k) \in Seq(Row) /\ GoRight(k) \in Seq(Row)
  BY <1>4, <1>6
<1>8. /\ GoLeft(k) \o GoRight(k) \in Seq(Row)
      /\ Len(GoLeft(k) \o GoRight(k)) = Len(GoLeft(k)) + Len(GoRight(k))
  BY <1>7
<1> QED
  BY <1>3, <1>5, <1>6, <1>7, <1>8 DEF Scattered

\* The level while it is partitioned.
LEMMA LevelFacts ==
  ASSUME ArenaInv, stage = "partition"
  PROVE  /\ Live = 1..Len(owners) /\ Len(owners) \in Nat /\ Len(owners) <= MaxLevelNodes
         /\ \A k \in 1..Len(owners) :
              /\ owners[k].span.len \in 0..NRows /\ owners[k].span.offset \in 0..NRows
              /\ Fits(owners[k].span) /\ chosen[k] \in Nat
         /\ next_owners = << >> /\ cursor \in 0..NRows
         /\ IsFiniteSet(unlaunched) /\ Cardinality(unlaunched) \in Nat
         /\ Len(part_pending) \in Nat
         /\ Len(part_pending) + Cardinality(unlaunched) <= Len(owners)
<1>1. ArenaType /\ FlowInv /\ LaunchInv
  BY DEF ArenaInv
<1>2. Len(owners) \in Nat /\ Len(part_pending) \in Nat /\ cursor \in 0..NRows
  BY <1>1 DEF ArenaType
<1>3. Live = 1..Len(owners)
  BY <1>1 DEF Live, FlowInv
<1>4. Len(owners) <= MaxLevelNodes
  <2>1. at_depth \in Nat /\ MaxLevels - 1 \in Nat /\ at_depth <= MaxLevels - 1
    BY <1>1, ArenaNumbers DEF ArenaType, FlowInv
  <2>2. 2 ^ at_depth <= 2 ^ (MaxLevels - 1)
    BY <2>1, WiderBelow
  <2>3. 2 ^ at_depth \in Nat /\ 2 ^ (MaxLevels - 1) \in Nat
    BY <2>1, Doubling
  <2>4. Len(owners) <= 2 ^ at_depth
    BY <1>1 DEF FlowInv
  <2>5. 2 ^ (MaxLevels - 1) <= MaxLevelNodes
    BY <2>3, RowArenaParams DEF ArenaParams
  <2>6. MaxLevelNodes \in Nat
    BY ArenaNumbers
  <2> QED
    BY <1>2, <2>2, <2>3, <2>4, <2>5, <2>6
<1>5. ASSUME NEW k \in 1..Len(owners)
      PROVE  /\ owners[k].span.len \in 0..NRows /\ owners[k].span.offset \in 0..NRows
             /\ Fits(owners[k].span) /\ chosen[k] \in Nat
  <2>1. owners[k] \in Owner /\ Fits(owners[k].span)
    BY <1>1 DEF ArenaType
  <2>2. owners[k].span \in Spans
    BY <2>1 DEF Owner
  <2>3. chosen[k] \in Feature \cup {0}
    BY <1>1 DEF FlowInv
  <2>4. owners[k].span.len \in 0..NRows /\ owners[k].span.offset \in 0..NRows
    BY <2>2 DEF Spans
  <2>5. chosen[k] \in Nat
    <3>1. Feature \subseteq Nat \ {0}
      BY ArenaNumbers
    <3>2. \A f \in Feature \cup {0} : f \in Nat
      BY <3>1
    <3> QED
      BY <2>3, <3>2
  <2> QED
    BY <2>1, <2>4, <2>5
<1>6. IsFiniteSet(unlaunched)
  <2>2. IsFiniteSet(1..Len(owners))
    BY <1>2, Counted
  <2>3. unlaunched \in SUBSET (1..Len(owners))
    BY <1>1 DEF LaunchInv
  <2> QED
    BY <2>2, <2>3, FS_Subset
<1>7. Cardinality(unlaunched) \in Nat
  BY <1>6, FS_CardinalityType
<1> QED
  BY <1>1, <1>2, <1>3, <1>4, <1>5, <1>6, <1>7 DEF LaunchInv, FlowInv

Named(s) == {s[j] : j \in 1..Len(s)}

\* A list without repetitions names as many nodes as it is long.
LEMMA NamedOnce ==
  ASSUME NEW S, NEW s \in Seq(S), ~Repeats(s)
  PROVE  /\ Named(s) \in SUBSET S
         /\ IsFiniteSet(Named(s)) /\ Cardinality(Named(s)) = Len(s)
<1> DEFINE n == Len(s)
           f == [j \in 1..n |-> s[j]]
<1>1. n \in Nat /\ \A j \in 1..n : s[j] \in S
  OBVIOUS
<1>2. \A i, j \in 1..n : f[i] = f[j] => i = j
  BY DEF Repeats
<1>3. f \in [1..n -> Named(s)] /\ \A y \in Named(s) : \E j \in 1..n : f[j] = y
  BY DEF Named
<1> HIDE DEF f
<1>4. f \in Bijection(1..n, Named(s))
  BY <1>2, <1>3 DEF Bijection, Injection, Surjection, IsInjective
<1>5. IsFiniteSet(1..n) /\ Cardinality(1..n) = n
  <2> HIDE DEF n
  <2> QED
    BY <1>1, Counted
<1>6. IsFiniteSet(Named(s)) /\ Cardinality(Named(s)) = n
  BY <1>4, <1>5, FS_Bijection DEF ExistsBijection
<1> QED
  BY <1>1, <1>6 DEF Named

\* The requests of a launch are distinct nodes that wait for theirs.
LEMMA RequestsAre ==
  ASSUME ArenaInv, stage = "partition", NEW s \in Requests
  PROVE  /\ s \in Seq(unlaunched) /\ DOMAIN s = 1..Len(s) /\ Len(s) \in Nat /\ ~Repeats(s)
<1>1. LaunchInv
  BY DEF ArenaInv
<1>2. Group \in SUBSET unlaunched
  BY DEF Group
<1>3. BatchSize \in Nat
  <2>1. IsFiniteSet(Group)
    BY <1>2, LevelFacts, FS_Subset
  <2>2. Cardinality(Group) \in Nat /\ BatchCap \in Nat
    BY <2>1, FS_CardinalityType, ArenaNumbers
  <2> QED
    BY <2>2 DEF BatchSize
<1>4. s \in [1..BatchSize -> Group]
      /\ \A i, j \in 1..BatchSize : i < j => Before(s[i], s[j])
  BY DEF Requests
<1>5. s \in Seq(unlaunched) /\ DOMAIN s = 1..Len(s) /\ Len(s) = BatchSize
  BY <1>2, <1>3, <1>4
<1>6. \A k \in unlaunched : ~Before(k, k)
  <2> TAKE k \in unlaunched
  <2>1. k \in 1..Len(owners)
    BY <1>1 DEF LaunchInv
  <2>2. chosen[k] \in Nat /\ k \in Int
    BY <2>1, LevelFacts
  <2> QED
    BY <2>2 DEF Before
<1>7. ASSUME NEW i \in 1..BatchSize, NEW j \in 1..BatchSize, i # j PROVE s[i] # s[j]
  <2>1. s[i] \in unlaunched /\ s[j] \in unlaunched
    BY <1>2, <1>4
  <2>2. i < j \/ j < i
    BY <1>3, <1>7
  <2>3. Before(s[i], s[j]) \/ Before(s[j], s[i])
    BY <1>4, <2>2
  <2> QED
    BY <1>6, <2>1, <2>3
<1> QED
  BY <1>3, <1>5, <1>7 DEF Repeats

\* One more node adds as many rows as its span is long: no row is in two nodes.
LEMMA HeldGrows ==
  ASSUME ArenaInv, stage = "partition", NEW K \in SUBSET (1..Len(owners)),
         NEW k \in (1..Len(owners)) \ K
  PROVE  /\ IsFiniteSet(HeldBy(K)) /\ Cardinality(HeldBy(K)) \in 0..NRows
         /\ Cardinality(HeldBy(K \cup {k})) = Cardinality(HeldBy(K)) + owners[k].span.len
         /\ Cardinality(HeldBy(K \cup {k})) <= NRows
<1> DEFINE t == RowsOf(owners[k].span)
           n == owners[k].span.len
<1>1. Live = 1..Len(owners) /\ n \in Nat /\ NRows \in Nat
  BY LevelFacts, ArenaNumbers
<1>2. /\ t \in Seq(Row) /\ ~Repeats(t) /\ Len(t) = n
      /\ \A j \in K : \A r \in Row : Occurs(r, t) => ~Occurs(r, RowsOf(owners[j].span))
  BY <1>1, LiveFacts DEF ArenaInv
<1> HIDE DEF t, n
<1>n. n \in Nat /\ NRows \in Nat
  BY <1>1 DEF n
<1>3. Held(k) = Named(t)
  BY <1>2 DEF Held, Occurs, Named, t
<1>4. IsFiniteSet(Held(k)) /\ Cardinality(Held(k)) = n
  BY <1>2, <1>3, NamedOnce
<1>5. IsFiniteSet(Row) /\ Cardinality(Row) = NRows
  <2>2. IsFiniteSet(1..NRows) /\ Cardinality(1..NRows) = NRows
    BY <1>1, Counted
  <2> QED
    BY <2>2 DEF Row
<1>6. HeldBy(K) \in SUBSET Row /\ HeldBy(K \cup {k}) \in SUBSET Row
  BY DEF HeldBy, Held
<1>7. HeldBy(K \cup {k}) = HeldBy(K) \cup Held(k)
  BY DEF HeldBy
<1>8. HeldBy(K) \cap Held(k) = {}
  BY <1>2 DEF HeldBy, Held, t
<1>9. /\ IsFiniteSet(HeldBy(K)) /\ Cardinality(HeldBy(K)) <= NRows
      /\ IsFiniteSet(HeldBy(K \cup {k})) /\ Cardinality(HeldBy(K \cup {k})) <= NRows
  BY <1>5, <1>6, FS_Subset
<1>10. Cardinality(HeldBy(K)) \in Nat
  BY <1>9, FS_CardinalityType
<1>11. Cardinality(HeldBy(K) \cup Held(k)) =
         Cardinality(HeldBy(K)) + Cardinality(Held(k)) - Cardinality(HeldBy(K) \cap Held(k))
  BY <1>4, <1>9, FS_Union
<1>12. Cardinality(HeldBy(K) \cap Held(k)) = 0
  BY <1>8, FS_EmptySet
<1>13. Cardinality(HeldBy(K \cup {k})) = Cardinality(HeldBy(K)) + n
  <2>1. Cardinality(HeldBy(K \cup {k})) =
          Cardinality(HeldBy(K)) + Cardinality(Held(k)) - Cardinality(HeldBy(K) \cap Held(k))
    BY <1>7, <1>11, Zenon
  <2>2. \A c \in Nat : c + n - 0 = c + n
    BY <1>1
  <2>3. Cardinality(HeldBy(K)) + n - 0 = Cardinality(HeldBy(K)) + n
    BY <1>10, <2>2
  <2> QED
    BY <1>4, <1>12, <2>1, <2>3, Zenon
<1> QED
  BY <1>1, <1>9, <1>10, <1>13 DEF n

\* Where a launch may write: behind everything written so far, before end, and
\* no two requests in one place.
Places(s, out, end) ==
  /\ \A j \in 1..Len(s) :
       /\ out[j] \in 0..NRows /\ out[j] + owners[s[j]].span.len <= NRows
       /\ owners[s[j]].span.len > 0 =>
            cursor <= out[j] /\ out[j] + owners[s[j]].span.len <= end
  /\ \A i, j \in 1..Len(s) : i < j => out[i] + owners[s[i]].span.len <= out[j]

\* The launch as a function of the place.
Here(s, out, p) == {j \in DOMAIN s : p - out[j] \in 1..owners[s[j]].span.len}

RowAt(s, out, p) ==
  IF Here(s, out, p) = {} THEN next_rows[p]
  ELSE LET j == CHOOSE j \in Here(s, out, p) : TRUE IN Scattered(s[j])[p - out[j]]

\* A launch writes the rows of its requests behind the cursor and nothing else.
LEMMA LaunchedRows ==
  ASSUME ArenaInv, stage = "partition", NEW s \in Seq(unlaunched), NEW out, NEW end \in 0..NRows,
         Places(s, out, end), Launched(s, out)
  PROVE  /\ next_rows' \in [1..NRows -> Row]
         /\ \A p \in 1..cursor : p \in 1..NRows /\ next_rows'[p] = next_rows[p]
         /\ \A j \in 1..Len(s) : \A i \in 1..owners[s[j]].span.len :
              out[j] + i \in 1..NRows /\ next_rows'[out[j] + i] = Scattered(s[j])[i]
<1>1. ArenaType /\ FlowInv /\ GrownTree /\ LaunchInv
  BY DEF ArenaInv
<1>2. /\ NRows \in Nat /\ cursor \in 0..NRows /\ next_rows \in [1..NRows -> Row]
      /\ DOMAIN s = 1..Len(s)
  BY <1>1, ArenaNumbers DEF ArenaType
<1>3. ASSUME NEW j \in 1..Len(s)
      PROVE  /\ s[j] \in 1..Len(owners) /\ chosen[s[j]] # 0 /\ owners[s[j]].span.len \in 0..NRows
             /\ Scattered(s[j]) \in Seq(Row)
             /\ Len(Scattered(s[j])) = owners[s[j]].span.len
  <2>0. s[j] \in unlaunched
    OBVIOUS
  <2>1. s[j] \in 1..Len(owners) /\ chosen[s[j]] # 0
    BY <1>1, <2>0 DEF LaunchInv
  <2>2. owners[s[j]].span.len \in 0..NRows
    BY <2>1, LevelFacts
  <2> QED
    BY <1>1, <2>1, <2>2, ScatteredRows
<1>4. \A j \in 1..Len(s) : \A i \in 1..owners[s[j]].span.len : Scattered(s[j])[i] \in Row
  <2> TAKE j \in 1..Len(s)
  <2>1. Scattered(s[j]) \in Seq(Row) /\ Len(Scattered(s[j])) = owners[s[j]].span.len
    BY <1>3
  <2> QED
    BY <2>1
<1>5. next_rows' = [p \in 1..NRows |-> RowAt(s, out, p)]
  BY DEF Launched, Here, RowAt
<1>a. \A p \in 1..NRows : next_rows'[p] = RowAt(s, out, p)
  BY <1>5, Zenon
<1>6. \A p : Here(s, out, p) # {} =>
               \E j \in 1..Len(s) : j = (CHOOSE k \in Here(s, out, p) : TRUE)
                                    /\ p - out[j] \in 1..owners[s[j]].span.len
  <2> TAKE p
  <2> HAVE Here(s, out, p) # {}
  <2>1. (CHOOSE j \in Here(s, out, p) : TRUE) \in Here(s, out, p)
    BY Zenon
  <2> DEFINE c == CHOOSE j \in Here(s, out, p) : TRUE
  <2> HIDE DEF c
  <2>2. c \in Here(s, out, p)
    BY <2>1 DEF c
  <2>3. c \in 1..Len(s) /\ p - out[c] \in 1..owners[s[c]].span.len
    BY <1>2, <2>2 DEF Here
  <2> QED
    BY <2>3 DEF c
<1>7. \A p \in 1..NRows : Here(s, out, p) = {} => next_rows'[p] = next_rows[p]
  BY <1>a DEF RowAt
<1>8. ASSUME NEW p \in 1..NRows, NEW j \in 1..Len(s), p - out[j] \in 1..owners[s[j]].span.len,
             \A k \in 1..Len(s) : p - out[k] \in 1..owners[s[k]].span.len => k = j
      PROVE  next_rows'[p] = Scattered(s[j])[p - out[j]]
  <2>1. Here(s, out, p) # {}
    BY <1>2, <1>8 DEF Here
  <2>2. (CHOOSE k \in Here(s, out, p) : TRUE) = j
    BY <1>6, <1>8, <2>1, Zenon
  <2>3. next_rows'[p] = RowAt(s, out, p)
    BY <1>a
  <2> QED
    BY <2>1, <2>2, <2>3, Zenon DEF RowAt
<1>9. \A p \in 1..NRows : next_rows'[p] \in Row
  <2> TAKE p \in 1..NRows
  <2>1. CASE Here(s, out, p) = {}
    BY <1>2, <1>7, <2>1
  <2>2. CASE Here(s, out, p) # {}
    <3>1. PICK j \in 1..Len(s) : j = (CHOOSE k \in Here(s, out, p) : TRUE)
                                    /\ p - out[j] \in 1..owners[s[j]].span.len
      BY <1>6, <2>2
    <3>2. next_rows'[p] = RowAt(s, out, p)
      BY <1>a
    <3>3. next_rows'[p] = Scattered(s[j])[p - out[j]]
      BY <2>2, <3>1, <3>2, Zenon DEF RowAt
    <3> QED
      BY <1>4, <3>1, <3>3
  <2> QED
    BY <2>1, <2>2
<1>10. next_rows' \in [1..NRows -> Row]
  <2>1. \A p \in 1..NRows : RowAt(s, out, p) \in Row
    BY <1>9, <1>a
  <2>2. [p \in 1..NRows |-> RowAt(s, out, p)] \in [1..NRows -> Row]
    BY <2>1, Zenon
  <2> QED
    BY <1>5, <2>2
<1>11. ASSUME NEW p \in 1..cursor PROVE p \in 1..NRows /\ next_rows'[p] = next_rows[p]
  <2>1. p \in 1..NRows
    BY <1>2
  <2>2. ASSUME NEW j \in 1..Len(s) PROVE p - out[j] \notin 1..owners[s[j]].span.len
    <3>1. owners[s[j]].span.len \in 0..NRows /\ out[j] \in 0..NRows
      BY <1>3 DEF Places
    <3>2. owners[s[j]].span.len > 0 => cursor <= out[j]
      BY DEF Places
    <3>3. p \in Int /\ p <= cursor
      BY <1>2
    <3> QED
      BY <1>2, <3>1, <3>2, <3>3
  <2>3. Here(s, out, p) = {}
    BY <1>2, <2>2 DEF Here
  <2> QED
    BY <1>7, <2>1, <2>3
<1>12. ASSUME NEW j \in 1..Len(s), NEW i \in 1..owners[s[j]].span.len
       PROVE  out[j] + i \in 1..NRows /\ next_rows'[out[j] + i] = Scattered(s[j])[i]
  <2>1. /\ owners[s[j]].span.len \in 0..NRows /\ out[j] \in 0..NRows
        /\ out[j] + owners[s[j]].span.len <= NRows
    BY <1>3 DEF Places
  <2>2. out[j] + i \in 1..NRows /\ (out[j] + i) - out[j] = i
    BY <1>2, <2>1
  <2>p. PICK p : p = out[j] + i
    OBVIOUS
  <2>3. p \in 1..NRows /\ p - out[j] = i
    BY <2>2, <2>p
  <2>4. ASSUME NEW k \in 1..Len(s), p - out[k] \in 1..owners[s[k]].span.len PROVE k = j
    <3>1. owners[s[k]].span.len \in 0..NRows /\ out[k] \in 0..NRows
      BY <1>3 DEF Places
    <3>2. k < j => out[k] + owners[s[k]].span.len <= out[j]
      BY DEF Places
    <3>3. j < k => out[j] + owners[s[j]].span.len <= out[k]
      BY DEF Places
    <3>4. k < j \/ j < k \/ k = j
      OBVIOUS
    <3>5. ASSUME k < j PROVE FALSE
      <4>1. p \in Int /\ p - out[k] <= owners[s[k]].span.len
        <5>1. p \in Int
          BY <2>3
        <5>2. \A x, d \in Int : x \in 1..d => x <= d
          OBVIOUS
        <5>3. p - out[k] \in Int /\ owners[s[k]].span.len \in Int
          BY <3>1, <5>1
        <5> QED
          BY <2>4, <5>1, <5>2, <5>3, Zenon
      <4>2. out[k] + owners[s[k]].span.len <= out[j]
        BY <3>2, <3>5
      <4>3. p <= out[j]
        <5>1. \A o, d, x \in Int : p - o <= d /\ o + d <= x => p <= x
          BY <4>1
        <5>2. out[k] \in Int /\ owners[s[k]].span.len \in Int /\ out[j] \in Int
          BY <2>1, <3>1
        <5> QED
          BY <4>1, <4>2, <5>1, <5>2, Zenon
      <4>4. i \in Int /\ i > 0
        BY <2>1
      <4> QED
        BY <2>1, <2>3, <4>3, <4>4
    <3>6. ASSUME j < k PROVE FALSE
      <4>1. out[j] + i <= out[j] + owners[s[j]].span.len
        BY <2>1
      <4>2. out[j] + i <= out[k]
        BY <2>1, <3>1, <3>3, <3>6, <4>1
      <4>3. p <= out[k]
        BY <2>1, <2>p, <3>1, <4>2
      <4>4. p - out[k] <= 0
        BY <2>3, <3>1, <4>3
      <4>5. \A x, d \in Int : x \in 1..d => x > 0
        OBVIOUS
      <4>6. p - out[k] \in Int /\ owners[s[k]].span.len \in Int
        BY <2>3, <3>1
      <4>7. p - out[k] > 0
        BY <2>4, <4>5, <4>6, Zenon
      <4> QED
        BY <4>4, <4>6, <4>7
    <3> QED
      BY <3>4, <3>5, <3>6
  <2>5. next_rows'[p] = Scattered(s[j])[p - out[j]]
    BY <1>8, <2>3, <2>4
  <2> QED
    BY <2>2, <2>3, <2>5, <2>p
<1> QED
  BY <1>10, <1>11, <1>12

\* Two sequences, one behind the other.
LEMMA Joined ==
  ASSUME NEW R, NEW a \in Seq(R), NEW b \in Seq(R)
  PROVE  /\ a \o b \in Seq(R) /\ Len(a \o b) = Len(a) + Len(b)
         /\ \A t \in 1..Len(a) : (a \o b)[t] = a[t]
         /\ \A j \in 1..Len(b) : (a \o b)[Len(a) + j] = b[j]
  OBVIOUS

\* A launch appends one entry and one total per request, and each gets its own token.
LEMMA LaunchedTables ==
  ASSUME ArenaInv, stage = "partition", NEW s \in Seq(unlaunched), ~Repeats(s), NEW out,
         NEW end \in 0..NRows, Places(s, out, end), Launched(s, out)
  PROVE  /\ part_pending' \in Seq(PendingEntry) /\ part_totals' \in Seq(0..NRows)
         /\ Len(part_pending') = Len(part_pending) + Len(s)
         /\ Len(part_totals') = Len(part_pending')
         /\ \A t \in 1..Len(part_pending) : /\ t \in 1..Len(part_pending')
                                            /\ part_pending'[t] = part_pending[t]
                                            /\ part_totals'[t] = part_totals[t]
         /\ \A j \in 1..Len(s) :
              /\ Len(part_pending) + j \in 1..Len(part_pending')
              /\ part_pending'[Len(part_pending) + j].out_offset = out[j]
              /\ part_pending'[Len(part_pending) + j].n_selected = owners[s[j]].span.len
              /\ part_totals'[Len(part_pending) + j] = Len(GoLeft(s[j]))
              /\ part_tokens'[s[j]] = Len(part_pending) + j
         /\ \A k \in 1..Len(owners) : k \notin Named(s) => part_tokens'[k] = part_tokens[k]
         /\ part_tokens' \in [1..Len(owners) -> Nat]
<1> DEFINE a == [j \in 1..Len(s) |-> [out_offset |-> out[j], n_selected |-> owners[s[j]].span.len]]
           b == [j \in 1..Len(s) |-> Len(GoLeft(s[j]))]
           E == 0..NRows
<1>1. ArenaType /\ FlowInv /\ GrownTree /\ LaunchInv
  BY DEF ArenaInv
<1>2. /\ part_pending \in Seq(PendingEntry) /\ part_totals \in Seq(E)
      /\ Len(part_totals) = Len(part_pending) /\ Len(part_pending) \in Nat
      /\ Len(s) \in Nat /\ DOMAIN s = 1..Len(s)
  BY <1>1 DEF ArenaType
<1>3. ASSUME NEW j \in 1..Len(s)
      PROVE  /\ s[j] \in 1..Len(owners) /\ owners[s[j]].span.len \in E /\ out[j] \in E
             /\ Len(GoLeft(s[j])) \in E
  <2>0. s[j] \in unlaunched
    OBVIOUS
  <2>1. s[j] \in 1..Len(owners) /\ chosen[s[j]] # 0
    BY <1>1, <2>0 DEF LaunchInv
  <2>2. owners[s[j]].span.len \in E
    BY <2>1, LevelFacts
  <2>3. out[j] \in E
    BY DEF Places
  <2>4. /\ GoLeft(s[j]) \in Seq(Row) /\ GoRight(s[j]) \in Seq(Row)
        /\ Len(GoLeft(s[j])) + Len(GoRight(s[j])) = owners[s[j]].span.len
    BY <1>1, <2>1, ScatteredRows
  <2>5. Len(GoLeft(s[j])) \in Nat /\ Len(GoRight(s[j])) \in Nat
    BY <2>4
  <2>6. \A p, q \in Nat : p + q \in E => p \in E
    BY ArenaNumbers
  <2>7. Len(GoLeft(s[j])) \in E
    <3>1. Len(GoLeft(s[j])) + Len(GoRight(s[j])) \in E
      BY <2>2, <2>4, Zenon
    <3> HIDE DEF E
    <3> QED
      BY <2>5, <2>6, <3>1, Zenon
  <2> QED
    BY <2>1, <2>2, <2>3, <2>7
<1>4. a \in Seq(PendingEntry) /\ Len(a) = Len(s)
  <2>1. \A j \in 1..Len(s) :
          [out_offset |-> out[j], n_selected |-> owners[s[j]].span.len] \in PendingEntry
    BY <1>3 DEF PendingEntry
  <2> QED
    BY <1>2, <2>1
<1>5. b \in Seq(E) /\ Len(b) = Len(s)
  <2>1. \A j \in 1..Len(s) : Len(GoLeft(s[j])) \in E
    BY <1>3
  <2> HIDE DEF E
  <2> QED
    BY <1>2, <2>1
<1>6. \A j \in 1..Len(s) : /\ a[j].out_offset = out[j] /\ a[j].n_selected = owners[s[j]].span.len
                           /\ b[j] = Len(GoLeft(s[j]))
  OBVIOUS
<1>7. part_pending' = part_pending \o a /\ part_totals' = part_totals \o b
  BY DEF Launched
<1> HIDE DEF a, b, E
<1>8. /\ part_pending' \in Seq(PendingEntry)
      /\ Len(part_pending') = Len(part_pending) + Len(s)
      /\ \A t \in 1..Len(part_pending) : part_pending'[t] = part_pending[t]
      /\ \A j \in 1..Len(s) : part_pending'[Len(part_pending) + j] = a[j]
  <2>1. /\ part_pending \o a \in Seq(PendingEntry)
        /\ Len(part_pending \o a) = Len(part_pending) + Len(a)
        /\ \A t \in 1..Len(part_pending) : (part_pending \o a)[t] = part_pending[t]
        /\ \A j \in 1..Len(a) : (part_pending \o a)[Len(part_pending) + j] = a[j]
    <3>1. part_pending \in Seq(PendingEntry) /\ a \in Seq(PendingEntry)
      BY <1>2, <1>4
    <3> QED
      BY <3>1, Joined
  <2> QED
    BY <1>4, <1>7, <2>1, Zenon
<1>9. /\ part_totals' \in Seq(E)
      /\ Len(part_totals') = Len(part_totals) + Len(s)
      /\ \A t \in 1..Len(part_totals) : part_totals'[t] = part_totals[t]
      /\ \A j \in 1..Len(s) : part_totals'[Len(part_totals) + j] = b[j]
  <2>1. /\ part_totals \o b \in Seq(E)
        /\ Len(part_totals \o b) = Len(part_totals) + Len(b)
        /\ \A t \in 1..Len(part_totals) : (part_totals \o b)[t] = part_totals[t]
        /\ \A j \in 1..Len(b) : (part_totals \o b)[Len(part_totals) + j] = b[j]
    <3>1. part_totals \in Seq(E) /\ b \in Seq(E)
      BY <1>2, <1>5
    <3> QED
      BY <3>1, Joined
  <2> QED
    BY <1>5, <1>7, <2>1, Zenon
<1> DEFINE Of(k) == CHOOSE j \in 1..Len(s) : s[j] = k
<1>10. \A j \in 1..Len(s) : Of(s[j]) = j
  <2> TAKE j \in 1..Len(s)
  <2>1. Of(s[j]) \in 1..Len(s) /\ s[Of(s[j])] = s[j]
    BY Zenon
  <2> HIDE DEF Of
  <2> QED
    BY <2>1 DEF Repeats
<1> HIDE DEF Of
<1>11. DOMAIN part_tokens = 1..Len(owners) /\ part_tokens \in [1..Len(owners) -> Nat]
  BY <1>1 DEF LaunchInv
<1>12. part_tokens' = [k \in 1..Len(owners) |->
          IF k \in Named(s) THEN Len(part_pending) + Of(k) ELSE part_tokens[k]]
  <2>1. \A k : (\E j \in DOMAIN s : s[j] = k) <=> k \in Named(s)
    BY <1>2 DEF Named
  <2> QED
    BY <1>2, <1>11, <2>1 DEF Launched, Of
<1>13. \A j \in 1..Len(s) : part_tokens'[s[j]] = Len(part_pending) + j
  <2> TAKE j \in 1..Len(s)
  <2>1. s[j] \in Named(s) /\ s[j] \in 1..Len(owners)
    BY <1>3 DEF Named
  <2> QED
    BY <1>10, <1>12, <2>1, Zenon
<1>14. \A k \in 1..Len(owners) : k \notin Named(s) => part_tokens'[k] = part_tokens[k]
  BY <1>12, Zenon
<1>15. part_tokens' \in [1..Len(owners) -> Nat]
  <2>1. \A k \in 1..Len(owners) :
          (IF k \in Named(s) THEN Len(part_pending) + Of(k) ELSE part_tokens[k]) \in Nat
    <3> TAKE k \in 1..Len(owners)
    <3>1. CASE k \in Named(s)
      <4>1. PICK j \in 1..Len(s) : k = s[j]
        BY <3>1 DEF Named
      <4>2. Of(k) = j
        BY <1>10, <4>1
      <4> QED
        BY <1>2, <3>1, <4>2
    <3>2. CASE k \notin Named(s)
      BY <1>11, <3>2
    <3> QED
      BY <3>1, <3>2
  <2> QED
    BY <1>12, <2>1
<1>16. \A j \in 1..Len(s) : Len(part_pending) + j \in 1..Len(part_pending')
  BY <1>2, <1>8
<1>17. \A t \in 1..Len(part_pending) : t \in 1..Len(part_pending')
  BY <1>2, <1>8
<1> QED
  BY <1>2, <1>6, <1>8, <1>9, <1>13, <1>14, <1>15, <1>16, <1>17 DEF E

\* A launch at disjoint places behind the cursor keeps the invariant.
LEMMA LaunchKeeps ==
  ASSUME ArenaInv, stage = "partition", NEW s \in Seq(unlaunched), ~Repeats(s), NEW out,
         NEW end \in 0..NRows, cursor <= end, Places(s, out, end), Launched(s, out),
         Cardinality(HeldBy(Tokened \cup Named(s))) = end, cursor' = end,
         UNCHANGED << left, at_depth, owners, chosen, slot, next_owners, nodes, delta >>
  PROVE  ArenaInv'
<1>1. ArenaType /\ FlowInv /\ GrownTree /\ LaunchInv /\ IdInv /\ OpenInv /\ RouteInv
  BY DEF ArenaInv
<1>2. stage' = "partition" /\ rows' = rows /\ unlaunched' = unlaunched \ Named(s)
  <2>1. DOMAIN s = 1..Len(s)
    OBVIOUS
  <2> QED
    BY <2>1 DEF Launched, Named
<1>3. /\ Live = 1..Len(owners) /\ Len(owners) \in Nat /\ next_owners = << >>
      /\ cursor \in 0..NRows /\ NRows \in Nat
      /\ IsFiniteSet(unlaunched) /\ Cardinality(unlaunched) \in Nat
      /\ Len(part_pending) \in Nat
      /\ Len(part_pending) + Cardinality(unlaunched) <= Len(owners)
      /\ Len(s) \in Nat
  BY LevelFacts, ArenaNumbers
<1>4. Live' = Live
  BY <1>2 DEF Live
<1>5. GrownTree' /\ OpenInv' /\ RouteInv'
  <2>1. Open' = Open
    BY <1>1, <1>2, <1>3, <1>4, SameOpen DEF ArenaType
  <2> QED
    BY <1>1, <2>1, SameTree
<1>6. ArenaType'
  <2>1. next_rows' \in [1..NRows -> Row]
    BY LaunchedRows
  <2>2. /\ part_pending' \in Seq(PendingEntry) /\ part_totals' \in Seq(0..NRows)
        /\ Len(part_totals') = Len(part_pending')
    BY LaunchedTables
  <2> QED
    BY <1>1, <1>2, <2>1, <2>2 DEF ArenaType
<1>7. FlowInv'
  BY <1>1, <1>2 DEF FlowInv
<1>8. IdInv'
  BY <1>1, <1>4 DEF IdInv
<1>9. /\ \A k : Scattered(k)' = Scattered(k) /\ GoLeft(k)' = GoLeft(k)
      /\ \A K : HeldBy(K)' = HeldBy(K)
  <2>1. \A k : RowsOf(owners[k].span)' = RowsOf(owners[k].span)
    BY <1>2 DEF RowsOf, RowsIn
  <2>2. \A k : GoLeft(k)' = GoLeft(k) /\ GoRight(k)' = GoRight(k)
    BY <1>2 DEF GoLeft, GoRight, RowsOf, RowsIn, Kept
  <2>3. \A k : Held(k)' = Held(k)
    BY <2>1 DEF Held
  <2> QED
    BY <2>2, <2>3 DEF Scattered, HeldBy
<1>10. Tokened' = Tokened \cup Named(s)
  <2>1. \A k \in Named(s) : k \in 1..Len(owners) /\ part_tokens'[k] # 0
    <3> TAKE k \in Named(s)
    <3>1. PICK j \in 1..Len(s) : k = s[j]
      BY DEF Named
    <3>2. k \in unlaunched
      BY <3>1
    <3>3. k \in 1..Len(owners)
      BY <1>1, <3>2 DEF LaunchInv
    <3>4. part_tokens'[k] = Len(part_pending) + j
      BY <3>1, LaunchedTables
    <3> QED
      BY <1>3, <3>3, <3>4
  <2>2. \A k \in 1..Len(owners) : k \notin Named(s) => part_tokens'[k] = part_tokens[k]
    BY LaunchedTables
  <2> QED
    BY <2>1, <2>2 DEF Tokened
<1>11. \A k \in Tokened : k \notin Named(s)
  <2>1. \A k \in Named(s) : k \in unlaunched
    BY DEF Named
  <2> QED
    BY <1>1, <2>1 DEF LaunchInv, Tokened
<1>12. ASSUME NEW k \in Tokened PROVE Delivered(k, part_tokens[k])'
  <2>p. PICK t : t = part_tokens[k]
    OBVIOUS
  <2>1. Delivered(k, t) /\ k \in 1..Len(owners)
    BY <1>1, <2>p DEF LaunchInv, Tokened
  <2>2. t \in 1..Len(part_pending)
    BY <2>1 DEF Delivered
  <2>3. part_tokens'[k] = t /\ t \in 1..Len(part_pending')
        /\ part_pending'[t] = part_pending[t] /\ part_totals'[t] = part_totals[t]
    BY <1>11, <2>p, <2>1, <2>2, LaunchedTables
  <2>o. PICK o : o = part_pending[t].out_offset
    OBVIOUS
  <2>4. o \in 0..NRows /\ Placed(k, o) /\ (owners[k].span.len > 0 => o + owners[k].span.len <= cursor)
    <3>1. part_pending[t] \in PendingEntry
      BY <1>1, <2>2 DEF ArenaType
    <3>2. o \in 0..NRows
      BY <2>o, <3>1 DEF PendingEntry
    <3> QED
      BY <2>o, <2>1, <3>2 DEF Delivered
  <2>l. owners[k].span.len \in 0..NRows
    BY <2>1, LevelFacts
  <2>5. Placed(k, o)'
    <3>1. ASSUME NEW i \in 1..owners[k].span.len PROVE next_rows'[o + i] = Scattered(k)[i]
      <4>1. o + i \in 1..cursor
        <5>1. i \in 1..owners[k].span.len => i \in Nat /\ i >= 1 /\ i <= owners[k].span.len
          BY <2>l
        <5>2. i \in Nat /\ i >= 1 /\ owners[k].span.len > 0 /\ i <= owners[k].span.len
          BY <2>l, <5>1
        <5>3. o + owners[k].span.len <= cursor
          BY <2>4, <5>2
        <5>4. \A n \in 0..NRows : i <= n /\ o + n <= cursor => o + i \in 1..cursor
          BY <1>3, <2>4, <5>2
        <5> QED
          BY <2>l, <5>2, <5>3, <5>4
      <4>2. next_rows'[o + i] = next_rows[o + i]
        <5>1. \A p \in 1..cursor : next_rows'[p] = next_rows[p]
          BY LaunchedRows
        <5> QED
          BY <4>1, <5>1, Zenon
      <4>3. next_rows[o + i] = Scattered(k)[i]
        BY <2>4 DEF Placed
      <4> QED
        BY <4>2, <4>3
    <3>2. o + owners[k].span.len <= NRows
      BY <2>4 DEF Placed
    <3>3. owners' = owners /\ \A j : Scattered(k)'[j] = Scattered(k)[j]
      BY <1>2, <1>9
    <3>4. o + owners'[k].span.len <= NRows
      BY <3>2, <3>3
    <3>5. \A i \in 1..owners'[k].span.len : next_rows'[o + i] = Scattered(k)'[i]
      BY <3>1, <3>3
    <3> QED
      BY <3>4, <3>5 DEF Placed
  <2>6. owners[k].span.len > 0 => o + owners[k].span.len <= cursor'
    <3>1. \A b, c, d \in Int : b <= c /\ c <= d => b <= d
      OBVIOUS
    <3>2. o + owners[k].span.len \in Int /\ cursor \in Int /\ cursor' \in Int /\ cursor <= cursor'
      BY <1>3, <2>4, <2>l
    <3> QED
      BY <2>4, <3>1, <3>2, Zenon
  <2>7. Delivered(k, t)'
    <3>1. part_pending'[t].n_selected = owners[k].span.len
      BY <2>1, <2>3 DEF Delivered
    <3>2. part_totals'[t] = Len(GoLeft(k)')
      BY <1>9, <2>1, <2>3 DEF Delivered
    <3>3. part_pending'[t].out_offset = o
      BY <2>o, <2>3
    <3> QED
      BY <2>3, <2>5, <2>6, <3>1, <3>2, <3>3 DEF Delivered
  <2> QED
    BY <2>3, <2>7
<1>13. ASSUME NEW j \in 1..Len(s) PROVE Delivered(s[j], part_tokens[s[j]])'
  <2>k. PICK k : k = s[j]
    OBVIOUS
  <2>t. PICK t : t = Len(part_pending) + j
    OBVIOUS
  <2>1. /\ t \in 1..Len(part_pending') /\ part_pending'[t].out_offset = out[j]
        /\ part_pending'[t].n_selected = owners[k].span.len
        /\ part_totals'[t] = Len(GoLeft(k)) /\ part_tokens'[k] = t
    BY <2>k, <2>t, LaunchedTables
  <2>2. /\ out[j] + owners[k].span.len <= NRows
        /\ owners[k].span.len > 0 => out[j] + owners[k].span.len <= end
    BY <2>k DEF Places
  <2>o. PICK o : o = out[j]
    OBVIOUS
  <2>3. \A i \in 1..owners[k].span.len : next_rows'[o + i] = Scattered(k)[i]
    BY <2>k, <2>o, LaunchedRows
  <2>4. Placed(k, o)'
    BY <1>9, <2>o, <2>2, <2>3 DEF Placed
  <2>5. Delivered(k, t)'
    BY <1>9, <2>o, <2>1, <2>2, <2>4 DEF Delivered
  <2> QED
    BY <2>k, <2>1, <2>5
<1>14. LaunchInv'
  <2>1. \A k \in Tokened' : Delivered(k, part_tokens[k])'
    <3> TAKE k \in Tokened'
    <3>1. k \in Tokened \/ \E j \in 1..Len(s) : k = s[j]
      BY <1>10 DEF Named
    <3> QED
      BY <1>12, <1>13, <3>1
  <2>2. Cardinality(HeldBy(Tokened)') = cursor'
    <3>1. HeldBy(Tokened)' = HeldBy(Tokened \cup Named(s))
      BY <1>9, <1>10 DEF HeldBy
    <3> QED
      BY <3>1
  <2>3. Len(part_pending') + Cardinality(unlaunched') <= Len(owners)
    <3>1. Named(s) \in SUBSET unlaunched /\ IsFiniteSet(Named(s)) /\ Cardinality(Named(s)) = Len(s)
      BY NamedOnce
    <3>2. unlaunched \cap Named(s) = Named(s)
      BY <3>1
    <3>3. Cardinality(unlaunched') = Cardinality(unlaunched) - Len(s)
      <4>1. Cardinality(unlaunched \ Named(s)) =
              Cardinality(unlaunched) - Cardinality(unlaunched \cap Named(s))
        BY <1>3, FS_Difference
      <4> QED
        BY <1>2, <3>1, <3>2, <4>1
    <3>4. Len(part_pending') = Len(part_pending) + Len(s)
      BY LaunchedTables
    <3> QED
      BY <1>3, <3>3, <3>4
  <2>4. unlaunched' \subseteq {k \in 1..Len(owners) : chosen[k] # 0}
    BY <1>1, <1>2 DEF LaunchInv
  <2>5. part_tokens' \in [1..Len(owners) -> Nat]
    BY LaunchedTables
  <2>6. \A k \in 1..Len(owners) : part_tokens'[k] = 0 <=> chosen[k] = 0 \/ k \in unlaunched'
    <3> TAKE k \in 1..Len(owners)
    <3>1. CASE k \in Named(s)
      <4>1. part_tokens'[k] # 0
        BY <1>10, <3>1 DEF Tokened
      <4>2. chosen[k] # 0
        <5>1. k \in unlaunched
          BY <3>1 DEF Named
        <5> QED
          BY <1>1, <5>1 DEF LaunchInv
      <4> QED
        BY <1>2, <3>1, <4>1, <4>2
    <3>2. CASE k \notin Named(s)
      <4>1. part_tokens'[k] = part_tokens[k]
        BY <3>2, LaunchedTables
      <4> QED
        BY <1>1, <1>2, <3>2, <4>1 DEF LaunchInv
    <3> QED
      BY <3>1, <3>2
  <2> HIDE DEF LaunchInv
  <2> QED
    BY <2>1, <2>2, <2>3, <2>4, <2>5, <2>6 DEF LaunchInv
<1> QED
  BY <1>2, <1>5, <1>6, <1>7, <1>8, <1>14 DEF ArenaInv

\* The spans of two open nodes never overlap.
LEMMA SpansApart ==
  ASSUME ArenaType, OpenInv, IdInv, NEW j \in Live, NEW k \in Live, j # k
  PROVE  ~Overlap(owners[j].span, owners[k].span)
<1>a. PICK a : a = owners[j].span
  OBVIOUS
<1>b. PICK b : b = owners[k].span
  OBVIOUS
<1> SUFFICES ASSUME Overlap(a, b) PROVE FALSE
  BY <1>a, <1>b
<1>0. NRows \in Nat
  BY ArenaNumbers
<1>1. /\ a.len \in 0..NRows /\ a.offset \in 0..NRows /\ b.len \in 0..NRows
      /\ b.offset \in 0..NRows /\ a.offset + a.len <= NRows
  <2>1. a \in Spans /\ b \in Spans /\ Fits(a)
    BY <1>a, <1>b, LiveFacts
  <2> QED
    BY <2>1 DEF Fits, Spans
<1>2. PICK p \in Nat : /\ p > a.offset /\ p <= a.offset + a.len
                       /\ p > b.offset /\ p <= b.offset + b.len
  <2>1. CASE a.offset <= b.offset
    <3>1. b.offset + 1 \in Nat /\ b.offset + 1 > a.offset /\ b.offset + 1 <= a.offset + a.len
          /\ b.offset + 1 > b.offset /\ b.offset + 1 <= b.offset + b.len
      BY <1>0, <1>1, <2>1 DEF Overlap
    <3> QED
      BY <3>1
  <2>2. CASE a.offset > b.offset
    <3>1. a.offset + 1 \in Nat /\ a.offset + 1 > a.offset /\ a.offset + 1 <= a.offset + a.len
          /\ a.offset + 1 > b.offset /\ a.offset + 1 <= b.offset + b.len
      BY <1>0, <1>1, <2>2 DEF Overlap
    <3> QED
      BY <3>1
  <2> QED
    BY <1>0, <1>1, <2>1, <2>2
<1>3. /\ p - a.offset \in 1..a.len /\ a.offset + (p - a.offset) = p
      /\ p - b.offset \in 1..b.len /\ b.offset + (p - b.offset) = p /\ p \in 1..NRows
  <2>1. /\ p - a.offset \in Int /\ p - a.offset >= 1 /\ p - a.offset <= a.len
        /\ a.offset + (p - a.offset) = p
    BY <1>0, <1>1, <1>2
  <2>2. /\ p - b.offset \in Int /\ p - b.offset >= 1 /\ p - b.offset <= b.len
        /\ b.offset + (p - b.offset) = p
    BY <1>0, <1>1, <1>2
  <2>3. p \in 1..NRows
    BY <1>0, <1>1, <1>2
  <2> QED
    BY <1>0, <1>1, <2>1, <2>2, <2>3
<1>4. rows[p] \in Row
  BY <1>3 DEF ArenaType
<1>5. Occurs(rows[p], RowsOf(a)) /\ Occurs(rows[p], RowsOf(b))
  <2>1. Len(RowsOf(a)) = a.len /\ Len(RowsOf(b)) = b.len
    BY <1>a, <1>b, LiveFacts
  <2>2. RowsOf(a)[p - a.offset] = rows[p] /\ RowsOf(b)[p - b.offset] = rows[p]
    BY <1>3 DEF RowsOf, RowsIn
  <2> QED
    BY <1>3, <2>1, <2>2, Zenon DEF Occurs
<1> QED
  BY <1>4, <1>5, <1>a, <1>b, LiveFacts

\* launch_partition: one node, written at the cursor.
LEMMA ScalarKeeps == ArenaInv /\ PartitionScalar => ArenaInv'
<1> SUFFICES ASSUME ArenaInv, PartitionScalar PROVE ArenaInv'
  OBVIOUS
<1>1. stage = "partition"
      /\ UNCHANGED << left, at_depth, owners, chosen, slot, next_owners, nodes, delta >>
  BY DEF PartitionScalar
<1>2. PICK s \in Requests :
        /\ Len(s) = 1
        /\ IF owners[s[1]].span.len = 0
           THEN Launched(s, << owners[s[1]].span.offset >>) /\ UNCHANGED cursor
           ELSE IF /\ Len(part_pending) < MaxLevelNodes
                   /\ cursor + owners[s[1]].span.len <= NRows
                THEN Launched(s, << cursor >>) /\ cursor' = cursor + owners[s[1]].span.len
                ELSE Abort
  BY Zenon DEF PartitionScalar
<1>3. s \in Seq(unlaunched) /\ ~Repeats(s)
  BY <1>1, RequestsAre
<1>k. PICK k : k = s[1]
  OBVIOUS
<1>n. PICK n : n = owners[k].span.len
  OBVIOUS
<1>o. PICK o : o = owners[k].span.offset
  OBVIOUS
<1>4. LaunchInv
  BY <1>1 DEF ArenaInv
<1>5. k \in unlaunched /\ k \in (1..Len(owners)) \ Tokened /\ Named(s) = {k}
  <2>1. k \in unlaunched
    BY <1>2, <1>3, <1>k
  <2>2. k \in 1..Len(owners) /\ part_tokens[k] = 0
    BY <1>4, <2>1 DEF LaunchInv
  <2>3. Named(s) = {k}
    BY <1>2, <1>k DEF Named
  <2> QED
    BY <2>1, <2>2, <2>3 DEF Tokened
<1>6. Tokened \in SUBSET (1..Len(owners))
  BY DEF Tokened
<1>7. /\ Cardinality(HeldBy(Tokened)) = cursor
      /\ Cardinality(HeldBy(Tokened \cup {k})) = cursor + n
      /\ Cardinality(HeldBy(Tokened \cup {k})) <= NRows
  BY <1>1, <1>4, <1>5, <1>6, <1>n, HeldGrows DEF LaunchInv
<1>8. /\ n \in 0..NRows /\ o \in 0..NRows /\ o + n <= NRows /\ cursor \in 0..NRows
      /\ NRows \in Nat
  BY <1>1, <1>5, <1>n, <1>o, LevelFacts, ArenaNumbers DEF Fits
<1>9. cursor + n \in 0..NRows
  BY <1>7, <1>8
<1>10. CASE n = 0
  <2>1. Launched(s, << o >>) /\ cursor' = cursor
    BY <1>2, <1>10, <1>k, <1>n, <1>o
  <2>2. Places(s, << o >>, cursor)
    <3>1. 1..Len(s) = {1} /\ << o >>[1] = o
      BY <1>2
    <3> QED
      BY <1>8, <1>10, <1>k, <1>n, <3>1 DEF Places
  <2>3. Cardinality(HeldBy(Tokened \cup Named(s))) = cursor
    BY <1>5, <1>7, <1>8, <1>10
  <2>4. cursor <= cursor
    BY <1>8
  <2> QED
    BY <1>1, <1>3, <1>8, <2>1, <2>2, <2>3, <2>4, LaunchKeeps
<1>11. CASE n # 0
  <2>1. Len(part_pending) < MaxLevelNodes
    <3>1. Cardinality(Named(s)) = 1 /\ Named(s) \in SUBSET unlaunched
      BY <1>2, <1>3, NamedOnce
    <3>2. 1 <= Cardinality(unlaunched)
      BY <1>1, <3>1, LevelFacts, FS_Subset
    <3>3. /\ Len(part_pending) \in Nat /\ Cardinality(unlaunched) \in Nat
          /\ Len(part_pending) + Cardinality(unlaunched) <= Len(owners)
          /\ Len(owners) \in Nat /\ Len(owners) <= MaxLevelNodes
      BY <1>1, LevelFacts
    <3>4. MaxLevelNodes \in Nat
      BY ArenaNumbers
    <3> QED
      BY <3>2, <3>3, <3>4
  <2>2. Launched(s, << cursor >>) /\ cursor' = cursor + n
    <3>1. cursor + owners[s[1]].span.len <= NRows
      BY <1>7, <1>k, <1>n
    <3>2. owners[s[1]].span.len # 0
      BY <1>11, <1>k, <1>n
    <3> QED
      BY <1>2, <1>k, <1>n, <2>1, <3>1, <3>2
  <2>e. PICK end : end = cursor + n
    OBVIOUS
  <2>3. Places(s, << cursor >>, end)
    <3>1. 1..Len(s) = {1} /\ << cursor >>[1] = cursor
      BY <1>2
    <3>2. cursor + n <= NRows /\ cursor <= cursor /\ cursor + n <= end
      BY <1>8, <1>9, <2>e
    <3>3. \A j \in 1..Len(s) : j = 1
      BY <3>1
    <3>4. \A i, j \in 1..Len(s) : ~(i < j)
      BY <3>3
    <3> QED
      BY <1>8, <1>k, <1>n, <3>1, <3>2, <3>3, <3>4 DEF Places
  <2>4. Cardinality(HeldBy(Tokened \cup Named(s))) = end
    BY <1>5, <1>7, <2>e
  <2>5. cursor <= end /\ end \in 0..NRows
    BY <1>8, <1>9, <2>e
  <2> QED
    BY <1>1, <1>3, <2>2, <2>3, <2>4, <2>5, <2>e, LaunchKeeps
<1> QED
  BY <1>10, <1>11

\* The rows written before the j-th request of a batch is.
Sofar(s, j) == HeldBy(Tokened \cup {s[i] : i \in 1..j - 1})

\* The cursor after each request of a batch is the number of rows written so far.
LEMMA BatchGrows ==
  ASSUME ArenaInv, stage = "partition", NEW s \in Seq(unlaunched), ~Repeats(s)
  PROVE  /\ Cardinality(Sofar(s, 1)) = cursor
         /\ \A j \in 1..Len(s) + 1 :
              IsFiniteSet(Sofar(s, j)) /\ Cardinality(Sofar(s, j)) \in 0..NRows
         /\ \A j \in 1..Len(s) :
              Cardinality(Sofar(s, j + 1)) = Cardinality(Sofar(s, j)) + owners[s[j]].span.len
         /\ Sofar(s, Len(s) + 1) = HeldBy(Tokened \cup Named(s))
<1>1. LaunchInv /\ Len(s) \in Nat /\ NRows \in Nat
  BY ArenaNumbers DEF ArenaInv
<1>2. \A i \in 1..Len(s) : s[i] \in (1..Len(owners)) \ Tokened
  <2> TAKE i \in 1..Len(s)
  <2>1. s[i] \in unlaunched
    OBVIOUS
  <2> QED
    BY <1>1, <2>1 DEF LaunchInv, Tokened
<1>3. Cardinality(Sofar(s, 1)) = cursor
  <2>1. Tokened \cup {s[i] : i \in 1..1 - 1} = Tokened
    OBVIOUS
  <2> QED
    BY <1>1, <2>1 DEF Sofar, LaunchInv
<1>4. IsFiniteSet(Row) /\ Cardinality(Row) = NRows
  <2>2. IsFiniteSet(1..NRows) /\ Cardinality(1..NRows) = NRows
    BY <1>1, Counted
  <2> QED
    BY <2>2 DEF Row
<1>5. ASSUME NEW j
      PROVE  IsFiniteSet(Sofar(s, j)) /\ Cardinality(Sofar(s, j)) \in 0..NRows
  <2>1. Sofar(s, j) \in SUBSET Row
    BY DEF Sofar, HeldBy, Held
  <2>2. IsFiniteSet(Sofar(s, j)) /\ Cardinality(Sofar(s, j)) <= NRows
    BY <1>4, <2>1, FS_Subset
  <2>3. Cardinality(Sofar(s, j)) \in Nat
    BY <2>2, FS_CardinalityType
  <2> QED
    BY <1>1, <2>2, <2>3
<1>6. ASSUME NEW j \in 1..Len(s)
      PROVE  Cardinality(Sofar(s, j + 1)) = Cardinality(Sofar(s, j)) + owners[s[j]].span.len
  <2> DEFINE K == Tokened \cup {s[i] : i \in 1..j - 1}
  <2>1. K \in SUBSET (1..Len(owners))
    BY <1>1, <1>2 DEF Tokened
  <2>2. s[j] \notin K
    BY <1>1, <1>2 DEF Repeats
  <2>3. (j + 1) - 1 = j /\ \A i \in 1..j : i \in 1..j - 1 \/ i = j
    BY <1>1
  <2>4. Tokened \cup {s[i] : i \in 1..(j + 1) - 1} = K \cup {s[j]}
    <3>1. {s[i] : i \in 1..j} = {s[i] : i \in 1..j - 1} \cup {s[j]}
      BY <1>1, <2>3
    <3> QED
      BY <2>3, <3>1
  <2> HIDE DEF K
  <2>5. Cardinality(HeldBy(K \cup {s[j]})) = Cardinality(HeldBy(K)) + owners[s[j]].span.len
    BY <1>2, <2>1, <2>2, HeldGrows
  <2> QED
    BY <2>4, <2>5 DEF Sofar, K
<1>7. Sofar(s, Len(s) + 1) = HeldBy(Tokened \cup Named(s))
  <2>1. (Len(s) + 1) - 1 = Len(s)
    BY <1>1
  <2> QED
    BY <2>1 DEF Sofar, Named
<1> QED
  BY <1>3, <1>5, <1>6, <1>7

\* The offsets of a batch are the rows written so far.
LEMMA OffsetsAre ==
  ASSUME ArenaInv, stage = "partition", NEW s \in Seq(unlaunched), ~Repeats(s)
  PROVE  \A j \in 1..Len(s) + 1 : Offsets(s)[j] = Cardinality(Sofar(s, j))
<1> DEFINE n == Len(s)
           Step(v, j) == IF j = 1 THEN cursor ELSE v[j - 1] + owners[s[j - 1]].span.len
           IsOut(v) == v = [j \in 1..n + 1 |-> Step(v, j)]
           w == [j \in 1..n + 1 |-> Cardinality(Sofar(s, j))]
           u == CHOOSE v : IsOut(v)
<1>1. n \in Nat
  OBVIOUS
<1>2. \A j \in 1..n + 1 : Cardinality(Sofar(s, j)) = Step(w, j)
  <2> TAKE j \in 1..n + 1
  <2>1. CASE j = 1
    BY <2>1, BatchGrows
  <2>2. CASE j # 1
    <3>i. PICK i : i = j - 1
      OBVIOUS
    <3>1. i \in 1..n /\ i \in 1..n + 1 /\ j = i + 1
      BY <1>1, <2>2, <3>i
    <3>2. w[i] = Cardinality(Sofar(s, i))
      BY <3>1
    <3>3. Cardinality(Sofar(s, i + 1)) = Cardinality(Sofar(s, i)) + owners[s[i]].span.len
      BY <3>1, BatchGrows
    <3> HIDE DEF w
    <3> QED
      BY <2>2, <3>1, <3>2, <3>3, <3>i
  <2> QED
    BY <2>1, <2>2
<1>3. IsOut(w)
  <2>1. w = [j \in 1..n + 1 |-> Cardinality(Sofar(s, j))]
    OBVIOUS
  <2> HIDE DEF w
  <2> QED
    BY <1>2, <2>1, Zenon
<1>4. Offsets(s) = u
  BY DEF Offsets
<1>5. IsOut(u)
  BY <1>3
<1> HIDE DEF u
<1>6. \A j \in 1..n + 1 : u[j] = Step(u, j)
  BY <1>5, Zenon
<1> HIDE DEF IsOut
<1> DEFINE U == {j \in Nat : j + 1 \in 1..n + 1 => u[j + 1] = Cardinality(Sofar(s, j + 1))}
<1>7. 0 \in U
  <2>1. 1 \in 1..n + 1
    BY <1>1
  <2>2. u[1] = cursor
    BY <1>6, <2>1
  <2>3. u[0 + 1] = Cardinality(Sofar(s, 0 + 1))
    <3>1. 0 + 1 = 1
      OBVIOUS
    <3>2. Cardinality(Sofar(s, 1)) = cursor
      BY BatchGrows
    <3> QED
      BY <2>2, <3>1, <3>2, Zenon
  <2> QED
    BY <2>3
<1>8. ASSUME NEW j \in U PROVE j + 1 \in U
  <2>1. SUFFICES ASSUME (j + 1) + 1 \in 1..n + 1
                 PROVE  u[(j + 1) + 1] = Cardinality(Sofar(s, (j + 1) + 1))
    OBVIOUS
  <2>i. PICK i : i = j + 1
    OBVIOUS
  <2>2. j \in Nat /\ i \in 1..n /\ i + 1 \in 1..n + 1 /\ (i + 1) - 1 = i /\ i + 1 # 1
        /\ j + 1 \in 1..n + 1
    BY <1>1, <1>8, <2>1, <2>i
  <2>3. u[i] = Cardinality(Sofar(s, i))
    BY <1>8, <2>2, <2>i
  <2>4. u[i + 1] = u[i] + owners[s[i]].span.len
    BY <1>6, <2>2
  <2>5. Cardinality(Sofar(s, i + 1)) = Cardinality(Sofar(s, i)) + owners[s[i]].span.len
    BY <2>2, BatchGrows
  <2> QED
    BY <2>3, <2>4, <2>5, <2>i
<1>9. U \in SUBSET Nat
  OBVIOUS
<1> HIDE DEF U
<1>10. U = Nat
  BY <1>7, <1>8, <1>9, NatSetInduction
<1>11. ASSUME NEW j \in 1..n + 1 PROVE u[j] = Cardinality(Sofar(s, j))
  <2>i. PICK i : i = j - 1
    OBVIOUS
  <2>1. i \in Nat /\ i + 1 = j
    BY <1>1, <2>i
  <2> QED
    BY <1>10, <2>1 DEF U
<1> QED
  BY <1>4, <1>11

\* launch_partition_batch: the running cursor gives the requests disjoint places.
LEMMA BatchKeeps == ArenaInv /\ PartitionBatch => ArenaInv'
<1> SUFFICES ASSUME ArenaInv, PartitionBatch PROVE ArenaInv'
  OBVIOUS
<1>1. stage = "partition"
      /\ UNCHANGED << left, at_depth, owners, chosen, slot, next_owners, nodes, delta >>
  BY DEF PartitionBatch
<1>2. PICK s \in Requests :
       IF /\ Len(part_pending) + Len(s) <= MaxLevelNodes
          /\ \A j \in DOMAIN s : owners[s[j]].span.offset + owners[s[j]].span.len <= NRows
          /\ \A i, j \in DOMAIN s :
               i # j => ~Overlap(owners[s[i]].span, owners[s[j]].span)
          /\ Offsets(s)[Len(s) + 1] <= NRows
       THEN Launched(s, Offsets(s)) /\ cursor' = Offsets(s)[Len(s) + 1]
       ELSE Abort
  BY Zenon DEF PartitionBatch
<1>3. s \in Seq(unlaunched) /\ DOMAIN s = 1..Len(s) /\ Len(s) \in Nat /\ ~Repeats(s)
  BY <1>1, RequestsAre
<1>4. LaunchInv /\ ArenaType /\ OpenInv /\ IdInv
  BY <1>1 DEF ArenaInv
<1>5. ASSUME NEW j \in 1..Len(s)
      PROVE  /\ s[j] \in 1..Len(owners) /\ Fits(owners[s[j]].span) /\ s[j] \in Live
             /\ owners[s[j]].span.len \in 0..NRows /\ owners[s[j]].span.offset \in 0..NRows
  <2>1. s[j] \in unlaunched
    BY <1>3
  <2>2. s[j] \in 1..Len(owners)
    BY <1>4, <2>1 DEF LaunchInv
  <2> QED
    BY <1>1, <2>2, LevelFacts
<1>6. Len(part_pending) + Len(s) <= MaxLevelNodes
  <2>1. Cardinality(Named(s)) = Len(s) /\ Named(s) \in SUBSET unlaunched
    BY <1>3, NamedOnce
  <2>2. Len(s) <= Cardinality(unlaunched)
    BY <1>1, <2>1, LevelFacts, FS_Subset
  <2>3. /\ Len(part_pending) \in Nat /\ Cardinality(unlaunched) \in Nat
        /\ Len(part_pending) + Cardinality(unlaunched) <= Len(owners)
        /\ Len(owners) \in Nat /\ Len(owners) <= MaxLevelNodes
    BY <1>1, LevelFacts
  <2>4. MaxLevelNodes \in Nat
    BY ArenaNumbers
  <2> QED
    BY <1>3, <2>2, <2>3, <2>4
<1>7. ASSUME NEW i \in 1..Len(s), NEW j \in 1..Len(s), i # j
      PROVE  ~Overlap(owners[s[i]].span, owners[s[j]].span)
  <2>1. s[i] # s[j]
    BY <1>3, <1>7 DEF Repeats
  <2> QED
    BY <1>4, <1>5, <2>1, SpansApart
<1>8. \A j \in 1..Len(s) + 1 : Offsets(s)[j] = Cardinality(Sofar(s, j))
  BY <1>1, <1>3, OffsetsAre
<1>9. \A j \in 1..Len(s) + 1 : Offsets(s)[j] \in 0..NRows
  BY <1>1, <1>3, <1>8, BatchGrows
<1>10. \A j \in 1..Len(s) : Offsets(s)[j + 1] = Offsets(s)[j] + owners[s[j]].span.len
  <2> TAKE j \in 1..Len(s)
  <2>1. j \in 1..Len(s) + 1 /\ j + 1 \in 1..Len(s) + 1
    BY <1>3
  <2> QED
    BY <1>1, <1>3, <1>8, <2>1, BatchGrows
<1>11. \A i, j \in 1..Len(s) + 1 : i <= j => Offsets(s)[i] <= Offsets(s)[j]
  <2> TAKE i, j \in 1..Len(s) + 1
  <2> HAVE i <= j
  <2>1. Sofar(s, i) \in SUBSET Sofar(s, j)
    <3>1. \A m \in 1..i - 1 : m \in 1..j - 1
      BY <1>3
    <3> QED
      BY <3>1 DEF Sofar, HeldBy
  <2>2. IsFiniteSet(Sofar(s, j))
    BY <1>1, <1>3, BatchGrows
  <2>3. Cardinality(Sofar(s, i)) <= Cardinality(Sofar(s, j))
    BY <2>1, <2>2, FS_Subset
  <2> QED
    BY <1>8, <2>3
<1>e. PICK end : end = Offsets(s)[Len(s) + 1]
  OBVIOUS
<1>12. 1 \in 1..Len(s) + 1 /\ Len(s) + 1 \in 1..Len(s) + 1 /\ NRows \in Nat
  BY <1>3, ArenaNumbers
<1>13. end \in 0..NRows /\ end <= NRows
  BY <1>9, <1>12, <1>e
<1>14. Launched(s, Offsets(s)) /\ cursor' = end
  <2>1. \A j \in DOMAIN s : owners[s[j]].span.offset + owners[s[j]].span.len <= NRows
    BY <1>3, <1>5 DEF Fits
  <2>2. \A i, j \in DOMAIN s : i # j => ~Overlap(owners[s[i]].span, owners[s[j]].span)
    BY <1>3, <1>7
  <2> QED
    BY <1>2, <1>6, <1>13, <1>e, <2>1, <2>2, Zenon
<1>15. Offsets(s)[1] = cursor
  BY <1>1, <1>3, <1>8, <1>12, BatchGrows
<1>16. cursor <= end
  BY <1>11, <1>12, <1>15, <1>e
<1>o. PICK out : out = Offsets(s)
  OBVIOUS
<1>17. Places(s, out, end)
  <2>1. ASSUME NEW j \in 1..Len(s)
        PROVE  /\ out[j] \in 0..NRows /\ out[j] + owners[s[j]].span.len <= NRows
               /\ cursor <= out[j] /\ out[j] + owners[s[j]].span.len <= end
    <3>1. j \in 1..Len(s) + 1 /\ j + 1 \in 1..Len(s) + 1 /\ 1 <= j /\ j + 1 <= Len(s) + 1
      BY <1>3
    <3>2. out[j] \in 0..NRows /\ out[j + 1] \in 0..NRows
      BY <1>9, <1>o, <3>1
    <3>3. out[j + 1] = out[j] + owners[s[j]].span.len
      BY <1>10, <1>o
    <3>4. cursor <= out[j] /\ out[j + 1] <= end
      BY <1>11, <1>12, <1>15, <1>e, <1>o, <3>1
    <3>5. out[j + 1] <= NRows
      BY <1>12, <3>2
    <3> QED
      BY <3>2, <3>3, <3>4, <3>5
  <2>2. ASSUME NEW i \in 1..Len(s), NEW j \in 1..Len(s), i < j
        PROVE  out[i] + owners[s[i]].span.len <= out[j]
    <3>1. i + 1 \in 1..Len(s) + 1 /\ j \in 1..Len(s) + 1 /\ i + 1 <= j
      BY <1>3, <2>2
    <3> QED
      BY <1>10, <1>11, <1>o, <3>1
  <2> QED
    BY <2>1, <2>2 DEF Places
<1>18. Cardinality(HeldBy(Tokened \cup Named(s))) = end
  BY <1>1, <1>3, <1>8, <1>12, <1>e, BatchGrows
<1> QED
  BY <1>1, <1>3, <1>13, <1>14, <1>16, <1>17, <1>18, <1>o, LaunchKeeps

----------------------------------------------------------------------------
(***************************************************************************)
(* Resolving the launches, splitting, and the next level                   *)
(***************************************************************************)

\* A span reads back what was written at its place.
LEMMA RowsInIs ==
  ASSUME NEW array, NEW span, NEW t \in Seq(Row), Len(t) = span.len,
         \A i \in 1..span.len : array[span.offset + i] = t[i]
  PROVE  RowsIn(array, span) = t
<1>1. t = [i \in 1..Len(t) |-> t[i]]
  OBVIOUS
<1>2. t = [i \in 1..span.len |-> t[i]]
  BY <1>1
<1>3. [i \in 1..span.len |-> array[span.offset + i]] = [i \in 1..span.len |-> t[i]]
  OBVIOUS
<1> QED
  BY <1>2, <1>3 DEF RowsIn

\* The pair made of a token's entry and total is that of the rows sent left and right.
LEMMA DeliveredPair ==
  ASSUME ArenaInv, stage = "partition", NEW k \in Tokened, chosen[k] # 0,
         NEW pair, pair = PairOf(part_pending[part_tokens[k]], part_totals[part_tokens[k]])
  PROVE  /\ pair[1] \in Spans /\ Fits(pair[1]) /\ RowsIn(next_rows, pair[1]) = GoLeft(k)
         /\ pair[2] \in Spans /\ Fits(pair[2]) /\ RowsIn(next_rows, pair[2]) = GoRight(k)
<1>1. ArenaType /\ FlowInv /\ GrownTree /\ LaunchInv
  BY DEF ArenaInv
<1>t. PICK t : t = part_tokens[k]
  OBVIOUS
<1>2. Delivered(k, t) /\ k \in 1..Len(owners)
  BY <1>1, <1>t DEF LaunchInv, Tokened
<1>3. t \in 1..Len(part_pending)
  BY <1>2 DEF Delivered
<1>o. PICK o : o = part_pending[t].out_offset
  OBVIOUS
<1>n. PICK n : n = owners[k].span.len
  OBVIOUS
<1>l. PICK l : l = Len(GoLeft(k))
  OBVIOUS
<1>r. PICK r : r = Len(GoRight(k))
  OBVIOUS
<1>4. o \in 0..NRows /\ n \in 0..NRows /\ NRows \in Nat
  <2>1. part_pending[t] \in PendingEntry
    BY <1>1, <1>3 DEF ArenaType
  <2>2. o \in 0..NRows
    BY <1>o, <2>1 DEF PendingEntry
  <2> QED
    BY <1>2, <1>n, <2>2, LevelFacts, ArenaNumbers
<1>5. /\ GoLeft(k) \in Seq(Row) /\ GoRight(k) \in Seq(Row)
      /\ l + r = n /\ l \in Nat /\ r \in Nat
  BY <1>1, <1>2, <1>l, <1>n, <1>r, ScatteredRows
<1>6. /\ o + n <= NRows /\ part_totals[t] = l /\ part_pending[t].n_selected = n
      /\ \A i \in 1..n : next_rows[o + i] = Scattered(k)[i]
  BY <1>2, <1>l, <1>n, <1>o DEF Delivered, Placed
<1>7. pair[1] = Span(o, l) /\ pair[2] = Span(o + l, n - l)
  BY <1>6, <1>o, <1>t DEF PairOf
<1>8. n - l = r /\ o + l \in 0..NRows /\ l \in 0..NRows /\ r \in 0..NRows
      /\ o + l <= NRows /\ (o + l) + r <= NRows
  BY <1>4, <1>5, <1>6
<1>9. /\ pair[1].offset = o /\ pair[1].len = l /\ pair[2].offset = o + l /\ pair[2].len = r
  BY <1>7, <1>8 DEF Span
<1>10. /\ pair[1] \in Spans /\ Fits(pair[1]) /\ pair[2] \in Spans /\ Fits(pair[2])
  <2>1. Fits(pair[1]) /\ Fits(pair[2])
    BY <1>8, <1>9 DEF Fits
  <2>2. Span(o, l) \in Spans /\ Span(o + l, n - l) \in Spans
    BY <1>4, <1>8 DEF Span, Spans
  <2> QED
    BY <1>7, <2>1, <2>2
<1>11. /\ \A i \in 1..l : Scattered(k)[i] = GoLeft(k)[i]
       /\ \A i \in 1..r : Scattered(k)[l + i] = GoRight(k)[i]
  BY <1>5, <1>l, <1>r, Joined DEF Scattered
<1>12. RowsIn(next_rows, pair[1]) = GoLeft(k)
  <2>1. \A i \in 1..l : next_rows[o + i] = GoLeft(k)[i]
    BY <1>4, <1>5, <1>6, <1>11
  <2> QED
    BY <1>5, <1>9, <1>l, <2>1, RowsInIs
<1>13. RowsIn(next_rows, pair[2]) = GoRight(k)
  <2>1. ASSUME NEW i \in 1..r PROVE next_rows[(o + l) + i] = GoRight(k)[i]
    <3>1. l + i \in 1..n /\ (o + l) + i = o + (l + i)
      BY <1>4, <1>5
    <3>2. next_rows[o + (l + i)] = Scattered(k)[l + i]
      BY <1>6, <3>1
    <3> QED
      BY <1>11, <3>1, <3>2
  <2> QED
    BY <1>5, <1>9, <1>r, <2>1, RowsInIs
<1> QED
  BY <1>10, <1>12, <1>13

\* The totals are read back and every split node gets its pair (resolve_partitions).
LEMMA ResolveKeeps == ArenaInv /\ Resolve => ArenaInv'
<1> SUFFICES ASSUME ArenaInv, Resolve PROVE ArenaInv'
  OBVIOUS
<1>1. /\ stage = "partition" /\ unlaunched = {} /\ stage' = "settle" /\ slot' = 1
      /\ parts' = [k \in DOMAIN owners |->
           IF part_tokens[k] = 0 THEN NoParts
           ELSE PairOf(part_pending[part_tokens[k]], part_totals[part_tokens[k]])]
      /\ UNCHANGED << left, at_depth, owners, chosen, rows, next_rows, cursor, part_pending,
                      part_totals, next_owners, nodes, delta >>
  BY DEF Resolve, arena
<1>2. ArenaType /\ FlowInv /\ GrownTree /\ LaunchInv /\ IdInv /\ OpenInv /\ RouteInv
  BY <1>1 DEF ArenaInv
<1>3. Live = 1..Len(owners) /\ Len(owners) \in Nat /\ next_owners = << >> /\ slot = 1
      /\ DOMAIN owners = 1..Len(owners)
  BY <1>1, <1>2, LevelFacts DEF FlowInv, ArenaType
<1>4. Live' = Live
  BY <1>1, <1>3 DEF Live
<1>5. GrownTree' /\ OpenInv' /\ RouteInv'
  <2>1. Open' = Open
    BY <1>1, <1>2, <1>3, <1>4, SameOpen DEF ArenaType
  <2> QED
    BY <1>1, <1>2, <2>1, SameTree
<1>6. ArenaType'
  BY <1>1, <1>2, <1>3 DEF ArenaType
<1>7. FlowInv'
  <2>1. Len(next_owners) <= 2 * (1 - 1)
    BY <1>3
  <2> QED
    BY <1>1, <1>2, <2>1 DEF FlowInv
<1>8. IdInv'
  BY <1>1, <1>2, <1>4 DEF IdInv
<1>9. PairsInv'
  <2>1. \A k : GoLeft(k)' = GoLeft(k) /\ GoRight(k)' = GoRight(k)
    BY <1>1 DEF GoLeft, GoRight, RowsOf, RowsIn, Kept
  <2>2. ASSUME NEW k \in 1..Len(owners), chosen[k] # 0 PROVE PairFound(k)'
    <3>1. part_tokens[k] # 0 /\ k \in Tokened
      BY <1>1, <1>2, <2>2 DEF LaunchInv, Tokened
    <3>2. parts'[k] = PairOf(part_pending[part_tokens[k]], part_totals[part_tokens[k]])
      BY <1>1, <1>3, <3>1
    <3>p. PICK pair : pair = parts'[k]
      OBVIOUS
    <3>3. /\ pair[1] \in Spans /\ Fits(pair[1]) /\ RowsIn(next_rows, pair[1]) = GoLeft(k)
          /\ pair[2] \in Spans /\ Fits(pair[2]) /\ RowsIn(next_rows, pair[2]) = GoRight(k)
      BY <1>1, <2>2, <3>1, <3>2, <3>p, DeliveredPair
    <3> QED
      BY <1>1, <2>1, <3>3, <3>p DEF PairFound, Fits, RowsIn
  <2> QED
    BY <1>1, <2>2 DEF PairsInv
<1> QED
  BY <1>1, <1>5, <1>6, <1>7, <1>8, <1>9 DEF ArenaInv

\* The nodes of the next level are open as well.
LEMMA NextFacts ==
  ASSUME ArenaType, OpenInv
  PROVE  \A k \in 1..Len(next_owners) :
           NextNode(k) \in Open /\ next_owners[k].node \in 1..Len(nodes)
<1>1. Open = {LiveNode(k) : k \in Live} \cup {NextNode(k) : k \in 1..Len(next_owners)}
  BY OpenNodes DEF ArenaType
<1> TAKE k \in 1..Len(next_owners)
<1>2. NextNode(k) \in Open
  BY <1>1
<1>3. NextNode(k).id = next_owners[k].node
  BY DEF NextNode
<1> QED
  BY <1>2, <1>3 DEF OpenInv

\* Splitting the node at slot opens two children that share its rows in order.
LEMMA SplitOpens ==
  ASSUME ArenaInv, SplitSlot
  PROVE  /\ slot \in Live /\ LiveNode(slot) \in Open /\ chosen[slot] \in Feature
         /\ SplitBy(LiveNode(slot), chosen[slot])
<1> DEFINE n == LiveNode(slot)
           N == Len(nodes)
           M == Len(next_owners)
           A == [node |-> N + 1, span |-> parts[slot][1]]
           B == [node |-> N + 2, span |-> parts[slot][2]]
<1>1. ArenaType /\ FlowInv /\ OpenInv /\ IdInv /\ PairsInv
  BY DEF ArenaInv, SplitSlot
<1>2. /\ stage = "settle" /\ slot \in 1..Len(owners) /\ slot \in Nat /\ chosen[slot] # 0
      /\ slot' = slot + 1 /\ next_owners' = next_owners \o << A, B >>
      /\ nodes' = [nodes EXCEPT ![owners[slot].node] = [feat |-> chosen[slot], child |-> N + 1]]
                    \o << Leaf, Leaf >>
      /\ UNCHANGED << left, stage, owners, rows, next_rows, delta >>
  BY <1>1 DEF SplitSlot, arena, ArenaType
<1>3. slot \in Live
  BY <1>2 DEF Live
<1>4. n \in Open /\ n.id = owners[slot].node /\ n.rows = RowsOf(owners[slot].span)
  BY <1>1, <1>3, LiveFacts DEF LiveNode
<1>5. chosen[slot] \in Feature
  BY <1>1, <1>2 DEF FlowInv
<1>6. PairFound(slot)
  <2>1. slot \in slot..Len(owners)
    BY <1>2
  <2> QED
    BY <1>1, <1>2, <2>1 DEF PairsInv
<1> HIDE DEF A, B, n
<1>7. M \in Nat /\ next_owners \in Seq(Owner)
  BY <1>1 DEF ArenaType
<1>8. /\ Len(next_owners') = M + 2 /\ DOMAIN next_owners' = 1..M + 2
      /\ next_owners'[M + 1] = A /\ next_owners'[M + 2] = B
      /\ \A k \in 1..M : next_owners'[k] = next_owners[k]
  BY <1>2, <1>7
<1>9. Open' = {LiveNode(k) : k \in Live \ {slot}} \cup
              {NextNode(k)' : k \in 1..M + 2}
  <2>1. DOMAIN owners = 1..Len(owners)
    BY <1>1 DEF ArenaType
  <2>2. {k \in DOMAIN owners' : stage' # "done" /\ slot' <= k} = Live \ {slot}
    BY <1>2, <2>1 DEF Live
  <2>3. \A k : LiveNode(k)' = LiveNode(k)
    BY <1>2 DEF LiveNode, RowsOf, RowsIn
  <2>4. Open' = {LiveNode(k)' : k \in Live \ {slot}} \cup {NextNode(k)' : k \in 1..M + 2}
    BY <1>8, <2>2 DEF Open, LiveNode, NextNode
  <2> QED
    BY <2>3, <2>4
<1> DEFINE a == [id |-> N + 1, rows |-> Kept(n.rows, left[chosen[slot]])]
           b == [id |-> N + 2, rows |-> Kept(n.rows, Row \ left[chosen[slot]])]
<1>p. PICK p, q : p = M + 1 /\ q = M + 2
  OBVIOUS
<1>10. NextNode(p)' = a /\ NextNode(q)' = b
  <2>1. next_owners'[p] = A /\ next_owners'[q] = B
    BY <1>8, <1>p
  <2>2. RowsIn(next_rows, A.span) = GoLeft(slot) /\ RowsIn(next_rows, B.span) = GoRight(slot)
    BY <1>6 DEF A, B, PairFound
  <2>3. GoLeft(slot) = Kept(n.rows, left[chosen[slot]])
        /\ GoRight(slot) = Kept(n.rows, Row \ left[chosen[slot]])
    BY <1>4 DEF GoLeft, GoRight
  <2>4. A.node = N + 1 /\ B.node = N + 2
    BY DEF A, B
  <2>5. \A k : NextNode(k)' = [id |-> next_owners'[k].node,
                               rows |-> RowsIn(next_rows, next_owners'[k].span)]
    BY <1>2 DEF NextNode, RowsIn
  <2> QED
    BY <2>1, <2>2, <2>3, <2>4, <2>5, Zenon
<1> HIDE DEF a, b
<1>11. \A k \in 1..M : NextNode(k)' = NextNode(k)
  BY <1>2, <1>8 DEF NextNode, RowsIn
<1>12. {NextNode(k)' : k \in 1..M + 2} = {NextNode(k) : k \in 1..M} \cup {a, b}
  <2>1. \A k \in 1..M + 2 : k \in 1..M \/ k = p \/ k = q
    BY <1>7, <1>p
  <2>2. \A k \in 1..M : k \in 1..M + 2
    BY <1>7
  <2>3. p \in 1..M + 2 /\ q \in 1..M + 2
    BY <1>7, <1>p
  <2> QED
    BY <1>10, <1>11, <2>1, <2>2, <2>3
<1>13. {LiveNode(k) : k \in Live \ {slot}} \cup {NextNode(k) : k \in 1..M} = Open \ {n}
  <2>1. Open = {LiveNode(k) : k \in Live} \cup {NextNode(k) : k \in 1..M}
    BY <1>1, OpenNodes DEF ArenaType
  <2>2. \A k \in Live \ {slot} : LiveNode(k) # n
    BY <1>1, <1>3 DEF LiveNode, IdInv, n
  <2>3. \A k \in 1..M : NextNode(k) # n
    BY <1>1, <1>3 DEF LiveNode, NextNode, IdInv, n
  <2> QED
    BY <1>3, <2>1, <2>2, <2>3 DEF n
<1>14. Open' = (Open \ {n}) \cup {a, b}
  BY <1>9, <1>12, <1>13
<1>15. SplitBy(n, chosen[slot])
  BY <1>2, <1>4, <1>14 DEF SplitBy, a, b
<1> QED
  BY <1>3, <1>4, <1>5, <1>15 DEF n

\* A split node is replaced by its children (Tree::split_leaf).
LEMMA SplitSlotKeeps == ArenaInv /\ SplitSlot => ArenaInv'
<1> SUFFICES ASSUME ArenaInv, SplitSlot PROVE ArenaInv'
  OBVIOUS
<1> DEFINE N == Len(nodes)
           M == Len(next_owners)
           A == [node |-> N + 1, span |-> parts[slot][1]]
           B == [node |-> N + 2, span |-> parts[slot][2]]
<1>1. ArenaType /\ FlowInv /\ OpenInv /\ IdInv /\ PairsInv /\ GrownTree /\ RouteInv
  BY DEF ArenaInv, SplitSlot
<1>2. /\ stage = "settle" /\ slot \in 1..Len(owners) /\ slot \in Nat /\ chosen[slot] # 0
      /\ slot' = slot + 1 /\ next_owners' = next_owners \o << A, B >>
      /\ UNCHANGED << left, stage, at_depth, owners, chosen, part_pending, part_totals, cursor,
                      rows, next_rows, parts, delta >>
  BY <1>1 DEF SplitSlot, arena, ArenaType
<1>3. GrownTree' /\ OpenInv' /\ RouteInv'
  BY <1>1, SplitOpens, SplitKeepsOpen, ArenaNumbers
<1>4. PairFound(slot)
  <2>1. slot \in slot..Len(owners)
    BY <1>2
  <2> QED
    BY <1>1, <1>2, <2>1 DEF PairsInv
<1>5. M \in Nat /\ N \in Nat /\ Len(owners) \in Nat /\ next_owners \in Seq(Owner)
  BY <1>1 DEF ArenaType, GrownTree
<1>6. A \in Owner /\ B \in Owner /\ A.node = N + 1 /\ B.node = N + 2
      /\ Fits(A.span) /\ Fits(B.span)
  <2>1. parts[slot][1] \in Spans /\ parts[slot][2] \in Spans
        /\ Fits(parts[slot][1]) /\ Fits(parts[slot][2])
    BY <1>4 DEF PairFound
  <2>2. N + 1 \in Nat \ {0} /\ N + 2 \in Nat \ {0}
    BY <1>5
  <2> QED
    BY <2>1, <2>2 DEF Owner
<1> HIDE DEF A, B
<1>7. /\ next_owners' \in Seq(Owner) /\ Len(next_owners') = M + 2
      /\ next_owners'[M + 1] = A /\ next_owners'[M + 2] = B
      /\ \A k \in 1..M : next_owners'[k] = next_owners[k]
  BY <1>2, <1>5, <1>6
<1>8. \A k \in 1..M + 2 : k \in 1..M \/ k = M + 1 \/ k = M + 2
  BY <1>5
<1>9. ArenaType'
  <2>1. \A k \in 1..Len(next_owners') : Fits(next_owners'[k].span)
    BY <1>1, <1>6, <1>7, <1>8 DEF ArenaType
  <2>2. slot' \in 1..Len(owners) + 1
    BY <1>2, <1>5
  <2>3. \A k : Fits(next_owners[k].span)' <=> Fits(next_owners'[k].span)
    BY DEF Fits
  <2> QED
    BY <1>1, <1>2, <1>7, <2>1, <2>2, <2>3 DEF ArenaType, Fits
<1>10. FlowInv'
  <2>1. M + 2 <= 2 * ((slot + 1) - 1)
    BY <1>1, <1>2, <1>5 DEF FlowInv
  <2> QED
    BY <1>1, <1>2, <1>7, <2>1 DEF FlowInv
<1>11. IdInv'
  <2>1. Live' \subseteq Live
    BY <1>2 DEF Live
  <2>2. \A k \in 1..M : next_owners[k].node \in 1..N
    BY <1>1, NextFacts
  <2>3. \A k \in Live : owners[k].node \in 1..N
    BY <1>1, LiveFacts
  <2>4. \A j \in 1..N : j # N + 1 /\ j # N + 2
    BY <1>5
  <2>5. N + 1 # N + 2
    BY <1>5
  <2>n. PICK id : id = [k \in 1..M + 2 |-> next_owners'[k].node]
    OBVIOUS
  <2>6. /\ \A k \in 1..M : id[k] = next_owners[k].node /\ id[k] \in 1..N
        /\ id[M + 1] = N + 1 /\ id[M + 2] = N + 2
    <3>1. \A k \in 1..M + 2 : id[k] = next_owners'[k].node
      BY <2>n, Zenon
    <3>2. \A k \in 1..M : k \in 1..M + 2
      BY <1>5
    <3>3. M + 1 \in 1..M + 2 /\ M + 2 \in 1..M + 2
      BY <1>5
    <3>4. id[M + 1] = A.node /\ id[M + 2] = B.node
      BY <1>7, <3>1, <3>3
    <3>5. \A k \in 1..M : id[k] = next_owners[k].node
      BY <1>7, <3>1, <3>2
    <3> QED
      BY <1>6, <2>2, <3>4, <3>5
  <2>7. \A j, k \in 1..M + 2 : id[j] = id[k] => j = k
    <3> TAKE j, k \in 1..M + 2
    <3> HAVE id[j] = id[k]
    <3>1. (j \in 1..M \/ j = M + 1 \/ j = M + 2) /\ (k \in 1..M \/ k = M + 1 \/ k = M + 2)
      BY <1>8
    <3>2. CASE j \in 1..M
      <4>1. k \in 1..M
        BY <2>4, <2>6, <3>1, <3>2
      <4> QED
        BY <1>1, <2>6, <3>2, <4>1 DEF IdInv
    <3>3. CASE j \notin 1..M
      <4>1. k \notin 1..M
        BY <2>4, <2>6, <3>1, <3>3
      <4> QED
        BY <2>5, <2>6, <3>1, <3>3, <4>1
    <3> QED
      BY <3>2, <3>3
  <2>8. \A j \in Live : \A k \in 1..M + 2 : owners[j].node # id[k]
    BY <1>1, <1>8, <2>3, <2>4, <2>6 DEF IdInv
  <2>9. \A k \in 1..Len(next_owners') : next_owners'[k].node = id[k]
    BY <1>7, <2>n
  <2>10. \A j, k \in Live' : owners'[j].node = owners'[k].node => j = k
    BY <1>1, <1>2, <2>1 DEF IdInv
  <2>11. \A j, k \in 1..Len(next_owners') :
           next_owners'[j].node = next_owners'[k].node => j = k
    BY <1>7, <2>7, <2>9
  <2>12. \A j \in Live' : \A k \in 1..Len(next_owners') : owners'[j].node # next_owners'[k].node
    BY <1>2, <1>7, <2>1, <2>8, <2>9
  <2> HIDE DEF IdInv
  <2> QED
    BY <2>10, <2>11, <2>12 DEF IdInv
<1>12. PairsInv'
  <2>1. \A k : GoLeft(k)' = GoLeft(k) /\ GoRight(k)' = GoRight(k)
    BY <1>2 DEF GoLeft, GoRight, RowsOf, RowsIn, Kept
  <2>2. \A k : PairFound(k)' <=> PairFound(k)
    BY <1>2, <2>1 DEF PairFound, RowsIn, Fits
  <2>3. \A k \in slot + 1..Len(owners) : k \in slot..Len(owners)
    BY <1>2
  <2> QED
    BY <1>1, <1>2, <2>2, <2>3 DEF PairsInv
<1> QED
  BY <1>2, <1>3, <1>9, <1>10, <1>11, <1>12 DEF ArenaInv

\* The arenas are swapped, the next level's owners take over (finish_partition_level).
LEMMA FinishLevelKeeps == ArenaInv /\ FinishPartitionLevel => ArenaInv' /\ Open' = Open
<1> SUFFICES ASSUME ArenaInv, FinishPartitionLevel PROVE ArenaInv' /\ Open' = Open
  OBVIOUS
<1>1. ArenaType /\ FlowInv /\ OpenInv /\ IdInv /\ GrownTree /\ RouteInv
  BY DEF ArenaInv
<1>2. /\ stage = "settle" /\ slot > Len(owners) /\ rows' = next_rows /\ next_rows' = rows
      /\ cursor' = 0 /\ part_pending' = << >> /\ part_totals' = << >>
      /\ owners' = next_owners /\ next_owners' = << >> /\ chosen' = << >>
      /\ at_depth' = at_depth + 1 /\ stage' = "choose" /\ slot' = 1
      /\ UNCHANGED << left, nodes, delta >>
  BY DEF FinishPartitionLevel
<1>3. /\ Len(owners) \in Nat /\ Len(next_owners) \in Nat /\ slot = Len(owners) + 1
      /\ owners \in Seq(Owner) /\ next_owners \in Seq(Owner) /\ NRows \in Nat
      /\ DOMAIN next_owners = 1..Len(next_owners)
  BY <1>1, <1>2, ArenaNumbers DEF ArenaType
<1>4. Live = {} /\ Live' = 1..Len(next_owners)
  BY <1>2, <1>3 DEF Live
<1>5. Open' = Open
  <2>1. Open = {NextNode(k) : k \in 1..Len(next_owners)}
    BY <1>3, <1>4, OpenNodes
  <2>2. {k \in DOMAIN owners' : stage' # "done" /\ slot' <= k} = 1..Len(next_owners)
    BY <1>2, <1>3
  <2>3. DOMAIN next_owners' = {}
    BY <1>2
  <2>4. Open' = {[id |-> next_owners[k].node, rows |-> RowsIn(next_rows, next_owners[k].span)] :
                   k \in 1..Len(next_owners)}
    BY <1>2, <2>2, <2>3 DEF Open, RowsOf, RowsIn
  <2> QED
    BY <2>1, <2>4 DEF NextNode
<1>6. GrownTree' /\ OpenInv' /\ RouteInv'
  BY <1>1, <1>2, <1>5, SameTree
<1>7. at_depth \in Nat /\ MaxLevels \in Nat /\ at_depth < MaxLevels
  BY <1>1, <1>2, ArenaNumbers DEF ArenaType, FlowInv
<1>8. ArenaType'
  <2>1. at_depth + 1 \in 0..MaxLevels
    BY <1>7
  <2>2. << >> \in Seq(Owner) /\ Len(<< >>) = 0 /\ << >> \in Seq(PendingEntry)
        /\ << >> \in Seq(0..NRows)
    OBVIOUS
  <2>3. 0 \in 0..NRows /\ 1 \in 1..Len(next_owners) + 1
    BY <1>3
  <2> QED
    BY <1>1, <1>2, <2>1, <2>2, <2>3 DEF ArenaType, Fits
<1>9. FlowInv'
  <2>1. Len(next_owners) <= 2 * Len(owners) /\ Len(owners) <= 2 ^ at_depth
    BY <1>1, <1>2, <1>3 DEF FlowInv
  <2>2. 2 ^ at_depth \in Nat /\ 2 ^ (at_depth + 1) = 2 * 2 ^ at_depth
    BY <1>7, Doubling
  <2>3. \A p \in Nat : Len(owners) <= p => Len(next_owners) <= 2 * p
    BY <1>3, <2>1
  <2>4. Len(next_owners) <= 2 ^ (at_depth + 1)
    BY <2>1, <2>2, <2>3
  <2> QED
    BY <1>2, <2>4 DEF FlowInv
<1>10. IdInv'
  <2>1. 1..Len(next_owners') = {}
    BY <1>2
  <2> QED
    BY <1>1, <1>2, <1>4, <2>1 DEF IdInv
<1> QED
  BY <1>2, <1>5, <1>6, <1>8, <1>9, <1>10 DEF ArenaInv

----------------------------------------------------------------------------
(***************************************************************************)
(* The theorems                                                            *)
(***************************************************************************)

\* A node without a split is paid.
LEMMA SettleSlotKeeps == ArenaInv /\ SettleSlot => ArenaInv' /\ PayStep
<1> SUFFICES ASSUME ArenaInv, SettleSlot PROVE ArenaInv' /\ PayStep
  OBVIOUS
<1>1. stage = "settle" /\ slot <= Len(owners)
  BY DEF SettleSlot
<1>2. slot \in Live
  BY <1>1 DEF Live, ArenaInv, ArenaType
<1>3. PayStep
  BY <1>2 DEF SettleSlot, PayStep
<1> QED
  BY <1>1, <1>3, PayKeeps

\* The nodes of the last level are paid.
LEMMA SettleRestKeeps == ArenaInv /\ SettleRest => ArenaInv' /\ PayStep
<1> SUFFICES ASSUME ArenaInv, SettleRest PROVE ArenaInv' /\ PayStep
  OBVIOUS
<1>1. stage = "choose" /\ slot <= Len(owners) /\ at_depth = MaxLevels
  BY DEF SettleRest
<1>2. slot \in Live
  BY <1>1 DEF Live, ArenaInv, ArenaType
<1>3. PayStep
  BY <1>2 DEF SettleRest, PayStep
<1> QED
  BY <1>1, <1>3, PayKeeps

LEMMA ArenaStutters == ArenaInv /\ UNCHANGED arena_vars => ArenaInv' /\ Open' = Open
<1> SUFFICES ASSUME ArenaInv, UNCHANGED arena_vars PROVE ArenaInv' /\ Open' = Open
  OBVIOUS
<1>1. /\ UNCHANGED << left, stage, at_depth, owners, chosen, unlaunched, part_tokens, parts,
                      slot, next_owners, nodes, delta, rows, next_rows, cursor, part_pending,
                      part_totals >>
  BY DEF arena_vars, arena
<1>2. Open' = Open
  BY <1>1 DEF Open, RowsOf, RowsIn
<1>3. GrownTree' /\ OpenInv' /\ RouteInv'
  BY <1>1, <1>2, SameTree DEF ArenaInv
<1>4. ArenaType' /\ FlowInv' /\ IdInv'
  <2>1. Live' = Live
    BY <1>1 DEF Live
  <2>2. ArenaType'
    BY <1>1 DEF ArenaInv, ArenaType
  <2>3. FlowInv'
    BY <1>1 DEF ArenaInv, FlowInv
  <2>4. IdInv'
    BY <1>1, <2>1 DEF ArenaInv, IdInv
  <2> QED
    BY <2>2, <2>3, <2>4
<1>5. \A k : GoLeft(k)' = GoLeft(k) /\ GoRight(k)' = GoRight(k)
  BY <1>1 DEF GoLeft, GoRight, RowsOf, RowsIn, Kept
<1>6. \A k, t : Delivered(k, t)' <=> Delivered(k, t)
  BY <1>1, <1>5 DEF Delivered, Placed, Scattered
<1>7. Tokened' = Tokened /\ HeldBy(Tokened)' = HeldBy(Tokened)
  BY <1>1 DEF Tokened, HeldBy, Held, RowsOf, RowsIn
<1>8. stage = "partition" => LaunchInv'
  <2> HAVE stage = "partition"
  <2>1. LaunchInv
    BY DEF ArenaInv
  <2>2. \A k \in Tokened' : Delivered(k, part_tokens[k])'
    <3>1. part_tokens' = part_tokens
      BY <1>1
    <3> TAKE k \in Tokened'
    <3>2. Delivered(k, part_tokens[k])
      BY <1>7, <2>1 DEF LaunchInv
    <3>t. PICK t : t = part_tokens[k]
      OBVIOUS
    <3>3. Delivered(k, t)'
      BY <1>6, <3>2, <3>t
    <3> QED
      BY <3>1, <3>3, <3>t
  <2>3. Cardinality(HeldBy(Tokened)') = cursor'
    BY <1>1, <1>7, <2>1 DEF LaunchInv
  <2> QED
    BY <1>1, <2>1, <2>2, <2>3 DEF LaunchInv
<1>9. stage = "settle" => PairsInv'
  <2>1. \A k : PairFound(k)' <=> PairFound(k)
    BY <1>1, <1>5 DEF PairFound, RowsIn, Fits
  <2> QED
    BY <1>1, <2>1 DEF ArenaInv, PairsInv
<1> QED
  BY <1>1, <1>2, <1>3, <1>4, <1>8, <1>9 DEF ArenaInv

\* What every step does to the open nodes.
OpenStep ==
  \/ \E n \in Open : PaidBy(n)
  \/ \E n \in Open : \E f \in Feature : SplitBy(n, f)
  \/ Open = {} /\ BeginTreeRows
  \/ Open' = Open /\ UNCHANGED << left, nodes, delta >>

\* Every step keeps the invariant, and opens or closes no more than one node.
LEMMA ArenaStep == ArenaInv /\ [ArenaNext]_arena_vars => ArenaInv' /\ OpenStep
<1> SUFFICES ASSUME ArenaInv, [ArenaNext]_arena_vars PROVE ArenaInv' /\ OpenStep
  OBVIOUS
<1>1. ArenaType /\ FlowInv /\ OpenInv /\ IdInv /\ owners \in Seq(Owner) /\ next_owners \in Seq(Owner)
  BY DEF ArenaInv, ArenaType
<1>2. CASE Choose
  <2>1. /\ ArenaInv' /\ Live' = Live /\ next_owners = << >>
        /\ UNCHANGED << owners, next_owners, rows, left, nodes, delta >>
    BY <1>1, <1>2, ChooseKeeps DEF Choose, arena, Live, FlowInv
  <2> QED
    BY <1>1, <2>1, SameOpen DEF OpenStep
<1>3. CASE PartitionScalar \/ PartitionBatch
  <2>1. ArenaInv' /\ stage = "partition" /\ next_owners = << >>
    BY <1>1, <1>3, ScalarKeeps, BatchKeeps DEF PartitionScalar, PartitionBatch, FlowInv
  <2>2. rows' = rows /\ stage' # "done"
    <3>1. ArenaType' /\ \A s, out : Launched(s, out) => rows' = rows /\ stage' = stage
      BY <2>1 DEF ArenaInv, Launched
    <3>2. Abort => rows' = rows /\ stage' = "error"
      BY DEF Abort, arena
    <3> QED
      BY <1>3, <2>1, <3>1, <3>2 DEF PartitionScalar, PartitionBatch
  <2>3. UNCHANGED << owners, next_owners, left, nodes, delta, slot >>
    BY <1>3 DEF PartitionScalar, PartitionBatch
  <2>4. Live' = Live
    BY <2>1, <2>2, <2>3 DEF Live
  <2> QED
    BY <1>1, <2>1, <2>2, <2>3, <2>4, SameOpen DEF OpenStep
<1>4. CASE Resolve
  <2>1. /\ ArenaInv' /\ next_owners = << >> /\ slot = 1 /\ slot' = 1 /\ stage # "done"
        /\ stage' # "done" /\ UNCHANGED << owners, next_owners, rows, left, nodes, delta >>
    BY <1>1, <1>4, ResolveKeeps DEF Resolve, arena, FlowInv
  <2>2. Live' = Live
    BY <2>1 DEF Live
  <2> QED
    BY <1>1, <2>1, <2>2, SameOpen DEF OpenStep
<1>5. CASE SettleSlot \/ SettleRest
  <2>1. ArenaInv' /\ PayStep
    BY <1>5, SettleSlotKeeps, SettleRestKeeps
  <2> QED
    BY <1>1, <2>1, PayingCloses DEF OpenStep
<1>6. CASE SplitSlot
  BY <1>6, SplitSlotKeeps, SplitOpens DEF OpenStep
<1>7. CASE FinishPartitionLevel
  <2>1. UNCHANGED << left, nodes, delta >>
    BY <1>7 DEF FinishPartitionLevel
  <2> QED
    BY <1>7, <2>1, FinishLevelKeeps DEF OpenStep
<1>8. CASE FinishTree
  <2>1. UNCHANGED << left, nodes, delta >>
    BY <1>8 DEF FinishTree
  <2> QED
    BY <1>8, <2>1, FinishKeeps DEF OpenStep
<1>9. CASE BeginTreeRows
  <2>1. Live = {} /\ next_owners = << >>
    BY <1>1, <1>9 DEF BeginTreeRows, Live, FlowInv
  <2>2. Open = {}
    BY <1>1, <2>1, OpenNodes
  <2> QED
    BY <1>9, <2>2, BeginKeeps DEF OpenStep
<1>10. CASE UNCHANGED arena_vars
  <2>1. UNCHANGED << left, nodes, delta >>
    BY <1>10 DEF arena_vars
  <2> QED
    BY <1>10, <2>1, ArenaStutters DEF OpenStep
<1>11. CASE ArenaStops
  BY <1>10, <1>11 DEF ArenaStops
<1> QED
  BY <1>2, <1>3, <1>4, <1>5, <1>6, <1>7, <1>8, <1>9, <1>10, <1>11 DEF ArenaNext

\* For every number of rows and features, every choice of batches and blocks and every way
\* the splits send the rows: whatever order a level's partitions are launched in, the spans
\* of its open nodes hold each row not yet paid exactly once.
THEOREM ArenaInvariant == ArenaSpec => []ArenaInv
<1>1. ArenaInit => ArenaInv
  BY InitHolds
<1>2. ArenaInv /\ [ArenaNext]_arena_vars => ArenaInv'
  BY ArenaStep
<1> QED
  BY <1>1, <1>2, PTL DEF ArenaSpec

\* When the tree ends no node is open, so every row has been paid, at the leaf its way leads to.
LEMMA PaidOnceIs == ArenaInv => RowsPaidOnce
<1> SUFFICES ASSUME ArenaInv PROVE RowsPaidOnce
  OBVIOUS
<1>1. ArenaType /\ FlowInv /\ OpenInv /\ IdInv /\ GrownTree /\ RouteInv
  BY DEF ArenaInv
<1>2. NoLimitHit
  BY <1>1 DEF ArenaType, NoLimitHit
<1>3. Open = {LiveNode(k) : k \in Live} \cup {NextNode(k) : k \in 1..Len(next_owners)}
  BY <1>1, OpenNodes DEF ArenaType
<1>4. LiveSpansDisjoint
  <2> SUFFICES ASSUME stage \in {"choose", "partition"}, slot = 1
               PROVE  /\ \A j, k \in DOMAIN owners :
                           j # k => ~Overlap(owners[j].span, owners[k].span)
                      /\ {r \in Row : delta[r] = 0} =
                           UNION {{RowsOf(owners[k].span)[i] : i \in 1..owners[k].span.len} :
                                    k \in DOMAIN owners}
    BY DEF LiveSpansDisjoint
  <2>1. Live = DOMAIN owners /\ next_owners = << >>
    <3>1. DOMAIN owners = 1..Len(owners) /\ stage # "done"
      BY <1>1 DEF ArenaType
    <3>2. Live = DOMAIN owners
      BY <3>1 DEF Live
    <3> QED
      BY <1>1, <3>1, <3>2 DEF FlowInv
  <2>2. Open = {LiveNode(k) : k \in DOMAIN owners}
    BY <1>3, <2>1
  <2>3. ASSUME NEW r \in Row
        PROVE  delta[r] = 0 <=> \E k \in DOMAIN owners : Occurs(r, RowsOf(owners[k].span))
    <3>1. delta[r] = 0 <=> \E n \in Open : Occurs(r, n.rows)
      BY <1>1 DEF OpenInv
    <3>2. \A k : LiveNode(k).rows = RowsOf(owners[k].span)
      BY DEF LiveNode
    <3> QED
      BY <2>2, <3>1, <3>2
  <2>4. ASSUME NEW k \in DOMAIN owners
        PROVE  /\ \A r : Occurs(r, RowsOf(owners[k].span)) <=>
                           r \in {RowsOf(owners[k].span)[i] : i \in 1..owners[k].span.len}
               /\ \A r : Occurs(r, RowsOf(owners[k].span)) => r \in Row
    <3>1. RowsOf(owners[k].span) \in Seq(Row)
          /\ Len(RowsOf(owners[k].span)) = owners[k].span.len
      BY <1>1, <2>1, LiveFacts
    <3> QED
      BY <3>1 DEF Occurs
  <2>5. {r \in Row : delta[r] = 0} =
          UNION {{RowsOf(owners[k].span)[i] : i \in 1..owners[k].span.len} : k \in DOMAIN owners}
    <3> DEFINE Of(k) == {RowsOf(owners[k].span)[i] : i \in 1..owners[k].span.len}
    <3>1. \A k \in DOMAIN owners : \A r : Occurs(r, RowsOf(owners[k].span)) <=> r \in Of(k)
      BY <2>4
    <3> HIDE DEF Of
    <3>2. {r \in Row : delta[r] = 0} = UNION {Of(k) : k \in DOMAIN owners}
      BY <2>3, <2>4, <3>1
    <3> QED
      BY <3>2 DEF Of
  <2>6. \A j, k \in DOMAIN owners : j # k => ~Overlap(owners[j].span, owners[k].span)
    BY <1>1, <2>1, SpansApart
  <2> QED
    BY <2>5, <2>6
<1>5. DeltaMatchesTree
  <2> SUFFICES ASSUME stage = "done", NEW r \in Row PROVE delta[r] = Descend(r)
    BY DEF DeltaMatchesTree
  <2>1. Open = {}
    BY <1>1, <1>3 DEF Live, FlowInv
  <2>2. delta[r] # 0
    BY <1>1, <2>1 DEF OpenInv
  <2>3. Leads(r, delta[r])
    BY <1>1, <2>2 DEF RouteInv
  <2> QED
    BY <1>1, <2>3, DescendIs
<1> QED
  BY <1>2, <1>4, <1>5 DEF RowsPaidOnce

\* No two open nodes of a level share a row of the arena, and when a tree ends every row has
\* been given the value of exactly one leaf, the one its splits lead to (add_row_values).
THEOREM RowsArePaidOnce == ArenaSpec => []RowsPaidOnce
<1>1. ArenaInv => RowsPaidOnce
  BY PaidOnceIs
<1> QED
  BY <1>1, ArenaInvariant, PTL

TokenInv ==
  /\ \A k \in DOMAIN part_tokens : part_tokens[k] \in 0..MaxLevelNodes
  /\ Len(part_pending) <= Len(owners)

\* During a level there are no more tokens than nodes.
LEMMA LevelTokens == ArenaInv /\ stage = "partition" => TokenInv
<1> SUFFICES ASSUME ArenaInv, stage = "partition" PROVE TokenInv
  OBVIOUS
<1>1. LaunchInv
  BY DEF ArenaInv
<1>2. /\ Len(owners) \in Nat /\ Len(owners) <= MaxLevelNodes /\ Len(part_pending) \in Nat
      /\ Cardinality(unlaunched) \in Nat /\ MaxLevelNodes \in Nat
      /\ Len(part_pending) + Cardinality(unlaunched) <= Len(owners)
  BY LevelFacts, ArenaNumbers
<1>3. Len(part_pending) <= Len(owners) /\ Len(part_pending) <= MaxLevelNodes
  BY <1>2
<1>4. ASSUME NEW k \in DOMAIN part_tokens PROVE part_tokens[k] \in 0..MaxLevelNodes
  <2>1. k \in 1..Len(owners) /\ part_tokens[k] \in Nat
    BY <1>1 DEF LaunchInv
  <2>2. part_tokens[k] # 0 => part_tokens[k] \in 1..Len(part_pending)
    BY <1>1, <2>1 DEF LaunchInv, Tokened, Delivered
  <2> QED
    BY <1>2, <1>3, <2>1, <2>2
<1> QED
  BY <1>3, <1>4 DEF TokenInv

LEMMA TokensStay ==
  ArenaInv /\ ArenaInv' /\ TokenInv /\ [ArenaNext]_arena_vars => TokenInv'
<1> SUFFICES ASSUME ArenaInv, ArenaInv', TokenInv, [ArenaNext]_arena_vars PROVE TokenInv'
  OBVIOUS
<1>1. (ArenaInv /\ stage = "partition")' => TokenInv'
  BY LevelTokens, PTL
<1>2. stage' # "error" /\ Len(owners') \in Nat
  BY DEF ArenaInv, ArenaType
<1>3. CASE Choose \/ PartitionScalar \/ PartitionBatch
  <2>1. stage' = "partition"
    <3>1. \A s, out : Launched(s, out) => stage' = stage
      BY DEF Launched
    <3>2. Abort => stage' = "error"
      BY DEF Abort
    <3> QED
      BY <1>2, <1>3, <3>1, <3>2 DEF Choose, PartitionScalar, PartitionBatch
  <2> QED
    BY <1>1, <2>1
<1>4. CASE UNCHANGED << part_tokens, part_pending, owners >>
  BY <1>4 DEF TokenInv
<1>5. CASE FinishPartitionLevel
  <2>1. part_tokens' = part_tokens /\ part_pending' = << >>
    BY <1>5 DEF FinishPartitionLevel
  <2> QED
    BY <1>2, <2>1 DEF TokenInv
<1>6. CASE BeginTreeRows
  <2>1. part_tokens' = part_tokens /\ part_pending' = << >>
    BY <1>6 DEF BeginTreeRows, ArenaInv, FlowInv
  <2> QED
    BY <1>2, <2>1 DEF TokenInv
<1>7. CASE Resolve \/ SettleSlot \/ SplitSlot \/ SettleRest \/ FinishTree \/ ArenaStops
           \/ UNCHANGED arena_vars
  BY <1>4, <1>7 DEF Resolve, SettleSlot, SplitSlot, SettleRest, FinishTree, ArenaStops,
                    arena_vars, arena
<1> QED
  BY <1>3, <1>5, <1>6, <1>7 DEF ArenaNext

\* Every span, token and entry of the arena stays within its buffer.
THEOREM ArenaTypeCorrect == ArenaSpec => []ArenaTypeOK
<1>1. ArenaInit => TokenInv
  <2> SUFFICES ASSUME ArenaInit PROVE TokenInv
    OBVIOUS
  <2>1. part_tokens = << >> /\ part_pending = << >> /\ Len(owners) \in Nat
    BY DEF ArenaInit, RootOwner
  <2> QED
    BY <2>1 DEF TokenInv
<1>2. ArenaInv /\ TokenInv /\ [ArenaNext]_arena_vars => TokenInv'
  BY ArenaStep, TokensStay
<1>3. ArenaInv /\ TokenInv => ArenaTypeOK
  <2> SUFFICES ASSUME ArenaInv, TokenInv PROVE ArenaTypeOK
    OBVIOUS
  <2>1. \A k \in DOMAIN owners : owners[k].span \in Spans
    <3>1. owners \in Seq(Owner)
      BY DEF ArenaInv, ArenaType
    <3>2. \A k \in DOMAIN owners : owners[k] \in Owner
      BY <3>1
    <3> QED
      BY <3>2 DEF Owner
  <2> QED
    BY <2>1 DEF ArenaInv, ArenaType, GrownTree, TokenInv, ArenaTypeOK
<1>4. ArenaSpec => []TokenInv
  BY <1>1, <1>2, ArenaInvariant, PTL DEF ArenaSpec
<1> QED
  BY <1>3, <1>4, ArenaInvariant, PTL

\* The two arenas, the batched launches and their tokens implement the splitting of row lists
\* in order, one node after the other, as the host partitions them.
THEOREM ArenaImplementsStableSplits == ArenaSpec => ImplementsStableSplits
<1>1. ArenaInit => Abstract!Init
  <2> SUFFICES ASSUME ArenaInit PROVE Abstract!Init
    OBVIOUS
  <2>1. Fresh
    <3>1. Identity \in [1..NRows -> Row]
      BY DEF Identity, Row
    <3>2. left \in [Feature -> SUBSET Row]
      BY RowArenaParams DEF ArenaInit, ArenaParams
    <3> QED
      BY <3>1, <3>2 DEF ArenaInit, Fresh
  <2> QED
    BY <2>1, FreshOpen DEF Fresh, Abstract!Init, Abstract!Root
<1>2. ArenaInv /\ ArenaInv' /\ [ArenaNext]_arena_vars => [Abstract!Next]_Abstract!vars
  <2> SUFFICES ASSUME ArenaInv, ArenaInv', [ArenaNext]_arena_vars
               PROVE  [Abstract!Next]_Abstract!vars
    OBVIOUS
  <2>1. OpenStep
    BY ArenaStep
  <2>2. ASSUME NEW n \in Open, PaidBy(n) PROVE Abstract!Next
    <3>1. n.rows \in Seq(Row)
      BY DEF ArenaInv, OpenInv
    <3>2. \A r : Occurs(r, n.rows) <=> \E k \in DOMAIN n.rows : n.rows[k] = r
      BY <3>1 DEF Occurs
    <3>3. Abstract!Settle(n)
      BY <2>2, <3>2 DEF PaidBy, Abstract!Settle
    <3> QED
      BY <3>3 DEF Abstract!Next
  <2>3. ASSUME NEW n \in Open, NEW f \in Feature, SplitBy(n, f) PROVE Abstract!Next
    <3>1. /\ nodes \in Seq(TreeNode) /\ n.id \in 1..Len(nodes)
      BY DEF ArenaInv, GrownTree, OpenInv
    <3>2. Len(nodes') = Len(nodes) + 2
      BY <2>3, <3>1, Growth DEF SplitBy
    <3>3. Abstract!Split(n, f)
      BY <2>3, <3>2 DEF SplitBy, Abstract!Split, Abstract!Kept, Kept
    <3> QED
      BY <3>3 DEF Abstract!Next
  <2>4. ASSUME Open = {}, BeginTreeRows PROVE Abstract!Next
    <3>1. Fresh'
      BY <2>4 DEF BeginTreeRows, Fresh, ArenaInv, ArenaType, FlowInv, GrownTree
    <3>2. Fresh => Open = {[id |-> 1, rows |-> Identity]} /\ Len(nodes) = 1
      BY FreshOpen
    <3>3. (Open = {[id |-> 1, rows |-> Identity]} /\ Len(nodes) = 1)'
      BY <3>1, FreshOpen, PTL
    <3>4. Abstract!NextTree
      BY <2>4, <3>3 DEF BeginTreeRows, Abstract!NextTree, Abstract!Root
    <3> QED
      BY <3>4 DEF Abstract!Next
  <2>5. ASSUME Open' = Open, UNCHANGED << left, nodes, delta >> PROVE UNCHANGED Abstract!vars
    BY <2>5 DEF Abstract!vars
  <2> QED
    BY <2>1, <2>2, <2>3, <2>4, <2>5 DEF OpenStep
<1> QED
  BY <1>1, <1>2, ArenaInvariant, PTL DEF ArenaSpec, ImplementsStableSplits, Abstract!Spec

=============================================================================
