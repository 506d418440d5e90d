----------------------------- MODULE SplitCache ------------------------------
(***************************************************************************)
(* The split search of one resident column block on a GPU (split_ctx.rs as *)
(* build_tree drives it): histograms of a level are kept on the device, up *)
(* to a capacity, so that the next level can subtract from them; those     *)
(* that do not fit are downloaded and continue on the host.  A histogram   *)
(* is represented by the node whose rows it sums; a difference of two      *)
(* histograms that are not parent and child is Junk.                       *)
(***************************************************************************)
EXTENDS Integers, Sequences, FiniteSets

CONSTANTS
  Cap,        \* hist_nodes_per_batch, also the capacity of the cache
  Window,     \* SPLIT_PACKET_WINDOW_BATCHES
  MaxDepth,
  NTrees

\* The cache exists only when at least two nodes share a launch.
CacheParams == /\ Cap \in Nat \ {0, 1} /\ Window \in Nat \ {0}
               /\ MaxDepth \in Nat \ {0} /\ NTrees \in Nat \ {0}

ASSUME SplitCacheParams == CacheParams

VARIABLES
  tree, depth, phase,
  level,          \* the nodes: [n, parent, sibling]; sibling 0: accumulated
  parents,        \* host histograms of the level above
  host,           \* host histograms of this level
  todo,           \* groups not yet submitted: [small, large, parent]
  batches,        \* how many batches are submitted and not collected
  pending,        \* their nodes: [index, work, cached], one packet each
  packet_nodes,   \* packets in use
  packets, hist_out, previous, next,     \* device buffers
  previous_ids, next_ids,                \* the node in each cache slot
  cache_depth,    \* the generation of previous, -1 for none
  done,           \* gpu_done
  cand            \* the histogram each node's best split was found in

device == << packets, hist_out, previous, next >>
vars == << tree, depth, phase, level, parents, host, todo, batches, pending, packet_nodes,
           device, previous_ids, next_ids, cache_depth, done, cand >>

\* Nodes are numbered as in a heap, per tree.
Junk == << 0, 0 >>
None == << 0, 1 >>
Own(i) == << tree, level[i].n >>
Minus(p, s) ==
  IF p[1] = s[1] /\ s[2] \in {2 * p[2], 2 * p[2] + 1} THEN << p[1], 4 * p[2] + 1 - s[2] >>
  ELSE Junk

\* The members of S in increasing order: there is one such sequence.
InOrder(S) == {s \in [1..Cardinality(S) -> S] : \A j, k \in DOMAIN s : j < k => s[j] < s[k]}

keep_next == depth + 1 < MaxDepth
RootLevel == << [n |-> 1, parent |-> 0, sibling |-> 0] >>

Init ==
  /\ tree = 1 /\ depth = 0 /\ phase = "begin"
  /\ level = RootLevel /\ parents = << >> /\ host = << >>
  /\ todo = << >> /\ batches = 0 /\ pending = << >> /\ packet_nodes = 0
  /\ packets = [k \in 1..Cap * Window |-> Junk]
  /\ hist_out = [k \in 1..Cap |-> Junk]
  /\ previous = [k \in 1..Cap |-> Junk] /\ next = [k \in 1..Cap |-> Junk]
  /\ previous_ids = << >> /\ next_ids = << >> /\ cache_depth = -1
  /\ done = {} /\ cand = << >>

----------------------------------------------------------------------------
CachedIn(ids, i) == \E k \in DOMAIN ids : ids[k] = i
SlotOf(ids, i) == CHOOSE k \in DOMAIN ids : ids[k] = i

\* The large nodes whose parent is cached, and their groups.
CachedLarge ==
  {i \in DOMAIN level : level[i].sibling # 0 /\ CachedIn(previous_ids, level[i].parent)}
Groups(big) ==
  [k \in DOMAIN big |-> [small |-> level[big[k]].sibling, large |-> big[k],
                         parent |-> SlotOf(previous_ids, level[big[k]].parent)]]
RootGroup == << [small |-> 1, large |-> 0, parent |-> 0] >>

\* begin_split_level and the groups of the level.
BeginSplitLevel ==
  /\ phase = "begin"
  /\ previous_ids' = IF depth = 0 THEN << >> ELSE previous_ids
  /\ IF depth = 0 THEN todo' = RootGroup
     ELSE \E big \in InOrder(CachedLarge) : todo' = Groups(big)
  /\ next_ids' = << >>
  /\ batches' = 0 /\ pending' = << >> /\ packet_nodes' = 0 /\ done' = {}
  /\ cand' = [i \in DOMAIN level |-> None] /\ host' = [i \in DOMAIN level |-> None]
  /\ phase' = IF depth > 0 /\ cache_depth # depth - 1 THEN "error" ELSE "submit"
  /\ UNCHANGED << tree, depth, level, parents, device, cache_depth >>

\* The next chunk of groups, and its nodes in the order they are appended:
\* each small node, then its large sibling, whose working slot lies behind the
\* small ones.  Only the root is without a sibling.
Chunk == SubSeq(todo, 1, IF Len(todo) < Cap \div 2 THEN Len(todo) ELSE Cap \div 2)

NodesOf(chunk) == IF chunk[1].large = 0 THEN 1 ELSE 2 * Len(chunk)

\* Mutant: the working slots of the large nodes begin at the last small one.
EntriesOverlap(chunk) ==
  [e \in 1..NodesOf(chunk) |->
     LET k == (e + 1) \div 2 IN
     IF e % 2 = 1
     THEN [index |-> chunk[k].small, work |-> k, small |-> k, parent |-> 0]
     ELSE [index |-> chunk[k].large, work |-> Len(chunk) + k - 1, small |-> k,
           parent |-> chunk[k].parent]]

Entries(chunk) ==
  [e \in 1..NodesOf(chunk) |->
     LET k == (e + 1) \div 2 IN
     IF e % 2 = 1
     THEN [index |-> chunk[k].small, work |-> k, small |-> k, parent |-> 0]
     ELSE [index |-> chunk[k].large, work |-> Len(chunk) + k, small |-> k,
           parent |-> chunk[k].parent]]

\* Not all nodes of the chunk fit into the cache.
Spills == todo # << >> /\ keep_next /\ Len(next_ids) + NodesOf(Chunk) > Cap

\* submit_split_cached_batch: the small histograms are built, the large ones
\* subtracted, the winners and what fits into the next cache written.
Submit ==
  /\ phase = "submit" /\ todo # << >>
  /\ ~(Spills /\ batches > 0)
  /\ LET chunk == Chunk
         es    == Entries(chunk)
         first == Len(next_ids)
         fits  == IF ~keep_next THEN 0 ELSE IF Cap - first < Len(es) THEN Cap - first ELSE Len(es)
         built(k) == << tree, level[chunk[k].small].n >>
         sums  == [k \in DOMAIN es |->
                     IF es[k].parent = 0 THEN built(es[k].work)
                     ELSE Minus(previous[es[k].parent], built(es[k].small))]
     IN  IF Len(es) <= Cap /\ packet_nodes + Len(es) <= Cap * Window
         THEN /\ hist_out' = [w \in 1..Cap |->
                   IF \E k \in DOMAIN es : es[k].work = w
                   THEN sums[CHOOSE k \in DOMAIN es : es[k].work = w] ELSE hist_out[w]]
              /\ packets' = [p \in DOMAIN packets |->
                   IF p - packet_nodes \in DOMAIN es THEN sums[p - packet_nodes] ELSE packets[p]]
              /\ next' = [d \in 1..Cap |-> IF d - first \in 1..fits THEN sums[d - first] ELSE next[d]]
              /\ next_ids' = next_ids \o [k \in 1..fits |-> es[k].index]
              /\ batches' = batches + 1
              /\ pending' = pending \o [k \in DOMAIN es |->
                   [index |-> es[k].index, work |-> es[k].work, cached |-> k <= fits]]
              /\ packet_nodes' = packet_nodes + Len(es)
              /\ todo' = SubSeq(todo, Len(chunk) + 1, Len(todo))
              /\ phase' = IF Spills \/ batches + 1 = Window THEN "collect" ELSE "submit"
         ELSE /\ phase' = "error"
              /\ UNCHANGED << hist_out, packets, next, next_ids, batches, pending, packet_nodes, todo >>
  /\ UNCHANGED << tree, depth, level, parents, host, previous, previous_ids, cache_depth,
                  done, cand >>

\* collect_split_packets: the winners of all pending batches, and for the next
\* level the histograms that found no place in the cache.
Collect ==
  /\ \/ phase = "collect"
     \/ phase = "submit" /\ batches > 0 /\ (todo = << >> \/ Spills)
  /\ IF /\ batches <= Window /\ Len(pending) = packet_nodes
        /\ ~keep_next \/ batches = 1 \/ \A k \in DOMAIN pending : pending[k].cached
     THEN LET at(i) == CHOOSE k \in DOMAIN pending : pending[k].index = i
              here(i) == \E k \in DOMAIN pending : pending[k].index = i
          IN  /\ cand' = [i \in DOMAIN level |-> IF here(i) THEN packets[at(i)] ELSE cand[i]]
              /\ host' = [i \in DOMAIN level |->
                   IF here(i) /\ keep_next /\ ~pending[at(i)].cached
                   THEN hist_out[pending[at(i)].work] ELSE host[i]]
              /\ done' = done \cup {pending[k].index : k \in DOMAIN pending}
              /\ phase' = "submit"
     ELSE phase' = "error" /\ UNCHANGED << cand, host, done >>
  /\ batches' = 0 /\ pending' = << >> /\ packet_nodes' = 0
  /\ UNCHANGED << tree, depth, level, parents, todo, device, previous_ids, next_ids, cache_depth >>

FinishSplitLevel ==
  /\ phase = "submit" /\ todo = << >> /\ batches = 0
  /\ previous' = next /\ next' = previous
  /\ previous_ids' = next_ids /\ next_ids' = previous_ids
  /\ cache_depth' = depth
  /\ phase' = "host"
  /\ UNCHANGED << tree, depth, level, parents, host, todo, batches, pending, packet_nodes, packets,
                  hist_out, done, cand >>

\* The nodes the device has not done go the way of a block without a cache: the
\* small ones are built in batches and downloaded ...
Rest == {i \in DOMAIN level : i \notin done /\ level[i].sibling = 0 /\ host[i] = None}
HistogramDeviceBatch ==
  /\ phase = "host" /\ Rest # {}
  /\ \E order \in InOrder(Rest) :
       LET now == SubSeq(order, 1, IF Len(order) < Cap THEN Len(order) ELSE Cap)
       IN  /\ hist_out' =
                [w \in 1..Cap |-> IF w \in DOMAIN now THEN Own(now[w]) ELSE hist_out[w]]
           /\ host' = [i \in DOMAIN level |->
                         IF \E w \in DOMAIN now : now[w] = i THEN Own(i) ELSE host[i]]
  /\ UNCHANGED << tree, depth, phase, level, parents, todo, batches, pending, packet_nodes, packets,
                  previous, next, previous_ids, next_ids, cache_depth, done, cand >>

\* ... and the large ones are subtracted from the host histogram of the parent,
\* which must be there.
SubtractOnHost ==
  /\ phase = "host" /\ Rest = {}
  /\ LET big == {i \in DOMAIN level : i \notin done /\ level[i].sibling # 0}
         hist(i) == IF i \in big THEN Minus(parents[level[i].parent], host[level[i].sibling])
                    ELSE host[i]
     IN  IF \E i \in big : parents[level[i].parent] = None
         THEN phase' = "panic" /\ UNCHANGED << host, cand >>
         ELSE /\ phase' = "chosen"
              /\ host' = [i \in DOMAIN level |-> hist(i)]
              /\ cand' = [i \in DOMAIN level |-> IF i \in done THEN cand[i] ELSE hist(i)]
  /\ UNCHANGED << tree, depth, level, parents, todo, batches, pending, packet_nodes, device,
                  previous_ids, next_ids, cache_depth, done >>

\* The children of the split nodes in order; light says on which side the smaller lies.
Children(order, light) ==
  [at \in 1..2 * Len(order) |->
     LET i == order[(at + 1) \div 2]
         side == (at + 1) % 2
     IN  [n |-> 2 * level[i].n + side, parent |-> i,
          sibling |-> IF side = light[i] THEN 0 ELSE IF side = 0 THEN at + 1 ELSE at - 1]]

NextLevel ==
  /\ phase = "chosen" /\ keep_next
  /\ \E S \in (SUBSET DOMAIN level) \ {{}} : \E light \in [S -> {0, 1}], order \in InOrder(S) :
       level' = Children(order, light)
  /\ parents' = host
  /\ depth' = depth + 1
  /\ phase' = "begin"
  /\ host' = << >> /\ done' = {} /\ cand' = << >>
  /\ UNCHANGED << tree, todo, batches, pending, packet_nodes, device, previous_ids, next_ids,
                  cache_depth >>

\* A tree may end at any level; the next one begins with the caches as they are.
BeginTree ==
  /\ phase = "chosen" /\ tree < NTrees
  /\ tree' = tree + 1 /\ depth' = 0 /\ phase' = "begin"
  /\ level' = RootLevel /\ parents' = << >>
  /\ host' = << >> /\ done' = {} /\ cand' = << >>
  /\ UNCHANGED << todo, batches, pending, packet_nodes, device, previous_ids, next_ids,
                  cache_depth >>

Terminated == phase = "chosen" /\ tree = NTrees /\ UNCHANGED vars

Next ==
  \/ BeginSplitLevel \/ Submit \/ Collect \/ FinishSplitLevel
  \/ HistogramDeviceBatch \/ SubtractOnHost \/ NextLevel \/ BeginTree \/ Terminated

Spec == Init /\ [][Next]_vars

----------------------------------------------------------------------------
\* Properties

TypeOK ==
  /\ tree \in 1..NTrees /\ depth \in 0..MaxDepth - 1
  /\ packet_nodes = Len(pending) /\ batches <= Window
  /\ Len(next_ids) <= Cap /\ Len(previous_ids) <= Cap
  /\ \A i \in DOMAIN level : level[i].sibling \in 0..Len(level)
  /\ done \subseteq DOMAIN level
  /\ cache_depth \in -1..MaxDepth - 1

\* No check of the device path ever fails: generations follow each other, no
\* batch is wider than the working buffer, no packet lies behind the window, no
\* histogram left in the working buffer is collected after the batch that built
\* it; and no large child looks for a parent the host has never received.
NeverRefused == phase \notin {"error", "panic"}

\* The best split of every node is searched in that node's own histogram,
\* whether it was built, subtracted from a cached parent or handled on the host.
SearchesOwnHistogram == phase = "chosen" => \A i \in DOMAIN level : cand[i] = Own(i)

\* When a level that has a successor is finished, every node's histogram is in
\* exactly one place, the cache or the host, and it is the right one there.
OneHome ==
  phase = "chosen" /\ keep_next =>
    \A i \in DOMAIN level :
      IF CachedIn(previous_ids, i)
      THEN host[i] = None /\ previous[SlotOf(previous_ids, i)] = Own(i)
      ELSE host[i] = Own(i)

\* The cache is exact: splits are searched in the right histograms, none of its checks
\* fails, and every histogram of a level is found by the next one.
CacheIsExact == SearchesOwnHistogram /\ NeverRefused /\ OneHome
=============================================================================
