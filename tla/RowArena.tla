------------------------------ MODULE RowArena -------------------------------
(***************************************************************************)
(* The rows of the tree nodes on a GPU: GpuTrainCtx's row arena            *)
(* (train_ctx.rs) as build_tree (train.rs) drives it.  All rows lie in one *)
(* array; a node is a span of it.  A level is partitioned into the other   *)
(* array by launches that nobody waits for: resident column blocks in      *)
(* batches, other columns one node at a time.  Each launch leaves a token; *)
(* the tokens are resolved once per level, and only then are the children's *)
(* spans known.  Device calls run in the order of one stream, so a launch  *)
(* is modelled by its effect.                                              *)
(***************************************************************************)
EXTENDS Integers, Sequences, FiniteSets

CONSTANTS
  NRows,           \* the number of training rows
  Feature,         \* the features, as numbers
  BlockOf,         \* BlockOf[f]: the physical block of feature f
  ResidentBlocks,  \* the blocks resident on the device
  LeftChoices,     \* the splits considered: functions from Feature to rows
  MaxLevels,       \* params.max_depth
  BatchCap,        \* PARTITION_BATCH_CAPACITY
  MaxLevelNodes,   \* MAX_LEVEL_NODES
  Builds           \* how many trees are built, one after the other

Row == 1..NRows

ArenaParams ==
  /\ NRows \in Nat \ {0} /\ MaxLevels \in Nat \ {0} /\ BatchCap \in Nat \ {0}
  /\ Feature \subseteq Nat \ {0}
  /\ \A l \in LeftChoices : l \in [Feature -> SUBSET Row]
  \* MAX_DEPTH_LIMIT and MAX_LEVEL_NODES belong together: the widest level that
  \* is still partitioned has 2^(MaxLevels-1) nodes.
  /\ MaxLevelNodes \in Nat /\ MaxLevelNodes >= 2 ^ (MaxLevels - 1)

ASSUME RowArenaParams == ArenaParams

VARIABLES
  left,        \* left[f]: the rows the split by feature f sends left
  stage,       \* where build_tree is
  at_depth,
  owners,      \* the nodes of the level: [node, span]
  chosen,      \* the feature of the best split of each node, 0 for none
  unlaunched,  \* the nodes with a split that no launch has partitioned yet
  part_tokens, \* the pending entry of each node, 0 for none
  rows,        \* the current arena
  next_rows,   \* part_right_out, the arena of the next level
  cursor,      \* next_rows_cursor
  part_pending,  \* [out_offset, n_selected]
  part_totals,   \* on the device: the rows each launch sent left
  parts,       \* partitions: the spans of the two children
  slot,        \* the next node to be settled or split
  next_owners, \* the next level so far
  nodes,       \* the nodes of the tree: [feat, child], feat 0 for a leaf
  delta,       \* prediction_delta
  trees        \* trees finished

arena == << rows, next_rows, cursor, part_pending, part_totals >>
arena_vars == << left, stage, at_depth, owners, chosen, unlaunched, part_tokens, arena, parts,
                 slot, next_owners, nodes, delta, trees >>

Span(offset, len) == [offset |-> offset, len |-> len]
RowsIn(array, span) == [i \in 1..span.len |-> array[span.offset + i]]
RowsOf(span) == RowsIn(rows, span)
Leaf == [feat |-> 0, child |-> 0]
NoParts == << Span(0, 0), Span(0, 0) >>

\* begin_tree_rows: identity rows, a cleared delta, and the root owns all.
RootOwner == << [node |-> 1, span |-> Span(0, NRows)] >>
Identity == [k \in 1..NRows |-> k]

ArenaInit ==
  /\ left \in LeftChoices
  /\ stage = "choose" /\ at_depth = 0
  /\ owners = RootOwner
  /\ chosen = << >> /\ unlaunched = {} /\ part_tokens = << >> /\ parts = << >>
  /\ rows = Identity
  /\ next_rows = Identity
  /\ cursor = 0 /\ part_pending = << >> /\ part_totals = << >>
  /\ slot = 1 /\ next_owners = << >>
  /\ nodes = << Leaf >>
  /\ delta = [r \in Row |-> 0]
  /\ trees = 0

----------------------------------------------------------------------------
\* The launches of a level

Choose ==
  /\ stage = "choose" /\ at_depth < MaxLevels /\ owners # << >>
  /\ chosen' \in [1..Len(owners) -> Feature \cup {0}]
  /\ part_tokens' = [k \in 1..Len(owners) |-> 0]
  /\ parts' = [k \in 1..Len(owners) |-> NoParts]
  /\ unlaunched' = {k \in 1..Len(owners) : chosen'[k] # 0}
  /\ stage' = "partition"
  /\ UNCHANGED << left, at_depth, owners, arena, slot, next_owners, nodes, delta, trees >>

Resident(k) == BlockOf[chosen[k]] \in ResidentBlocks

\* Resident requests are grouped by physical block; after all of them come the
\* other columns, one feature after the other.
Group ==
  LET resident == {k \in unlaunched : Resident(k)} IN
  IF resident # {}
  THEN {k \in resident : \A j \in resident : BlockOf[chosen[k]] <= BlockOf[chosen[j]]}
  ELSE {k \in unlaunched : \A j \in unlaunched : chosen[k] <= chosen[j]}

\* In a group, features come in order and the nodes of one feature by slot.
Before(j, k) == chosen[j] < chosen[k] \/ (chosen[j] = chosen[k] /\ j < k)

\* What the next launch partitions: a batch of a resident block, or one node by
\* a column that has been uploaded.
BatchSize ==
  IF \A k \in Group : ~Resident(k) THEN 1
  ELSE IF Cardinality(Group) < BatchCap THEN Cardinality(Group) ELSE BatchCap
Requests ==
  {s \in [1..BatchSize -> Group] :
     /\ \A i, j \in 1..BatchSize : i < j => Before(s[i], s[j])
     /\ \A k \in Group : (\E i \in 1..BatchSize : s[i] = k) \/ Before(s[BatchSize], k)}

\* The members of s that are in S, in their order.
Kept(s, S) ==
  LET kept[i \in 0..Len(s)] ==
        IF i = 0 THEN << >>
        ELSE IF s[i] \in S THEN Append(kept[i - 1], s[i]) ELSE kept[i - 1]
  IN  kept[Len(s)]

\* The kernels of one node: left rows first, then right rows, both in order.
GoLeft(k) == Kept(RowsOf(owners[k].span), left[chosen[k]])
GoRight(k) == Kept(RowsOf(owners[k].span), Row \ left[chosen[k]])
Scattered(k) == GoLeft(k) \o GoRight(k)

Abort ==
  /\ stage' = "error"
  /\ UNCHANGED << unlaunched, part_tokens, arena >>

\* What the launch of the requests s leaves behind, when out[j] is the place in
\* the next arena for the j-th.
Launched(s, out) ==
  /\ next_rows' =
       [p \in 1..NRows |->
          LET hit == {j \in DOMAIN s : p - out[j] \in 1..owners[s[j]].span.len}
          IN  IF hit = {} THEN next_rows[p]
              ELSE LET j == CHOOSE j \in hit : TRUE IN Scattered(s[j])[p - out[j]]]
  /\ part_pending' = part_pending \o
       [j \in 1..Len(s) |-> [out_offset |-> out[j], n_selected |-> owners[s[j]].span.len]]
  /\ part_totals' = part_totals \o [j \in 1..Len(s) |-> Len(GoLeft(s[j]))]
  /\ part_tokens' = [k \in DOMAIN part_tokens |->
       IF \E j \in DOMAIN s : s[j] = k
       THEN Len(part_pending) + CHOOSE j \in DOMAIN s : s[j] = k
       ELSE part_tokens[k]]
  /\ unlaunched' = unlaunched \ {s[j] : j \in DOMAIN s}
  /\ UNCHANGED << rows, stage >>

\* partition: one node, for a column that was uploaded or a batch of one.  An
\* empty node takes an entry and nothing else.
PartitionScalar ==
  /\ stage = "partition"
  /\ \E s \in Requests :
       /\ Len(s) = 1
       /\ LET span == owners[s[1]].span IN
          IF span.len = 0
          THEN Launched(s, << span.offset >>) /\ UNCHANGED cursor
          ELSE IF Len(part_pending) < MaxLevelNodes /\ cursor + span.len <= NRows
          THEN Launched(s, << cursor >>) /\ cursor' = cursor + span.len
          ELSE Abort
  /\ UNCHANGED << left, at_depth, owners, chosen, parts, slot, next_owners, nodes, delta,
                  trees >>

\* Mutant: the offset of a request does not count the one before it.
OffsetsOverlap(s) ==
  LET out[j \in 1..Len(s) + 1] ==
        IF j <= 2 THEN cursor ELSE out[j - 1] + owners[s[j - 2]].span.len
  IN  out

\* Where the requests of a batch are written, one after the other, and where the
\* next batch begins.
Offsets(s) ==
  LET out[j \in 1..Len(s) + 1] ==
        IF j = 1 THEN cursor ELSE out[j - 1] + owners[s[j - 1]].span.len
  IN  out

Overlap(a, b) ==
  a.len > 0 /\ b.len > 0 /\ a.offset < b.offset + b.len /\ b.offset < a.offset + a.len

\* partition_resident_batch: everything is validated before anything is launched.
PartitionBatch ==
  /\ stage = "partition"
  /\ \E s \in Requests :
       /\ Len(s) > 1
       /\ IF /\ Len(part_pending) + Len(s) <= MaxLevelNodes
             /\ \A j \in DOMAIN s : owners[s[j]].span.offset + owners[s[j]].span.len <= NRows
             /\ \A i, j \in DOMAIN s :
                  i # j => ~Overlap(owners[s[i]].span, owners[s[j]].span)
             /\ Offsets(s)[Len(s) + 1] <= NRows
          THEN Launched(s, Offsets(s)) /\ cursor' = Offsets(s)[Len(s) + 1]
          ELSE Abort
  /\ UNCHANGED << left, at_depth, owners, chosen, parts, slot, next_owners, nodes, delta,
                  trees >>

\* The two children of a launch, from the number of rows it sent left.
PairOf(p, n) == << Span(p.out_offset, n), Span(p.out_offset + n, p.n_selected - n) >>

\* resolve_partitions: the one transfer of the level.
Resolve ==
  /\ stage = "partition" /\ unlaunched = {}
  /\ parts' = [k \in DOMAIN owners |->
       IF part_tokens[k] = 0 THEN NoParts
       ELSE PairOf(part_pending[part_tokens[k]], part_totals[part_tokens[k]])]
  /\ stage' = "settle"
  /\ slot' = 1
  /\ UNCHANGED << left, at_depth, owners, chosen, unlaunched, part_tokens, arena, next_owners,
                  nodes, delta, trees >>

----------------------------------------------------------------------------
\* Leaf values, children and the next level

Pays(array, span, node) ==
  delta' = [r \in Row |-> IF \E i \in 1..span.len : RowsIn(array, span)[i] = r
                          THEN node ELSE delta[r]]

\* Mutant: leaves are paid from the arena the level was partitioned into.
SettleSlotAfterSwap ==
  /\ stage = "settle" /\ slot <= Len(owners) /\ chosen[slot] = 0
  /\ Pays(next_rows, owners[slot].span, owners[slot].node)
  /\ slot' = slot + 1
  /\ UNCHANGED << left, stage, at_depth, owners, chosen, unlaunched, part_tokens, arena, parts,
                  next_owners, nodes, trees >>

\* assign_leaf_value reads the current arena.
SettleSlot ==
  /\ stage = "settle" /\ slot <= Len(owners) /\ chosen[slot] = 0
  /\ Pays(rows, owners[slot].span, owners[slot].node)
  /\ slot' = slot + 1
  /\ UNCHANGED << left, stage, at_depth, owners, chosen, unlaunched, part_tokens, arena, parts,
                  next_owners, nodes, trees >>

SplitSlot ==
  /\ stage = "settle" /\ slot <= Len(owners) /\ chosen[slot] # 0
  /\ nodes' = [nodes EXCEPT ![owners[slot].node] =
                 [feat |-> chosen[slot], child |-> Len(nodes) + 1]] \o << Leaf, Leaf >>
  /\ next_owners' = next_owners \o << [node |-> Len(nodes) + 1, span |-> parts[slot][1]],
                                      [node |-> Len(nodes) + 2, span |-> parts[slot][2]] >>
  /\ slot' = slot + 1
  /\ UNCHANGED << left, stage, at_depth, owners, chosen, unlaunched, part_tokens, arena, parts,
                  delta, trees >>

\* finish_partition_level swaps the arenas once the leaves have been paid.
FinishPartitionLevel ==
  /\ stage = "settle" /\ slot > Len(owners)
  /\ rows' = next_rows /\ next_rows' = rows
  /\ cursor' = 0 /\ part_pending' = << >> /\ part_totals' = << >>
  /\ owners' = next_owners /\ next_owners' = << >> /\ chosen' = << >>
  /\ at_depth' = at_depth + 1
  /\ stage' = "choose" /\ slot' = 1
  /\ UNCHANGED << left, unlaunched, part_tokens, parts, nodes, delta, trees >>

\* After the depth loop the nodes that are left become leaves.
SettleRest ==
  /\ stage = "choose" /\ at_depth = MaxLevels /\ slot <= Len(owners)
  /\ Pays(rows, owners[slot].span, owners[slot].node)
  /\ slot' = slot + 1
  /\ UNCHANGED << left, stage, at_depth, owners, chosen, unlaunched, part_tokens, arena, parts,
                  next_owners, nodes, trees >>

FinishTree ==
  /\ stage = "choose"
  /\ owners = << >> \/ (at_depth = MaxLevels /\ slot > Len(owners))
  /\ stage' = "done" /\ trees' = trees + 1
  /\ UNCHANGED << left, at_depth, owners, chosen, unlaunched, part_tokens, arena, parts, slot,
                  next_owners, nodes, delta >>

\* begin_tree_rows of the next tree; it does not touch part_pending.
BeginTreeRows ==
  /\ stage = "done" /\ trees < Builds
  /\ rows' = Identity
  /\ cursor' = 0
  /\ delta' = [r \in Row |-> 0]
  /\ owners' = RootOwner
  /\ nodes' = << Leaf >>
  /\ at_depth' = 0 /\ slot' = 1 /\ stage' = "choose"
  /\ UNCHANGED << left, chosen, unlaunched, part_tokens, next_rows, part_pending, part_totals,
                  parts, next_owners, trees >>

ArenaStops == stage \in {"done", "error"} /\ UNCHANGED arena_vars

ArenaNext ==
  \/ Choose \/ PartitionScalar \/ PartitionBatch \/ Resolve
  \/ SettleSlot \/ SplitSlot \/ FinishPartitionLevel
  \/ SettleRest \/ FinishTree \/ BeginTreeRows \/ ArenaStops

ArenaSpec == ArenaInit /\ [][ArenaNext]_arena_vars

----------------------------------------------------------------------------
\* Properties

Spans == [offset : 0..NRows, len : 0..NRows]

\* The type invariant of the arena.
ArenaTypeOK ==
  /\ stage \in {"choose", "partition", "settle", "done", "error"}
  /\ at_depth \in 0..MaxLevels
  /\ \A k \in DOMAIN owners : owners[k].span \in Spans
  /\ rows \in [1..NRows -> Row] /\ next_rows \in [1..NRows -> Row]
  /\ cursor \in 0..NRows
  /\ Len(part_pending) = Len(part_totals)
  /\ Len(part_pending) <= Len(owners)
  /\ \A k \in DOMAIN part_tokens : part_tokens[k] \in 0..MaxLevelNodes
  /\ delta \in [Row -> 0..Len(nodes)]

\* None of the arena's limits is ever hit: the row arena of the next level is
\* large enough, no two requests of a batch overlap, and the token table holds
\* the widest level that max_depth allows.
NoLimitHit == stage # "error"

\* Where a row ends up by descending the finished tree.
Descend(r) ==
  LET from[n \in DOMAIN nodes] ==
        IF nodes[n].feat = 0 THEN n
        ELSE from[IF r \in left[nodes[n].feat] THEN nodes[n].child ELSE nodes[n].child + 1]
  IN  from[1]

\* When a tree is finished every row has been paid by exactly the leaf that
\* prediction finds for it: no span was read from the wrong arena, no token
\* resolved to another node's rows and no delta is left over from a former tree.
DeltaMatchesTree == stage = "done" => \A r \in Row : delta[r] = Descend(r)

\* Between levels the spans in use stand for disjoint sets of rows that together are the rows nobody
\* has paid yet.
LiveSpansDisjoint ==
  stage \in {"choose", "partition"} /\ slot = 1 =>
    /\ \A j, k \in DOMAIN owners : j # k => ~Overlap(owners[j].span, owners[k].span)
    /\ {r \in Row : delta[r] = 0} =
         UNION {{RowsOf(owners[k].span)[i] : i \in 1..owners[k].span.len} : k \in DOMAIN owners}

\* No limit of the arena is hit, live spans are disjoint and hold exactly the
\* rows not yet paid, and at the end of a tree, the second as the first, every
\* row has been paid by the leaf that prediction finds for it.
RowsPaidOnce == NoLimitHit /\ LiveSpansDisjoint /\ DeltaMatchesTree

\* The nodes that are neither split nor settled, with their rows: the spans of
\* the level lie in the current arena, those of the next level in the other one.
Open ==
  {[id |-> owners[k].node, rows |-> RowsOf(owners[k].span)] :
     k \in {k \in DOMAIN owners : stage # "done" /\ slot <= k}} \cup
  {[id |-> next_owners[k].node, rows |-> RowsIn(next_rows, next_owners[k].span)] :
     k \in DOMAIN next_owners}

Abstract == INSTANCE StableSplits WITH
  RootRows <- Identity, open <- Open, ids <- Len(nodes), value <- delta

\* Spans, tokens and two arenas implement stable partitioning of row sequences.
ImplementsStableSplits == Abstract!Spec
=============================================================================
