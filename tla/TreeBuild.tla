----------------------------- MODULE TreeBuild ------------------------------
(***************************************************************************)
(* build_tree of train.rs on the CPU backend: one tree, level by level.    *)
(*                                                                         *)
(* At every level each column block is handled by a worker of its own      *)
(* (rayon): it reads the block from the source, accumulates the histograms *)
(* of the nodes marked Accumulate, obtains those marked Subtract from the  *)
(* parent histogram it owns, and enumerates its best splits.  The main     *)
(* thread then reduces the candidates in block order, partitions the rows  *)
(* feature by feature, and builds the next level.                          *)
(*                                                                         *)
(* Sequences are indexed from 1: slot i of a level is index i - 1 there.   *)
(***************************************************************************)
EXTENDS TreeParts

CONSTANTS
  Row,            \* the training rows
  MaxDepth,       \* params.max_depth
  Blocks,         \* Blocks[b]: the features of column block b, ascending
  ValueChoices,   \* the matrices [Row -> RawRow] considered
  GradChoices,    \* the gradient vectors [Row -> pair] considered
  SampledChoices, \* the feature sets colsample may draw
  ColumnReads     \* the values of supports_column_selection considered

ASSUME BuildParams ==
  /\ IsFiniteSet(Row) /\ Row # {}
  /\ MaxDepth \in Nat
  /\ Blocks \in Seq(Seq(Feature))
  /\ \A m \in ValueChoices : m \in [Row -> RawRow]
  /\ \A g \in GradChoices : g \in [Row -> GradPairFixed]
  /\ \A s \in SampledChoices : s \subseteq Feature /\ s # {}
  /\ ColumnReads \subseteq BOOLEAN

\* partition_features divides the features into blocks in order, leaving none out.
ASSUME BlocksAscend ==
  /\ \A p \in DOMAIN Blocks : \A j, k \in DOMAIN Blocks[p] :
       j < k => Blocks[p][j] < Blocks[p][k]
  /\ \A p, q \in DOMAIN Blocks : p < q =>
       \A j \in DOMAIN Blocks[p], k \in DOMAIN Blocks[q] : Blocks[p][j] < Blocks[q][k]
  /\ \A f \in Feature : \E p \in DOMAIN Blocks : \E k \in DOMAIN Blocks[p] : Blocks[p][k] = f

VARIABLES
  values, bins, gpair, sampled,   \* the inputs of this tree: raw and quantized rows
  plans,    \* the blocks that have to be read, with the features handed over
  tree,     \* t.nodes
  level,    \* the nodes of the current level
  next,     \* the nodes of the next level, while it is being built
  depth,    \* the loop counter
  phase,    \* where the main thread is
  slot,     \* the level node the main thread handles next
  work,     \* work[b]: the state of the worker of plan b
  parents,  \* parents[b]: the previous level's histograms of plan b
  chosen,   \* chosen[i]: the split chosen for level node i
  todo,     \* the chosen features whose column is not fetched yet
  parts,    \* parts[i]: the rows of node i, split in << left, right >>
  pred      \* pred[r]: the values added to predictions[r], in order

inputs == << values, bins, gpair, sampled, plans >>
vars == << inputs, tree, level, next, depth, phase, slot, work, parents,
           chosen, todo, parts, pred >>

----------------------------------------------------------------------------
\* Column blocks

\* required_blocks and BlockPlan: only blocks with a drawn feature are read,
\* in block order; a source that can read single columns hands over the drawn
\* ones only.
DrawnOf(fs, drawn) ==
  FlattenSeq([k \in 1..Len(fs) |-> IF fs[k] \in drawn THEN << fs[k] >> ELSE << >>])

PlansFor(drawn, column_reads) ==
  FlattenSeq([p \in 1..Len(Blocks) |->
    IF \A k \in 1..Len(Blocks[p]) : Blocks[p][k] \notin drawn
    THEN << >>
    ELSE << IF column_reads THEN DrawnOf(Blocks[p], drawn) ELSE Blocks[p] >>])

Plan == DOMAIN plans
FeaturesOf(b) == {plans[b][k] : k \in DOMAIN plans[b]}

----------------------------------------------------------------------------
\* Level nodes

\* HistFrom: accumulate from the rows, or parent minus sibling.
Accumulate == [parent |-> 0, sibling |-> 0]
Subtract(parent, sibling) == [parent |-> parent, sibling |-> sibling]

Accumulated(i) == level[i].from = Accumulate
Subtracted == {i \in DOMAIN level : ~Accumulated(i)}

LevelNode(node, rows, sum, from) ==
  [node |-> node, rows |-> rows, sum |-> sum, from |-> from]

Idle == [pc |-> "idle", hists |-> << >>, cands |-> << >>]
NoParts == << {}, {} >>

\* The head of the depth loop.
EnterLevel(d, lv) == IF d < MaxDepth /\ lv # << >> THEN "blocks" ELSE "leaves"

Init ==
  /\ values \in ValueChoices
  /\ bins = [r \in Row |-> Quantized(values[r])]
  /\ gpair \in GradChoices
  /\ sampled \in SampledChoices
  /\ \E cr \in ColumnReads : plans = PlansFor(sampled, cr)
  /\ tree = PushLeaf(<< >>, LeafOf(NodeSum(gpair, Row)))
  /\ level = << LevelNode(1, Row, NodeSum(gpair, Row), Accumulate) >>
  /\ next = << >>
  /\ depth = 0
  /\ phase = EnterLevel(0, level)
  /\ slot = 1
  /\ work = [b \in Plan |-> Idle]
  /\ parents = [b \in Plan |-> << >>]
  /\ chosen = << >>
  /\ todo = {}
  /\ parts = << >>
  /\ pred = [r \in Row |-> << >>]

----------------------------------------------------------------------------
\* The worker of one block

\* with_block_ret hands the block over and pass one accumulates every node
\* that asks for it; the other slots hold empty shells.
AccumulateBlock(b) ==
  /\ phase = "blocks"
  /\ work[b].pc = "idle"
  /\ work' = [work EXCEPT ![b] =
       [pc |-> "accumulated",
        hists |-> [i \in DOMAIN level |->
                     IF Accumulated(i)
                     THEN BuildHist(FeaturesOf(b), bins, gpair, level[i].rows)
                     ELSE Shell],
        cands |-> << >>]]
  /\ UNCHANGED << inputs, tree, level, next, depth, phase, slot, parents,
                  chosen, todo, parts, pred >>

\* The source cannot deliver the block, or hands over one of a wrong shape.
FailBlock(b) ==
  /\ phase = "blocks"
  /\ work[b].pc = "idle"
  /\ work' = [work EXCEPT ![b].pc = "failed"]
  /\ UNCHANGED << inputs, tree, level, next, depth, phase, slot, parents,
                  chosen, todo, parts, pred >>

\* Every claim finds a full parent histogram, and no parent is claimed twice.
ClaimsValid(b) ==
  /\ \A i \in Subtracted :
       /\ level[i].from.parent \in DOMAIN parents[b]
       /\ DOMAIN parents[b][level[i].from.parent] = FeaturesOf(b)
  /\ \A i, j \in Subtracted :
       level[i].from.parent = level[j].from.parent => i = j

\* Pass two: the parent histogram is moved out, an empty shell stays behind,
\* and the sibling is subtracted in place.  An invalid claim panics.
SubtractBlock(b) ==
  /\ phase = "blocks"
  /\ work[b].pc = "accumulated"
  /\ IF ClaimsValid(b)
     THEN /\ work' = [work EXCEPT
               ![b].pc = "subtracted",
               ![b].hists = [i \in DOMAIN level |->
                  IF Accumulated(i)
                  THEN work[b].hists[i]
                  ELSE SubtractHist(parents[b][level[i].from.parent],
                                    work[b].hists[level[i].from.sibling])]]
          /\ parents' = [parents EXCEPT ![b] =
               [p \in DOMAIN parents[b] |->
                  IF \E i \in Subtracted : level[i].from.parent = p
                  THEN Shell ELSE parents[b][p]]]
          /\ phase' = phase
     ELSE /\ phase' = "panicked"
          /\ UNCHANGED << work, parents >>
  /\ UNCHANGED << inputs, tree, level, next, depth, slot, chosen, todo, parts,
                  pred >>

EnumerateBlock(b) ==
  /\ phase = "blocks"
  /\ work[b].pc = "subtracted"
  /\ work' = [work EXCEPT
       ![b].pc = "done",
       ![b].cands = [i \in DOMAIN level |->
          BestSplitInBlock(work[b].hists[i], plans[b], level[i].sum, sampled)]]
  /\ UNCHANGED << inputs, tree, level, next, depth, phase, slot, parents,
                  chosen, todo, parts, pred >>

\* collect() into a Result: once a block has failed the build returns the
\* error, after the workers that had started are through.
AbortLevel ==
  /\ phase = "blocks"
  /\ \E b \in Plan : work[b].pc = "failed"
  /\ \A b \in Plan : work[b].pc \in {"idle", "done", "failed"}
  /\ phase' = "failed"
  /\ UNCHANGED << inputs, tree, level, next, depth, slot, work, parents,
                  chosen, todo, parts, pred >>

----------------------------------------------------------------------------
\* The main thread

\* Candidates are reduced in block order, whatever order the workers ended in.
BestOfBlocks(i) == ReduceBest([b \in Plan |-> work[b].cands[i]])

Reduce ==
  /\ phase = "blocks"
  /\ \A b \in Plan : work[b].pc = "done"
  /\ chosen' = [i \in DOMAIN level |-> BestOfBlocks(i)]
  /\ todo' = {chosen'[i].feat : i \in {j \in DOMAIN level : chosen'[j] # NoSplit}}
  /\ parts' = [i \in DOMAIN level |-> NoParts]
  /\ phase' = "partition"
  /\ UNCHANGED << inputs, tree, level, next, depth, slot, work, parents, pred >>

PartitionRowsDropMissing(rows, c) ==
  LET lrows == {r \in rows : GoesLeft(bins[r][c.feat], c.bin, c.missing_left)}
  IN  << lrows, {r \in rows \ lrows : bins[r][c.feat] # MISSING_BIN} >>

\* partition_rows: the rows of a node by the column of the chosen feature.
PartitionRows(rows, c) ==
  LET lrows == {r \in rows : GoesLeft(bins[r][c.feat], c.bin, c.missing_left)}
  IN  << lrows, rows \ lrows >>

\* by_feat: the column of one chosen feature is fetched once and partitions
\* every node that chose it; features ascend.
PartitionFeature ==
  /\ phase = "partition"
  /\ \E f \in todo :
       /\ \A g \in todo : f <= g
       /\ parts' = [i \in DOMAIN level |->
                      IF chosen[i].feat = f
                      THEN PartitionRows(level[i].rows, chosen[i])
                      ELSE parts[i]]
       /\ todo' = todo \ {f}
  /\ UNCHANGED << inputs, tree, level, next, depth, phase, slot, work,
                  parents, chosen, pred >>

\* feature_column fails.
FailColumn ==
  /\ phase = "partition"
  /\ todo # {}
  /\ phase' = "failed"
  /\ UNCHANGED << inputs, tree, level, next, depth, slot, work, parents,
                  chosen, todo, parts, pred >>

\* Every row of a node receives the node's leaf value.
AddLeafValue(n) ==
  pred' = [r \in Row |-> IF r \in n.rows
                         THEN Append(pred[r], tree[n.node].leaf_value)
                         ELSE pred[r]]

\* The next-level loop, one node per step.  A node without a split is final.
SettleSlot ==
  /\ phase = "partition" /\ todo = {}
  /\ slot \in DOMAIN level
  /\ chosen[slot] = NoSplit
  /\ AddLeafValue(level[slot])
  /\ slot' = slot + 1
  /\ UNCHANGED << inputs, tree, level, next, depth, phase, work, parents,
                  chosen, todo, parts >>

\* The two nodes a split adds to the next level, as its mutants share them.
ChildrenFrom(i, parent, first, small, first_node) ==
  LET c       == chosen[i]
      from(k) == IF k = small THEN Accumulate
                              ELSE Subtract(parent, first + small)
  IN  << LevelNode(first_node, parts[i][1], c.left, from(0)),
         LevelNode(first_node + 1, parts[i][2], c.right, from(1)) >>

\* The side with fewer rows: 0 is left, and left also on a tie.
SmallSide(i) ==
  IF Cardinality(parts[i][1]) <= Cardinality(parts[i][2]) THEN 0 ELSE 1

\* Mutants: the children's parent histogram is looked for in the neighbour's slot,
\* or in the slot of the new level.
ChildrenOfNeighbour(i, first) ==
  ChildrenFrom(i, IF i > 1 THEN i - 1 ELSE i, first, SmallSide(i), Len(tree) + 1)

ChildrenOfNewSlot(i, first) ==
  ChildrenFrom(i, first, first, SmallSide(i), Len(tree) + 1)

\* The one with fewer rows accumulates, the other one subtracts it from the
\* histogram of slot i.
Children(i, first) ==
  ChildrenFrom(i, i, first, SmallSide(i), Len(tree) + 1)

SplitSlot ==
  /\ phase = "partition" /\ todo = {}
  /\ slot \in DOMAIN level
  /\ chosen[slot] # NoSplit
  /\ LET c == chosen[slot]
     IN  tree' = SplitLeaf(tree, level[slot].node, c.feat, SplitThreshold(c.feat, c.bin),
                           c.missing_left, LeafOf(c.left), LeafOf(c.right))
  /\ next' = next \o Children(slot, Len(next) + 1)
  /\ slot' = slot + 1
  /\ UNCHANGED << inputs, level, depth, phase, work, parents, chosen, todo,
                  parts, pred >>

\* The level's histograms become the parents of the next one.
FinishLevel ==
  /\ phase = "partition" /\ todo = {}
  /\ slot = Len(level) + 1
  /\ parents' = [b \in Plan |-> work[b].hists]
  /\ work' = [b \in Plan |-> Idle]
  /\ level' = next
  /\ next' = << >>
  /\ depth' = depth + 1
  /\ slot' = 1
  /\ chosen' = << >>
  /\ parts' = << >>
  /\ phase' = EnterLevel(depth + 1, next)
  /\ UNCHANGED << inputs, tree, todo, pred >>

\* apply_host_leaf_updates: the nodes still open when the depth is exhausted.
ApplyLeaf ==
  /\ phase = "leaves"
  /\ slot \in DOMAIN level
  /\ AddLeafValue(level[slot])
  /\ slot' = slot + 1
  /\ UNCHANGED << inputs, tree, level, next, depth, phase, work, parents,
                  chosen, todo, parts >>

Finish ==
  /\ phase = "leaves"
  /\ slot = Len(level) + 1
  /\ phase' = "done"
  /\ UNCHANGED << inputs, tree, level, next, depth, slot, work, parents,
                  chosen, todo, parts, pred >>

Terminated ==
  /\ phase \in {"done", "failed"}
  /\ UNCHANGED vars

\* The steps of the workers and of the main thread when nothing goes wrong.
Work(b) == AccumulateBlock(b) \/ SubtractBlock(b) \/ EnumerateBlock(b)

Main ==
  \/ Reduce \/ PartitionFeature \/ SettleSlot \/ SplitSlot \/ FinishLevel
  \/ ApplyLeaf \/ Finish \/ AbortLevel

Failure == (\E b \in Plan : FailBlock(b)) \/ FailColumn

Next == (\E b \in Plan : Work(b)) \/ Main \/ Failure \/ Terminated

Spec == Init /\ [][Next]_vars

----------------------------------------------------------------------------
\* Properties

\* The type invariant of the build's state.
TypeOK ==
  /\ values \in [Row -> RawRow]
  /\ bins \in [Row -> [Feature -> 0..MISSING_BIN]]
  /\ gpair \in [Row -> GradPairFixed]
  /\ sampled \in SUBSET Feature
  /\ plans \in Seq(Seq(Feature))
  /\ tree \in Seq(Node)
  /\ \A lv \in {level, next} :
       /\ lv \in Seq([node : 1..Len(tree), rows : SUBSET Row,
                      sum : GradPairFixed, from : [parent : Nat, sibling : Nat]])
  /\ depth \in 0..MaxDepth
  /\ phase \in {"blocks", "partition", "leaves", "done", "failed", "panicked"}
  /\ slot \in 1..(Len(level) + 1)
  /\ DOMAIN work = Plan
  /\ \A b \in Plan :
       work[b].pc \in {"idle", "accumulated", "subtracted", "done", "failed"}
  /\ DOMAIN parents = Plan
  /\ DOMAIN chosen \subseteq DOMAIN level
  /\ todo \subseteq sampled
  /\ parts \in Seq((SUBSET Row) \X (SUBSET Row))
  /\ pred \in [Row -> Seq(Int)]

\* The sum a node inherits from its parent's split candidate, which the scan
\* obtained from bins by prefix sums and by "node minus the other side", is
\* the sum of the rows that partition_rows later put into the node.
SumsExact ==
  \A lv \in {level, next} : \A i \in DOMAIN lv :
    lv[i].sum = NodeSum(gpair, lv[i].rows)

\* Whether a histogram was accumulated, obtained as parent minus sibling, or
\* obtained from a parent that was itself a difference, it is the histogram of
\* the node's rows by the time splits are enumerated on it.
HistogramsExact ==
  \A b \in Plan : work[b].pc \in {"subtracted", "done"} =>
    \A i \in DOMAIN level :
      work[b].hists[i] = BuildHist(FeaturesOf(b), bins, gpair, level[i].rows)

\* No split leaves one side without rows, whatever mix of missing, equal and
\* subsampled-out rows the node holds.
NoEmptyNode ==
  \A lv \in {level, next} : \A i \in DOMAIN lv : lv[i].rows # {}

\* The rows of a level node and of a node of the next level not handled yet.
OpenNodes ==
  {[node |-> level[i].node, rows |-> level[i].rows, depth |-> depth] :
     i \in {j \in DOMAIN level : j >= slot}}
  \cup {[node |-> next[i].node, rows |-> next[i].rows, depth |-> depth + 1] :
          i \in DOMAIN next}

\* Partitioning neither loses nor duplicates a row, and no row's prediction is
\* updated twice or forgotten: a row is either in exactly one open node and
\* has received nothing, or in none and has received exactly one leaf value.
RowsAccounted ==
  /\ \A m, n \in OpenNodes : m # n => m.rows \cap n.rows = {}
  /\ \A r \in Row :
       Len(pred[r]) = IF \E n \in OpenNodes : r \in n.rows THEN 0 ELSE 1

\* The panics of the subtraction pass ("the parent histogram was claimed more
\* than once", "the first level has no parent") are unreachable.
NeverPanics == phase # "panicked"

\* The bound that makes sibling subtraction worth its bookkeeping: below the
\* root, at most half of the training rows are accumulated per level.
ScanAtMostHalf ==
  depth > 0 =>
    2 * Cardinality(UNION {level[i].rows : i \in DOMAIN level \ Subtracted})
      <= Cardinality(Row)

\* Every node has rows, its sum and its histograms are theirs, and below the root
\* no level reads more than half of the rows to get them.
NodesExact == SumsExact /\ HistogramsExact /\ NoEmptyNode /\ ScanAtMostHalf

\* What training added to a row's prediction, from the partition of its rows by
\* bins, is what the finished tree predicts from the row's raw values; and for any
\* row, of another data set too, the evaluation on its bins during training is the
\* prediction on its values.  The thresholds between them are f32 with finite
\* sentinels, and a slip is one of a single bin ("hardly visible in the metrics").
TrainMatchesPredict ==
  phase = "done" =>
    /\ \A r \in Row : pred[r] = << LeafValue(tree, values[r]) >>
    /\ \A v \in RawRow : LeafValueOfBins(tree, Quantized(v)) = LeafValue(tree, v)

Outcome ==
  CASE phase = "done" -> "done"
    [] phase \in {"failed", "panicked"} -> "failed"
    [] OTHER -> "running"

Greedy == INSTANCE GreedyTree WITH open <- OpenNodes, outcome <- Outcome

\* The build implements the row-based greedy growth: neither the interleaving
\* of the workers, nor the block layout, nor histogram subtraction shows in
\* the tree or in the predictions.
ImplementsGreedy == Greedy!Spec
=============================================================================
