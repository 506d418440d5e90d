----------------------------- MODULE TreeParts -----------------------------
(***************************************************************************)
(* What the tree builders are made of: fixed-point gradient pairs and the  *)
(* histograms built from them (types.rs, hist.rs), the search for the best *)
(* split of a column block (split.rs, the unconstrained path), and the     *)
(* tree itself (tree.rs).                                                  *)
(*                                                                         *)
(* A gradient pair is a record of two integers: the code quantizes every   *)
(* f32 pair to i64 before accumulating, precisely so that sums are exact   *)
(* and independent of the order of the additions.  A histogram maps each   *)
(* feature of a column block to its bins, and each bin to the sum of the   *)
(* pairs of the rows that fall in it; a histogram of length 0 is the empty *)
(* function.                                                               *)
(*                                                                         *)
(* In the search, floating point is replaced by exact integers: Scale is a *)
(* common multiple of every hess + Lambda that can occur, so Scale * G^2 / *)
(* (H + Lambda) is an integer and two gains compare as the reals do.  The  *)
(* threshold MIN_GAIN_EPS, which absorbs rounding noise, becomes 0.        *)
(*                                                                         *)
(* f32 values appear by their order alone: the finite ones are numbered    *)
(* from -F32_MAX to F32_MAX, which stand for f32::MIN and f32::MAX, and a  *)
(* value beside them is NaN.  A tree is grown on bins but keeps thresholds:*)
(* split_threshold turns the bin of a split into an f32, prediction        *)
(* compares raw values with it, and an evaluation on quantized rows turns  *)
(* it back into a bin (columns.rs, tree.rs, train.rs).                     *)
(*                                                                         *)
(* A tree is a vector of nodes that only ever grows at its end, the root   *)
(* first; indices start at 1 here.  gain and sum_hess, which only serve    *)
(* the export, are left out.                                               *)
(***************************************************************************)
EXTENDS Integers, Sequences, SequencesExt

CONSTANTS
  Feature,      \* the features, a finite set of naturals (FeatId)
  Cuts,         \* Cuts[f]: the cuts of feature f, ascending (BinCuts)
  F32_MAX,      \* the number of f32::MAX in the order of the f32
  NaN           \* a missing value

\* Bins 0..254 are real bins; 255 marks a missing value (types.rs).
MISSING_BIN == 255

F32_MIN == -F32_MAX
F32 == F32_MIN..F32_MAX

\* BinCuts::n_bins: one more than there are cuts.
NBins == [f \in Feature |-> Len(Cuts[f]) + 1]

ASSUME BinsFit ==
  /\ Feature \subseteq Nat
  /\ NBins \in [Feature -> 1..MISSING_BIN]

\* BinCuts::new: finite and strictly ascending.
ASSUME CutsFit ==
  /\ F32_MAX \in Nat \ {0} /\ NaN \notin F32
  /\ Cuts \in [Feature -> Seq(F32)]
  /\ \A f \in Feature : \A i, j \in DOMAIN Cuts[f] : i < j => Cuts[f][i] < Cuts[f][j]

GradPairFixed == [grad : Int, hess : Int]

Zero == [grad |-> 0, hess |-> 0]

Plus(a, b) == [grad |-> a.grad + b.grad, hess |-> a.hess + b.hess]

Minus(a, b) == [grad |-> a.grad - b.grad, hess |-> a.hess - b.hess]

\* The bins a value of feature f may have.
BinsOf(f) == 0..(NBins[f] - 1)

\* BinCuts::find_bin, a partition_point: the number of cuts up to the value.
FindBin(f, v) ==
  CHOOSE k \in 0..Len(Cuts[f]) : \A i \in 1..Len(Cuts[f]) : i <= k <=> Cuts[f][i] <= v

\* What a feature of a training or evaluation row can be: the sources reject
\* f32::MAX, which is reserved, and the infinities.
FeatureValue == (F32 \ {F32_MAX}) \cup {NaN}
RawRow == [Feature -> FeatureValue]

\* quantize: NaN is the only missing value.
Quantized(row) ==
  [f \in Feature |-> IF row[f] = NaN THEN MISSING_BIN ELSE FindBin(f, row[f])]

\* node_sum: the sum over the rows of a node, missing rows included.
NodeSum(gpair, rows) == FoldFunctionOnSet(Plus, Zero, gpair, rows)

\* hist::build: every row adds its pair to the bin it has in each feature of
\* the block; a missing value is skipped and lands in no bin.
BuildHist(feats, bins, gpair, rows) ==
  [f \in feats |->
     [k \in BinsOf(f) |-> NodeSum(gpair, {r \in rows : bins[r][f] = k})]]

\* The empty shell left behind where a histogram has been moved out.
Shell == << >>

\* hist::subtract_in_place: parent - child, bin by bin.
SubtractHist(parent, child) ==
  [f \in DOMAIN parent |->
     [k \in DOMAIN parent[f] |-> Minus(parent[f][k], child[f][k])]]

----------------------------------------------------------------------------
\* Split search

CONSTANTS
  Lambda,           \* L2 regularisation
  Gamma,            \* min_split_loss, in units of 1 / Scale
  MinChildWeight,   \* least hessian a child may have
  Scale             \* common multiple of the denominators hess + Lambda

\* Lambda = 0 lets the code meet 0/0 gains, which it rejects as NaN; that
\* corner is left out by requiring a positive Lambda.
ASSUME ScanParams ==
  /\ Lambda \in Nat \ {0}
  /\ Gamma \in Nat
  /\ MinChildWeight \in Nat
  /\ Scale \in Nat \ {0}

\* No candidate: the code's Option::None.
NoSplit == [feat |-> -1, bin |-> 0, gain |-> 0, left |-> Zero, right |-> Zero,
            missing_left |-> FALSE]

Gain(p) == (p.grad * p.grad * Scale) \div (p.hess + Lambda)

SplitGain(parent_gain, left, right) ==
  Gain(left) + Gain(right) - parent_gain - Gamma

\* leaf_of: the shrunken weight -G / (H + Lambda), 0 for a node whose hessian
\* is not positive.  The learning rate is a common factor and left out.
LeafOf(sum) ==
  IF sum.hess <= 0 THEN 0
                   ELSE -((sum.grad * Scale) \div (sum.hess + Lambda))

\* update_best: a candidate without positive gain is ignored and, on a tie,
\* the one met first stays.
UpdateBest(best, cand) ==
  IF cand.gain > 0 /\ (best = NoSplit \/ cand.gain > best.gain)
  THEN cand
  ELSE best

\* min_child_weight prunes a candidate before gains are compared.
HeavyEnough(left, right) ==
  left.hess >= MinChildWeight /\ right.hess >= MinChildWeight

\* Prefix sums of one feature's bins: SumBelow(h)[i] adds the bins 0..i-1.
SumBelow(h) ==
  LET s[i \in 0..Cardinality(DOMAIN h)] ==
        IF i = 0 THEN Zero ELSE Plus(s[i - 1], h[i - 1])
  IN  s

\* The candidate that sends bins below `bin` left, given the left sum.
Candidate(f, bin, left, node_sum, missing_left) ==
  LET right == Minus(node_sum, left)
  IN  IF HeavyEnough(left, right)
      THEN << [feat |-> f, bin |-> bin,
               gain |-> SplitGain(Gain(node_sum), left, right),
               left |-> left, right |-> right,
               missing_left |-> missing_left] >>
      ELSE << >>

\* The forward scan of a feature: missing values go right.
ForwardScan(f, h, node_sum) ==
  LET n == Cardinality(DOMAIN h)
  IN  FlattenSeq([i \in 1..n |->
        Candidate(f, i, SumBelow(h)[i], node_sum, FALSE)])

\* The reverse scan, from the highest bin down to 0: missing values go left,
\* so the left sum is what the bins at or above the candidate leave over.
ReverseScan(f, h, node_sum) ==
  LET n == Cardinality(DOMAIN h)
      above(b) == Minus(SumBelow(h)[n], SumBelow(h)[b])
  IN  FlattenSeq([i \in 1..n |->
        Candidate(f, n - i, Minus(node_sum, above(n - i)), node_sum, TRUE)])

\* Both scans of one feature; the reverse one is skipped when no gradient is
\* missing, that is when the bins already add up to the node's sum.
ScanFeature(f, h, node_sum) ==
  ForwardScan(f, h, node_sum) \o
  (IF SumBelow(h)[Cardinality(DOMAIN h)] = node_sum
   THEN << >>
   ELSE ReverseScan(f, h, node_sum))

\* best_split_in_block: the block's features in order, the ones that colsample
\* did not draw skipped.
BestSplitInBlock(hist, feats, node_sum, sampled) ==
  LET cands == FlattenSeq([k \in 1..Len(feats) |->
                 IF feats[k] \in sampled
                 THEN ScanFeature(feats[k], hist[feats[k]], node_sum)
                 ELSE << >>])
  IN  FoldLeft(UpdateBest, NoSplit, cands)

\* Mutant: a later block wins a tie.
ReduceBestBackwards(cands) == FoldLeft(UpdateBest, NoSplit, Reverse(cands))

\* reduce_best: candidates are compared in the order they are given.
ReduceBest(cands) == FoldLeft(UpdateBest, NoSplit, cands)

----------------------------------------------------------------------------
\* Trees

NO_CHILD == 0

Leaf(value) ==
  [is_leaf |-> TRUE, leaf_value |-> value, feat |-> 0, split_cond |-> 0,
   default_left |-> FALSE, left |-> NO_CHILD, right |-> NO_CHILD]

Node == [is_leaf : BOOLEAN, leaf_value : Int, feat : Int, split_cond : Int,
         default_left : BOOLEAN, left : Nat, right : Nat]

PushLeaf(nodes, value) == Append(nodes, Leaf(value))

\* Mutant: the learned direction of missing values is not stored.
SplitLeafDefaultRight(nodes, node, feat, cond, default_left, lvalue, rvalue) ==
  LET grown == PushLeaf(PushLeaf(nodes, lvalue), rvalue)
      inner == [is_leaf |-> FALSE, leaf_value |-> 0, feat |-> feat,
                split_cond |-> cond, default_left |-> FALSE,
                left |-> Len(nodes) + 1, right |-> Len(nodes) + 2]
  IN  [grown EXCEPT ![node] = inner]

\* split_leaf: two leaves are appended, left then right, and the leaf turns
\* into an internal node in place.
SplitLeaf(nodes, node, feat, cond, default_left, lvalue, rvalue) ==
  LET grown == PushLeaf(PushLeaf(nodes, lvalue), rvalue)
      inner == [is_leaf |-> FALSE, leaf_value |-> 0, feat |-> feat,
                split_cond |-> cond, default_left |-> default_left,
                left |-> Len(nodes) + 1, right |-> Len(nodes) + 2]
  IN  [grown EXCEPT ![node] = inner]

\* split_threshold: the bin of a split as an f32.  The two splits by "missing or
\* not" have no cut of their own and get the least and the largest f32.
SplitThreshold(f, bin) ==
  CASE bin = 0                             -> F32_MIN
    [] bin > Len(Cuts[f])                  -> F32_MAX
    [] bin \in 1..Len(Cuts[f])             -> Cuts[f][bin]

\* Mutant: the upper sentinel is looked up among the cuts like any other value.
SplitBinBySearch(f, cond) == FindBin(f, cond)

\* split_bin, back to a bin.
SplitBin(f, cond) == IF cond = F32_MAX THEN NBins[f] ELSE FindBin(f, cond)

\* A bin goes left when it is below the bin of the split; a missing one follows
\* the default direction.
GoesLeft(bin, split_bin, default_left) ==
  IF bin = MISSING_BIN THEN default_left ELSE bin < split_bin

\* A descent from the root; goes_left says which nodes it leaves to the left.
\* Children have larger indices than their parent, so this is well founded.
Descend(nodes, goes_left) ==
  LET value[i \in 1..Len(nodes)] ==
        IF nodes[i].is_leaf
        THEN nodes[i].leaf_value
        ELSE IF goes_left[i] THEN value[nodes[i].left] ELSE value[nodes[i].right]
  IN  value[1]

RawLeft(nodes, row) ==
  [i \in 1..Len(nodes) |->
     /\ ~nodes[i].is_leaf
     /\ IF row[nodes[i].feat] = NaN THEN nodes[i].default_left
        ELSE row[nodes[i].feat] < nodes[i].split_cond]

BinLeft(nodes, row_bins) ==
  [i \in 1..Len(nodes) |->
     /\ ~nodes[i].is_leaf
     /\ GoesLeft(row_bins[nodes[i].feat], SplitBin(nodes[i].feat, nodes[i].split_cond),
                 nodes[i].default_left)]

\* Tree::leaf_value: prediction, from raw values.
LeafValue(nodes, row) == Descend(nodes, RawLeft(nodes, row))

\* leaf_values: evaluation during training, from bins.
LeafValueOfBins(nodes, row_bins) == Descend(nodes, BinLeft(nodes, row_bins))
=============================================================================
