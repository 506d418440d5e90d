---------------------------- MODULE MonotoneTree ----------------------------
(***************************************************************************)
(* Growing a tree under monotone constraints, an L1 penalty or a limit on  *)
(* the leaf weights: the "given weight" path of split.rs and what          *)
(* build_tree in train.rs does with it.  Every node carries bounds for its *)
(* weight, a split cuts them for its children, and a candidate's gain is   *)
(* that of the weights the bounds leave it.  One column block and one      *)
(* thread: how the work is divided is TreeBuild's subject.                 *)
(*                                                                         *)
(* A weight is an integer, Scale times the code's; with Scale a multiple   *)
(* of every hess + Lambda it is exact, and only the middle of two weights  *)
(* is rounded, downwards.  Gains are exact in units of 1 / (Scale^2).  The *)
(* learning rate is a common factor and left out.                          *)
(***************************************************************************)
EXTENDS TreeParts

CONSTANTS
  Row, MaxDepth,
  Inputs,       \* the [bins, gpair] a tree may be grown on
  Params        \* the [constraint, alpha, max_delta_step] of a training

TreeParams ==
  /\ MaxDepth \in Nat
  /\ \A p \in Params : /\ p.constraint \in [Feature -> {-1, 0, 1}]
                       /\ p.alpha \in Nat
                       /\ p.max_delta_step \in Nat

VARIABLES
  bins, gpair,  \* the quantized matrix and gradients
  p,            \* the parameters
  tree,         \* the nodes so far
  gains,        \* the gain stored with each internal node
  level,        \* this depth's nodes not decided yet: [node, rows, sum, bounds]
  next,         \* the next depth's
  depth,
  done

vars == << bins, gpair, p, tree, gains, level, next, depth, done >>

Magnitude(x) == IF x < 0 THEN -x ELSE x

\* NodeBounds::UNBOUNDED: no weight is as large as this.
MAX_WEIGHT == 1000000
UNBOUNDED == [lower |-> -MAX_WEIGHT, upper |-> MAX_WEIGHT]

\* NodeBounds::apply.
Apply(bounds, w) ==
  IF w < bounds.lower THEN bounds.lower
  ELSE IF w > bounds.upper THEN bounds.upper ELSE w

\* Mutant: the children share the parent's bounds.
ChildBoundsInherited(bounds, constraint, wl, wr) == << bounds, bounds >>

\* NodeBounds::children: a constrained split separates the bounds of its
\* children at the middle of their weights.
ChildBounds(bounds, constraint, wl, wr) ==
  LET mid == (wl + wr) \div 2
  IN  CASE constraint > 0 -> << [bounds EXCEPT !.upper = mid], [bounds EXCEPT !.lower = mid] >>
        [] constraint < 0 -> << [bounds EXCEPT !.lower = mid], [bounds EXCEPT !.upper = mid] >>
        [] OTHER          -> << bounds, bounds >>

\* threshold_l1.
ThresholdL1(grad) ==
  CASE grad > p.alpha  -> grad - p.alpha
    [] grad < -p.alpha -> grad + p.alpha
    [] OTHER           -> 0

\* xgb_weight: -ThresholdL1(G) / (H + Lambda), cut to max_delta_step.
Weight(sum) ==
  LET w     == -((ThresholdL1(sum.grad) * Scale) \div (sum.hess + Lambda))
      limit == p.max_delta_step * Scale
  IN  CASE sum.hess <= 0                       -> 0
        [] sum.hess > 0 /\ p.max_delta_step # 0 -> Apply([lower |-> -limit, upper |-> limit], w)
        [] OTHER                               -> w

\* bounded_weight.
BoundedWeight(sum, bounds) == Apply(bounds, Weight(sum))

\* gain_given_weight: what a node with this sum gains by having weight w.
GainGivenWeight(sum, w) ==
  IF sum.hess <= 0 THEN 0
  ELSE -(2 * sum.grad * w * Scale + (sum.hess + Lambda) * w * w
         + 2 * p.alpha * Magnitude(w) * Scale)

\* Whether bounded_split_gain takes a candidate: weight on both sides, and
\* child weights in the direction of the feature's constraint.
ValidSplit(c, bounds) ==
  LET wl == BoundedWeight(c.left, bounds)
      wr == BoundedWeight(c.right, bounds)
  IN  /\ c.left.hess > 0 /\ c.right.hess > 0
      /\ p.constraint[c.feat] > 0 => wl <= wr
      /\ p.constraint[c.feat] < 0 => wl >= wr

\* bounded_split_gain of a valid candidate, bounded_node_gain subtracted.
BoundedSplitGain(c, sum, bounds) ==
  GainGivenWeight(c.left, BoundedWeight(c.left, bounds))
  + GainGivenWeight(c.right, BoundedWeight(c.right, bounds))
  - GainGivenWeight(sum, BoundedWeight(sum, bounds)) - Gamma * Scale

\* best_split_in_block_constrained: the candidates of the ordinary scan, in
\* its order, those that are valid, with the gain of their bounded weights.
BestSplit(n) ==
  LET hist   == BuildHist(Feature, bins, gpair, n.rows)
      feats  == SetToSortSeq(Feature, <)
      scan   == FlattenSeq([k \in 1..Len(feats) |->
                  ScanFeature(feats[k], hist[feats[k]], n.sum)])
      valid(c)    == ValidSplit(c, n.bounds)
      Rescored(best, c) ==
        UpdateBest(best, [c EXCEPT !.gain = BoundedSplitGain(c, n.sum, n.bounds)])
  IN  FoldLeft(Rescored, NoSplit, SelectSeq(scan, valid))

Init ==
  /\ \E in \in Inputs : bins = in.bins /\ gpair = in.gpair
  /\ p \in Params
  /\ LET sum == NodeSum(gpair, Row)
     IN  /\ tree = << Leaf(Weight(sum)) >>
         /\ level = << [node |-> 1, rows |-> Row, sum |-> sum, bounds |-> UNBOUNDED] >>
  /\ gains = << >>
  /\ next = << >>
  /\ depth = 0
  /\ done = FALSE

\* The first node of the level has a split worth making: child_leaves gives
\* the children the weights the node's own bounds allow, and their bounds.
SplitNode ==
  /\ level # << >> /\ depth < MaxDepth
  /\ LET n == Head(level)
         c == BestSplit(n)
         wl == BoundedWeight(c.left, n.bounds)
         wr == BoundedWeight(c.right, n.bounds)
         b  == ChildBounds(n.bounds, p.constraint[c.feat], wl, wr)
         lrows == {r \in n.rows : GoesLeft(bins[r][c.feat], c.bin, c.missing_left)}
     IN  /\ c # NoSplit
         /\ tree' = SplitLeaf(tree, n.node, c.feat, SplitThreshold(c.feat, c.bin),
                              c.missing_left, wl, wr)
         /\ gains' = gains @@ (n.node :> c.gain)
         /\ next' = next \o
              << [node |-> Len(tree) + 1, rows |-> lrows, sum |-> c.left, bounds |-> b[1]],
                 [node |-> Len(tree) + 2, rows |-> n.rows \ lrows, sum |-> c.right,
                  bounds |-> b[2]] >>
  /\ level' = Tail(level)
  /\ UNCHANGED << bins, gpair, p, depth, done >>

\* A node without such a split stays the leaf it was made as.
SettleNode ==
  /\ level # << >> /\ depth < MaxDepth
  /\ BestSplit(Head(level)) = NoSplit
  /\ level' = Tail(level)
  /\ UNCHANGED << bins, gpair, p, tree, gains, next, depth, done >>

NextLevel ==
  /\ level = << >> /\ next # << >> /\ depth < MaxDepth
  /\ level' = next /\ next' = << >>
  /\ depth' = depth + 1
  /\ UNCHANGED << bins, gpair, p, tree, gains, done >>

\* No node is left, or the depth is used up.
Finish ==
  /\ ~done
  /\ depth = MaxDepth \/ (level = << >> /\ next = << >>)
  /\ done' = TRUE
  /\ UNCHANGED << bins, gpair, p, tree, gains, level, next, depth >>

Next == SplitNode \/ SettleNode \/ NextLevel \/ Finish

Spec == Init /\ [][Next]_vars
-----------------------------------------------------------------------------
OpenNodes == ToSet(level) \cup ToSet(next)

TypeOK ==
  /\ \A i \in 1..Len(tree) : tree[i] \in Node
  /\ \A n \in OpenNodes :
       /\ n.node \in 1..Len(tree) /\ n.rows \subseteq Row
       /\ n.sum \in GradPairFixed
       /\ n.bounds \in [lower : Int, upper : Int]
  /\ DOMAIN gains = {i \in 1..Len(tree) : ~tree[i].is_leaf}
  /\ depth \in 0..MaxDepth /\ done \in BOOLEAN

\* The promise of monotone_constraints: at every moment, whatever the other
\* features are, missing or not, raising a constrained feature never moves the
\* prediction against its constraint.  Rows are raw ones: what they are compared
\* with are the thresholds kept in the tree.  A split lower down could break it with
\* rows that never meet in one node; only the bounds prevent that.
PredictionsMonotone ==
  \A x \in RawRow : \A f \in Feature :
    x[f] # NaN =>
      LET here  == LeafValue(tree, x)
          above == {LeafValue(tree, [x EXCEPT ![f] = v]) : v \in x[f]..(F32_MAX - 1)}
      IN  /\ p.constraint[f] > 0 => \A v \in above : here <= v
          /\ p.constraint[f] < 0 => \A v \in above : here >= v

\* A node's weight is cut to its parent's bounds when the parent is split, but
\* its gain as a parent is computed with its own bounds: both give one weight.
StoredWeightIsOwn ==
  \A n \in OpenNodes : tree[n.node].leaf_value = BoundedWeight(n.sum, n.bounds)

\* The leaf a row ends in.
LeafOfRow(r) ==
  LET left == BinLeft(tree, bins[r])
      at[i \in 1..Len(tree)] ==
        IF tree[i].is_leaf THEN i
        ELSE IF left[i] THEN at[tree[i].left] ELSE at[tree[i].right]
  IN  at[1]

\* The regularised objective of the tree on its rows, from the leaf values
\* alone.
TreeGain ==
  LET leaves == {i \in 1..Len(tree) : tree[i].is_leaf}
      rows(i) == {r \in Row : LeafOfRow(r) = i}
  IN  FoldFunctionOnSet(+, 0,
        [i \in leaves |-> GainGivenWeight(NodeSum(gpair, rows(i)), tree[i].leaf_value)],
        leaves)

\* The gains stored in the tree are what its splits are worth: their sum, with
\* the price Gamma of each, is the improvement of the objective over a tree
\* that is only a root, for the leaf values that prediction uses.
GainsAddUp ==
  TreeGain - GainGivenWeight(NodeSum(gpair, Row), Weight(NodeSum(gpair, Row)))
    = FoldFunctionOnSet(+, 0, gains, DOMAIN gains)
      + Gamma * Scale * Cardinality(DOMAIN gains)
=============================================================================
