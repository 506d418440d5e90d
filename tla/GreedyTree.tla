----------------------------- MODULE GreedyTree -----------------------------
(***************************************************************************)
(* What growing one tree promises: from the root, every open node either   *)
(* becomes a leaf for good or is split by the best split of its own rows,  *)
(* computed from nothing but those rows.  There are no histograms, column  *)
(* blocks, worker threads or levels here; TreeBuild has all of them and    *)
(* implements this specification, which is how "neither the number of      *)
(* threads nor the block layout changes the model" is made precise.        *)
(***************************************************************************)
EXTENDS TreeParts

CONSTANTS Row, MaxDepth

VARIABLES
  bins,       \* bins[r][f]: the quantized value of row r in feature f
  gpair,      \* gpair[r]: the quantized gradient pair of row r
  sampled,    \* the features colsample drew for this tree
  tree,       \* the nodes so far
  open,       \* nodes not decided yet: a set of [node, rows, depth]
  pred,       \* pred[r]: the values added to row r's prediction, in order
  outcome     \* "running", "done" or "failed"

vars == << bins, gpair, sampled, tree, open, pred, outcome >>

\* One candidate, computed from the rows themselves.
CandidateOf(rows, f, bin, missing_left) ==
  LET lrows == {r \in rows : GoesLeft(bins[r][f], bin, missing_left)}
      left  == NodeSum(gpair, lrows)
      right == NodeSum(gpair, rows \ lrows)
  IN  [feat |-> f, bin |-> bin,
       gain |-> SplitGain(Gain(NodeSum(gpair, rows)), left, right),
       left |-> left, right |-> right, missing_left |-> missing_left]

\* Every admissible split of a node: missing values right with a condition in
\* 1..n, or missing values left with a condition in 0..n-1.
Admissible(rows) ==
  {c \in UNION {{CandidateOf(rows, f, b, FALSE) : b \in 1..NBins[f]} \cup
                {CandidateOf(rows, f, b, TRUE) : b \in 0..(NBins[f] - 1)} :
                  f \in sampled} :
     HeavyEnough(c.left, c.right) /\ c.gain > 0}

\* Which of two equally good splits wins: the smaller feature, then missing
\* values to the right, then the lower condition (missing values right) or the
\* higher one (missing values left).
Earlier(a, b) ==
  \/ a.feat < b.feat
  \/ a.feat = b.feat /\ ~a.missing_left /\ b.missing_left
  \/ /\ a.feat = b.feat
     /\ a.missing_left = b.missing_left
     /\ IF a.missing_left THEN a.bin > b.bin ELSE a.bin < b.bin

BestSplit(rows) ==
  LET cs == Admissible(rows)
  IN  IF cs = {} THEN NoSplit
      ELSE CHOOSE c \in cs : \A d \in cs :
             c = d \/ c.gain > d.gain \/ (c.gain = d.gain /\ Earlier(c, d))

Init ==
  /\ tree = << Leaf(LeafOf(NodeSum(gpair, Row))) >>
  /\ open = {[node |-> 1, rows |-> Row, depth |-> 0]}
  /\ pred = [r \in Row |-> << >>]
  /\ outcome = "running"

\* A node that has no worthwhile split, or is as deep as allowed, is a leaf
\* for good and gives its value to every row it holds.
Settle(n) ==
  /\ outcome = "running"
  /\ n.depth = MaxDepth \/ BestSplit(n.rows) = NoSplit
  /\ pred' = [r \in Row |-> IF r \in n.rows
                            THEN Append(pred[r], tree[n.node].leaf_value)
                            ELSE pred[r]]
  /\ open' = open \ {n}
  /\ UNCHANGED << bins, gpair, sampled, tree, outcome >>

Split(n) ==
  LET c     == BestSplit(n.rows)
      lrows == {r \in n.rows : GoesLeft(bins[r][c.feat], c.bin, c.missing_left)}
  IN  /\ outcome = "running"
      /\ n.depth < MaxDepth
      /\ c # NoSplit
      /\ tree' = SplitLeaf(tree, n.node, c.feat, SplitThreshold(c.feat, c.bin),
                           c.missing_left, LeafOf(c.left), LeafOf(c.right))
      /\ open' = (open \ {n}) \cup
           {[node |-> Len(tree) + 1, rows |-> lrows, depth |-> n.depth + 1],
            [node |-> Len(tree) + 2, rows |-> n.rows \ lrows,
             depth |-> n.depth + 1]}
      /\ UNCHANGED << bins, gpair, sampled, pred, outcome >>

Finish ==
  /\ outcome = "running"
  /\ open = {}
  /\ outcome' = "done"
  /\ UNCHANGED << bins, gpair, sampled, tree, open, pred >>

\* A source that cannot deliver a block ends the build at any moment.
Fail ==
  /\ outcome = "running"
  /\ outcome' = "failed"
  /\ UNCHANGED << bins, gpair, sampled, tree, open, pred >>

Next == (\E n \in open : Settle(n) \/ Split(n)) \/ Finish \/ Fail

Spec == Init /\ [][Next]_vars
=============================================================================
