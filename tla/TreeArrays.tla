----------------------------- MODULE TreeArrays ------------------------------
(***************************************************************************)
(* The forms a model takes for prediction (inference.rs, cuda/inference.rs,*)
(* histogram.cu): a complete binary heap for shallow trees, arrays of      *)
(* child indices for deep ones, one flat array of all trees on a GPU, and  *)
(* a copy of the model that numbers only the features its splits use.      *)
(*                                                                         *)
(* A tree is a sequence of nodes, the root first; an index of 1 here is    *)
(* the 0 of the code.  A margin is the sequence of what is added to it: the*)
(* base margin and the leaf values, in the order of the additions.         *)
(***************************************************************************)
EXTENDS Integers, Sequences, FiniteSetsExt, SequencesExt

CONSTANT
  HeapDepth     \* trees up to this depth become heaps; 6 in the code

HeapDepthIsNat == HeapDepth \in Nat

NaN == -1

\* f32 `<`: false when either side is NaN.
Below(v, cond) == v # NaN /\ cond # NaN /\ v < cond

GoesLeft(v, cond, default_left) == IF v = NaN THEN default_left ELSE Below(v, cond)

----------------------------------------------------------------------------
\* The model itself: the definition every predictor is compared with

\* Tree::leaf_value, from any node.
LeafValue(tree, row) ==
  LET value[i \in 1..Len(tree)] ==
        IF tree[i].is_leaf THEN tree[i].leaf_value
        ELSE value[IF GoesLeft(row[tree[i].feat], tree[i].split_cond, tree[i].default_left)
                   THEN tree[i].left ELSE tree[i].right]
  IN  value[1]

Smaller(a, b) == IF a < b THEN a ELSE b

\* Model::predict_margins_upto: tree i belongs to class i mod K.
PredictMarginsUpto(model, row, upto) ==
  [c \in 1..Len(model.base) |->
     << model.base[c] >> \o
     [i \in 1..Cardinality({t \in 1..Smaller(upto, Len(model.trees)) :
                              (t - 1) % Len(model.base) = c - 1}) |->
        LeafValue(model.trees[(i - 1) * Len(model.base) + c], row)]]

----------------------------------------------------------------------------
\* One class at a time

\* Model::class_view: every K-th tree from the class on.
ClassView(model, c) ==
  LET k == Len(model.base) IN
  [trees |-> [i \in 1..((Len(model.trees) - c + k) \div k) |->
                model.trees[(i - 1) * k + c]],
   base |-> << model.base[c] >>, n_features |-> model.n_features]

\* class_tree_count: the trees of the class among the first upto.
ClassTreeCount(model, upto, c) ==
  LET n == Smaller(upto, Len(model.trees)) k == Len(model.base) IN
  IF n <= c - 1 THEN 0 ELSE (n - (c - 1) + k - 1) \div k

----------------------------------------------------------------------------
\* Compaction

UsedFeatures(model) ==
  UNION {{model.trees[t][i].feat : i \in {j \in DOMAIN model.trees[t] :
                                            ~model.trees[t][j].is_leaf}} :
         t \in DOMAIN model.trees}

\* The features that are read, ascending; one at least.
CanonicalFeatures(model) ==
  SetToSortSeq(IF UsedFeatures(model) = {} THEN {1} ELSE UsedFeatures(model), <)

\* CompactInferenceModel::new.
Compact(model) ==
  LET used == CanonicalFeatures(model)
      compact[f \in Range(used)] == CHOOSE i \in DOMAIN used : used[i] = f
      renumber(node) == IF node.is_leaf THEN node
                        ELSE [node EXCEPT !.feat = compact[node.feat]]
  IN  [model EXCEPT !.trees = [t \in DOMAIN model.trees |->
                                 [i \in DOMAIN model.trees[t] |->
                                    renumber(model.trees[t][i])]],
                    !.n_features = Len(used)]

\* project_canonical_rows, and the projection of the file readers.
Project(model, row) ==
  [i \in DOMAIN CanonicalFeatures(model) |-> row[CanonicalFeatures(model)[i]]]

----------------------------------------------------------------------------
\* CpuInferenceTree

MaxDepth(tree) ==
  LET depth[i \in 1..Len(tree)] ==
        IF tree[i].is_leaf THEN 0
        ELSE 1 + Max({depth[tree[i].left], depth[tree[i].right]})
  IN  depth[1]

\* Mutant: an early leaf is carried down to the left, where no comparison with
\* NaN leads.
NodeAtLeft(tree) ==
  LET at[d \in 0..MaxDepth(tree)] ==
        IF d = 0 THEN [l \in {0} |-> 1]
        ELSE [l \in 0..2^d - 1 |->
                LET up == at[d - 1][l \div 2] IN
                IF up = 0 THEN 0
                ELSE IF tree[up].is_leaf THEN IF l % 2 = 0 THEN up ELSE 0
                ELSE IF l % 2 = 0 THEN tree[up].left ELSE tree[up].right]
  IN  at

\* The node at each place of the complete heap, level by level; 0 where there is
\* none.  A leaf above the last level is carried down to the right.
NodeAt(tree) ==
  LET at[d \in 0..MaxDepth(tree)] ==
        IF d = 0 THEN [l \in {0} |-> 1]
        ELSE [l \in 0..2^d - 1 |->
                LET up == at[d - 1][l \div 2] IN
                IF up = 0 THEN 0
                ELSE IF tree[up].is_leaf THEN IF l % 2 = 1 THEN up ELSE 0
                ELSE IF l % 2 = 0 THEN tree[up].left ELSE tree[up].right]
  IN  at

\* A place without a split compares feature 0 with NaN.
NoSplit == [feat |-> 1, split_cond |-> NaN, default_left |-> FALSE]

HeapOf(tree) ==
  LET at == NodeAt(tree) depth == MaxDepth(tree) IN
  [depth |-> depth,
   split |-> [h \in 1..(2^depth - 1) |->
                LET d == CHOOSE e \in 0..depth - 1 : 2^e <= h /\ h < 2^(e + 1)
                    i == at[d][h - 2^d]
                IN  IF i = 0 THEN NoSplit
                    ELSE IF tree[i].is_leaf THEN NoSplit
                    ELSE [feat |-> tree[i].feat, split_cond |-> tree[i].split_cond,
                          default_left |-> tree[i].default_left]],
   leaf |-> [l \in 0..2^depth - 1 |->
               IF at[depth][l] = 0 THEN 0 ELSE tree[at[depth][l]].leaf_value]]

\* One level of add_array_block or add_dynamic_block: missing values are looked
\* for only in blocks that have one.
StepsLeft(split, row, any_missing) ==
  LET v == row[split.feat] IN
  IF any_missing /\ v = NaN THEN split.default_left ELSE Below(v, split.split_cond)

\* add_array_block: arithmetic instead of child indices, no test for leaves.
ArrayWalk(heap, row, any_missing) ==
  LET place[d \in 0..heap.depth] ==
        IF d = 0 THEN 0
        ELSE 2 * place[d - 1] +
             (IF StepsLeft(heap.split[2^(d - 1) + place[d - 1]], row, any_missing)
              THEN 0 ELSE 1)
  IN  heap.leaf[place[heap.depth]]

\* add_dynamic_block: as many steps as the tree is deep, standing still on a leaf.
DynamicWalk(tree, row, any_missing) ==
  LET node[d \in 0..MaxDepth(tree)] ==
        IF d = 0 THEN 1
        ELSE LET n == tree[node[d - 1]] IN
             IF n.is_leaf THEN node[d - 1]
             ELSE IF StepsLeft(n, row, any_missing) THEN n.left ELSE n.right
  IN  tree[node[MaxDepth(tree)]].leaf_value

CpuLeaf(tree, row, any_missing) ==
  IF MaxDepth(tree) <= HeapDepth THEN ArrayWalk(HeapOf(tree), row, any_missing)
  ELSE DynamicWalk(tree, row, any_missing)

----------------------------------------------------------------------------
\* CpuInferenceModel

\* A model that sends no missing value left can compare them like the others.
NeedsMissingCheck(model) ==
  \E t \in DOMAIN model.trees : \E i \in DOMAIN model.trees[t] :
    ~model.trees[t][i].is_leaf /\ model.trees[t][i].default_left

\* predict_margins of one block of rows.
BlockMargins(model, rows, upto) ==
  LET any_missing == NeedsMissingCheck(model) /\ \E r \in DOMAIN rows : NaN \in Range(rows[r])
  IN  [r \in DOMAIN rows |->
         << model.base[1] >> \o
         [t \in 1..Smaller(upto, Len(model.trees)) |->
            CpuLeaf(model.trees[t], rows[r], any_missing)]]

\* The rows in pieces of a given size.
Pieces(rows, size) ==
  [p \in 1..((Len(rows) + size - 1) \div size) |->
     SubSeq(rows, (p - 1) * size + 1, Smaller(p * size, Len(rows)))]

----------------------------------------------------------------------------
\* GpuInferenceModel

\* Where each tree starts in the flat arrays, and where the last one ends.
TreeOffsets(model) ==
  LET offset[t \in 0..Len(model.trees)] ==
        IF t = 0 THEN 0 ELSE offset[t - 1] + Len(model.trees[t])
  IN  offset

\* All nodes one after the other; children are absolute.
Flattened(model) ==
  LET absolute(t, node) ==
        IF node.is_leaf THEN node
        ELSE [node EXCEPT !.left = TreeOffsets(model)[t - 1] + @,
                          !.right = TreeOffsets(model)[t - 1] + @]
  IN  FlattenSeq([t \in DOMAIN model.trees |->
                    [i \in DOMAIN model.trees[t] |-> absolute(t, model.trees[t][i])]])

\* predict_margin_soa: one thread per row.
GpuMargin(model, row, upto) ==
  LET flat == Flattened(model)
      value[i \in DOMAIN flat] ==
        IF flat[i].is_leaf THEN flat[i].leaf_value
        ELSE value[IF GoesLeft(row[flat[i].feat], flat[i].split_cond, flat[i].default_left)
                   THEN flat[i].left ELSE flat[i].right]
  IN  << model.base[1] >> \o
      [t \in 1..Smaller(upto, Len(model.trees)) |->
         value[TreeOffsets(model)[t - 1] + 1]]
=============================================================================
