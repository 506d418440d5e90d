------------------------------ MODULE ModelJson ------------------------------
(***************************************************************************)
(* Models as XGBoost JSON (tree.rs): what is written, what is accepted from*)
(* a file, and what it means.  A file is a record with the fields of the   *)
(* JSON that are read; numbers kept as strings are the numbers.  A tree is *)
(* kept as parallel arrays, in which a leaf has no children and its value  *)
(* in the place of the threshold.  An index of 1 here is the 0 of the file.*)
(***************************************************************************)
EXTENDS TreeArrays

CONSTANTS
  Trained,      \* models as training leaves them
  Foreign       \* files written by other programs

NO_CHILD == 0

----------------------------------------------------------------------------
\* Saving

\* xgb::Tree::from_tree.
FromTree(tree, n_features) ==
  [left  |-> [i \in DOMAIN tree |-> tree[i].left],
   right |-> [i \in DOMAIN tree |-> tree[i].right],
   cond  |-> [i \in DOMAIN tree |-> IF tree[i].is_leaf THEN tree[i].leaf_value
                                    ELSE tree[i].split_cond],
   feat  |-> [i \in DOMAIN tree |-> IF tree[i].is_leaf THEN 1 ELSE tree[i].feat],
   default_left |-> [i \in DOMAIN tree |-> tree[i].default_left],
   categorical |-> FALSE, num_feature |-> n_features, leaf_size |-> 1]

NumOutputs(model) == Max({1, Len(model.class_base_margins)})

\* to_xgboost_json: one class keeps its base score, several a vector of margins.
ToJson(model) ==
  LET k == NumOutputs(model) IN
  [booster |-> "gbtree",
   trees |-> [t \in DOMAIN model.trees |-> FromTree(model.trees[t], model.n_features)],
   tree_info |-> [t \in DOMAIN model.trees |-> (t - 1) % k],
   num_parallel_tree |-> 1, num_target |-> 1,
   num_class |-> Len(model.class_base_margins),
   base_score |-> IF model.class_base_margins = << >> THEN << model.base_score >>
                  ELSE model.class_base_margins,
   num_feature |-> model.n_features,
   objective |-> model.objective,
   feature_names |-> model.feature_names,
   schema_mode |-> model.schema_mode,
   best_iteration |-> model.best_iteration]

----------------------------------------------------------------------------
\* Loading

IsLeaf(t, i) == t.left[i] = NO_CHILD

\* A leaf, or two different children inside the tree that nobody else has.
NodeAccepted(t, i) ==
  LET n == Len(t.left) IN
  IF IsLeaf(t, i) THEN t.right[i] = NO_CHILD
  ELSE /\ t.left[i] \in 1..n /\ t.right[i] \in 1..n /\ t.left[i] # t.right[i]
       /\ \A j \in 1..n \ {i} : {t.left[i], t.right[i]} \cap {t.left[j], t.right[j]} = {}
       /\ t.feat[i] \in 1..t.num_feature

\* What the walk from the root visits, after at most n levels.
Visited(t) ==
  LET n == Len(t.left)
      level[d \in 0..n] == IF d = 0 THEN {1}
                           ELSE UNION {{t.left[i], t.right[i]} :
                                       i \in {j \in level[d - 1] : ~IsLeaf(t, j)}}
  IN  UNION {level[d] : d \in 0..n}

\* xgb::Tree::to_tree, as a test: arrays of one length, numerical splits, every
\* node accepted, nobody the parent of the root, and all reached from it.
TreeAccepted(t) ==
  LET n == Len(t.left) IN
  /\ n > 0 /\ Len(t.right) = n /\ Len(t.cond) = n /\ Len(t.feat) = n
  /\ Len(t.default_left) = n /\ ~t.categorical
  /\ \A i \in 1..n : NodeAccepted(t, i)
  /\ \A i \in 1..n : IsLeaf(t, i) \/ 1 \notin {t.left[i], t.right[i]}
  /\ Visited(t) = 1..n

\* xgb::Tree::to_tree.
ToTree(t) ==
  [i \in DOMAIN t.left |->
     [is_leaf |-> IsLeaf(t, i), leaf_value |-> IF IsLeaf(t, i) THEN t.cond[i] ELSE 0,
      feat |-> IF IsLeaf(t, i) THEN 1 ELSE t.feat[i],
      split_cond |-> IF IsLeaf(t, i) THEN 0 ELSE t.cond[i],
      default_left |-> ~IsLeaf(t, i) /\ t.default_left[i],
      left |-> t.left[i], right |-> t.right[i]]]

Classes(file) == Max({1, file.num_class})

\* Mutant: any assignment of trees to classes is accepted.
HeaderAcceptedAnyGroups(file) ==
  /\ file.booster = "gbtree" /\ file.num_target <= 1 /\ file.num_parallel_tree = 1
  /\ \A t \in DOMAIN file.trees : file.trees[t].leaf_size <= 1
  /\ Classes(file) = file.objective.outputs
  /\ IF Classes(file) > 1 THEN Len(file.base_score) \in {1, Classes(file)}
     ELSE Len(file.base_score) = 1

\* The rest of from_xgboost_json's checks: one booster of scalar trees, grouped
\* by class in turn, and a base score per class or one for all.
HeaderAccepted(file) ==
  /\ file.booster = "gbtree" /\ file.num_target <= 1 /\ file.num_parallel_tree = 1
  /\ \A t \in DOMAIN file.tree_info : file.tree_info[t] = (t - 1) % Classes(file)
  /\ \A t \in DOMAIN file.trees : file.trees[t].leaf_size <= 1
  /\ Classes(file) = file.objective.outputs
  /\ IF Classes(file) > 1 THEN Len(file.base_score) \in {1, Classes(file)}
     ELSE Len(file.base_score) = 1

Accepted(file) ==
  HeaderAccepted(file) /\ \A t \in DOMAIN file.trees : TreeAccepted(file.trees[t])

\* from_xgboost_json.
FromJson(file) ==
  [trees |-> [t \in DOMAIN file.trees |-> ToTree(file.trees[t])],
   base_score |-> file.base_score[1],
   class_base_margins |->
     IF Classes(file) = 1 THEN << >>
     ELSE [c \in 1..Classes(file) |-> IF Len(file.base_score) = 1 THEN file.base_score[1]
                                      ELSE file.base_score[c]],
   n_features |-> file.num_feature,
   objective |-> file.objective,
   feature_names |-> file.feature_names,
   schema_mode |-> file.schema_mode,
   best_iteration |-> file.best_iteration]

----------------------------------------------------------------------------
VARIABLES
  trained,      \* the model that was saved, << >> for a foreign file
  file,
  loaded,       \* the model in memory, << >> for none
  pc            \* "saved", "loaded" or "refused"

vars == << trained, file, loaded, pc >>

Init ==
  /\ \/ \E m \in Trained : trained = << m >> /\ file = ToJson(m)
     \/ trained = << >> /\ file \in Foreign
  /\ loaded = << >> /\ pc = "saved"

Load ==
  /\ pc = "saved"
  /\ IF Accepted(file) THEN loaded' = << FromJson(file) >> /\ pc' = "loaded"
     ELSE loaded' = << >> /\ pc' = "refused"
  /\ UNCHANGED << trained, file >>

SaveAgain ==
  /\ pc = "loaded"
  /\ file' = ToJson(loaded[1]) /\ loaded' = << >> /\ pc' = "saved"
  /\ UNCHANGED trained

Refused == pc = "refused" /\ UNCHANGED vars

Next == Load \/ SaveAgain \/ Refused

Spec == Init /\ [][Next]_vars

----------------------------------------------------------------------------
\* Properties

\* The types.  A loaded model has no margin vector of one class: from_xgboost_json
\* keeps a single class in base_score alone.
TypeOK ==
  /\ Len(trained) <= 1 /\ Range(trained) \subseteq Trained
  /\ pc \in {"saved", "loaded", "refused"}
  /\ Len(loaded) = (IF pc = "loaded" THEN 1 ELSE 0)
  /\ \A m \in Range(loaded) :
       Len(m.class_base_margins) = (IF m.objective.outputs = 1 THEN 0
                                    ELSE m.objective.outputs)

\* A model that was saved is accepted, and comes back with its trees, margins and
\* everything that decides how columns are bound - as often as it is saved again.
SavedModelsComeBack ==
  trained # << >> =>
    /\ pc # "refused"
    /\ pc = "loaded" =>
         loaded[1] = [trained[1] EXCEPT !.base_score =
                        IF trained[1].class_base_margins = << >> THEN @
                        ELSE trained[1].class_base_margins[1]]

\* Where a path of left and right turns leads from the root; 0 when it falls off.
Lead(t, path) ==
  LET at[k \in 0..Len(path)] ==
        IF k = 0 THEN 1
        ELSE IF at[k - 1] \notin DOMAIN t.left THEN 0
        ELSE IF path[k] = "left" THEN t.left[at[k - 1]] ELSE t.right[at[k - 1]]
  IN  at[Len(path)]

PathsUpTo(n) == UNION {[1..k -> {"left", "right"}] : k \in 0..n}

\* A file is accepted only if each of its trees is one: every node is reached from
\* the root along exactly one path, so that a descent ends in a leaf; and no such
\* file is refused for the shape of its trees.
AcceptsExactlyTrees ==
  LET is_tree(t) ==
        \A i \in DOMAIN t.left :
          /\ Cardinality({p \in PathsUpTo(Len(t.left)) : Lead(t, p) = i}) = 1
          /\ (t.left[i] \notin DOMAIN t.left) = (t.left[i] = NO_CHILD)
          /\ (t.left[i] = NO_CHILD) = (t.right[i] = NO_CHILD)
          /\ t.right[i] \in DOMAIN t.left \cup {NO_CHILD}
  IN  /\ pc = "loaded" => \A t \in DOMAIN file.trees : is_tree(file.trees[t])
      /\ pc = "refused" => (HeaderAccepted(file) =>
                              \E t \in DOMAIN file.trees : ~is_tree(file.trees[t]))

\* What XGBoost computes from the file: each tree's leaf goes to the class that
\* tree_info names, and a single base score serves all classes.
Meaning(f, row, class) ==
  << IF Len(f.base_score) = 1 THEN f.base_score[1] ELSE f.base_score[class] >> \o
  [i \in 1..Cardinality({t \in DOMAIN f.trees : f.tree_info[t] = class - 1}) |->
     LET t == f.trees[SetToSortSeq({u \in DOMAIN f.trees : f.tree_info[u] = class - 1}, <)[i]]
         leaf[n \in DOMAIN t.left] ==
           IF t.left[n] = NO_CHILD THEN t.cond[n]
           ELSE leaf[IF GoesLeft(row[t.feat[n]], t.cond[n], t.default_left[n])
                     THEN t.left[n] ELSE t.right[n]]
     IN  leaf[1]]

\* A loaded model predicts, for every row and class, what the file says.
LoadedMeansTheFile ==
  pc = "loaded" =>
    LET model == loaded[1]
        base == IF model.class_base_margins = << >> THEN << model.base_score >>
                ELSE model.class_base_margins
    IN  \A row \in [1..model.n_features -> {NaN, 1, 3}] :
          PredictMarginsUpto([trees |-> model.trees, base |-> base], row,
                             Len(model.trees)) =
          [c \in 1..Max({1, file.num_class}) |-> Meaning(file, row, c)]
=============================================================================
