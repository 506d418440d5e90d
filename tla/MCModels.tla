------------------------------ MODULE MCModels ------------------------------
(***************************************************************************)
(* What becomes of a trained model, for TLC: its file (ModelFile), what    *)
(* the file says (ModelJson), its predictions (Predictors) and the file    *)
(* they are written to (PredictOutput).  A behaviour moves one of them.    *)
(***************************************************************************)
EXTENDS ModelFile, PredictOutput

CONSTANTS c1, c2

VARIABLES
  scenario,
  trained, file, j_loaded, j_pc,
  p_model, pc, rows, upto, class, out, staging, held, usable

file_vars == vars
json_vars == << trained, file, j_loaded, j_pc >>
predict_vars == << p_model, pc, rows, upto, class, out, staging, held, usable >>

\* ModelFile: two savers, a loader, up to three versions of different lengths, two
\* workers of which one has a range of two parts.
MCSize == << 3, 5, 1 >>

----------------------------------------------------------------------------
\* Trees of ModelJson and Predictors

NaN == -1

L(v) == [is_leaf |-> TRUE, leaf_value |-> v, feat |-> 1, split_cond |-> 0,
         default_left |-> FALSE, left |-> 0, right |-> 0]
S(f, dl, l, r) == [is_leaf |-> FALSE, leaf_value |-> 0, feat |-> f, split_cond |-> 2,
                   default_left |-> dl, left |-> l, right |-> r]

----------------------------------------------------------------------------
\* ModelJson

MCTrees == {<< L(5) >>, << S(2, TRUE, 2, 3), L(11), L(12) >>,
            << S(1, FALSE, 2, 3), S(2, TRUE, 4, 5), L(21), L(22), L(23) >>}

MCTrained ==
  {[trees |-> ts, base_score |-> 50, class_base_margins |-> cbm, n_features |-> 2,
    objective |-> [name |-> IF cbm = << >> THEN "reg" ELSE "softprob",
                   outputs |-> IF cbm = << >> THEN 1 ELSE Len(cbm)],
    feature_names |-> IF mode = "named" THEN << "a", "b" >> ELSE << >>,
    schema_mode |-> mode, best_iteration |-> best] :
     ts \in {<< >>} \cup [1..1 -> MCTrees] \cup [1..3 -> MCTrees],
     cbm \in {<< >>, << 7, 8 >>, << 7, 8, 9 >>},
     mode \in {"named", "positional", "none"}, best \in {0, 2}}

\* Files of other programs: every arrangement of children of two and three nodes,
\* and every header around a sound tree.
JsonTree(left, right, feat) ==
  [left |-> left, right |-> right, cond |-> [i \in DOMAIN left |-> 10 + i],
   feat |-> [i \in DOMAIN left |-> feat], default_left |-> [i \in DOMAIN left |-> i = 1],
   categorical |-> FALSE, num_feature |-> 2, leaf_size |-> 1]

Sound == JsonTree(<< 2, 0, 0 >>, << 3, 0, 0 >>, 2)

Header == [booster |-> "gbtree", tree_info |-> << 0 >>, num_parallel_tree |-> 1,
           num_target |-> 1, num_class |-> 0, base_score |-> << 4 >>, num_feature |-> 2,
           objective |-> [name |-> "reg", outputs |-> 1], feature_names |-> << >>,
           schema_mode |-> "none",
           best_iteration |-> 0]

WithTrees(h, ts) == [f \in DOMAIN h \cup {"trees"} |-> IF f = "trees" THEN ts ELSE h[f]]

Shapes == {WithTrees(Header, << JsonTree(l, r, 1) >>) :
             l \in [1..2 -> 0..3], r \in [1..2 -> 0..3]}
          \cup {WithTrees(Header, << JsonTree(l, r, 1) >>) :
                  l \in [1..3 -> 0..3], r \in [1..3 -> 0..3]}

Headers ==
  {WithTrees([Header EXCEPT !.booster = b, !.tree_info = info, !.num_parallel_tree = p,
                            !.num_target = target, !.num_class = k, !.base_score = score,
                            !.objective = o],
             << Sound, [Sound EXCEPT !.cond = << 2, 31, 32 >>, !.leaf_size = size], Sound >>) :
     b \in {"gbtree", "dart"}, info \in [1..3 -> 0..1], p \in 1..2, target \in 0..2,
     k \in {0, 1, 2}, score \in {<< 4 >>, << 4, 6 >>}, 
     o \in {[name |-> "reg", outputs |-> 1], [name |-> "softprob", outputs |-> 2]},
     size \in 0..2}

MCForeign == Shapes \cup Headers

Exchange == INSTANCE ModelJson WITH
  HeapDepth <- 6, Trained <- MCTrained, Foreign <- MCForeign, pc <- j_pc, loaded <- j_loaded

----------------------------------------------------------------------------
\* Predictors

\* A single leaf; a split; an early leaf on either side; a tree too deep for a
\* heap of depth 2.
Root(v)     == << L(v) >>
Stump(f, d) == << S(f, d, 2, 3), L(11), L(12) >>
Right       == << S(3, FALSE, 2, 3), L(21), S(2, TRUE, 4, 5), L(22), L(23) >>
Left        == << S(2, FALSE, 2, 3), S(3, FALSE, 4, 5), L(31), L(32), L(33) >>
Deep        == << S(1, TRUE, 2, 3), S(2, FALSE, 4, 5), L(41), S(3, TRUE, 6, 7), L(42), L(43),
                  L(44) >>

M(trees, base) == [trees |-> trees, base |-> base, n_features |-> 3]

MCModels == { M(<< >>, << 100 >>),
              M(<< Root(1), Root(2) >>, << 100 >>),
              M(<< Stump(2, FALSE), Right, Left >>, << 100 >>),
              M(<< Left, Stump(3, FALSE) >>, << 100 >>),
              M(<< Deep, Stump(3, TRUE) >>, << 100 >>),
              M(<< Stump(1, FALSE), Right, Left, Deep, Stump(3, TRUE) >>, << 100, 200 >>),
              M(<< Stump(2, TRUE), Root(5), Right, Left >>, << 100, 200, 300 >>) }

V == {<< 1, 3, NaN >>, << 2, NaN, 1 >>, << NaN, 1, 3 >>, << 2, 2, 2 >>}

\* All rows of three values once, and two of the rows above in five places.
AllRows == [r \in 1..27 |-> [f \in 1..3 |-> << NaN, 1, 2 >>[(((r - 1) \div 3^(f - 1)) % 3) + 1]]]
MCRowSeqs == {<< >>, AllRows} \cup [1..1 -> V]
             \cup {<< a, b, b, a, b >> : a \in {<< 1, 3, NaN >>, << 2, 2, 2 >>}, b \in V}

Predicting == INSTANCE Predictors WITH
  HeapDepth <- 2, Models <- MCModels, RowSeqs <- MCRowSeqs, BlockRows <- 2,
  ChunksPerWorker <- 1, WorkerCounts <- {1, 2}, FreeMemory <- {0, 30}, MaxStaging <- 16,
  MaxCachedStaging <- 12, Headroom <- 2, model <- p_model

ASSUME FileParams /\ OutputParams
ASSUME Predicting!HeapDepthIsNat /\ Predicting!PredictorParams

----------------------------------------------------------------------------
Some(T) == CHOOSE x \in T : TRUE

ModelsInit ==
  /\ scenario \in {"save", "exchange", "predict", "write"}
  /\ Init /\ OutputInit
  /\ scenario # "write" => path = None
  /\ IF scenario = "exchange" THEN Exchange!Init
     ELSE trained = << >> /\ file = Some(Shapes) /\ j_loaded = << >> /\ j_pc = "saved"
  /\ scenario # "predict" => p_model = Some(MCModels)
  /\ Predicting!Init

SaveAndLoad ==
  /\ scenario = "save"
  /\ Next \/ UNCHANGED file_vars
  /\ UNCHANGED << scenario, json_vars, predict_vars, output_vars >>

ReadJson ==
  /\ scenario = "exchange" /\ Exchange!Next
  /\ UNCHANGED << scenario, file_vars, predict_vars, output_vars >>

Predict ==
  /\ scenario = "predict" /\ Predicting!Next
  /\ UNCHANGED << scenario, file_vars, json_vars, output_vars >>

WritePredictions ==
  /\ scenario = "write" /\ OutputNext
  /\ UNCHANGED << scenario, file_vars, json_vars, predict_vars >>

ModelsNext == SaveAndLoad \/ ReadJson \/ Predict \/ WritePredictions

ModelsSpec ==
  /\ ModelsInit /\ [][ModelsNext]_<< scenario, file_vars, json_vars, predict_vars, output_vars >>
  \* PredictOutput!FairOutputSpec
  /\ \A c \in {c1, c2} : /\ WF_output_vars(scenario = "write" /\ Caller(c))
                         /\ WF_output_vars(scenario = "write" /\ Writer(c))

----------------------------------------------------------------------------
\* Properties

\* A model comes back from its file unchanged, files of other programs are accepted
\* exactly when their trees are trees, and predict what the file says.
ModelMeansItsFile ==
  Exchange!SavedModelsComeBack /\ Exchange!AcceptsExactlyTrees /\ Exchange!LoadedMeansTheFile

\* Each path of prediction gives every row the margins the model defines, in the
\* memory it was given.
PredictsTheModel == Predicting!PredictsTheModel /\ Predicting!StagingWithinLimits

\* Every call that writes predictions returns, for caller and writer thread never wait
\* for each other.
WritersReturn == scenario = "write" => CallsReturn
=============================================================================
