--------------------------- MODULE MulticlassLoop ----------------------------
(***************************************************************************)
(* train_multiclass_rounds (train.rs): K margins per row, K trees a round. *)
(* The margins live on the host, or with gpu_math="fast" on the device,    *)
(* where each class's gradient is computed just before its tree and each   *)
(* tree's leaf values are added just after it.  A margin is the sequence   *)
(* of the rounds whose trees it contains; a gradient is the margins it was *)
(* computed from.  What BoostLoop has too is named m_ or Multi here, so    *)
(* that one run can check both loops.                                      *)
(***************************************************************************)
EXTENDS Naturals, Sequences

CONSTANTS
  MRow, NClasses, MultiRounds,   \* the training rows, the outputs, params.n_rounds
  Kepts         \* kept[r][c]: the rows that tree (r, c) may sample

Class == 0..NClasses - 1

MulticlassParams ==
  /\ NClasses \in Nat \ {0} /\ MultiRounds \in Nat
  /\ \A k \in Kepts : k \in [1..MultiRounds -> [Class -> SUBSET MRow]]

VARIABLES
  backend,      \* "cpu", "host_quant", "device_quant" or "fast"
  m_kept,
  m_round, class, m_pc,
  margins,      \* class_preds, or pred_resident: [Class -> [Row -> rounds]]
  m_delta,      \* prediction_delta: the round of the tree just built, 0 for none
  grads,        \* the gradients, or the softmax statistics, of the round's start
  m_gpair,      \* what the next tree is built on: a function on sampled rows
  eval_margins, \* eval_class_preds
  m_trees, ended

m_vars == << backend, m_kept, m_round, class, m_pc, margins, m_delta, grads, m_gpair,
             eval_margins, m_trees, ended >>

MultiInit ==
  /\ backend \in {"cpu", "host_quant", "device_quant", "fast"}
  /\ m_kept \in Kepts
  /\ m_round = 1 /\ class = 0 /\ m_pc = "round"
  /\ margins = [c \in Class |-> [r \in MRow |-> << >>]]
  /\ m_delta = 0
  /\ grads = << >> /\ m_gpair = << >>
  /\ eval_margins = [c \in Class |-> << >>]
  /\ m_trees = << >> /\ ended = FALSE

\* softmax_gradients for all classes at once, or softmax_row_stats.
BeginRound ==
  /\ m_pc = "round" /\ m_round <= MultiRounds
  /\ grads' = [r \in MRow |-> [c \in Class |-> margins[c][r]]]
  /\ m_pc' = "gradient"
  /\ UNCHANGED << backend, m_kept, m_round, class, margins, m_delta, m_gpair,
                  eval_margins, m_trees, ended >>

\* Mutant: host gradients are those of the moment, not of the round's start.
BasisOfNow(r) == [c \in Class |-> margins[c][r]]

\* The device recomputes the softmax of its class from that class's margin and
\* the statistics of the round's start.
Basis(r) == IF backend = "fast" THEN [grads[r] EXCEPT ![class] = margins[class][r]]
            ELSE grads[r]

\* The rows drawn for this tree; the key is the index of the tree.
Drawn == m_kept[m_round][class]

\* Sampling and quantization, on the host or on the device.
Quantize ==
  /\ m_pc = "gradient"
  /\ m_gpair' = [r \in Drawn |-> Basis(r)]
  /\ m_pc' = "build"
  /\ UNCHANGED << backend, m_kept, m_round, class, margins, m_delta, grads, eval_margins,
                  m_trees, ended >>

\* Mutant: only the rows the tree was built on receive its leaf values.
AddToDrawn(m, rows) == [margins EXCEPT ![class] =
                          [r \in MRow |->
                             IF r \in Drawn THEN Append(m[r], m_round) ELSE m[r]]]

AddTo(m, rows) == [margins EXCEPT ![class] =
                     [r \in MRow |-> IF r \in rows THEN Append(m[r], m_round) ELSE m[r]]]

\* build_tree: a CPU adds the leaf values itself, a GPU leaves them in the delta.
MultiBuild ==
  /\ m_pc = "build"
  /\ m_trees' = Append(m_trees, [class |-> class, basis |-> m_gpair])
  /\ IF backend = "cpu"
     THEN margins' = AddTo(margins[class], MRow) /\ m_delta' = 0
     ELSE margins' = margins /\ m_delta' = m_round
  /\ m_pc' = "apply"
  /\ UNCHANGED << backend, m_kept, m_round, class, grads, m_gpair, eval_margins, ended >>

\* with_prediction_delta, or fast_multiclass_apply_delta, at once.
ApplyDelta ==
  /\ m_pc = "apply"
  /\ margins' = IF backend = "cpu" THEN margins ELSE AddTo(margins[class], MRow)
  /\ m_delta' = 0 /\ m_pc' = "eval"
  /\ UNCHANGED << backend, m_kept, m_round, class, grads, m_gpair, eval_margins, m_trees,
                  ended >>

MultiEval ==
  /\ m_pc = "eval"
  /\ eval_margins' = [eval_margins EXCEPT ![class] = Append(@, m_round)]
  /\ IF class + 1 < NClasses THEN class' = class + 1 /\ m_pc' = "gradient"
     ELSE class' = class /\ m_pc' = "callbacks"
  /\ UNCHANGED << backend, m_kept, m_round, margins, m_delta, grads, m_gpair, m_trees,
                  ended >>

\* The metrics of the round; any callback may stop the training.
MultiCallbackStep ==
  /\ m_pc = "callbacks"
  /\ \E keep_going \in BOOLEAN :
       /\ m_pc' = IF keep_going THEN "round" ELSE "done"
       /\ ended' = ~keep_going
  /\ class' = 0 /\ m_round' = m_round + 1
  /\ UNCHANGED << backend, m_kept, margins, m_delta, grads, m_gpair, eval_margins,
                  m_trees >>

MultiFinish ==
  /\ m_pc = "round" /\ m_round > MultiRounds
  /\ m_pc' = "done" /\ ended' = TRUE
  /\ UNCHANGED << backend, m_kept, m_round, class, margins, m_delta, grads, m_gpair,
                  eval_margins, m_trees >>

\* Every step but the callbacks may return an error, which ends the training.
Fail ==
  /\ m_pc \in {"round", "gradient", "build", "apply", "eval"}
  /\ ended' = TRUE
  /\ UNCHANGED << backend, m_kept, m_round, class, m_pc, margins, m_delta, grads, m_gpair,
                  eval_margins, m_trees >>

MultiTerminated == ended /\ UNCHANGED m_vars

MultiNext ==
  \/ ~ended /\ (BeginRound \/ Quantize \/ MultiBuild \/ ApplyDelta \/ MultiEval
                \/ MultiCallbackStep \/ MultiFinish \/ Fail)
  \/ MultiTerminated

MultiSpec == MultiInit /\ [][MultiNext]_m_vars

----------------------------------------------------------------------------
\* Properties

Rounds(n) == [k \in 1..n |-> k]
Pcs == {"round", "gradient", "build", "apply", "eval", "callbacks", "done"}

\* How many trees class c has when the loop stands at (round, class).
Grown(c) ==
  IF m_pc \in {"gradient", "build"} THEN IF c < class THEN m_round ELSE m_round - 1
  ELSE IF m_pc \in {"apply", "eval"} THEN IF c <= class THEN m_round ELSE m_round - 1
  ELSE IF m_pc = "callbacks" THEN m_round ELSE m_round - 1

MultiTypeOK ==
  /\ backend \in {"cpu", "host_quant", "device_quant", "fast"}
  /\ m_kept \in Kepts
  /\ m_pc \in Pcs
  /\ m_round \in 1..MultiRounds + 1 /\ class \in Class
  /\ margins \in [Class -> [MRow -> Seq(1..MultiRounds)]]
  /\ m_delta \in 0..MultiRounds
  /\ eval_margins \in [Class -> Seq(1..MultiRounds)]
  /\ ended \in BOOLEAN /\ (m_pc = "done" => ended)

\* Between trees the margins of every class, whichever side owns them, contain
\* each of that class's trees once, for the rows that were not drawn as well,
\* and the margins of the evaluation sets contain the same trees.
MarginsComplete ==
  m_pc \in {"round", "gradient", "build", "callbacks", "done"} =>
    \A c \in Class : /\ eval_margins[c] = Rounds(Grown(c))
                     /\ \A r \in MRow : margins[c][r] = Rounds(Grown(c))
                     /\ m_delta = 0

Rounded == INSTANCE RoundBoosting WITH
  Row <- MRow, NRounds <- MultiRounds, kept <- m_kept, trees <- m_trees,
  class <- IF m_pc \in {"apply", "eval"} THEN IF class + 1 < NClasses THEN class + 1 ELSE 0
           ELSE IF m_pc = "callbacks" THEN 0 ELSE class,
  round <- IF m_pc = "callbacks" \/ (m_pc \in {"apply", "eval"} /\ class + 1 = NClasses)
           THEN m_round + 1 ELSE m_round

\* In every mode each tree is grown on the gradients of the round's start,
\* although the margins of the classes before it have already moved on, and on
\* its own draw of rows.
ImplementsRoundBoosting == Rounded!Spec
=============================================================================
