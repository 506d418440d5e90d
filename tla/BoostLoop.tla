----------------------------- MODULE BoostLoop ------------------------------
(***************************************************************************)
(* The round loop of train_with_backend (train.rs) for single-output       *)
(* objectives, with the parts of GpuTrainCtx it drives (train_ctx.rs) and  *)
(* the callbacks (callback.rs).                                            *)
(*                                                                         *)
(* Three ways of keeping the training predictions meet in this loop.       *)
(*   CPU          build_tree adds leaf values straight to `predictions`.   *)
(*   GPU, exact   leaf values go to a device buffer, are downloaded, and   *)
(*                are added to `predictions` in the pass that computes the *)
(*                NEXT round's gradients: the host owes one addition.      *)
(*   GPU, fast    the device owns the predictions; its gradient kernel     *)
(*                adds the buffer, and the host never looks.               *)
(* A prediction is the sequence of the trees added to it; a gradient is    *)
(* the prediction it was computed from.                                    *)
(***************************************************************************)
EXTENDS Integers, Sequences, FiniteSets

CONSTANTS
  Row,              \* the training rows
  NRounds,          \* params.n_rounds
  EvalSets,         \* the evaluation sets
  Scores,           \* the values a metric can take
  Callbacks,        \* the callbacks, in order
  Configs,          \* the backend configurations considered
  KeptChoices       \* the row draws considered: [1..NRounds -> SUBSET Row]

\* A callback is [kind |-> "record"] or [kind |-> "early", rounds |-> n].
\* Metrics are lower-is-better.
ASSUME LoopParams ==
  /\ Row # {} /\ NRounds \in Nat
  /\ Scores \subseteq Nat
  /\ \A k \in KeptChoices : k \in [1..NRounds -> SUBSET Row]
  /\ Len(Callbacks) \in Nat /\ DOMAIN Callbacks = 1..Len(Callbacks)
  /\ \A i \in DOMAIN Callbacks :
       \/ Callbacks[i].kind = "record"
       \/ Callbacks[i].kind = "early" /\ Callbacks[i].rounds \in Nat

VARIABLES
  config,       \* backend, gpu_math and how device quantization is asked for
  kept,         \* kept[k]: the rows row_selected draws for tree k
  pc,           \* where the loop is
  round,        \* the loop counter
  predictions,  \* the host's training predictions
  pred_resident,    \* the device's predictions (fast)
  delta,        \* prediction_delta on the device: per row a tree, 0 = zero
  delta_host,   \* prediction_host: the delta last downloaded
  pending_delta,
  gpair,        \* the f32 gradients, or the ones on the device (fast)
  quantized,    \* the fixed-point gradients build_tree reads
  built,        \* the tree being added, << >> when there is none
  trees,        \* model.trees: what each tree was built on
  eval_preds,   \* eval_preds[e]: the trees added to evaluation set e
  scores,       \* the metric of each round
  cbs,          \* the state of each callback
  best,         \* model.best_iteration, -1 = none
  error         \* why training returned an error, "none" if it did not

inputs == << config, kept >>
device == << pred_resident, delta, delta_host >>
vars == << inputs, pc, round, predictions, device, pending_delta, gpair,
           quantized, built, trees, eval_preds, scores, cbs, best, error >>

GradientOf(p) == [masked |-> FALSE, of |-> p]
Masked == [masked |-> TRUE, of |-> << >>]

----------------------------------------------------------------------------
\* The backend configuration

Gpu == config.backend = "gpu"
Fast == Gpu /\ config.math = "fast"

\* device_quantize_wanted: the explicit parameter, else the environment.
DeviceQuantizeWanted ==
  IF config.dq_param # "unset" THEN config.dq_param = "on"
                               ELSE config.dq_env = "on"

\* GpuTrainCtx::new loads the quantization kernels when device quantization is
\* wanted, and allocates their buffers when it is wanted or implied by fast.
KernelsLoaded == DeviceQuantizeWanted
BuffersAllocated == DeviceQuantizeWanted \/ Fast

\* device_quantize_enabled asks for the kernel.
DeviceQuant == Gpu /\ KernelsLoaded

----------------------------------------------------------------------------

NewCallback(c) == [def |-> c, best |-> -1, best_iteration |-> -1, since |-> 0,
                   history |-> << >>]

Init ==
  /\ config \in Configs
  /\ kept \in KeptChoices
  /\ pc = "start"
  /\ round = 1
  /\ predictions = [r \in Row |-> << >>]
  /\ pred_resident = [r \in Row |-> << >>]
  /\ delta = [r \in Row |-> 0]
  /\ delta_host = [r \in Row |-> 0]
  /\ pending_delta = FALSE
  /\ gpair = [r \in Row |-> Masked]
  /\ quantized = [r \in Row |-> Masked]
  /\ built = << >>
  /\ trees = << >>
  /\ eval_preds = [e \in EvalSets |-> << >>]
  /\ scores = << >>
  /\ cbs = [i \in DOMAIN Callbacks |-> NewCallback(Callbacks[i])]
  /\ best = -1
  /\ error = "none"

Abort(reason) ==
  /\ pc' = "error"
  /\ error' = reason

\* Adding a delta: a row whose leaf value is the zero it was cleared to keeps
\* its prediction.
Add(pred, d) ==
  [r \in Row |-> IF d[r] = 0 THEN pred[r] ELSE Append(pred[r], d[r])]

\* GpuTrainCtx::new rejects fast math with device quantization switched off.
Start ==
  /\ pc = "start"
  /\ IF Fast /\ config.dq_param = "off"
     THEN Abort("config")
     ELSE /\ pc' = IF NRounds > 0 THEN "gradient" ELSE "settle"
          /\ error' = error
  /\ UNCHANGED << inputs, round, predictions, device, pending_delta, gpair,
                  quantized, built, trees, eval_preds, scores, cbs, best >>

\* The device context, the thread pool or the labels' upload fails.
StartFails ==
  /\ pc = "start"
  /\ Abort("setup")
  /\ UNCHANGED << inputs, round, predictions, device, pending_delta, gpair,
                  quantized, built, trees, eval_preds, scores, cbs, best >>

\* Mutant: the debt is paid only after the gradients have been computed.
GradientBeforeDebt ==
  /\ pc = "gradient"
  /\ pc' = "sample"
  /\ IF Fast
     THEN UNCHANGED << predictions, pending_delta, gpair >>
     ELSE /\ predictions' = IF pending_delta THEN Add(predictions, delta_host)
                                             ELSE predictions
          /\ pending_delta' = FALSE
          /\ gpair' = [r \in Row |-> GradientOf(predictions[r])]
  /\ UNCHANGED << inputs, round, device, quantized, built, trees, eval_preds,
                  scores, cbs, best, error >>

\* The host pass over the rows: it pays the delta owed, if any, and computes
\* the gradients from the updated predictions.  Fast math skips it.
Gradient ==
  /\ pc = "gradient"
  /\ pc' = "sample"
  /\ IF Fast
     THEN UNCHANGED << predictions, pending_delta, gpair >>
     ELSE LET paid == IF pending_delta THEN Add(predictions, delta_host)
                                       ELSE predictions
          IN  /\ predictions' = paid
              /\ pending_delta' = FALSE
              /\ gpair' = [r \in Row |-> GradientOf(paid[r])]
  /\ UNCHANGED << inputs, round, device, quantized, built, trees, eval_preds,
                  scores, cbs, best, error >>

\* The delta owed cannot be read, before anything is added.
GradientFails ==
  /\ pc = "gradient" /\ ~Fast /\ pending_delta
  /\ Abort("delta")
  /\ UNCHANGED << inputs, round, predictions, device, pending_delta, gpair,
                  quantized, built, trees, eval_preds, scores, cbs, best >>

\* The gradients of the rows that were not drawn are zeroed.
Mask(g) == [r \in Row |-> IF r \in kept[round] THEN g[r] ELSE Masked]

\* Row sampling on the host, unless the device does it while quantizing.
Sample ==
  /\ pc = "sample"
  /\ pc' = "quantize"
  /\ gpair' = IF Fast \/ DeviceQuant THEN gpair ELSE Mask(gpair)
  /\ UNCHANGED << inputs, round, predictions, device, pending_delta, quantized,
                  built, trees, eval_preds, scores, cbs, best, error >>

\* Mutant: the fast kernel takes the sampling mask for a prediction mask.
FastQuantizeMasksPredictions ==
  /\ pc = "quantize" /\ Fast
  /\ pred_resident' =
       [r \in Row |-> IF r \in kept[round] THEN Add(pred_resident, delta)[r]
                                           ELSE pred_resident[r]]
  /\ gpair' = Mask([r \in Row |-> GradientOf(pred_resident'[r])])
  /\ pending_delta' = FALSE
  /\ quantized' = gpair'
  /\ pc' = "build"
  /\ UNCHANGED << inputs, round, predictions, delta, delta_host, built, trees,
                  eval_preds, scores, cbs, best, error >>

\* fast_gradient_and_quantize: one kernel adds the delta to every row's
\* resident prediction, computes the gradient and masks it; quantization then
\* needs its kernel.
FastQuantize ==
  /\ pc = "quantize" /\ Fast
  /\ pred_resident' = Add(pred_resident, delta)
  /\ gpair' = Mask([r \in Row |-> GradientOf(pred_resident'[r])])
  /\ IF KernelsLoaded
     THEN /\ quantized' = gpair'
          /\ pending_delta' = FALSE
          /\ pc' = "build"
          /\ error' = error
     ELSE /\ UNCHANGED << quantized, pending_delta >>
          /\ Abort("quantize kernel not loaded")
  /\ UNCHANGED << inputs, round, predictions, delta, delta_host, built, trees,
                  eval_preds, scores, cbs, best >>

\* upload_and_quantize_gpair_sampled: the device masks, then quantizes.
DeviceQuantize ==
  /\ pc = "quantize" /\ ~Fast /\ DeviceQuant
  /\ quantized' = Mask(gpair)
  /\ pc' = "build"
  /\ UNCHANGED << inputs, round, predictions, device, pending_delta, gpair,
                  built, trees, eval_preds, scores, cbs, best, error >>

\* Mutant: a round that leaves rows out is drawn again before it is quantized.
HostQuantizeRedraws ==
  /\ pc = "quantize" /\ ~Fast /\ ~DeviceQuant
  /\ quantized' = gpair
  /\ pc' = IF kept[round] = Row THEN "build" ELSE "sample"
  /\ UNCHANGED << inputs, round, predictions, device, pending_delta, gpair,
                  built, trees, eval_preds, scores, cbs, best, error >>

\* GradQuantizer::try_new and to_fixed on the host; upload_gpair on a GPU.
HostQuantize ==
  /\ pc = "quantize" /\ ~Fast /\ ~DeviceQuant
  /\ quantized' = gpair
  /\ pc' = "build"
  /\ UNCHANGED << inputs, round, predictions, device, pending_delta, gpair,
                  built, trees, eval_preds, scores, cbs, best, error >>

\* A gradient that is not finite, or a device call that fails.
QuantizeFails ==
  /\ pc = "quantize"
  /\ Abort("quantize")
  /\ UNCHANGED << inputs, round, predictions, device, pending_delta, gpair,
                  quantized, built, trees, eval_preds, scores, cbs, best >>

\* build_tree gives every row the value of its leaf, whether or not the row was
\* drawn: on the CPU in `predictions`, on a GPU in the delta buffer, which is
\* cleared first (begin_tree_rows) and downloaded at the end if the host owns
\* the predictions.
Build ==
  /\ pc = "build"
  /\ pc' = "eval"
  /\ built' = << quantized >>
  /\ LET leaves == [r \in Row |-> Len(trees) + 1]
     IN  IF Gpu
         THEN /\ delta' = leaves
              /\ delta_host' = IF Fast THEN delta_host ELSE leaves
              /\ pending_delta' = TRUE
              /\ predictions' = predictions
         ELSE /\ predictions' = Add(predictions, leaves)
              /\ UNCHANGED << delta, delta_host, pending_delta >>
  /\ UNCHANGED << inputs, round, pred_resident, gpair, quantized, trees,
                  eval_preds, scores, cbs, best, error >>

BuildFails ==
  /\ pc = "build"
  /\ Abort("source")
  /\ UNCHANGED << inputs, round, predictions, device, pending_delta, gpair,
                  quantized, built, trees, eval_preds, scores, cbs, best >>

\* update_predictions: every evaluation set descends the new tree, and the
\* tree joins the model.
Eval ==
  /\ pc = "eval"
  /\ eval_preds' = [e \in EvalSets |-> Append(eval_preds[e], Len(trees) + 1)]
  /\ trees' = trees \o built
  /\ built' = << >>
  /\ pc' = "callbacks"
  /\ UNCHANGED << inputs, round, predictions, device, pending_delta, gpair,
                  quantized, scores, cbs, best, error >>

EvalFails ==
  /\ pc = "eval" /\ EvalSets # {}
  /\ Abort("source")
  /\ UNCHANGED << inputs, round, predictions, device, pending_delta, gpair,
                  quantized, built, trees, eval_preds, scores, cbs, best >>

\* Mutant: a score as good as the best one counts as an improvement.
AfterIterationTies(cb, v) ==
  IF cb.def.kind = "record"
  THEN [cb EXCEPT !.history = Append(@, round)]
  ELSE IF EvalSets = {}
       THEN cb
       ELSE IF cb.best = -1 \/ v <= cb.best
            THEN [cb EXCEPT !.best = v, !.best_iteration = round, !.since = 0]
            ELSE [cb EXCEPT !.since = @ + 1]

\* after_iteration of one callback; without evaluation sets there is no metric
\* and early stopping stays out of the way.
AfterIteration(cb, v) ==
  IF cb.def.kind = "record"
  THEN [cb EXCEPT !.history = Append(@, round)]
  ELSE IF EvalSets = {}
       THEN cb
       ELSE IF cb.best = -1 \/ v < cb.best
            THEN [cb EXCEPT !.best = v, !.best_iteration = round, !.since = 0]
            ELSE [cb EXCEPT !.since = @ + 1]

KeepsGoing(cb) == cb.def.kind = "early" => (EvalSets = {} \/ cb.since < cb.def.rounds)

\* Every callback runs, even after one has asked to stop.
RunCallbacks(v) == [i \in DOMAIN cbs |-> AfterIteration(cbs[i], v)]

\* evaluate and the callbacks; any refusal to go on leaves the loop.
CallbackStep ==
  /\ pc = "callbacks"
  /\ \E v \in Scores :
       /\ scores' = Append(scores, v)
       /\ cbs' = RunCallbacks(v)
  /\ IF /\ \A i \in DOMAIN cbs : KeepsGoing(cbs'[i])
        /\ round < NRounds
     THEN /\ round' = round + 1
          /\ pc' = "gradient"
     ELSE /\ round' = round
          /\ pc' = "settle"
  /\ UNCHANGED << inputs, predictions, device, pending_delta, gpair, quantized,
                  built, trees, eval_preds, best, error >>

\* Mutant: the debt is forgiven instead of paid.
SettleForgives ==
  /\ pc = "settle"
  /\ pending_delta' = FALSE
  /\ pc' = "finish"
  /\ UNCHANGED << inputs, round, predictions, device, gpair, quantized, built,
                  trees, eval_preds, scores, cbs, best, error >>

\* The last delta is paid after the loop, so that the host's predictions are
\* not left one tree behind.  In fast mode the debt stays.
Settle ==
  /\ pc = "settle"
  /\ IF pending_delta /\ ~Fast
     THEN /\ predictions' = Add(predictions, delta_host)
          /\ pending_delta' = FALSE
     ELSE UNCHANGED << predictions, pending_delta >>
  /\ pc' = "finish"
  /\ UNCHANGED << inputs, round, device, gpair, quantized, built, trees,
                  eval_preds, scores, cbs, best, error >>

SettleFails ==
  /\ pc = "settle" /\ ~Fast /\ pending_delta
  /\ Abort("delta")
  /\ UNCHANGED << inputs, round, predictions, device, pending_delta, gpair,
                  quantized, built, trees, eval_preds, scores, cbs, best >>

\* best_iteration of the first callback that has one goes into the model.
Finish ==
  /\ pc = "finish"
  /\ best' = LET has == {i \in DOMAIN cbs : cbs[i].best # -1}
             IN  IF has = {} THEN -1
                 ELSE cbs[CHOOSE i \in has : \A j \in has : i <= j].best_iteration
  /\ pc' = "done"
  /\ UNCHANGED << inputs, round, predictions, device, pending_delta, gpair,
                  quantized, built, trees, eval_preds, scores, cbs, error >>

Terminated ==
  /\ pc \in {"done", "error"}
  /\ UNCHANGED vars

Step ==
  \/ Start \/ Gradient \/ Sample \/ FastQuantize \/ DeviceQuantize
  \/ HostQuantize \/ Build \/ Eval \/ CallbackStep \/ Settle \/ Finish

Failure ==
  \/ StartFails \/ GradientFails \/ QuantizeFails \/ BuildFails \/ EvalFails
  \/ SettleFails

Next == Step \/ Failure \/ Terminated

Spec == Init /\ [][Next]_vars

\* The loop is one thread that keeps running; calls need not fail.
FairSpec == Spec /\ WF_vars(Step)

----------------------------------------------------------------------------
\* Properties

GradientVectors == [Row -> [masked : BOOLEAN, of : Seq(1..NRounds)]]

\* The type invariant of the loop's state.
TypeOK ==
  /\ config \in Configs /\ kept \in KeptChoices
  /\ pc \in {"start", "gradient", "sample", "quantize", "build", "eval",
             "callbacks", "settle", "finish", "done", "error"}
  /\ round \in 1..(NRounds + 1)
  /\ predictions \in [Row -> Seq(1..NRounds)]
  /\ pred_resident \in [Row -> Seq(1..NRounds)]
  /\ delta \in [Row -> 0..NRounds] /\ delta_host \in [Row -> 0..NRounds]
  /\ pending_delta \in BOOLEAN
  /\ gpair \in GradientVectors /\ quantized \in GradientVectors
  /\ built \in Seq(GradientVectors) /\ Len(built) <= 1
  /\ trees \in Seq(GradientVectors) /\ Len(trees) <= NRounds
  /\ eval_preds \in [EvalSets -> Seq(1..NRounds)]
  /\ scores \in Seq(Scores)
  /\ DOMAIN cbs = DOMAIN Callbacks
  /\ best \in -1..NRounds
  /\ (pc = "error") = (error # "none")

\* The trees the model holds, and the one built but not pushed yet.
AllTrees == [k \in 1..(Len(trees) + Len(built)) |-> k]

\* What the predictions still lack: the host's debt is flagged, the device's is
\* the buffer itself, which a round consumes before it builds the next tree.
Owed ==
  IF Fast /\ pc # "build" THEN delta
  ELSE IF ~Fast /\ pending_delta THEN delta_host
  ELSE [r \in Row |-> 0]

\* Nothing is lost and nothing added twice by putting off the addition: wherever
\* the predictions live, they and what is still owed make the sum of every tree,
\* for the rows left out by sampling as for the others, and through to the last
\* step of the training.
NoTreeLost ==
  pc # "error" =>
    \A r \in Row :
      AllTrees = Add(IF Fast THEN pred_resident ELSE predictions, Owed)[r]

\* Once training has returned, predictions the host owns are up to date and
\* nothing is owed any more.
DebtPaid ==
  pc = "done" /\ ~Fast =>
    ~pending_delta /\ \A r \in Row : predictions[r] = AllTrees

\* Putting off the additions loses no tree, and none is put off for ever.
PredictionsComplete == NoTreeLost /\ DebtPaid

\* While the device owns the predictions the host's copy stays untouched, and
\* while the host owns them the device's does: two copies never both advance.
OneAuthority ==
  \A r \in Row : IF Fast THEN predictions[r] = << >> ELSE pred_resident[r] = << >>

\* The evaluation predictions, updated tree by tree, equal a prediction with
\* the whole model whenever a metric is computed from them.
EvalTracksModel ==
  pc = "callbacks" => \A e \in EvalSets : eval_preds[e] = AllTrees

\* A recording callback has one entry for each tree of the model, also for the
\* round in which another callback, earlier or later in the list, has stopped
\* the training.
EveryRoundRecorded ==
  pc = "done" => \A i \in DOMAIN cbs :
    cbs[i].def.kind = "record" => Len(cbs[i].history) = Len(trees)

\* The iteration stored in the model is the first one with the best score
\* among all rounds that ran.
BestIterationIsBest ==
  pc = "done" /\ best # -1 =>
    \A k \in DOMAIN scores :
      scores[best] < scores[k] \/ (scores[best] = scores[k] /\ best <= k)

\* Patience: training never runs more than `rounds` rounds past the best one
\* of the most impatient callback, and stops before n_rounds only when some
\* callback's patience is used up.
StopsOnTime ==
  LET early == {i \in DOMAIN cbs : cbs[i].def.kind = "early"}
      past(i) == Len(scores) - cbs[i].best_iteration
  IN  EvalSets # {} /\ pc = "done" =>
        /\ \A i \in early : scores # << >> => past(i) <= cbs[i].def.rounds
        /\ Len(scores) < NRounds => \E i \in early : past(i) = cbs[i].def.rounds

\* What the callbacks are told and conclude, from evaluation predictions to the
\* round they stop in, is what happened.
SingleOutputSeen ==
  EvalTracksModel /\ EveryRoundRecorded /\ BestIterationIsBest /\ StopsOnTime

\* Training ends, with a model or with an error.
Termination == <>(pc \in {"done", "error"})

Outcome == CASE pc = "done" -> "done" [] pc = "error" -> "failed"
             [] OTHER -> "running"

Abstract == INSTANCE Boosting WITH outcome <- Outcome

\* Whatever the backend and wherever the predictions are kept, every tree is
\* built on the gradients of exactly the trees before it, for exactly the rows
\* drawn for its round.
ImplementsBoosting == Abstract!Spec

\* sync_prediction_to_host: the device's predictions as they are.
SyncedPredictions == pred_resident

\* sync_prediction_to_host is documented for the moment after the training, when
\* the predictions of the training set are wanted: they should then be those of
\* the model.
SyncedPredictionsWhole ==
  pc = "done" /\ Fast => \A r \in Row : SyncedPredictions[r] = AllTrees

\* device_quantize_wanted is documented to decide both whether the kernels are
\* loaded and whether the buffers are allocated, "otherwise there is a
\* half-open state: buffers allocated but no kernel loaded".
NoHalfOpenState ==
  Gpu /\ pc \notin {"start", "error"} => (BuffersAllocated <=> KernelsLoaded)
=============================================================================
