-------------------------- MODULE BoostLoopProofs ---------------------------
(***************************************************************************)
(* Proofs about the round loops.  BoostLoop, for any rows, number of       *)
(* rounds, row draws, evaluation sets, callbacks and backend               *)
(* configurations: its types, where the training predictions are, and that *)
(* the loop implements Boosting.  MulticlassLoop, for any classes: its     *)
(* margins, and that the loop implements RoundBoosting.                    *)
(***************************************************************************)
EXTENDS BoostLoop, MulticlassLoop, TLAPS, WellFoundedInduction, SequenceTheorems

----------------------------------------------------------------------------
(***************************************************************************)
(* Predictions                                                             *)
(***************************************************************************)

\* The prediction to which trees 1 to n have been added.
Upto(n) == [k \in 1..n |-> k]

LEMMA UptoType ==
  ASSUME NEW n \in Nat, NEW m \in Nat, n <= m
  PROVE  Upto(n) \in Seq(1..m) /\ Len(Upto(n)) = n
<1>1. Upto(n) \in [1..n -> 1..m]
  BY DEF Upto
<1> QED
  BY <1>1

LEMMA UptoAppend ==
  ASSUME NEW n \in Nat \ {0}
  PROVE  Append(Upto(n - 1), n) = Upto(n)
<1>1. Upto(n - 1) \in Seq(1..n) /\ Len(Upto(n - 1)) = n - 1
  BY UptoType
<1>2. Append(Upto(n - 1), n) = [k \in 1..n |-> IF k = n THEN n ELSE Upto(n - 1)[k]]
  BY <1>1
<1> QED
  BY <1>2 DEF Upto

LEMMA UptoZero == Upto(0) = << >>
BY DEF Upto

LEMMA AddType ==
  ASSUME NEW p \in [Row -> Seq(1..NRounds)], NEW d \in [Row -> 0..NRounds]
  PROVE  Add(p, d) \in [Row -> Seq(1..NRounds)]
<1>1. ASSUME NEW r \in Row
      PROVE  (IF d[r] = 0 THEN p[r] ELSE Append(p[r], d[r])) \in Seq(1..NRounds)
  <2>1. CASE d[r] = 0
    BY <2>1
  <2>2. CASE d[r] # 0
    <3>1. d[r] \in 1..NRounds /\ p[r] \in Seq(1..NRounds)
      BY <2>2, LoopParams
    <3> QED
      BY <2>2, <3>1
  <2> QED
    BY <2>1, <2>2
<1> QED
  BY <1>1 DEF Add

LEMMA MaskType ==
  ASSUME NEW g \in GradientVectors
  PROVE  Mask(g) \in GradientVectors
BY DEF Mask, Masked, GradientVectors

LEMMA GradientsType ==
  ASSUME NEW p \in [Row -> Seq(1..NRounds)]
  PROVE  [r \in Row |-> GradientOf(p[r])] \in GradientVectors
BY DEF GradientOf, GradientVectors

----------------------------------------------------------------------------
(***************************************************************************)
(* Types                                                                   *)
(***************************************************************************)

\* How far the loop is, at each of its points.
Progress ==
  /\ pc = "start" => round = 1 /\ trees = << >> /\ built = << >>
  /\ pc \in {"gradient", "sample", "quantize", "build"} =>
       round <= NRounds /\ Len(trees) = round - 1 /\ built = << >>
  /\ pc = "eval" => round <= NRounds /\ Len(trees) = round - 1 /\ Len(built) = 1
  /\ pc = "callbacks" => round <= NRounds /\ Len(trees) = round /\ built = << >>
  /\ pc \in {"settle", "finish", "done"} =>
       built = << >> /\ (Len(trees) = NRounds \/ Len(trees) > 0)

\* A callback remembers a round that has been run.
CallbacksOK ==
  \A i \in DOMAIN Callbacks :
    /\ cbs[i] = [def |-> cbs[i].def, best |-> cbs[i].best,
                 best_iteration |-> cbs[i].best_iteration,
                 since |-> cbs[i].since, history |-> cbs[i].history]
    /\ cbs[i].best_iteration \in -1..NRounds

TypeInv == TypeOK /\ Progress /\ CallbacksOK

LEMMA TypeInvInit == Init => TypeInv
<1> SUFFICES ASSUME Init PROVE TypeInv
  OBVIOUS
<1> USE LoopParams DEF Init
<1>1. /\ [r \in Row |-> << >>] \in [Row -> Seq(1..NRounds)]
      /\ [r \in Row |-> 0] \in [Row -> 0..NRounds]
      /\ [e \in EvalSets |-> << >>] \in [EvalSets -> Seq(1..NRounds)]
  OBVIOUS
<1>2. [r \in Row |-> Masked] \in GradientVectors
  BY DEF GradientVectors, Masked
<1>3. TypeOK
  <2>1. built \in Seq(GradientVectors) /\ trees \in Seq(GradientVectors)
        /\ scores \in Seq(Scores) /\ Len(built) = 0 /\ Len(trees) = 0
    OBVIOUS
  <2>2. DOMAIN cbs = DOMAIN Callbacks
    OBVIOUS
  <2>3. round \in 1..(NRounds + 1) /\ best \in -1..NRounds /\ Len(trees) <= NRounds
    BY <2>1
  <2>4. pending_delta \in BOOLEAN /\ (pc = "error") = (error # "none")
    OBVIOUS
  <2> QED
    BY <1>1, <1>2, <2>1, <2>2, <2>3, <2>4 DEF TypeOK
<1>4. Progress
  BY DEF Progress
<1>5. CallbacksOK
  BY DEF CallbacksOK, NewCallback
<1> QED
  BY <1>3, <1>4, <1>5 DEF TypeInv

\* The rounds that have been run fit; trees are numbered by them.
LEMMA TreeNumbers ==
  ASSUME TypeInv, pc \in {"build", "eval"}
  PROVE  Len(trees) + 1 \in 1..NRounds /\ Len(trees) + 1 = round
BY LoopParams, SMTT(30) DEF TypeInv, TypeOK, Progress

LEMMA TypeInvBuild ==
  ASSUME TypeInv, Build
  PROVE  TypeInv'
<1> USE LoopParams DEF TypeInv
<1>1. Len(trees) + 1 \in 1..NRounds
  BY TreeNumbers DEF Build
<1> DEFINE leaves == [r \in Row |-> Len(trees) + 1]
<1>2. leaves \in [Row -> 0..NRounds]
  BY <1>1
<1>3. \/ /\ Gpu /\ delta' = leaves /\ delta_host' \in {delta_host, leaves}
         /\ pending_delta' = TRUE /\ predictions' = predictions
      \/ /\ predictions' = Add(predictions, leaves)
         /\ UNCHANGED << delta, delta_host, pending_delta >>
  BY DEF Build
<1> HIDE DEF leaves
<1>4. /\ predictions' \in [Row -> Seq(1..NRounds)]
      /\ delta' \in [Row -> 0..NRounds] /\ delta_host' \in [Row -> 0..NRounds]
      /\ pending_delta' \in BOOLEAN
  <2>1. /\ predictions \in [Row -> Seq(1..NRounds)] /\ pending_delta \in BOOLEAN
        /\ delta \in [Row -> 0..NRounds] /\ delta_host \in [Row -> 0..NRounds]
    BY DEF TypeOK
  <2>2. Add(predictions, leaves) \in [Row -> Seq(1..NRounds)]
    BY <1>2, <2>1, AddType
  <2> QED
    BY <1>2, <1>3, <2>1, <2>2
<1>5. built' \in Seq(GradientVectors) /\ Len(built') = 1
  BY DEF Build, TypeOK
<1>6. TypeOK'
  <2>1. /\ pc' = "eval"
        /\ UNCHANGED << config, kept, round, pred_resident, gpair, quantized, trees,
                        eval_preds, scores, cbs, best, error >>
    BY DEF Build, inputs
  <2>2. pc = "build" /\ error = "none"
    BY DEF Build, TypeOK
  <2>3. /\ config' \in Configs /\ kept' \in KeptChoices /\ round' \in 1..(NRounds + 1)
        /\ pred_resident' \in [Row -> Seq(1..NRounds)]
        /\ gpair' \in GradientVectors /\ quantized' \in GradientVectors
        /\ trees' \in Seq(GradientVectors) /\ Len(trees') <= NRounds
        /\ eval_preds' \in [EvalSets -> Seq(1..NRounds)] /\ scores' \in Seq(Scores)
        /\ DOMAIN cbs' = DOMAIN Callbacks /\ best' \in -1..NRounds
    BY <2>1 DEF TypeOK
  <2>4. (pc' = "error") = (error' # "none")
    BY <2>1, <2>2
  <2> QED
    BY <1>4, <1>5, <2>1, <2>3, <2>4 DEF TypeOK
<1>7. Progress'
  BY <1>5 DEF Build, Progress, TypeOK
<1>8. CallbacksOK'
  BY DEF Build, CallbacksOK
<1> QED
  BY <1>6, <1>7, <1>8

LEMMA TypeInvEval ==
  ASSUME TypeInv, Eval
  PROVE  TypeInv'
<1> USE LoopParams DEF TypeInv
<1>1. Len(trees) + 1 \in 1..NRounds /\ Len(trees) + 1 = round
  BY TreeNumbers DEF Eval
<1>2. eval_preds' \in [EvalSets -> Seq(1..NRounds)]
  BY <1>1 DEF Eval, TypeOK
<1>3. trees' \in Seq(GradientVectors) /\ Len(trees') = round
  <2>1. /\ trees \in Seq(GradientVectors) /\ built \in Seq(GradientVectors)
        /\ Len(built) = 1 /\ trees' = trees \o built
    BY DEF Eval, TypeOK, Progress
  <2>2. trees' \in Seq(GradientVectors) /\ Len(trees') = Len(trees) + 1
    <3> DEFINE G == GradientVectors
    <3>1. trees \in Seq(G) /\ built \in Seq(G)
      BY <2>1
    <3> HIDE DEF G
    <3>2. trees \o built \in Seq(G)
      BY <3>1, ConcatProperties
    <3>3. Len(trees \o built) = Len(trees) + Len(built)
      BY <3>1, ConcatProperties
    <3>4. trees' \in Seq(G) /\ Len(trees') = Len(trees) + 1
      BY <2>1, <3>2, <3>3
    <3> QED
      BY <3>4 DEF G
  <2> QED
    BY <1>1, <2>2
<1>4. TypeOK'
  BY <1>1, <1>2, <1>3 DEF Eval, TypeOK, inputs, device
<1>5. Progress'
  BY <1>1, <1>3 DEF Eval, Progress
<1>6. CallbacksOK'
  BY DEF Eval, CallbacksOK
<1> QED
  BY <1>4, <1>5, <1>6

LEMMA TypeInvCallbackStep ==
  ASSUME TypeInv, CallbackStep
  PROVE  TypeInv'
<1> USE LoopParams DEF TypeInv
<1>1. PICK v \in Scores : scores' = Append(scores, v) /\ cbs' = RunCallbacks(v)
  BY DEF CallbackStep
<1>2. round \in 1..NRounds /\ Len(trees) = round
  BY DEF CallbackStep, TypeOK, Progress
<1>3. scores' \in Seq(Scores)
  BY <1>1 DEF TypeOK
<1>4. DOMAIN cbs' = DOMAIN Callbacks
  BY <1>1 DEF RunCallbacks, TypeOK
<1>5. ASSUME NEW i \in DOMAIN Callbacks
      PROVE  /\ cbs'[i] = [def |-> cbs'[i].def, best |-> cbs'[i].best,
                           best_iteration |-> cbs'[i].best_iteration,
                           since |-> cbs'[i].since, history |-> cbs'[i].history]
             /\ cbs'[i].best_iteration \in -1..NRounds
  <2>1. cbs'[i] = AfterIteration(cbs[i], v)
    BY <1>1 DEF RunCallbacks, TypeOK
  <2>2. /\ cbs[i] = [def |-> cbs[i].def, best |-> cbs[i].best,
                     best_iteration |-> cbs[i].best_iteration,
                     since |-> cbs[i].since, history |-> cbs[i].history]
        /\ cbs[i].best_iteration \in -1..NRounds
    BY DEF CallbacksOK
  <2>3. \/ cbs'[i] = cbs[i]
        \/ cbs'[i] = [cbs[i] EXCEPT !.history = Append(@, round)]
        \/ cbs'[i] = [cbs[i] EXCEPT !.best = v, !.best_iteration = round, !.since = 0]
        \/ cbs'[i] = [cbs[i] EXCEPT !.since = @ + 1]
    BY <2>1 DEF AfterIteration
  <2>4. CASE cbs'[i] = cbs[i]
    BY <2>2, <2>4
  <2>5. CASE cbs'[i] = [cbs[i] EXCEPT !.history = Append(@, round)]
    BY <2>2, <2>5
  <2>6. CASE cbs'[i] = [cbs[i] EXCEPT !.best = v, !.best_iteration = round,
                                      !.since = 0]
    <3>1. cbs'[i] = [def |-> cbs[i].def, best |-> v, best_iteration |-> round,
                     since |-> 0, history |-> cbs[i].history]
      BY <2>2, <2>6
    <3> QED
      BY <1>2, <3>1
  <2>7. CASE cbs'[i] = [cbs[i] EXCEPT !.since = @ + 1]
    BY <2>2, <2>7
  <2> QED
    BY <2>3, <2>4, <2>5, <2>6, <2>7
<1>6. CallbacksOK'
  BY <1>5 DEF CallbacksOK
<1>7. \/ round < NRounds /\ round' = round + 1 /\ pc' = "gradient"
      \/ round' = round /\ pc' = "settle"
  BY DEF CallbackStep
<1>8. TypeOK'
  <2>1. round' \in 1..(NRounds + 1) /\ pc' # "error" /\ pc # "error"
    BY <1>2, <1>7 DEF CallbackStep
  <2>2. UNCHANGED << inputs, predictions, device, pending_delta, gpair,
                     quantized, built, trees, eval_preds, best, error >>
    BY DEF CallbackStep
  <2>3. pc' \in {"gradient", "settle"}
    BY <1>7
  <2> QED
    BY <1>3, <1>4, <2>1, <2>2, <2>3 DEF TypeOK, inputs, device
<1>9. Progress'
  BY <1>2, <1>7 DEF CallbackStep, Progress
<1> QED
  BY <1>6, <1>8, <1>9

\* The first callback with a best iteration exists, there being one at all.
LEMMA FirstOfCallbacks ==
  ASSUME TypeOK, {i \in DOMAIN cbs : cbs[i].best # -1} # {}
  PROVE  (CHOOSE b \in {i \in DOMAIN cbs : cbs[i].best # -1} :
             \A j \in {i \in DOMAIN cbs : cbs[i].best # -1} : b <= j)
           \in {i \in DOMAIN cbs : cbs[i].best # -1}
<1> DEFINE has == {i \in DOMAIN cbs : cbs[i].best # -1}
<1>1. has \subseteq Nat
  BY LoopParams DEF TypeOK
<1> HIDE DEF has
<1>2. PICK i \in has : \A j \in has : << j, i >> \notin OpToRel(<, Nat)
  BY <1>1, NatLessThanWellFounded, WFMin DEF has
<1>3. ASSUME NEW j \in has PROVE i <= j
  <2>1. i \in Nat /\ j \in Nat
    BY <1>1
  <2>2. ~(j < i)
    BY <1>2, <2>1 DEF OpToRel
  <2> QED
    BY <2>1, <2>2
<1> QED
  BY <1>3 DEF has

LEMMA TypeInvFinish ==
  ASSUME TypeInv, Finish
  PROVE  TypeInv'
<1> USE LoopParams DEF TypeInv
<1> DEFINE has == {i \in DOMAIN cbs : cbs[i].best # -1}
<1>1. best' = IF has = {} THEN -1
              ELSE cbs[CHOOSE i \in has : \A j \in has : i <= j].best_iteration
  BY DEF Finish
<1>2. has # {} => (CHOOSE i \in has : \A j \in has : i <= j) \in has
  BY FirstOfCallbacks
<1>3. has \subseteq DOMAIN Callbacks
  BY DEF TypeOK
<1> HIDE DEF has
<1>4. best' \in -1..NRounds
  <2>1. CASE has = {}
    BY <1>1, <2>1
  <2>2. CASE has # {}
    <3> DEFINE i == CHOOSE i \in has : \A j \in has : i <= j
    <3>1. i \in has
      BY <1>2, <2>2
    <3> HIDE DEF i
    <3>2. cbs[i].best_iteration \in -1..NRounds
      BY <1>3, <3>1 DEF CallbacksOK
    <3> QED
      BY <1>1, <2>2, <3>2 DEF i
  <2> QED
    BY <2>1, <2>2
<1>5. TypeOK'
  BY <1>4 DEF Finish, TypeOK, inputs, device
<1>6. Progress' /\ CallbacksOK'
  BY DEF Finish, Progress, CallbacksOK
<1> QED
  BY <1>5, <1>6

LEMMA TypeInvGradient ==
  ASSUME TypeInv, Gradient
  PROVE  TypeInv'
<1> USE LoopParams DEF TypeInv
<1>1. CASE Fast
  BY <1>1 DEF Gradient, TypeOK, Progress, CallbacksOK, inputs, device
<1>2. CASE ~Fast
  <2> DEFINE paid == IF pending_delta THEN Add(predictions, delta_host)
                                      ELSE predictions
  <2>1. /\ predictions' = paid /\ pending_delta' = FALSE
        /\ gpair' = [r \in Row |-> GradientOf(paid[r])]
    BY <1>2 DEF Gradient
  <2>2. paid \in [Row -> Seq(1..NRounds)]
    BY AddType DEF TypeOK
  <2> HIDE DEF paid
  <2>3. gpair' \in GradientVectors
    BY <2>1, <2>2, GradientsType
  <2>4. TypeOK'
    BY <2>1, <2>2, <2>3 DEF Gradient, TypeOK, inputs, device
  <2>5. Progress' /\ CallbacksOK'
    BY DEF Gradient, Progress, CallbacksOK
  <2> QED
    BY <2>4, <2>5
<1> QED
  BY <1>1, <1>2

LEMMA TypeInvFastQuantize ==
  ASSUME TypeInv, FastQuantize
  PROVE  TypeInv'
<1> USE LoopParams DEF TypeInv
<1>1. /\ pred_resident' = Add(pred_resident, delta)
      /\ gpair' = Mask([r \in Row |-> GradientOf(pred_resident'[r])])
  BY DEF FastQuantize
<1>2. pred_resident' \in [Row -> Seq(1..NRounds)]
  BY <1>1, AddType DEF TypeOK
<1>3. gpair' \in GradientVectors
  BY <1>1, <1>2, GradientsType, MaskType
<1>4. TypeOK'
  BY <1>2, <1>3 DEF FastQuantize, Abort, TypeOK, inputs
<1>5. Progress' /\ CallbacksOK'
  BY DEF FastQuantize, Abort, Progress, CallbacksOK
<1> QED
  BY <1>4, <1>5

\* The other steps move data around without making any.
LEMMA TypeInvOther ==
  ASSUME TypeInv,
         \/ Start \/ Sample \/ DeviceQuantize \/ HostQuantize \/ Settle
         \/ Failure \/ Terminated \/ UNCHANGED vars
  PROVE  TypeInv'
<1> USE LoopParams DEF TypeInv
<1>1. CASE Start
  BY <1>1 DEF Start, Abort, TypeOK, Progress, CallbacksOK, inputs, device
<1>2. CASE Sample
  <2>1. gpair' \in GradientVectors
    BY <1>2, MaskType DEF Sample, TypeOK
  <2> QED
    BY <1>2, <2>1 DEF Sample, TypeOK, Progress, CallbacksOK, inputs, device
<1>3. CASE DeviceQuantize
  <2>1. quantized' \in GradientVectors
    BY <1>3, MaskType DEF DeviceQuantize, TypeOK
  <2> QED
    BY <1>3, <2>1 DEF DeviceQuantize, TypeOK, Progress, CallbacksOK, inputs, device
<1>4. CASE HostQuantize
  BY <1>4 DEF HostQuantize, TypeOK, Progress, CallbacksOK, inputs, device
<1>5. CASE Settle
  <2>1. predictions' \in [Row -> Seq(1..NRounds)] /\ pending_delta' \in BOOLEAN
    <3>1. \/ predictions' = Add(predictions, delta_host) /\ pending_delta' = FALSE
          \/ predictions' = predictions /\ pending_delta' = pending_delta
      BY <1>5 DEF Settle
    <3>2. Add(predictions, delta_host) \in [Row -> Seq(1..NRounds)]
      BY AddType DEF TypeOK
    <3> QED
      BY <3>1, <3>2 DEF TypeOK
  <2> QED
    BY <1>5, <2>1 DEF Settle, TypeOK, Progress, CallbacksOK, inputs, device
<1>6. CASE Failure
  BY <1>6 DEF Failure, StartFails, GradientFails,
         QuantizeFails, BuildFails, EvalFails, SettleFails, Abort, TypeOK,
              Progress, CallbacksOK, inputs, device
<1>7. CASE Terminated \/ UNCHANGED vars
  BY <1>7 DEF Terminated, vars, TypeOK, Progress, CallbacksOK, inputs, device
<1> QED
  BY <1>1, <1>2, <1>3, <1>4, <1>5, <1>6, <1>7

LEMMA TypeInvNext == TypeInv /\ [Next]_vars => TypeInv'
BY TypeInvBuild, TypeInvEval, TypeInvCallbackStep, TypeInvFinish,
   TypeInvGradient, TypeInvFastQuantize, TypeInvOther DEF Next, Step

\* The loop's state is well typed in every configuration, and the best
\* iteration it stores is -1 or a round.
THEOREM TypeCorrect == Spec => []TypeOK
<1>1. Spec => []TypeInv
  BY TypeInvInit, TypeInvNext, PTL DEF Spec
<1>2. TypeInv => TypeOK
  BY DEF TypeInv
<1> QED
  BY <1>1, <1>2, PTL

----------------------------------------------------------------------------
(***************************************************************************)
(* Where the predictions are                                               *)
(***************************************************************************)

Total == Len(trees) + Len(built)

\* The host's debt: none while a tree is built, none on a CPU, none at the end.
DebtInv ==
  /\ ~Gpu => ~pending_delta
  /\ ~Fast /\ pc \in {"sample", "quantize", "build", "finish", "done"} =>
       ~pending_delta

\* The host's predictions lack exactly the tree whose delta is pending.
HostInv ==
  ~Fast /\ pc # "error" =>
    \A r \in Row :
      IF pending_delta
      THEN Total > 0 /\ delta_host[r] = Total /\ predictions[r] = Upto(Total - 1)
      ELSE predictions[r] = Upto(Total)

\* The device's lack exactly the tree in the delta buffer, except between the
\* fast gradient kernel and the end of the next build.
DeviceInv ==
  Fast /\ pc # "error" =>
    \A r \in Row :
      IF pc = "build" THEN pred_resident[r] = Upto(Total)
      ELSE \/ Total = 0 /\ delta[r] = 0 /\ pred_resident[r] = Upto(0)
           \/ Total > 0 /\ delta[r] = Total /\ pred_resident[r] = Upto(Total - 1)

PredInv == OneAuthority /\ DebtInv /\ HostInv /\ DeviceInv

LEMMA TotalType == TypeInv => Total \in Nat
BY DEF TypeInv, TypeOK, Total

LEMMA LastTree ==
  ASSUME TypeInv, Total > 0
  PROVE  Append(Upto(Total - 1), Total) = Upto(Total)
<1>1. Total \in Nat \ {0}
  BY TotalType
<1> QED
  BY <1>1, UptoAppend

LEMMA PredInvInit == Init => PredInv
BY UptoZero DEF Init, PredInv, OneAuthority, DebtInv, HostInv, DeviceInv, Total

LEMMA PredInvGradient ==
  ASSUME TypeInv, PredInv, Gradient
  PROVE  PredInv'
<1> USE DEF PredInv
<1>1. /\ pc = "gradient" /\ pc' = "sample" /\ Total' = Total
      /\ UNCHANGED << config, pred_resident, delta, delta_host >>
  BY DEF Gradient, Total, inputs, device
<1>2. CASE Fast
  BY <1>1, <1>2 DEF Gradient, OneAuthority, DebtInv, HostInv, DeviceInv, Fast, Gpu
<1>3. CASE ~Fast
  <2>1. /\ predictions' = IF pending_delta THEN Add(predictions, delta_host)
                                           ELSE predictions
        /\ pending_delta' = FALSE
    BY <1>3 DEF Gradient
  <2>2. \A r \in Row : predictions'[r] = Upto(Total)
    <3> TAKE r \in Row
    <3>1. CASE pending_delta
      <4>1. Total > 0 /\ delta_host[r] = Total /\ predictions[r] = Upto(Total - 1)
        BY <1>1, <1>3, <3>1 DEF HostInv
      <4>2. predictions'[r] = Append(predictions[r], Total)
        BY <2>1, <3>1, <4>1, TotalType DEF Add
      <4> QED
        BY <4>1, <4>2, LastTree
    <3>2. CASE ~pending_delta
      BY <1>1, <1>3, <2>1, <3>2 DEF HostInv
    <3> QED
      BY <3>1, <3>2
  <2> QED
    BY <1>1, <1>3, <2>1, <2>2 DEF OneAuthority, DebtInv, HostInv, DeviceInv, Fast, Gpu
<1> QED
  BY <1>2, <1>3

LEMMA PredInvFastQuantize ==
  ASSUME TypeInv, PredInv, FastQuantize
  PROVE  PredInv'
<1> USE DEF PredInv
<1>1. /\ pc = "quantize" /\ Fast /\ pc' \in {"build", "error"} /\ Total' = Total
      /\ pred_resident' = Add(pred_resident, delta)
      /\ UNCHANGED << config, predictions, delta >>
  BY DEF FastQuantize, Abort, Total, inputs
<1>2. \A r \in Row : pred_resident'[r] = Upto(Total)
  <2> TAKE r \in Row
  <2>1. CASE Total = 0 /\ delta[r] = 0 /\ pred_resident[r] = Upto(0)
    BY <1>1, <2>1 DEF Add
  <2>2. CASE Total > 0 /\ delta[r] = Total /\ pred_resident[r] = Upto(Total - 1)
    <3>1. pred_resident'[r] = Append(pred_resident[r], Total)
      BY <1>1, <2>2, TotalType DEF Add
    <3> QED
      BY <2>2, <3>1, LastTree
  <2> QED
    BY <1>1, <2>1, <2>2 DEF DeviceInv
<1> QED
  BY <1>1, <1>2 DEF OneAuthority, DebtInv, HostInv, DeviceInv, Fast, Gpu

LEMMA PredInvBuild ==
  ASSUME TypeInv, PredInv, Build
  PROVE  PredInv'
<1> USE DEF PredInv
<1>1. /\ pc = "build" /\ pc' = "eval" /\ built = << >> /\ Len(built') = 1
      /\ UNCHANGED << config, pred_resident, trees >>
  BY DEF Build, TypeInv, Progress, inputs
<1>2. Total \in Nat /\ Total = Len(trees) /\ Total' = Total + 1
  BY <1>1, TotalType DEF Total, TypeInv, TypeOK
<1> DEFINE leaves == [r \in Row |-> Len(trees) + 1]
<1>3. \A r \in Row : leaves[r] = Total + 1
  BY <1>2
<1>4. IF Gpu
      THEN /\ delta' = leaves /\ delta_host' = (IF Fast THEN delta_host ELSE leaves)
           /\ pending_delta' = TRUE /\ predictions' = predictions
      ELSE /\ predictions' = Add(predictions, leaves)
           /\ UNCHANGED << delta, delta_host, pending_delta >>
  BY DEF Build
<1> HIDE DEF leaves
<1>5. CASE Fast
  <2>1. Gpu /\ Fast'
    BY <1>1, <1>5 DEF Fast, Gpu
  <2>2. \A r \in Row : delta'[r] = Total' /\ pred_resident'[r] = Upto(Total' - 1)
    BY <1>1, <1>2, <1>3, <1>4, <1>5, <2>1 DEF DeviceInv
  <2> QED
    BY <1>1, <1>2, <1>4, <1>5, <2>1, <2>2
       DEF OneAuthority, DebtInv, HostInv, DeviceInv, Gpu
<1>6. CASE ~Fast /\ Gpu
  <2>1. ~Fast' /\ Gpu'
    BY <1>1, <1>6 DEF Fast, Gpu
  <2>2. \A r \in Row : delta_host'[r] = Total' /\ predictions'[r] = Upto(Total' - 1)
    BY <1>1, <1>2, <1>3, <1>4, <1>6 DEF HostInv, DebtInv
  <2> QED
    BY <1>1, <1>2, <1>4, <1>6, <2>1, <2>2
       DEF OneAuthority, DebtInv, HostInv, DeviceInv
<1>7. CASE ~Gpu
  <2>1. ~Fast /\ ~Fast' /\ ~Gpu'
    BY <1>1, <1>7 DEF Fast, Gpu
  <2>2. \A r \in Row : predictions'[r] = Upto(Total')
    <3> TAKE r \in Row
    <3>1. predictions[r] = Upto(Total)
      BY <1>1, <1>7, <2>1 DEF HostInv, DebtInv
    <3>2. predictions'[r] = Append(predictions[r], Total + 1)
      BY <1>2, <1>3, <1>4, <1>7 DEF Add
    <3>3. Total + 1 \in Nat \ {0} /\ (Total + 1) - 1 = Total
      BY <1>2
    <3>4. Append(Upto((Total + 1) - 1), Total + 1) = Upto(Total + 1)
      BY <3>3, UptoAppend
    <3> QED
      BY <1>2, <3>1, <3>2, <3>3, <3>4
  <2> QED
    BY <1>1, <1>4, <1>7, <2>1, <2>2
       DEF OneAuthority, DebtInv, HostInv, DeviceInv
<1> QED
  BY <1>5, <1>6, <1>7

LEMMA PredInvSettle ==
  ASSUME TypeInv, PredInv, Settle
  PROVE  PredInv'
<1> USE DEF PredInv
<1>1. /\ pc = "settle" /\ pc' = "finish" /\ Total' = Total
      /\ UNCHANGED << config, pred_resident, delta, delta_host >>
  BY DEF Settle, Total, inputs, device
<1>2. CASE pending_delta /\ ~Fast
  <2>1. predictions' = Add(predictions, delta_host) /\ pending_delta' = FALSE
    BY <1>2 DEF Settle
  <2>2. \A r \in Row : predictions'[r] = Upto(Total)
    <3> TAKE r \in Row
    <3>1. Total > 0 /\ delta_host[r] = Total /\ predictions[r] = Upto(Total - 1)
      BY <1>1, <1>2 DEF HostInv
    <3>2. predictions'[r] = Append(predictions[r], Total)
      BY <2>1, <3>1, TotalType DEF Add
    <3> QED
      BY <3>1, <3>2, LastTree
  <2> QED
    BY <1>1, <1>2, <2>1, <2>2 DEF OneAuthority, DebtInv, HostInv, DeviceInv, Fast, Gpu
<1>3. CASE ~(pending_delta /\ ~Fast)
  <2>1. UNCHANGED << predictions, pending_delta >>
    BY <1>3 DEF Settle
  <2> QED
    BY <1>1, <1>3, <2>1 DEF OneAuthority, DebtInv, HostInv, DeviceInv, Fast, Gpu
<1> QED
  BY <1>2, <1>3

\* The rest of a round, and a failure, add nothing to a prediction.
LEMMA PredInvOther ==
  ASSUME TypeInv, PredInv,
         \/ Start \/ Sample \/ DeviceQuantize \/ HostQuantize \/ Eval
         \/ CallbackStep \/ Finish \/ Failure \/ Terminated \/ UNCHANGED vars
  PROVE  PredInv'
<1> USE DEF PredInv
<1>1. UNCHANGED << config, predictions, pred_resident, delta, delta_host,
                   pending_delta >>
  BY DEF Start, Sample, DeviceQuantize, HostQuantize, Eval, CallbackStep, Finish,
         Failure, StartFails, GradientFails,
         QuantizeFails, BuildFails, EvalFails, SettleFails, Terminated, vars, inputs,
         device
<1>2. Total' = Total
  <2>1. CASE Eval
    <3>1. /\ trees \in Seq(GradientVectors) /\ built \in Seq(GradientVectors)
          /\ trees' = trees \o built /\ built' = << >>
      BY <2>1 DEF Eval, TypeInv, TypeOK
    <3>2. Len(trees') = Len(trees) + Len(built) /\ Len(built') = 0
      BY <3>1, ConcatProperties
    <3>3. Len(trees) \in Nat /\ Len(built) \in Nat
      BY <3>1
    <3> QED
      BY <3>2, <3>3 DEF Total
  <2>2. CASE ~Eval
    BY <2>2 DEF Start, Sample, DeviceQuantize, HostQuantize, CallbackStep, Finish,
         Failure, StartFails, GradientFails,
         QuantizeFails, BuildFails, EvalFails, SettleFails, Terminated, vars, Total
  <2> QED
    BY <2>1, <2>2
<1>3. /\ pc = "build" => pc' \in {"build", "error"}
      /\ pc' = "build" => pc = "build" \/ ~Fast
      /\ pc = "error" => pc' = "error"
      /\ ~Fast /\ pc' \in {"sample", "quantize", "build", "finish", "done"} =>
           pc \in {"sample", "quantize", "build", "finish", "done"}
  BY DEF Start, Sample, DeviceQuantize, HostQuantize, Eval, CallbackStep, Finish,
         Failure, StartFails, GradientFails,
         QuantizeFails, BuildFails, EvalFails, SettleFails, Terminated, vars, Abort
<1>4. (Fast' <=> Fast) /\ (Gpu' <=> Gpu)
  BY <1>1 DEF Fast, Gpu
<1>5. OneAuthority' /\ DebtInv'
  BY <1>1, <1>3, <1>4 DEF OneAuthority, DebtInv
<1>6. HostInv'
  BY <1>1, <1>2, <1>3, <1>4 DEF HostInv
<1>7. DeviceInv'
  BY <1>1, <1>2, <1>3, <1>4 DEF DeviceInv
<1> QED
  BY <1>5, <1>6, <1>7

LEMMA PredInvNext == TypeInv /\ PredInv /\ [Next]_vars => PredInv'
BY PredInvGradient, PredInvFastQuantize, PredInvBuild, PredInvSettle,
   PredInvOther DEF Next, Step

LEMMA SpecInvariants == Spec => [](TypeInv /\ PredInv)
BY TypeInvInit, TypeInvNext, PredInvInit, PredInvNext, PTL DEF Spec

\* Wherever the predictions live, they and the addition still owed make the sum
\* of all trees so far, in every configuration.
THEOREM NoTreeIsLost == Spec => []NoTreeLost
<1>1. TypeInv /\ PredInv => NoTreeLost
  <2> SUFFICES ASSUME TypeInv, PredInv, pc # "error", NEW r \in Row
               PROVE  AllTrees = Add(IF Fast THEN pred_resident ELSE predictions,
                                     Owed)[r]
    BY DEF NoTreeLost
  <2>1. AllTrees = Upto(Total) /\ Total \in Nat
    BY TotalType DEF AllTrees, Upto, Total
  <2>2. CASE Fast /\ pc = "build"
    <3>1. Owed[r] = 0 /\ pred_resident[r] = Upto(Total)
      BY <2>2 DEF Owed, PredInv, DeviceInv
    <3> QED
      BY <2>1, <2>2, <3>1 DEF Add
  <2>3. CASE Fast /\ pc # "build"
    <3>1. Owed = delta
      BY <2>3 DEF Owed
    <3>2. CASE Total = 0 /\ delta[r] = 0 /\ pred_resident[r] = Upto(0)
      BY <2>1, <2>3, <3>1, <3>2 DEF Add
    <3>3. CASE Total > 0 /\ delta[r] = Total /\ pred_resident[r] = Upto(Total - 1)
      BY <2>1, <2>3, <3>1, <3>3, LastTree DEF Add
    <3> QED
      BY <2>3, <3>2, <3>3 DEF PredInv, DeviceInv
  <2>4. CASE ~Fast /\ pending_delta
    <3>1. Owed = delta_host
      BY <2>4 DEF Owed
    <3>2. Total > 0 /\ delta_host[r] = Total /\ predictions[r] = Upto(Total - 1)
      BY <2>4 DEF PredInv, HostInv
    <3> QED
      BY <2>1, <2>4, <3>1, <3>2, LastTree DEF Add
  <2>5. CASE ~Fast /\ ~pending_delta
    <3>1. Owed[r] = 0 /\ predictions[r] = Upto(Total)
      BY <2>5 DEF Owed, PredInv, HostInv
    <3> QED
      BY <2>1, <2>5, <3>1 DEF Add
  <2> QED
    BY <2>2, <2>3, <2>4, <2>5
<1> QED
  BY <1>1, SpecInvariants, PTL

\* Two copies of the predictions never both advance.
THEOREM OneAuthorityOnly == Spec => []OneAuthority
<1>1. PredInv => OneAuthority
  BY DEF PredInv
<1> QED
  BY <1>1, SpecInvariants, PTL

\* When training returns, predictions that the host owns lack nothing.
THEOREM DebtIsPaid == Spec => []DebtPaid
<1>1. TypeInv /\ PredInv => DebtPaid
  BY TotalType DEF PredInv, DebtInv, HostInv, DebtPaid, AllTrees, Upto, Total
<1> QED
  BY <1>1, SpecInvariants, PTL

\* Both: the additions that Gradient, FastQuantize and Settle put off lose no tree and are
\* all made in the end.
THEOREM PredictionsAreComplete == Spec => []PredictionsComplete
<1>1. NoTreeLost /\ DebtPaid => PredictionsComplete
  BY DEF PredictionsComplete
<1> QED
  BY <1>1, NoTreeIsLost, DebtIsPaid, PTL

----------------------------------------------------------------------------
(***************************************************************************)
(* What the trees are built on                                             *)
(***************************************************************************)

\* The gradients of the trees before this round's, of all rows and of the rows
\* drawn for it.
FullGradients == [r \in Row |-> GradientOf(Upto(round - 1))]
Expected == Mask(FullGradients)

\* Every backend turns the full gradients into the expected ones somewhere on
\* the way from the gradient pass to the tree builder.
GradInv ==
  /\ pc = "sample" /\ ~Fast => gpair = FullGradients
  /\ pc = "quantize" /\ ~Fast =>
       gpair = IF DeviceQuant THEN FullGradients ELSE Expected
  /\ pc = "build" => quantized = Expected
  /\ pc = "eval" => built = << Expected >>

LEMMA GradInvInit == Init => GradInv
BY DEF Init, GradInv

LEMMA GradInvGradient ==
  ASSUME TypeInv, PredInv', Gradient
  PROVE  GradInv'
<1>1. /\ pc = "gradient" /\ pc' = "sample" /\ round' = round /\ config' = config
      /\ Total' = Len(trees) + Len(built) /\ Len(trees) = round - 1 /\ built = << >>
  BY DEF Gradient, TypeInv, Progress, Total, inputs
<1>2. Total' = round - 1
  BY <1>1 DEF TypeInv, TypeOK
<1>3. CASE Fast
  BY <1>1, <1>3 DEF GradInv, Fast, Gpu
<1>4. CASE ~Fast
  <2>1. gpair' = [r \in Row |-> GradientOf(predictions'[r])] /\ ~pending_delta'
    BY <1>4 DEF Gradient
  <2>2. \A r \in Row : predictions'[r] = Upto(Total')
    BY <1>1, <1>4, <2>1 DEF PredInv, HostInv, Fast, Gpu
  <2>3. gpair' = [r \in Row |-> GradientOf(Upto(round - 1))]
    BY <1>2, <2>1, <2>2
  <2> QED
    BY <1>1, <2>3 DEF GradInv, FullGradients
<1> QED
  BY <1>3, <1>4

LEMMA GradInvSample ==
  ASSUME GradInv, Sample
  PROVE  GradInv'
<1>1. /\ pc = "sample" /\ pc' = "quantize"
      /\ round' = round /\ kept' = kept /\ config' = config
      /\ gpair' = IF Fast \/ DeviceQuant THEN gpair ELSE Mask(gpair)
  BY DEF Sample, inputs
<1>2. (Fast' <=> Fast) /\ (DeviceQuant' <=> DeviceQuant)
  BY <1>1 DEF Fast, Gpu, DeviceQuant, KernelsLoaded, DeviceQuantizeWanted
<1>3. FullGradients' = FullGradients /\ Expected' = Expected
  BY <1>1 DEF FullGradients, Expected, Mask
<1> QED
  BY <1>1, <1>2, <1>3 DEF GradInv, Expected

LEMMA GradInvFastQuantize ==
  ASSUME TypeInv, PredInv', FastQuantize
  PROVE  GradInv'
<1>1. /\ pc = "quantize" /\ round' = round /\ kept' = kept /\ config' = config
      /\ Total' = Len(trees) + Len(built) /\ Len(trees) = round - 1 /\ built = << >>
      /\ gpair' = Mask([r \in Row |-> GradientOf(pred_resident'[r])])
      /\ Fast
  BY DEF FastQuantize, TypeInv, Progress, Total, inputs
<1>2. Total' = round - 1
  BY <1>1 DEF TypeInv, TypeOK
<1>3. CASE pc' = "build"
  <2>1. \A r \in Row : pred_resident'[r] = Upto(round - 1)
    BY <1>1, <1>2, <1>3 DEF PredInv, DeviceInv, Fast, Gpu
  <2>2. [r \in Row |-> GradientOf(pred_resident'[r])] = FullGradients
    BY <2>1 DEF FullGradients
  <2>3. quantized' = Mask(FullGradients)
    BY <1>1, <1>3, <2>2 DEF FastQuantize, Abort
  <2>4. Mask(FullGradients) = Expected'
    BY <1>1 DEF FullGradients, Expected, Mask
  <2> QED
    BY <1>3, <2>3, <2>4 DEF GradInv
<1>4. CASE pc' = "error"
  BY <1>4 DEF GradInv
<1> QED
  BY <1>3, <1>4 DEF FastQuantize, Abort

LEMMA GradInvQuantizeBuild ==
  ASSUME GradInv, TypeInv, DeviceQuantize \/ HostQuantize \/ Build
  PROVE  GradInv'
<1>1. /\ round' = round /\ kept' = kept /\ config' = config
  BY DEF DeviceQuantize, HostQuantize, Build, inputs
<1>2. FullGradients' = FullGradients /\ Expected' = Expected
  BY <1>1 DEF FullGradients, Expected, Mask
<1>3. CASE DeviceQuantize
  BY <1>2, <1>3 DEF GradInv, DeviceQuantize, Expected
<1>4. CASE HostQuantize
  BY <1>2, <1>4 DEF GradInv, HostQuantize
<1>5. CASE Build
  BY <1>2, <1>5 DEF GradInv, Build
<1> QED
  BY <1>3, <1>4, <1>5

LEMMA GradInvOther ==
  ASSUME GradInv,
         \/ Start \/ Eval \/ CallbackStep \/ Settle \/ Finish \/ Failure
         \/ Terminated \/ UNCHANGED vars
  PROVE  GradInv'
<1>1. CASE UNCHANGED vars \/ Terminated
  <2>1. UNCHANGED vars
    BY <1>1 DEF Terminated
  <2>2. /\ FullGradients' = FullGradients /\ Expected' = Expected
        /\ (Fast' <=> Fast) /\ (DeviceQuant' <=> DeviceQuant)
    BY <2>1 DEF vars, inputs, FullGradients, Expected, Mask, Fast, Gpu,
                DeviceQuant, KernelsLoaded, DeviceQuantizeWanted
  <2> QED
    BY <2>1, <2>2 DEF vars, GradInv
<1>2. CASE Start \/ Eval \/ CallbackStep \/ Settle \/ Finish \/ Failure
  <2>1. pc' \notin {"sample", "quantize", "build", "eval"}
    BY <1>2 DEF Start, Eval, CallbackStep, Settle, Finish, Failure, StartFails, GradientFails,
         QuantizeFails, BuildFails, EvalFails, SettleFails, Abort
  <2> QED
    BY <2>1 DEF GradInv
<1> QED
  BY <1>1, <1>2

LEMMA GradInvNext ==
  TypeInv /\ PredInv /\ GradInv /\ [Next]_vars => GradInv'
BY PredInvNext, GradInvGradient, GradInvSample, GradInvFastQuantize,
   GradInvQuantizeBuild, GradInvOther DEF Next, Step

\* A finished round pushes the tree that Boosting's Round builds.
LEMMA EvalIsRound ==
  ASSUME TypeInv, GradInv, Eval
  PROVE  Abstract!Round
<1>1. /\ pc = "eval" /\ pc' = "callbacks" /\ kept' = kept
      /\ trees' = trees \o built /\ built = << Expected >>
      /\ Len(trees) = round - 1 /\ round <= NRounds
      /\ trees \in Seq(GradientVectors) /\ Len(trees) \in Nat /\ round \in Nat
  BY LoopParams DEF Eval, GradInv, TypeInv, TypeOK, Progress, inputs
<1>2. trees' = Append(trees, Expected)
  <2>1. built \in Seq(GradientVectors) /\ Expected \in GradientVectors
    BY <1>1 DEF TypeInv, TypeOK
  <2> QED
    BY <1>1, <2>1, AppendIsConcat
<1>3. Expected = [r \in Row |-> IF r \in kept[Len(trees) + 1]
                                THEN Abstract!GradientOf(Abstract!Sum(Len(trees)))
                                ELSE Abstract!Masked]
  <2>1. Len(trees) + 1 = round /\ Abstract!Sum(Len(trees)) = Upto(round - 1)
    BY <1>1 DEF Abstract!Sum, Upto
  <2> QED
    BY <2>1 DEF Expected, FullGradients, Mask, GradientOf, Masked,
                Abstract!GradientOf, Abstract!Masked
<1>4. Outcome = "running" /\ Outcome' = "running"
  BY <1>1 DEF Outcome
<1>5. trees' = Append(trees,
        [r \in Row |-> IF r \in kept[Len(trees) + 1]
                       THEN Abstract!GradientOf(Abstract!Sum(Len(trees)))
                       ELSE Abstract!Masked])
  BY <1>2, <1>3
<1>6. Len(trees) < NRounds
  BY <1>1, LoopParams
<1> QED
  BY <1>1, <1>4, <1>5, <1>6 DEF Abstract!Round

\* Every other step leaves the model alone, or ends the training.
LEMMA StepIsBoosting ==
  ASSUME TypeInv, GradInv, [Next]_vars
  PROVE  [Abstract!Next]_<< kept, trees, Outcome >>
<1>1. CASE Eval
  BY <1>1, EvalIsRound DEF Abstract!Next
<1>2. CASE Finish
  <2>1. /\ Outcome = "running" /\ Outcome' = "done" /\ UNCHANGED << kept, trees >>
        /\ Len(trees) = NRounds \/ Len(trees) > 0
    BY <1>2 DEF Finish, Outcome, TypeInv, Progress, inputs
  <2>2. Len(trees) = NRounds \/ trees # << >>
    BY <2>1
  <2> QED
    BY <2>1, <2>2 DEF Abstract!Next, Abstract!Stop
<1>3. CASE Terminated \/ UNCHANGED vars
  BY <1>3 DEF Terminated, vars, inputs, Outcome
<1>4. CASE Failure \/ Start \/ Gradient \/ Sample \/ FastQuantize \/ DeviceQuantize
           \/ HostQuantize \/ Build \/ CallbackStep \/ Settle
  <2>1. /\ UNCHANGED << kept, trees >> /\ pc \notin {"done", "error"}
        /\ pc' # "done"
    BY <1>4 DEF Failure, StartFails, GradientFails,
         QuantizeFails, BuildFails, EvalFails, SettleFails, Start, Gradient,
        Sample, FastQuantize, DeviceQuantize, HostQuantize, Build, CallbackStep,
        Settle, Abort, inputs
  <2>2. Outcome = "running" /\ Outcome' \in {"running", "failed"}
    BY <2>1 DEF Outcome
  <2> QED
    BY <2>1, <2>2 DEF Abstract!Next, Abstract!Fail
<1> QED
  BY <1>1, <1>2, <1>3, <1>4 DEF Next, Step

\* The round loop implements Boosting: in every configuration each tree is built
\* on the gradients of exactly its predecessors, for the rows drawn.
THEOREM LoopImplementsBoosting == Spec => ImplementsBoosting
<1>1. Init => Abstract!Init
  BY DEF Init, Abstract!Init, Outcome
<1>2. Spec => [](TypeInv /\ PredInv /\ GradInv)
  BY TypeInvInit, TypeInvNext, PredInvInit, PredInvNext, GradInvInit, GradInvNext,
     PTL DEF Spec
<1>3. TypeInv /\ GradInv /\ [Next]_vars =>
        [Abstract!Next]_<< kept, trees, Outcome >>
  BY StepIsBoosting
<1> QED
  BY <1>1, <1>2, <1>3, PTL DEF Spec, ImplementsBoosting, Abstract!Spec

----------------------------------------------------------------------------
(***************************************************************************)
(* What evaluation and the callbacks see                                   *)
(***************************************************************************)

\* What an early stopping remembers after the scores s: the first of the best ones, and
\* how long ago it was.
Remembers(cb, s) ==
  IF s = << >> THEN cb.best = -1 /\ cb.since = 0
  ELSE /\ cb.best_iteration \in 1..Len(s) /\ cb.best = s[cb.best_iteration]
       /\ \A k \in 1..Len(s) :
            cb.best < s[k] \/ (cb.best = s[k] /\ cb.best_iteration <= k)
       /\ cb.since = Len(s) - cb.best_iteration

\* Without evaluation sets there is no metric, and nothing to remember.
Watches(i) == Callbacks[i].kind = "early" /\ EvalSets # {}

Stopping == {"settle", "finish", "done"}

CallbackInv(i) ==
  /\ cbs[i].def = Callbacks[i]
  /\ Callbacks[i].kind = "record" =>
       cbs[i].history \in Seq(Nat) /\ Len(cbs[i].history) = Len(scores)
  /\ IF Watches(i) THEN Remembers(cbs[i], scores) ELSE cbs[i].best = -1
  /\ Watches(i) /\ scores # << >> =>
       IF pc \in Stopping THEN cbs[i].since <= Callbacks[i].rounds
       ELSE pc = "error" \/ cbs[i].since < Callbacks[i].rounds

\* One score for each round that has ended.
Counted ==
  /\ pc = "start" => scores = << >>
  /\ pc \in {"gradient", "sample", "quantize", "build", "eval", "callbacks"} =>
       Len(scores) = round - 1
  /\ pc \in Stopping => Len(scores) = Len(trees)

\* The loop is left early only for a callback that has run out of patience.
StopInv ==
  pc \in Stopping /\ EvalSets # {} /\ Len(scores) < NRounds =>
    \E i \in DOMAIN Callbacks :
      Watches(i) /\ scores # << >> /\ cbs[i].since >= Callbacks[i].rounds

BestInv ==
  pc = "done" /\ best # -1 =>
    \E i \in DOMAIN Callbacks :
      Watches(i) /\ cbs[i].best # -1 /\ best = cbs[i].best_iteration

EvalInv == \A e \in EvalSets : eval_preds[e] = Upto(Len(trees))

SeenInv ==
  /\ Counted /\ StopInv /\ BestInv /\ EvalInv
  /\ \A i \in DOMAIN Callbacks : CallbackInv(i)

LEMMA SeenInvInit == Init => SeenInv
<1> SUFFICES ASSUME Init PROVE SeenInv
  OBVIOUS
<1>1. Counted /\ StopInv /\ BestInv
  BY LoopParams DEF Init, Counted, StopInv, BestInv, Stopping
<1>2. EvalInv
  BY UptoZero DEF Init, EvalInv
<1>3. ASSUME NEW i \in DOMAIN Callbacks PROVE CallbackInv(i)
  <2>1. cbs[i] = NewCallback(Callbacks[i]) /\ scores = << >>
    BY DEF Init
  <2>2. /\ cbs[i].def = Callbacks[i] /\ cbs[i].best = -1 /\ cbs[i].since = 0
        /\ cbs[i].history = << >>
    BY <2>1 DEF NewCallback
  <2>3. Remembers(cbs[i], scores)
    BY <2>1, <2>2 DEF Remembers
  <2> QED
    BY <2>1, <2>2, <2>3 DEF CallbackInv
<1> QED
  BY <1>1, <1>2, <1>3 DEF SeenInv

\* An early stopping that is told one more score.
LEMMA RemembersMore ==
  ASSUME NEW s \in Seq(Nat), NEW v \in Nat, NEW cb, NEW new, Remembers(cb, s),
         new = IF cb.best = -1 \/ v < cb.best
               THEN [def |-> cb.def, best |-> v, best_iteration |-> Len(s) + 1, since |-> 0,
                     history |-> cb.history]
               ELSE [def |-> cb.def, best |-> cb.best, best_iteration |-> cb.best_iteration,
                     since |-> cb.since + 1, history |-> cb.history]
  PROVE  /\ Remembers(new, Append(s, v))
         /\ new.since = 0 \/ (s # << >> /\ new.since = cb.since + 1)
<1> DEFINE b == cb.best
           k == cb.best_iteration
           n == cb.since
           t == Append(s, v)
<1>1. /\ Len(t) = Len(s) + 1 /\ t[Len(s) + 1] = v /\ t # << >>
      /\ Len(s) \in Nat /\ \A j \in 1..Len(s) : t[j] = s[j] /\ s[j] \in Nat
  OBVIOUS
<1>2. \A j \in 1..Len(t) : j = Len(s) + 1 \/ j \in 1..Len(s)
  BY <1>1
<1>3. IF s = << >> THEN b = -1 /\ n = 0
      ELSE /\ k \in 1..Len(s) /\ b = s[k] /\ n = Len(s) - k
           /\ \A j \in 1..Len(s) : b < s[j] \/ (b = s[j] /\ k <= j)
  BY DEF Remembers
<1>4. s = << >> => Len(s) = 0
  OBVIOUS
<1>5. /\ new.best = IF b = -1 \/ v < b THEN v ELSE b
      /\ new.best_iteration = IF b = -1 \/ v < b THEN Len(s) + 1 ELSE k
      /\ new.since = IF b = -1 \/ v < b THEN 0 ELSE n + 1
  OBVIOUS
<1> HIDE DEF t, b, k, n
<1>6. CASE b = -1 \/ v < b
  <2>1. new.best = v /\ new.best_iteration = Len(s) + 1 /\ new.since = 0
    BY <1>5, <1>6
  <2>2. \A j \in 1..Len(s) : v < s[j]
    BY <1>1, <1>3, <1>4, <1>6
  <2>3. \A j \in 1..Len(t) :
          new.best < t[j] \/ (new.best = t[j] /\ new.best_iteration <= j)
    BY <1>1, <1>2, <2>1, <2>2
  <2>4. /\ new.best_iteration \in 1..Len(t) /\ new.best = t[new.best_iteration]
        /\ new.since = Len(t) - new.best_iteration
    BY <1>1, <2>1
  <2>5. Remembers(new, t)
    BY <1>1, <2>3, <2>4 DEF Remembers
  <2> QED
    BY <2>1, <2>5 DEF t, n
<1>7. CASE ~(b = -1 \/ v < b)
  <2>1. new.best = b /\ new.best_iteration = k /\ new.since = n + 1
    BY <1>5, <1>7
  <2>2. s # << >>
    BY <1>3, <1>7
  <2>3. b \in Nat /\ k \in 1..Len(s) /\ b <= v
    BY <1>1, <1>3, <1>7, <2>2
  <2>4. \A j \in 1..Len(t) : b < t[j] \/ (b = t[j] /\ k <= j)
    BY <1>1, <1>2, <1>3, <2>2, <2>3, SMTT(30)
  <2>5. k \in 1..Len(t) /\ b = t[k] /\ n + 1 = Len(t) - k
    BY <1>1, <1>3, <2>2, <2>3
  <2>6. Remembers(new, t)
    BY <1>1, <2>1, <2>4, <2>5 DEF Remembers
  <2> QED
    BY <2>1, <2>2, <2>6 DEF t, n
<1> QED
  BY <1>6, <1>7

LEMMA SeenInvCallbackStep ==
  ASSUME TypeInv, SeenInv, CallbackStep
  PROVE  SeenInv'
<1> USE LoopParams
<1>1. PICK v \in Scores : scores' = Append(scores, v) /\ cbs' = RunCallbacks(v)
  BY DEF CallbackStep
<1>2. /\ round \in 1..NRounds /\ Len(trees) = round /\ pc = "callbacks"
      /\ scores \in Seq(Nat) /\ Len(scores) = round - 1 /\ v \in Nat
  <2>1. scores \in Seq(Nat)
    <3>1. scores \in Seq(Scores)
      BY DEF TypeInv, TypeOK
    <3>2. /\ Len(scores) \in Nat /\ scores = [k \in 1..Len(scores) |-> scores[k]]
          /\ \A k \in 1..Len(scores) : scores[k] \in Nat
      BY <3>1
    <3>3. scores \in [1..Len(scores) -> Nat]
      BY <3>2
    <3> QED
      BY <3>2, <3>3
  <2> QED
    BY <2>1 DEF CallbackStep, TypeInv, TypeOK, Progress, SeenInv, Counted
<1>3. Len(scores') = round /\ scores' # << >>
  BY <1>1, <1>2
<1>4. \/ /\ round < NRounds /\ round' = round + 1 /\ pc' = "gradient"
         /\ \A i \in DOMAIN Callbacks : KeepsGoing(cbs'[i])
      \/ /\ round' = round /\ pc' = "settle"
         /\ round = NRounds \/ \E i \in DOMAIN Callbacks : ~KeepsGoing(cbs'[i])
  BY <1>2 DEF CallbackStep, TypeInv, TypeOK
<1>5. UNCHANGED << eval_preds, trees, best >>
  BY DEF CallbackStep
<1>6. Counted' /\ EvalInv' /\ BestInv'
  <2>1. Counted'
    BY <1>2, <1>3, <1>4, <1>5 DEF Counted, Stopping
  <2>2. EvalInv'
    BY <1>5 DEF SeenInv, EvalInv
  <2>3. BestInv'
    BY <1>4 DEF BestInv
  <2> QED
    BY <2>1, <2>2, <2>3
<1>7. ASSUME NEW i \in DOMAIN Callbacks
      PROVE  /\ cbs'[i].def = Callbacks[i]
             /\ Callbacks[i].kind = "record" =>
                  cbs'[i].history \in Seq(Nat) /\ Len(cbs'[i].history) = round
             /\ IF Watches(i)
                THEN /\ Remembers(cbs'[i], scores')
                     /\ cbs'[i].since \in Nat /\ cbs'[i].since <= Callbacks[i].rounds
                ELSE cbs'[i].best = -1
  <2> DEFINE cb == cbs[i]
  <2>1. CallbackInv(i) /\ cbs'[i] = AfterIteration(cb, v)
    BY <1>1 DEF SeenInv, RunCallbacks, TypeInv, TypeOK
  <2>2. cb = [def |-> cb.def, best |-> cb.best, best_iteration |-> cb.best_iteration,
              since |-> cb.since, history |-> cb.history]
    BY DEF TypeInv, CallbacksOK
  <2>3. cb.def = Callbacks[i]
    BY <2>1 DEF CallbackInv
  <2>4. CASE Callbacks[i].kind = "record"
    <3>1. cbs'[i] = [def |-> cb.def, best |-> cb.best, best_iteration |-> cb.best_iteration,
                     since |-> cb.since, history |-> Append(cb.history, round)]
      BY <2>1, <2>2, <2>3, <2>4 DEF AfterIteration
    <3>2. cb.history \in Seq(Nat) /\ Len(cb.history) = round - 1 /\ cb.best = -1
      BY <1>2, <2>1, <2>4 DEF CallbackInv, Watches
    <3>3. Append(cb.history, round) \in Seq(Nat) /\ Len(Append(cb.history, round)) = round
      BY <1>2, <3>2
    <3> QED
      BY <2>3, <2>4, <3>1, <3>2, <3>3 DEF Watches
  <2>5. CASE Callbacks[i].kind = "early" /\ EvalSets = {}
    <3>1. cbs'[i] = cb
      BY <2>1, <2>3, <2>5 DEF AfterIteration
    <3> QED
      BY <2>1, <2>3, <2>5, <3>1 DEF CallbackInv, Watches
  <2>6. CASE Watches(i)
    <3>2. Remembers(cb, scores) /\ round = Len(scores) + 1
      BY <1>2, <2>1, <2>6 DEF CallbackInv
    <3>1. cbs'[i] =
            IF cb.best = -1 \/ v < cb.best
            THEN [def |-> cb.def, best |-> v, best_iteration |-> Len(scores) + 1, since |-> 0,
                  history |-> cb.history]
            ELSE [def |-> cb.def, best |-> cb.best, best_iteration |-> cb.best_iteration,
                  since |-> cb.since + 1, history |-> cb.history]
      BY <2>1, <2>2, <2>3, <2>6, <3>2 DEF AfterIteration, Watches
    <3>3. cbs'[i].def = cb.def
      BY <3>1
    <3> HIDE DEF cb
    <3>5. /\ Remembers(cbs'[i], Append(scores, v))
          /\ cbs'[i].since = 0 \/ (scores # << >> /\ cbs'[i].since = cb.since + 1)
      BY <1>2, <3>1, <3>2, RemembersMore
    <3>6. Callbacks[i].rounds \in Nat
      BY <2>6 DEF Watches
    <3>7. scores # << >> => cb.since \in Nat /\ cb.since < Callbacks[i].rounds
      <4>1. scores # << >> => cb.since < Callbacks[i].rounds
        BY <1>2, <2>1, <2>6 DEF CallbackInv, Stopping, cb
      <4>2. scores # << >> => cb.since \in Nat
        BY <1>2, <3>2, SMTT(30) DEF Remembers
      <4> QED
        BY <4>1, <4>2
    <3> QED
      BY <1>1, <2>3, <2>6, <3>3, <3>5, <3>6, <3>7 DEF Watches, cb
  <2> QED
    BY <2>4, <2>5, <2>6 DEF Watches
<1>8. \A i \in DOMAIN Callbacks :
        KeepsGoing(cbs'[i]) <=> (Watches(i) => cbs'[i].since < Callbacks[i].rounds)
  BY <1>7 DEF KeepsGoing, Watches
<1>9. ASSUME NEW i \in DOMAIN Callbacks PROVE CallbackInv(i)'
  BY <1>3, <1>4, <1>7, <1>8 DEF CallbackInv, Watches, Stopping
<1>10. StopInv'
  <2> SUFFICES ASSUME pc' \in Stopping, EvalSets # {}, Len(scores') < NRounds
               PROVE  \E i \in DOMAIN Callbacks :
                        /\ Watches(i) /\ scores' # << >>
                        /\ cbs'[i].since >= Callbacks[i].rounds
    BY DEF StopInv, Watches
  <2>1. PICK i \in DOMAIN Callbacks : ~KeepsGoing(cbs'[i])
    BY <1>2, <1>3, <1>4 DEF Stopping
  <2>2. Watches(i) /\ ~(cbs'[i].since < Callbacks[i].rounds)
    BY <1>8, <2>1
  <2>3. cbs'[i].since \in Nat /\ Callbacks[i].rounds \in Nat
    BY <1>7, <2>2 DEF Watches
  <2> QED
    BY <1>3, <2>2, <2>3
<1> QED
  BY <1>6, <1>9, <1>10 DEF SeenInv

LEMMA SeenInvEval ==
  ASSUME TypeInv, SeenInv, Eval
  PROVE  SeenInv'
<1> USE LoopParams
<1>1. Len(trees) = round - 1 /\ round \in 1..NRounds /\ Len(trees') = round
  <2>1. Len(trees) = round - 1 /\ round \in 1..NRounds /\ Len(built) = 1
    BY DEF Eval, TypeInv, TypeOK, Progress
  <2>2. trees \in Seq(GradientVectors) /\ built \in Seq(GradientVectors)
    BY DEF TypeInv, TypeOK
  <2>3. Len(trees \o built) = Len(trees) + Len(built)
    BY <2>2
  <2>4. trees' = trees \o built
    BY DEF Eval
  <2> QED
    BY <2>1, <2>3, <2>4
<1>2. EvalInv'
  <2>1. ASSUME NEW e \in EvalSets PROVE eval_preds'[e] = Upto(Len(trees'))
    <3>1. eval_preds'[e] = Append(Upto(round - 1), round)
      BY <1>1 DEF Eval, SeenInv, EvalInv
    <3> QED
      BY <1>1, <3>1, UptoAppend
  <2> QED
    BY <2>1 DEF EvalInv
<1>3. pc = "eval" /\ pc' = "callbacks" /\ UNCHANGED << scores, cbs, best, round >>
  BY DEF Eval
<1>4. Counted' /\ StopInv' /\ BestInv'
  BY <1>3 DEF SeenInv, Counted, StopInv, BestInv, Stopping
<1>5. ASSUME NEW i \in DOMAIN Callbacks PROVE CallbackInv(i)'
  BY <1>3 DEF SeenInv, CallbackInv, Watches, Stopping
<1> QED
  BY <1>2, <1>4, <1>5 DEF SeenInv

LEMMA SeenInvFinish ==
  ASSUME TypeInv, SeenInv, Finish
  PROVE  SeenInv'
<1> USE LoopParams
<1>1. pc = "finish" /\ pc' = "done" /\ UNCHANGED << scores, cbs, trees, eval_preds, round >>
  BY DEF Finish
<1>2. Counted' /\ StopInv' /\ EvalInv'
  BY <1>1 DEF SeenInv, Counted, StopInv, EvalInv, Watches, Stopping
<1>3. ASSUME NEW i \in DOMAIN Callbacks PROVE CallbackInv(i)'
  BY <1>1 DEF SeenInv, CallbackInv, Watches, Stopping
<1>4. BestInv'
  <2> DEFINE has == {i \in DOMAIN cbs : cbs[i].best # -1}
             first == CHOOSE i \in has : \A j \in has : i <= j
  <2>1. best' = IF has = {} THEN -1 ELSE cbs[first].best_iteration
    BY DEF Finish
  <2>2. CASE has = {}
    BY <2>1, <2>2 DEF BestInv
  <2>3. CASE has # {}
    <3>1. first \in has
      BY <2>3, FirstOfCallbacks DEF TypeInv
    <3> HIDE DEF first
    <3>2. first \in DOMAIN Callbacks /\ cbs[first].best # -1
      BY <3>1 DEF TypeInv, TypeOK
    <3>3. Watches(first)
      BY <3>2 DEF SeenInv, CallbackInv
    <3> QED
      BY <1>1, <2>1, <2>3, <3>2, <3>3 DEF BestInv, Watches
  <2> QED
    BY <2>2, <2>3
<1> QED
  BY <1>2, <1>3, <1>4 DEF SeenInv

\* No other step touches what the callbacks know or the trees.
LEMMA SeenInvOther ==
  ASSUME TypeInv, SeenInv,
         \/ Start \/ Gradient \/ Sample \/ FastQuantize \/ DeviceQuantize \/ HostQuantize
         \/ Build \/ Settle \/ Failure \/ Terminated \/ UNCHANGED vars
  PROVE  SeenInv'
<1> USE LoopParams
<1> DEFINE Round == {"gradient", "sample", "quantize", "build", "eval", "callbacks"}
<1>1. UNCHANGED << scores, cbs, best, trees, eval_preds, round >>
  BY DEF Start, Gradient, Sample, FastQuantize, DeviceQuantize, HostQuantize, Build, Settle,
         Failure, StartFails, GradientFails, QuantizeFails, BuildFails, EvalFails,
         SettleFails, Terminated, vars
<1>2. \/ pc' = "error"
      \/ pc = "start" /\ pc' = IF NRounds > 0 THEN "gradient" ELSE "settle"
      \/ pc \in Round /\ pc' \in Round
      \/ pc = "settle" /\ pc' = "finish"
      \/ pc' = pc
  BY DEF Start, Gradient, Sample, FastQuantize, DeviceQuantize, HostQuantize, Build, Settle,
         Failure, StartFails, GradientFails, QuantizeFails, BuildFails, EvalFails,
         SettleFails, Abort, Terminated, vars
<1>3. EvalInv'
  BY <1>1 DEF SeenInv, EvalInv
<1>4. BestInv'
  BY <1>1, <1>2 DEF SeenInv, BestInv, Watches
<1>5. pc = "start" => scores = << >> /\ Len(scores) = 0 /\ Len(trees) = 0 /\ round = 1
  BY DEF SeenInv, Counted, TypeInv, Progress
<1>6. Counted'
  BY <1>1, <1>2, <1>5 DEF SeenInv, Counted, Stopping
<1>7. StopInv'
  <2>1. \/ pc' \notin Stopping \/ (pc' \in Stopping /\ pc \in Stopping)
        \/ pc = "start" /\ NRounds = 0
    BY <1>2 DEF Stopping
  <2>2. Len(scores') = Len(scores)
    BY <1>1
  <2> QED
    BY <1>1, <1>5, <2>1, <2>2 DEF SeenInv, StopInv, Watches
<1>8. ASSUME NEW i \in DOMAIN Callbacks PROVE CallbackInv(i)'
  <2>1. CallbackInv(i)
    BY DEF SeenInv
  <2>2. Watches(i) /\ scores' # << >> =>
          IF pc' \in Stopping THEN cbs'[i].since <= Callbacks[i].rounds
          ELSE pc' = "error" \/ cbs'[i].since < Callbacks[i].rounds
    BY <1>1, <1>2, <1>5, <2>1 DEF CallbackInv, Stopping
  <2> QED
    BY <1>1, <2>1, <2>2 DEF CallbackInv, Watches
<1> QED
  BY <1>3, <1>4, <1>6, <1>7, <1>8 DEF SeenInv

LEMMA SeenInvNext == TypeInv /\ SeenInv /\ [Next]_vars => SeenInv'
BY SeenInvCallbackStep, SeenInvEval, SeenInvFinish, SeenInvOther DEF Next, Step

\* Metrics are computed from predictions that contain every tree, a recorder has an entry
\* for each tree whichever callback stops the training, the best iteration is the first of
\* the best rounds, and the training stops exactly when some patience is used up
\* (train_with_backend's evaluation, after_iteration of callback.rs).
THEOREM CallbacksSeeWhatHappened == Spec => []SingleOutputSeen
<1>1. TypeInv /\ SeenInv => SingleOutputSeen
  <2> SUFFICES ASSUME TypeInv, SeenInv PROVE SingleOutputSeen
    OBVIOUS
  <2> USE LoopParams
  <2>1. /\ DOMAIN cbs = DOMAIN Callbacks /\ DOMAIN scores = 1..Len(scores)
        /\ Len(scores) \in Nat /\ \A i \in DOMAIN Callbacks : CallbackInv(i)
    BY DEF TypeInv, TypeOK, SeenInv
  <2>2. EvalTracksModel
    <3>1. pc = "callbacks" => AllTrees = Upto(Len(trees))
      BY DEF TypeInv, TypeOK, Progress, AllTrees, Upto
    <3> QED
      BY <3>1 DEF SeenInv, EvalInv, EvalTracksModel
  <2>3. EveryRoundRecorded
    BY <2>1 DEF SeenInv, Counted, Stopping, CallbackInv, EveryRoundRecorded
  <2>4. BestIterationIsBest
    <3> SUFFICES ASSUME pc = "done", best # -1, NEW k \in DOMAIN scores
                 PROVE  scores[best] < scores[k] \/ (scores[best] = scores[k] /\ best <= k)
      BY DEF BestIterationIsBest
    <3>1. PICK i \in DOMAIN Callbacks :
            Watches(i) /\ cbs[i].best # -1 /\ best = cbs[i].best_iteration
      BY DEF SeenInv, BestInv
    <3>2. Remembers(cbs[i], scores)
      BY <2>1, <3>1 DEF CallbackInv
    <3> QED
      BY <2>1, <3>1, <3>2 DEF Remembers
  <2>5. StopsOnTime
    <3> SUFFICES ASSUME EvalSets # {}, pc = "done"
                 PROVE  LET early == {i \in DOMAIN cbs : cbs[i].def.kind = "early"}
                            past(i) == Len(scores) - cbs[i].best_iteration
                        IN  /\ \A i \in early : scores # << >> => past(i) <= cbs[i].def.rounds
                            /\ Len(scores) < NRounds =>
                                 \E i \in early : past(i) = cbs[i].def.rounds
      BY DEF StopsOnTime
    <3>1. ASSUME NEW i \in DOMAIN cbs, cbs[i].def.kind = "early", scores # << >>
          PROVE  /\ Watches(i) /\ cbs[i].def = Callbacks[i] /\ Callbacks[i].rounds \in Nat
                 /\ Len(scores) - cbs[i].best_iteration \in Nat
                 /\ Len(scores) - cbs[i].best_iteration = cbs[i].since
                 /\ cbs[i].since <= Callbacks[i].rounds
      <4>1. cbs[i].def = Callbacks[i] /\ Watches(i) /\ Callbacks[i].rounds \in Nat
        BY <2>1, <3>1 DEF CallbackInv, Watches
      <4>2. Remembers(cbs[i], scores) /\ cbs[i].since <= Callbacks[i].rounds
        BY <2>1, <3>1, <4>1 DEF CallbackInv, Stopping
      <4> QED
        BY <2>1, <3>1, <4>1, <4>2 DEF Remembers
    <3>2. Len(scores) < NRounds =>
            \E i \in DOMAIN cbs : /\ cbs[i].def.kind = "early"
                                 /\ Len(scores) - cbs[i].best_iteration = cbs[i].def.rounds
      <4> SUFFICES ASSUME Len(scores) < NRounds
                   PROVE  \E i \in DOMAIN cbs :
                            /\ cbs[i].def.kind = "early"
                            /\ Len(scores) - cbs[i].best_iteration = cbs[i].def.rounds
        OBVIOUS
      <4>1. PICK i \in DOMAIN Callbacks :
              Watches(i) /\ scores # << >> /\ cbs[i].since >= Callbacks[i].rounds
        BY DEF SeenInv, StopInv, Stopping
      <4>2. i \in DOMAIN cbs /\ cbs[i].def.kind = "early"
        BY <2>1, <4>1 DEF CallbackInv, Watches
      <4>3. Len(scores) - cbs[i].best_iteration = cbs[i].def.rounds
        BY <3>1, <4>1, <4>2
      <4> QED
        BY <4>2, <4>3
    <3> QED
      BY <3>1, <3>2
  <2> QED
    BY <2>2, <2>3, <2>4, <2>5 DEF SingleOutputSeen
<1>2. Spec => [](TypeInv /\ SeenInv)
  BY TypeInvInit, TypeInvNext, SeenInvInit, SeenInvNext, PTL DEF Spec
<1> QED
  BY <1>1, <1>2, PTL

----------------------------------------------------------------------------
(***************************************************************************)
(* Several outputs, for any rows, classes, rounds and draws: the margins   *)
(* hold every tree once on whichever side they live, and the loop          *)
(* implements RoundBoosting.                                               *)
(***************************************************************************)

\* The rounds of the trees in the margins of class c.  A tree that is built and not yet
\* applied is in those of a CPU, and in the delta of a GPU.
InMargins(c) ==
  IF m_pc = "apply" /\ backend # "cpu"
  THEN IF c < class THEN m_round ELSE m_round - 1
  ELSE Grown(c)

InEval(c) ==
  IF m_pc \in {"apply", "eval"} THEN IF c < class THEN m_round ELSE m_round - 1 ELSE Grown(c)

\* Within a round: the loop is at a round that exists, and the gradients, like the pairs
\* the next tree is built on, are of the margins of the round's start.
RoundInv ==
  /\ m_pc \in {"gradient", "build", "apply", "eval", "callbacks"} => m_round <= MultiRounds
  /\ m_pc \in {"round", "done"} => class = 0
  /\ m_pc \in {"gradient", "build", "apply", "eval"} =>
       grads = [r \in MRow |-> [c \in Class |-> Rounds(m_round - 1)]]
  /\ m_pc = "build" => m_gpair = [r \in Drawn |-> [c \in Class |-> Rounds(m_round - 1)]]

MarginsInv ==
  /\ margins = [c \in Class |-> margins[c]] /\ eval_margins = [c \in Class |-> eval_margins[c]]
  /\ \A c \in Class : /\ margins[c] = [r \in MRow |-> Rounds(InMargins(c))]
                      /\ eval_margins[c] = Rounds(InEval(c))
  /\ m_delta = IF m_pc = "apply" /\ backend # "cpu" THEN m_round ELSE 0

Places ==
  /\ backend \in {"cpu", "host_quant", "device_quant", "fast"}
  /\ m_kept \in Kepts /\ m_pc \in Pcs
  /\ m_round \in 1..MultiRounds + 1 /\ class \in Class
  /\ ended \in BOOLEAN /\ (m_pc = "done" => ended)

MultiInv == Places /\ RoundInv /\ MarginsInv

\* Appending the next round's tree.
LEMMA AppendRound ==
  ASSUME NEW n \in Nat \ {0}
  PROVE  Append(Rounds(n - 1), n) = Rounds(n)
BY DEF Rounds

LEMMA ClassFacts ==
  ASSUME MulticlassParams
  PROVE  /\ NClasses \in Nat \ {0} /\ MultiRounds \in Nat /\ 0 \in Class
         /\ \A c \in Class : c \in Nat /\ c < NClasses
         /\ \A c \in Class : c + 1 < NClasses => c + 1 \in Class
BY DEF MulticlassParams, Class

LEMMA MultiInitInv == ASSUME MulticlassParams, MultiInit PROVE MultiInv
<1>1. Rounds(0) = << >>
  BY DEF Rounds
<1>2. \A c \in Class : InMargins(c) = 0 /\ InEval(c) = 0
  BY DEF MultiInit, InMargins, InEval, Grown
<1>3. Places /\ RoundInv
  <2>1. 1 \in 1..MultiRounds + 1
    BY ClassFacts
  <2> QED
    BY <2>1, ClassFacts DEF MultiInit, Places, RoundInv, Pcs
<1> QED
  BY <1>1, <1>2, <1>3 DEF MultiInit, MultiInv, MarginsInv

LEMMA MultiStepInv ==
  ASSUME MulticlassParams, MultiInv, [MultiNext]_m_vars
  PROVE  MultiInv'
<1> USE ClassFacts
<1>0. m_round \in Nat \ {0} /\ class \in Nat
  BY DEF MultiInv, Places
<1>1. CASE UNCHANGED m_vars
  BY <1>1 DEF m_vars, MultiInv, Places, RoundInv, MarginsInv, InMargins, InEval, Grown, Drawn
<1>2. ASSUME BeginRound, ~ended PROVE MultiInv'
  <2>1. \A c \in Class : /\ InMargins(c) = m_round - 1 /\ InMargins(c)' = m_round - 1
                         /\ InEval(c) = m_round - 1 /\ InEval(c)' = m_round - 1
    BY <1>0, <1>2 DEF BeginRound, InMargins, InEval, Grown, MultiInv, RoundInv
  <2>2. grads' = [r \in MRow |-> [c \in Class |-> Rounds(m_round - 1)]]
    <3>1. \A r \in MRow, c \in Class : margins[c][r] = Rounds(m_round - 1)
      BY <2>1 DEF MultiInv, MarginsInv
    <3> QED
      BY <1>2, <3>1 DEF BeginRound
  <2> QED
    BY <1>2, <2>1, <2>2 DEF BeginRound, MultiInv, Places, RoundInv, MarginsInv, Pcs
<1>3. ASSUME Quantize, ~ended PROVE MultiInv'
  <2>1. \A c \in Class : InMargins(c)' = InMargins(c) /\ InEval(c)' = InEval(c)
    BY <1>3 DEF Quantize, InMargins, InEval, Grown
  <2>2. \A r \in MRow : Basis(r) = [c \in Class |-> Rounds(m_round - 1)]
    <3>1. InMargins(class) = m_round - 1
      BY <1>0, <1>3 DEF Quantize, InMargins, Grown
    <3>2. \A r \in MRow : margins[class][r] = Rounds(m_round - 1)
      BY <3>1 DEF MultiInv, MarginsInv, Places
    <3>3. \A r \in MRow : grads[r] = [c \in Class |-> Rounds(m_round - 1)]
      BY <1>3 DEF Quantize, MultiInv, RoundInv
    <3> QED
      BY <3>2, <3>3 DEF Basis
  <2>3. Drawn \subseteq MRow
    BY <1>3 DEF Quantize, Drawn, MultiInv, Places, RoundInv, MulticlassParams
  <2>4. m_gpair' = [r \in Drawn |-> [c \in Class |-> Rounds(m_round - 1)]]
    BY <1>3, <2>2, <2>3 DEF Quantize
  <2>5. Drawn' = Drawn
    BY <1>3 DEF Quantize, Drawn
  <2> QED
    BY <1>3, <2>1, <2>4, <2>5 DEF Quantize, MultiInv, Places, RoundInv, MarginsInv, Pcs
\* Adding the leaf values of the tree of this round and class, on either side.
<1>4. ASSUME NEW m, m = margins[class], InMargins(class) = m_round - 1
      PROVE  AddTo(m, MRow) = [margins EXCEPT ![class] = [r \in MRow |-> Rounds(m_round)]]
  <2>1. \A r \in MRow : m[r] = Rounds(m_round - 1)
    BY <1>4 DEF MultiInv, MarginsInv, Places
  <2>2. Append(Rounds(m_round - 1), m_round) = Rounds(m_round)
    BY <1>0, AppendRound
  <2> QED
    BY <2>1, <2>2 DEF AddTo
<1>5. ASSUME MultiBuild, ~ended PROVE MultiInv'
  <2>1. \A c \in Class :
          /\ InEval(c)' = InEval(c)
          /\ c # class \/ backend # "cpu" => InMargins(c)' = InMargins(c)
    BY <1>0, <1>5 DEF MultiBuild, InMargins, InEval, Grown, Class
  <2>2. /\ InMargins(class) = m_round - 1
        /\ backend = "cpu" => \A c \in Class : c = class => InMargins(c)' = m_round
    BY <1>0, <1>5 DEF MultiBuild, InMargins, Grown
  <2>3. /\ margins' = [c \in Class |-> margins'[c]]
        /\ \A c \in Class : margins'[c] = [r \in MRow |-> Rounds(InMargins(c)')]
    <3>1. CASE backend = "cpu"
      <4>1. margins' = [margins EXCEPT ![class] = [r \in MRow |-> Rounds(m_round)]]
        BY <1>4, <1>5, <2>2, <3>1 DEF MultiBuild
      <4>2. /\ margins' = [c \in Class |-> margins'[c]]
            /\ margins'[class] = [r \in MRow |-> Rounds(m_round)]
            /\ \A c \in Class : c # class => margins'[c] = margins[c]
        BY <4>1 DEF MultiInv, MarginsInv, Places
      <4>3. \A c \in Class : c # class => margins[c] = [r \in MRow |-> Rounds(InMargins(c)')]
        BY <2>1 DEF MultiInv, MarginsInv
      <4> QED
        BY <2>2, <3>1, <4>2, <4>3
    <3>2. CASE backend # "cpu"
      BY <1>5, <2>1, <3>2 DEF MultiBuild, MultiInv, MarginsInv
    <3> QED
      BY <3>1, <3>2
  <2>4. /\ eval_margins' = [c \in Class |-> eval_margins'[c]]
        /\ \A c \in Class : eval_margins'[c] = Rounds(InEval(c)')
    BY <1>5, <2>1 DEF MultiBuild, MultiInv, MarginsInv
  <2> QED
    BY <1>5, <2>3, <2>4 DEF MultiBuild, MultiInv, Places, RoundInv, MarginsInv, Pcs
<1>6. ASSUME ApplyDelta, ~ended PROVE MultiInv'
  <2>1. \A c \in Class : InEval(c)' = InEval(c) /\ (c # class => InMargins(c)' = InMargins(c))
    BY <1>0, <1>6 DEF ApplyDelta, InMargins, InEval, Grown, Class
  <2>2. /\ \A c \in Class : c = class => InMargins(c)' = m_round
        /\ InMargins(class) = IF backend = "cpu" THEN m_round ELSE m_round - 1
    BY <1>0, <1>6 DEF ApplyDelta, InMargins, Grown
  <2>3. /\ margins' = [c \in Class |-> margins'[c]]
        /\ \A c \in Class : margins'[c] = [r \in MRow |-> Rounds(InMargins(c)')]
    <3>1. CASE backend = "cpu"
      BY <1>6, <2>1, <2>2, <3>1 DEF ApplyDelta, MultiInv, MarginsInv
    <3>2. CASE backend # "cpu"
      <4>1. margins' = [margins EXCEPT ![class] = [r \in MRow |-> Rounds(m_round)]]
        BY <1>4, <1>6, <2>2, <3>2 DEF ApplyDelta
      <4>2. /\ margins' = [c \in Class |-> margins'[c]]
            /\ margins'[class] = [r \in MRow |-> Rounds(m_round)]
            /\ \A c \in Class : c # class => margins'[c] = margins[c]
        BY <4>1 DEF MultiInv, MarginsInv, Places
      <4>3. \A c \in Class : c # class => margins[c] = [r \in MRow |-> Rounds(InMargins(c)')]
        BY <2>1 DEF MultiInv, MarginsInv
      <4> QED
        BY <2>2, <4>2, <4>3
    <3> QED
      BY <3>1, <3>2
  <2>4. /\ eval_margins' = [c \in Class |-> eval_margins'[c]]
        /\ \A c \in Class : eval_margins'[c] = Rounds(InEval(c)')
    BY <1>6, <2>1 DEF ApplyDelta, MultiInv, MarginsInv
  <2> QED
    BY <1>6, <2>3, <2>4 DEF ApplyDelta, MultiInv, Places, RoundInv, MarginsInv, Pcs
<1>7. ASSUME MultiEval, ~ended PROVE MultiInv'
  <2>1. /\ \A c \in Class : InMargins(c)' = InMargins(c)
        /\ \A c \in Class : c # class => InEval(c)' = InEval(c)
        /\ InEval(class) = m_round - 1 /\ \A c \in Class : c = class => InEval(c)' = m_round
    <3>1. CASE class + 1 < NClasses
      <4>1. m_pc = "eval" /\ m_pc' = "gradient" /\ class' = class + 1 /\ m_round' = m_round
        BY <1>7, <3>1 DEF MultiEval
      <4>2. \A c \in Class : c <= class <=> c < class + 1
        BY <1>0
      <4>3. class < class + 1 /\ ~(class < class)
        BY <1>0
      <4>4. \A c \in Class : c # class => (c < class <=> c <= class)
        BY <1>0
      <4> QED
        BY <4>1, <4>2, <4>3, <4>4 DEF InMargins, InEval, Grown
    <3>2. CASE ~(class + 1 < NClasses)
      <4>1. \A c \in Class : c <= class /\ (c # class => c < class)
        BY <1>0, <3>2
      <4>2. m_pc = "eval" /\ m_pc' = "callbacks" /\ class' = class /\ m_round' = m_round
        BY <1>7, <3>2 DEF MultiEval
      <4>3. class <= class /\ ~(class < class)
        BY <1>0
      <4> QED
        BY <4>1, <4>2, <4>3 DEF InMargins, InEval, Grown
    <3> QED
      BY <3>1, <3>2
  <2>2. /\ eval_margins' = [c \in Class |-> eval_margins'[c]]
        /\ \A c \in Class : eval_margins'[c] = Rounds(InEval(c)')
    <3>1. eval_margins[class] = Rounds(m_round - 1)
      BY <2>1 DEF MultiInv, MarginsInv, Places
    <3>2. eval_margins' = [eval_margins EXCEPT ![class] = Rounds(m_round)]
      BY <1>0, <1>7, <3>1, AppendRound DEF MultiEval
    <3>3. /\ eval_margins' = [c \in Class |-> eval_margins'[c]]
          /\ eval_margins'[class] = Rounds(m_round)
          /\ \A c \in Class : c # class => eval_margins'[c] = eval_margins[c]
      BY <3>2 DEF MultiInv, MarginsInv, Places
    <3>4. \A c \in Class : c # class => eval_margins[c] = Rounds(InEval(c)')
      BY <2>1 DEF MultiInv, MarginsInv
    <3> QED
      BY <2>1, <3>3, <3>4
  <2>3. /\ margins' = [c \in Class |-> margins'[c]]
        /\ \A c \in Class : margins'[c] = [r \in MRow |-> Rounds(InMargins(c)')]
    BY <1>7, <2>1 DEF MultiEval, MultiInv, MarginsInv
  <2>4. Places' /\ RoundInv'
    BY <1>7 DEF MultiEval, MultiInv, Places, RoundInv, Pcs
  <2> QED
    BY <1>7, <2>2, <2>3, <2>4 DEF MultiEval, MultiInv, MarginsInv
<1>8. ASSUME MultiCallbackStep, ~ended PROVE MultiInv'
  <2>1. \A c \in Class : InMargins(c)' = InMargins(c) /\ InEval(c)' = InEval(c)
    BY <1>0, <1>8 DEF MultiCallbackStep, InMargins, InEval, Grown
  <2>2. Places' /\ RoundInv'
    <3>1. PICK keep_going \in BOOLEAN :
            /\ m_pc' = (IF keep_going THEN "round" ELSE "done") /\ ended' = ~keep_going
            /\ class' = 0 /\ m_round' = m_round + 1 /\ backend' = backend /\ m_kept' = m_kept
      BY <1>8 DEF MultiCallbackStep
    <3>2. m_round' \in 1..MultiRounds + 1
      BY <1>0, <1>8, <3>1 DEF MultiCallbackStep, MultiInv, RoundInv
    <3>3. /\ m_pc' \in {"round", "done"} /\ ended' \in BOOLEAN /\ (m_pc' = "done" => ended')
      <4>1. CASE keep_going
        BY <3>1, <4>1
      <4>2. CASE ~keep_going
        BY <3>1, <4>2
      <4> QED
        BY <4>1, <4>2
    <3> QED
      BY <3>1, <3>2, <3>3 DEF MultiInv, Places, RoundInv, Pcs
  <2>3. MarginsInv'
    BY <1>8, <2>1 DEF MultiCallbackStep, MultiInv, MarginsInv
  <2> QED
    BY <2>2, <2>3 DEF MultiInv
<1>9. ASSUME MultiFinish \/ Fail, ~ended PROVE MultiInv'
  <2>1. \A c \in Class : InMargins(c)' = InMargins(c) /\ InEval(c)' = InEval(c)
    BY <1>0, <1>9 DEF MultiFinish, Fail, InMargins, InEval, Grown
  <2>2. Places' /\ RoundInv'
    BY <1>9 DEF MultiFinish, Fail, MultiInv, Places, RoundInv, Pcs, Drawn
  <2>3. MarginsInv'
    BY <1>9, <2>1 DEF MultiFinish, Fail, MultiInv, MarginsInv
  <2> QED
    BY <2>2, <2>3 DEF MultiInv
<1> QED
  BY <1>1, <1>2, <1>3, <1>5, <1>6, <1>7, <1>8, <1>9 DEF MultiNext, MultiTerminated

LEMMA MultiInvariant == ASSUME MulticlassParams PROVE MultiSpec => []MultiInv
BY MultiInitInv, MultiStepInv, PTL DEF MultiSpec

\* The state of the loop is what it should be: type correctness.
THEOREM MulticlassTypeCorrect == ASSUME MulticlassParams PROVE MultiSpec => []MultiTypeOK
<1>1. MultiInv => MultiTypeOK
  <2> SUFFICES ASSUME MultiInv PROVE MultiTypeOK
    OBVIOUS
  <2> USE ClassFacts
  <2>1. \A n \in 0..MultiRounds : Rounds(n) \in Seq(1..MultiRounds)
    BY DEF Rounds
  <2>2. \A c \in Class : InMargins(c) \in 0..MultiRounds /\ InEval(c) \in 0..MultiRounds
    BY DEF MultiInv, Places, RoundInv, Pcs, InMargins, InEval, Grown
  <2>3. margins \in [Class -> [MRow -> Seq(1..MultiRounds)]]
    BY <2>1, <2>2 DEF MultiInv, MarginsInv
  <2>4. eval_margins \in [Class -> Seq(1..MultiRounds)]
    BY <2>1, <2>2 DEF MultiInv, MarginsInv
  <2>5. m_delta \in 0..MultiRounds
    BY DEF MultiInv, MarginsInv, Places, RoundInv
  <2> QED
    BY <2>3, <2>4, <2>5 DEF MultiTypeOK, MultiInv, Places
<1> QED
  BY MultiInvariant, <1>1, PTL

\* Between trees the margins of every class contain each of its trees once, on the host
\* and on the device, and so do those of the evaluation sets (train_multiclass_rounds).
THEOREM MarginsAreComplete == ASSUME MulticlassParams PROVE MultiSpec => []MarginsComplete
<1>1. MultiInv => MarginsComplete
  BY DEF MultiInv, MarginsInv, MarginsComplete, InMargins, InEval
<1> QED
  BY MultiInvariant, <1>1, PTL

\* The loop implements RoundBoosting: every tree is grown on the gradients that all
\* classes had at the start of the round, and on its own draw of rows.
THEOREM LoopImplementsRoundBoosting ==
  ASSUME MulticlassParams PROVE MultiSpec => ImplementsRoundBoosting
<1> USE ClassFacts
<1>1. MultiInit => Rounded!Init
  BY DEF MultiInit, Rounded!Init
<1>2. MultiInv /\ [MultiNext]_m_vars => [Rounded!Next]_(Rounded!vars)
  <2> SUFFICES ASSUME MultiInv, [MultiNext]_m_vars PROVE Rounded!Next \/ UNCHANGED Rounded!vars
    BY DEF Rounded!vars
  <2>0. /\ m_round \in Nat /\ class \in Nat /\ class < NClasses
        /\ class + 1 < NClasses \/ class + 1 = NClasses
    <3>1. class < NClasses /\ class \in Nat
      BY DEF MultiInv, Places
    <3> QED
      BY <3>1 DEF MultiInv, Places
  <2>1. CASE MultiBuild /\ ~ended
    <3>1. m_trees' = Append(m_trees, [class |-> class,
            basis |-> [r \in m_kept[m_round][class] |->
                         [c \in Class |-> Rounds(m_round - 1)]]])
      BY <2>1 DEF MultiBuild, MultiInv, RoundInv, Drawn
    <3> QED
      BY <2>0, <2>1, <3>1 DEF MultiBuild, MultiInv, RoundInv, Rounded!Next, Rounded!Grow,
         Rounded!Margin, Rounded!Class, Class, Rounds
  <2>2. CASE ~ended /\ (BeginRound \/ Quantize \/ ApplyDelta)
    BY <2>2 DEF BeginRound, Quantize, ApplyDelta, Rounded!vars
  <2>3. CASE ~ended /\ MultiEval
    <3>1. CASE class + 1 < NClasses
      BY <2>0, <2>3, <3>1 DEF MultiEval, Rounded!vars
    <3>2. CASE class + 1 = NClasses
      BY <2>0, <2>3, <3>2 DEF MultiEval, Rounded!vars
    <3> QED
      BY <2>0, <3>1, <3>2
  <2>4. CASE ~ended /\ MultiCallbackStep
    <3>1. PICK keep_going \in BOOLEAN :
            /\ m_pc' = (IF keep_going THEN "round" ELSE "done") /\ ended' = ~keep_going
      BY <2>4 DEF MultiCallbackStep
    <3>2. CASE keep_going
      <4>1. m_pc' = "round" /\ m_pc = "callbacks" /\ class' = 0 /\ m_round' = m_round + 1
            /\ UNCHANGED << m_kept, m_trees >>
        BY <2>4, <3>1, <3>2 DEF MultiCallbackStep
      <4>2. UNCHANGED ended
        <5>1. ~ended' /\ ~ended
          BY <2>4, <3>1, <3>2
        <5>2. ended' \in BOOLEAN
          BY <3>1
        <5>3. ended \in BOOLEAN
          BY DEF MultiInv, Places
        <5> QED
          BY <5>1, <5>2, <5>3
      <4> QED
        BY <2>0, <4>1, <4>2 DEF Rounded!vars
    <3>3. CASE ~keep_going
      BY <2>4, <3>1, <3>3 DEF MultiCallbackStep, Rounded!Next, Rounded!End
    <3> QED
      BY <3>2, <3>3
  <2>5. CASE ~ended /\ (MultiFinish \/ Fail)
    BY <2>5 DEF MultiFinish, Fail, Rounded!Next, Rounded!End
  <2>6. CASE UNCHANGED m_vars
    BY <2>6 DEF m_vars, Rounded!vars
  <2> QED
    BY <2>1, <2>2, <2>3, <2>4, <2>5, <2>6 DEF MultiNext, MultiTerminated
<1> QED
  BY MultiInvariant, <1>1, <1>2, PTL DEF MultiSpec, ImplementsRoundBoosting, Rounded!Spec
=============================================================================
