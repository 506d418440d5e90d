------------------------- MODULE GradientQuantizer ---------------------------
(***************************************************************************)
(* From f32 gradients to the fixed-point pairs trees are built on          *)
(* (types.rs GradQuantizer, train.rs, train_ctx.rs).  A round draws its    *)
(* rows, finds the largest gradient and Hessian, chooses a power of two    *)
(* for each so that no sum can overflow, rounds every pair and sums them.  *)
(* The host does this in one pass; the device in two kernels of several    *)
(* blocks each, with a small reduction on the host behind each kernel.     *)
(*                                                                         *)
(* Integers stand for f32 values, and NonFinite for NaN and infinities.    *)
(***************************************************************************)
EXTENDS Integers, FiniteSetsExt, Functions

CONSTANTS
  NRows,
  NBlocks,      \* GPAIR_BLOCKS: the blocks of the two kernels
  Budget,       \* the scales leave sums 2^Budget; 62 in the code
  Clamp,        \* the exponents of scales are -Clamp..Clamp; 1000 in the code
  NonFinite,    \* stands for NaN and infinities; a magnitude below it is finite
  Inputs        \* Inputs[r]: the pairs [grad, hess] a row may have in round r

\* The powers of two in use.
Pow2[n \in 0..Budget + Clamp + 2] == IF n = 0 THEN 1 ELSE 2 * Pow2[n - 1]

\* Finite magnitudes are those of f32, which are below 2^128, and there are fewer than
\* 2^32 rows: the clamp never makes a scale too large.
ASSUME QuantizerParams ==
  /\ NRows \in Nat \ {0} /\ NBlocks \in Nat \ {0} /\ Budget \in Nat /\ Clamp \in Nat
  /\ NRows <= Pow2[Budget]
  /\ NonFinite \in Nat \ {0} /\ NonFinite * NRows <= Pow2[Budget + Clamp]
  /\ DOMAIN Inputs \subseteq Nat \ {0}
  /\ \A r \in DOMAIN Inputs : Inputs[r] \subseteq [grad : Int, hess : Int]

Row == 0..NRows - 1
Block == 0..NBlocks - 1
Zero == [grad |-> 0, hess |-> 0]

\* The exponents pow2_scale clamps to.
Exponents == -Clamp..Clamp

----------------------------------------------------------------------------
\* The host's arithmetic

Magnitude(v) == IF v < 0 THEN -v ELSE v

\* i64 arithmetic wraps; its width is two bits more than the budget.
Wrap(v) == ((v + Pow2[Budget + 1]) % Pow2[Budget + 2]) - Pow2[Budget + 1]

AddAssign(a, b) == [grad |-> Wrap(a.grad + b.grad), hess |-> Wrap(a.hess + b.hess)]

SumOf(fixed, rows) == FoldFunctionOnSet(AddAssign, Zero, fixed, rows)

\* The largest magnitudes; 0 for no rows, infinity as soon as one is not finite.
Bounds(g, rows) ==
  [grad |-> Max({Magnitude(g[i].grad) : i \in rows} \cup {0}),
   hess |-> Max({Magnitude(g[i].hess) : i \in rows} \cup {0})]

IsFinite(bounds) == bounds.grad < NonFinite /\ bounds.hess < NonFinite

\* The exponent of pow2_scale: the largest power of two that keeps n_rows times
\* the largest magnitude within the budget.
PowScale(max_abs) ==
  IF max_abs = 0 THEN 0
  ELSE Max({k \in Exponents : IF k >= 0 THEN max_abs * NRows * Pow2[k] <= Pow2[Budget]
                                    ELSE max_abs * NRows <= Pow2[Budget - k]})

\* round: half away from zero.
RoundDiv(v, d) == IF v < 0 THEN -((-2 * v + d) \div (2 * d)) ELSE (2 * v + d) \div (2 * d)

QuantizeValue(v, k) == Wrap(IF k >= 0 THEN v * Pow2[k] ELSE RoundDiv(v, Pow2[-k]))

Scales(bounds) == [grad |-> PowScale(bounds.grad), hess |-> PowScale(bounds.hess)]

ToFixed(pair, s) == [grad |-> QuantizeValue(pair.grad, s.grad),
                     hess |-> QuantizeValue(pair.hess, s.hess)]

\* Rows that are not drawn weigh nothing, before the scale is chosen.
ZeroUnselected(g, drawn) == [i \in Row |-> IF i \in drawn THEN g[i] ELSE Zero]

----------------------------------------------------------------------------
VARIABLES
  mode,         \* "host", "exact" (device quantization) or "fast"
  round, pc,
  gradient, drawn,             \* what this round computed and drew
  gpair_f32, gpair_max,        \* device: the f32 pairs, the maxima of each block
  scales,                      \* GradQuantizer
  gpair, gpair_sum, root_sum,  \* device: the fixed pairs, the sums of each block
  todo                         \* the blocks of the running kernel still to run

quantizer_vars == << mode, round, pc, gradient, drawn, gpair_f32, gpair_max, scales, gpair,
           gpair_sum, root_sum, todo >>

QuantizerInit ==
  /\ mode \in {"host", "exact", "fast"}
  /\ round = 1 /\ pc = "gradient"
  /\ gradient = [i \in Row |-> Zero] /\ drawn = Row
  /\ gpair_f32 = [i \in Row |-> Zero]
  /\ gpair_max = [b \in Block |-> Zero] /\ gpair_sum = [b \in Block |-> Zero]
  /\ scales = [grad |-> 0, hess |-> 0]
  /\ gpair = [i \in Row |-> Zero] /\ root_sum = Zero
  /\ todo = {}

\* Device: the gradients arrive whole (exact) or masked by the kernel (fast).
DeviceInput(g, d) ==
  /\ mode # "host"
  /\ gpair_f32' = IF mode = "fast" THEN ZeroUnselected(g, d) ELSE g
  /\ todo' = Block /\ pc' = "max"
  /\ UNCHANGED << scales, gpair, root_sum >>

\* upload_gpair; without a device the pairs stay where they are.
UploadGpair(fixed) == gpair' = fixed

\* Host: mask, try_new, to_fixed, upload, and the sum.
HostInput(g, d) ==
  LET masked == ZeroUnselected(g, d) bounds == Bounds(masked, Row) IN
  /\ mode = "host"
  /\ IF IsFinite(bounds)
     THEN LET fixed == [i \in Row |-> ToFixed(masked[i], Scales(bounds))] IN
          /\ scales' = Scales(bounds)
          /\ UploadGpair(fixed) /\ root_sum' = SumOf(fixed, Row)
          /\ pc' = "tree"
     ELSE pc' = "error" /\ UNCHANGED << scales, gpair, root_sum >>
  /\ UNCHANGED << gpair_f32, todo >>

\* The round's gradients and its draw of rows.
Gradient ==
  /\ pc = "gradient" /\ round \in DOMAIN Inputs
  /\ \E g \in [Row -> Inputs[round]], d \in SUBSET Row :
       /\ gradient' = g /\ drawn' = d
       /\ DeviceInput(g, d) \/ HostInput(g, d)
  /\ UNCHANGED << mode, round, gpair_max, gpair_sum >>

\* The rows of a block: its threads stride over the whole grid.
RowsOf(b) == {i \in Row : i % NBlocks = b}

\* Mutant: the maxima are those of all rows, drawn or not.
MaxBlockUnmasked(b) ==
  /\ pc = "max" /\ b \in todo
  /\ gpair_max' = [gpair_max EXCEPT ![b] = Bounds(gpair_f32, RowsOf(b))]
  /\ gpair_f32' = [i \in Row |-> IF mode = "exact" /\ i \in RowsOf(b) \ drawn THEN Zero
                                 ELSE gpair_f32[i]]
  /\ todo' = todo \ {b}
  /\ UNCHANGED << mode, round, pc, gradient, drawn, scales, gpair, gpair_sum, root_sum >>

\* gpair_max_abs: masks its rows in place unless the gradient kernel has, and
\* reduces them.
MaxBlock(b) ==
  LET masked == [i \in Row |-> IF mode = "exact" /\ i \in RowsOf(b) \ drawn THEN Zero
                               ELSE gpair_f32[i]] IN
  /\ pc = "max" /\ b \in todo
  /\ gpair_f32' = masked
  /\ gpair_max' = [gpair_max EXCEPT ![b] = Bounds(masked, RowsOf(b))]
  /\ todo' = todo \ {b}
  /\ UNCHANGED << mode, round, pc, gradient, drawn, scales, gpair, gpair_sum, root_sum >>

\* The blocks' maxima come back; the host chooses the scales or refuses.
ChooseScales ==
  LET bounds == [grad |-> Max({gpair_max[b].grad : b \in Block}),
                 hess |-> Max({gpair_max[b].hess : b \in Block})] IN
  /\ pc = "max" /\ todo = {}
  /\ IF IsFinite(bounds)
     THEN scales' = Scales(bounds) /\ todo' = Block /\ pc' = "quantize"
     ELSE pc' = "error" /\ UNCHANGED << scales, todo >>
  /\ UNCHANGED << mode, round, gradient, drawn, gpair_f32, gpair_max, gpair, gpair_sum,
                  root_sum >>

\* gpair_quantize: the block's rows, and their sum.
QuantizeBlock(b) ==
  LET fixed == [i \in Row |-> IF i \in RowsOf(b) THEN ToFixed(gpair_f32[i], scales)
                              ELSE gpair[i]] IN
  /\ pc = "quantize" /\ b \in todo
  /\ gpair' = fixed
  /\ gpair_sum' = [gpair_sum EXCEPT ![b] = SumOf(fixed, RowsOf(b))]
  /\ todo' = todo \ {b}
  /\ UNCHANGED << mode, round, pc, gradient, drawn, gpair_f32, gpair_max, scales, root_sum >>

\* The blocks' sums come back and are added.
SumBlocks ==
  /\ pc = "quantize" /\ todo = {}
  /\ root_sum' = SumOf(gpair_sum, Block)
  /\ pc' = "tree"
  /\ UNCHANGED << mode, round, gradient, drawn, gpair_f32, gpair_max, scales, gpair,
                  gpair_sum, todo >>

\* The tree has been built on gpair.
NextRound ==
  /\ pc = "tree"
  /\ round' = round + 1 /\ pc' = "gradient"
  /\ UNCHANGED << mode, gradient, drawn, gpair_f32, gpair_max, scales, gpair, gpair_sum,
                  root_sum, todo >>

RoundsEnded == pc = "error" \/ (pc = "gradient" /\ round \notin DOMAIN Inputs)

QuantizerNext ==
  \/ Gradient
  \/ \E b \in Block : MaxBlock(b) \/ QuantizeBlock(b)
  \/ ChooseScales \/ SumBlocks \/ NextRound
  \/ RoundsEnded /\ UNCHANGED quantizer_vars

QuantizerSpec == QuantizerInit /\ [][QuantizerNext]_quantizer_vars

----------------------------------------------------------------------------
\* Properties

Pairs == [grad : Int, hess : Int]

QuantizerTypeOK ==
  /\ mode \in {"host", "exact", "fast"}
  /\ round \in Nat \ {0}
  /\ pc \in {"gradient", "max", "quantize", "tree", "error"}
  /\ drawn \subseteq Row /\ todo \subseteq Block
  /\ scales \in [grad : Exponents, hess : Exponents]
  /\ root_sum \in Pairs
  /\ \A f \in {gradient, gpair_f32, gpair} : f \in [Row -> Pairs]
  /\ \A f \in {gpair_max, gpair_sum} : f \in [Block -> Pairs]

\* Whatever the mode, the number of blocks and their order, the tree is built on
\* the pairs, the scales and the root sum that the host would have computed from
\* the drawn rows alone, and a round is refused exactly when the host refuses it:
\* a gradient that is not finite matters only in a row that is drawn.
SameAsHost ==
  LET masked == ZeroUnselected(gradient, drawn) bounds == Bounds(masked, Row) IN
  /\ pc = "error" => ~IsFinite(bounds)
  /\ pc = "tree" =>
       /\ IsFinite(bounds) /\ scales = Scales(bounds)
       /\ gpair = [i \in Row |-> ToFixed(masked[i], scales)]
       /\ root_sum = SumOf(gpair, Row)

\* No sum over the rows of a node wraps.  It leaves the budget by no more than the half
\* unit that rounding may add to a row, so that the difference of a parent and a child
\* fits as well.
NodeSumsFit ==
  pc = "tree" =>
    \A rows \in SUBSET Row :
      \A part \in {[i \in Row |-> gpair[i].grad], [i \in Row |-> gpair[i].hess]} :
        Magnitude(FoldFunctionOnSet(+, 0, part, rows)) <= Pow2[Budget] + NRows \div 2

\* The device quantizes the pairs of the drawn rows as the host would, refuses a
\* round exactly when the host does, and the sums of all nodes fit.
QuantizedLikeHost == SameAsHost /\ NodeSumsFit
=============================================================================
