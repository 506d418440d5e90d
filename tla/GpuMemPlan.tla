----------------------------- MODULE GpuMemPlan -----------------------------
(***************************************************************************)
(* From a request and the free device memory to a block width, a number of *)
(* histogram streams and a number of resident blocks, and from there to    *)
(* the buffers the training context really allocates.  All sizes in bytes, *)
(* with the program's constants.                                           *)
(*   gpu_mem_plan.rs               StreamingMemModel,                      *)
(*                                 resolve_gpu_streaming_plan              *)
(*   python.rs                     parse_params, resolve_blocking,         *)
(*                                 deferred planning                       *)
(*   backend/cuda/train_ctx.rs     GpuTrainCtx::new, GpuMemoryBudget       *)
(***************************************************************************)
EXTENDS Integers, FiniteSets, FiniteSetsExt

CONSTANT Requests   \* see RequestShape; 0 stands for "not given", or NotGiven

MiB             == 1048576
RmStageBytes    == 32 * MiB
RmStageMinSlot  == 4 * MiB
SlackBytes      == 8 * MiB
PartThreads     == 512
PartBatch       == 32
PartWords       == 10
PacketWindow    == 2
LevelNodes      == 8192
RowMajorMaxFeats == 32
MaxNodesPerBatch == 32
DefaultBatch    == 16   \* written out in parse_params, in the planner and in the context
NotGiven        == -1   \* resident, batch, and env_batch: FB_HIST_NODES_PER_BATCH
CandidateWidths == {4, 8, 16, 32, 64, 128}
TargetMaxBlocks == 5

RequestShape(q) ==
    /\ q.rows > 0 /\ q.features > 0 /\ q.max_bin > 0 /\ q.outputs > 0
    /\ {q.batch, q.env_batch, q.resident} \subseteq Nat \cup {NotGiven}
    /\ {q.fast, q.weights, q.split_cache, q.deferred} \subseteq BOOLEAN
    /\ q.deferred => q.cols > 0

RequestsAssumption == \A q \in Requests : RequestShape(q)

VARIABLES
    req,        \* the request, from parse_params on with its batch resolved
    phase,
    plan,       \* [cols, streams, clamped] once the widths are solved
    low, high,  \* the search for the number of resident blocks
    ctx         \* what GpuTrainCtx::new allocates

vars == <<req, phase, plan, low, high, ctx>>

CeilDiv(a, b) == (a + b - 1) \div b
Larger(a, b)  == IF a > b THEN a ELSE b
Smaller(a, b) == IF a < b THEN a ELSE b
Clamp(x, a, b) == Larger(a, Smaller(x, b))

-----------------------------------------------------------------------------
(* How many nodes of a level share a histogram launch, that is how many         *)
(* histograms a slot holds.  It is resolved once, when the parameters are       *)
(* parsed; the planner and the context have defaults of their own.              *)

HistCap(q) ==
    CASE q.batch # NotGiven                               -> q.batch
      [] q.batch = NotGiven /\ q.env_batch # NotGiven     -> q.env_batch
      [] q.batch = NotGiven /\ q.env_batch = NotGiven     -> DefaultBatch

\* The planner knows nothing of the environment, ...
PlannerBatch(q) == IF q.batch # NotGiven THEN q.batch ELSE DefaultBatch

\* ... the context looks at it as parse_params does.
ContextBatch(q) == HistCap(q)

-----------------------------------------------------------------------------
(* The memory model.                                                       *)

PartitionArrays(rows) ==
    LET blocks  == Smaller(rows, CeilDiv(rows, PartThreads) + PartBatch - 1)
        offsets == blocks + PartBatch
    IN  (blocks + 2 * offsets) * 4 + PartBatch * PartWords * 4 + LevelNodes * 2 * 4

FastMulticlassExtra(rows, k) == IF k <= 1 THEN 0 ELSE rows * 4 * (k - 1) + rows * 8

FixedBytes(q) ==
    q.rows * (16 + 4 + 4 + 1 + 4)
      + q.rows + Larger(PartitionArrays(q.rows), SlackBytes)
      + (IF q.device_quantize THEN q.rows * 8 ELSE 0)
      + (IF q.fast THEN q.rows * 8 + (IF q.weights THEN q.rows * 4 ELSE 0)
                        + FastMulticlassExtra(q.rows, q.outputs) ELSE 0)
      + RmStageBytes

SlotColBytes(q) == q.rows + (q.max_bin + 1) * 16 * PlannerBatch(q)

Cached(q, batch) == q.split_cache /\ batch >= 2

ResidentColBytes(q) ==
    LET batch == PlannerBatch(q)
    IN  IF Cached(q, batch) THEN batch * (q.max_bin + 1) * 32 + batch * 64 + 12 ELSE 0

ResidentFixedBytes(q) ==
    LET batch == PlannerBatch(q)
    IN  IF Cached(q, batch) THEN batch * (40 + 64 * PacketWindow) ELSE 0

StageRows(rows, cols, slots, buffers) ==
    LET per_slot == Larger(RmStageBytes \div Larger(slots, 1), RmStageMinSlot)
    IN  Smaller(Larger((per_slot \div buffers) \div cols, 1), rows)

\* Beyond eight slots the floor of 4 MiB per slot asks for more than the budget.
ExtraStage(q, cols, slots) ==
    IF cols > RowMajorMaxFeats THEN 0
    ELSE Larger(0, Max({StageRows(q.rows, cols, slots, b) * cols * b * slots : b \in {1, 2}})
                     - RmStageBytes)

\* Mutant: the floor of the staging slots is forgotten.
PeakForLayoutNoFloor(q, cols, streams, resident) ==
    FixedBytes(q) + cols * SlotColBytes(q) * streams
      + (cols * (SlotColBytes(q) + ResidentColBytes(q)) + ResidentFixedBytes(q)) * resident

PeakForLayout(q, cols, streams, resident) ==
    FixedBytes(q) + ExtraStage(q, cols, streams + resident)
      + cols * SlotColBytes(q) * streams
      + (cols * (SlotColBytes(q) + ResidentColBytes(q)) + ResidentFixedBytes(q)) * resident

PeakFor(q, streams, cols) == FixedBytes(q) + cols * SlotColBytes(q) * streams

-----------------------------------------------------------------------------
(* The block width.                                                        *)

Free(q)    == IF q.budget = 0 THEN q.free ELSE Smaller(q.budget, q.free)
Reserve(q) == Larger((Free(q) \div 100) * 15, 512 * MiB)
Budget(q)  == Larger(0, Free(q) - Reserve(q))

Fits(q, streams) == PeakFor(q, streams, 1) <= Budget(q)

MaxSafeCols(q, streams) ==
    Clamp((Budget(q) - FixedBytes(q)) \div (SlotColBytes(q) * streams), 1, q.features)

\* The narrowest candidate with at most five blocks, or the widest that fits.
KneeWidth(features, max_safe) ==
    LET ceiling == Clamp(max_safe, 1, features)
        fit     == {c \in CandidateWidths : c <= ceiling}
        few     == {c \in fit : CeilDiv(features, c) <= TargetMaxBlocks}
    IN  IF few # {} THEN Min(few) ELSE IF fit # {} THEN Max(fit) ELSE ceiling

Width(q, streams) ==
    Clamp(IF q.cols > 0 THEN q.cols ELSE KneeWidth(q.features, MaxSafeCols(q, streams)),
          1, q.features)

Blocks(q, cols) == CeilDiv(q.features, cols)

\* Two streams only where the upload is chunked and the blocks stay as wide.
Streams(q) ==
    IF q.streams > 0 THEN q.streams
    ELSE IF /\ Fits(q, 2)
            /\ Width(q, 2) >= Width(q, 1)
            /\ Width(q, 2) <= RowMajorMaxFeats
         THEN 2 ELSE 1

-----------------------------------------------------------------------------
NoPlan == [cols |-> 0, streams |-> 0, resident |-> 0, peak |-> 0]
NoCtx  == [streams |-> 0, resident |-> 0, row_major |-> FALSE, bytes |-> 0]

Init ==
    /\ req \in Requests
    /\ phase = "parse" /\ plan = NoPlan /\ low = 0 /\ high = 0 /\ ctx = NoCtx

ResidentSlot(q, cols) ==
    cols * (SlotColBytes(q) + ResidentColBytes(q)) + ResidentFixedBytes(q)

\* resident_capacity before its loop: zero when the base alone is too much.
HighResident(q, cols, streams) ==
    LET base == FixedBytes(q) + cols * SlotColBytes(q) * streams
    IN  IF base >= Budget(q) THEN 0
        ELSE Smaller((Budget(q) - base) \div ResidentSlot(q, cols), Blocks(q, cols))

\* Mutant: the option is handed on as it was given.
ParseUnresolved ==
    /\ phase = "parse" /\ HistCap(req) \in 1..MaxNodesPerBatch
    /\ req' = req /\ phase' = "plan"
    /\ UNCHANGED <<plan, low, high, ctx>>

\* parse_params.
ParseParams ==
    /\ phase = "parse" /\ HistCap(req) \in 1..MaxNodesPerBatch
    /\ req' = [req EXCEPT !.batch = HistCap(req)] /\ phase' = "plan"
    /\ UNCHANGED <<plan, low, high, ctx>>

ParseRefused ==
    /\ phase = "parse" /\ HistCap(req) \notin 1..MaxNodesPerBatch
    /\ phase' = "refused"
    /\ UNCHANGED <<req, plan, low, high, ctx>>

\* Not even the narrowest block fits: an error before training starts.
PlanRefused ==
    /\ phase = "plan"
    /\ ~Fits(req, IF req.streams > 0 THEN req.streams ELSE 1)
    /\ phase' = "refused"
    /\ UNCHANGED <<req, plan, low, high, ctx>>

SolveWidth ==
    /\ phase = "plan"
    /\ Fits(req, IF req.streams > 0 THEN req.streams ELSE 1)
    /\ LET s == Streams(req)
           c == Width(req, s)
       IN  /\ plan' = [NoPlan EXCEPT !.cols = c, !.streams = s]
           /\ high' = HighResident(req, c, s)
    /\ low' = 0 /\ phase' = "residency"
    /\ UNCHANGED <<req, ctx>>

Bisect ==
    /\ phase = "residency" /\ low < high
    /\ LET mid == low + CeilDiv(high - low, 2)
       IN  IF PeakForLayout(req, plan.cols, plan.streams, mid) <= Budget(req)
             THEN low' = mid /\ high' = high
             ELSE high' = mid - 1 /\ low' = low
    /\ UNCHANGED <<req, phase, plan, ctx>>

\* An explicit number is respected, but never more than there are blocks.
FillResidency ==
    /\ phase = "residency" /\ low = high
    /\ LET r == IF req.resident >= 0 THEN Smaller(req.resident, Blocks(req, plan.cols)) ELSE low
       IN  plan' = [plan EXCEPT !.resident = r,
                                !.peak = PeakForLayout(req, plan.cols, plan.streams, r)]
    /\ phase' = "planned"
    /\ UNCHANGED <<req, low, high, ctx>>

-----------------------------------------------------------------------------
(* The training context.                                                   *)

\* A source whose rows are unknown before it is read was built with the
\* requested width; the plan made afterwards must not change it.
GeometryChanged ==
    /\ phase = "planned" /\ req.deferred /\ plan.cols # req.cols
    /\ phase' = "geometry_error"
    /\ UNCHANGED <<req, plan, low, high, ctx>>

ContextRefuses ==
    \/ plan.streams \notin {1, 2}
    \/ ContextBatch(req) \notin 1..MaxNodesPerBatch
    \/ req.fast /\ ~req.device_quantize

RejectContext ==
    /\ phase = "planned" /\ ~(req.deferred /\ plan.cols # req.cols) /\ ContextRefuses
    /\ phase' = "rejected"
    /\ UNCHANGED <<req, plan, low, high, ctx>>

GpairBlocks(rows) == Smaller(1024, Larger(1, CeilDiv(rows, 256)))

\* GpuMemoryBudget::total, for the widest block and its histogram words.
AllocatedBytes(q, cols, streams, resident, buffers) ==
    LET slots == streams + resident
        bins  == cols * (q.max_bin + 1)
        rm    == cols <= RowMajorMaxFeats
        batch == ContextBatch(q)
    IN  q.rows * (16 + 4 + 4 + 1 + 4)
          + q.rows + PartitionArrays(q.rows)
          + (IF q.device_quantize THEN q.rows * 8 + GpairBlocks(q.rows) * 32 ELSE 0)
          + (IF q.fast THEN q.rows * 8 + (IF q.weights THEN q.rows * 4 ELSE 0)
                            + FastMulticlassExtra(q.rows, q.outputs) ELSE 0)
          + (IF rm THEN StageRows(q.rows, cols, slots, buffers) * cols * buffers * slots ELSE 0)
          + cols * q.rows * slots
          + bins * 16 * batch * slots
          + (IF Cached(q, batch) THEN resident * (bins * batch * 32 + cols * batch * 64
                                           + cols * 12 + batch * (40 + 64 * PacketWindow))
             ELSE 0)
          + ((batch * 3 + 1) * 4 + (cols + 1) * 4 + cols * 4) * slots

\* The environment may ask for pinned staging, which needs two buffers a slot.
BuildContext ==
    /\ phase = "planned" /\ ~(req.deferred /\ plan.cols # req.cols) /\ ~ContextRefuses
    /\ \E buffers \in {1, 2} :
         ctx' = [streams   |-> plan.streams,
                 resident  |-> Smaller(plan.resident, Blocks(req, plan.cols)),
                 row_major |-> plan.cols <= RowMajorMaxFeats,
                 bytes     |-> AllocatedBytes(req, plan.cols, plan.streams,
                                              plan.resident, buffers)]
    /\ phase' = "built"
    /\ UNCHANGED <<req, plan, low, high>>

Next == \/ ParseParams \/ ParseRefused \/ PlanRefused \/ SolveWidth \/ Bisect \/ FillResidency
        \/ GeometryChanged \/ RejectContext \/ BuildContext

Spec == Init /\ [][Next]_vars
-----------------------------------------------------------------------------
(* Properties.                                                             *)

\* A plan without overrides never exceeds what is left after the reserve, also
\* when the staging floor of many resident slots sets in ("only the budget after
\* the reserve is spent").
PlanFitsBudget ==
    (phase \in {"planned", "built"} /\ req.cols = 0 /\ req.streams = 0 /\ req.resident < 0)
        => plan.peak <= Budget(req)

\* The search ends with the largest number of resident blocks that fits: one
\* more block would not fit or does not exist.
CapacityIsLargest ==
    (phase \in {"planned", "built"} /\ req.resident < 0) =>
        LET fits == {r \in 0..Blocks(req, plan.cols) :
                        PeakForLayout(req, plan.cols, plan.streams, r) <= Budget(req)}
        IN  plan.resident = (IF fits = {} THEN 0 ELSE Max(fits))

\* The block width stops at the knee: an automatic width is never wider than the
\* narrowest that gives five blocks, and never narrower than memory forces.
WidthStopsAtKnee ==
    (phase \in {"residency", "planned", "built"} /\ req.cols = 0) =>
        /\ \A c \in CandidateWidths :
             (c < plan.cols => Blocks(req, c) > TargetMaxBlocks)
        /\ Blocks(req, plan.cols) > TargetMaxBlocks =>
             \A c \in CandidateWidths \cap (1..req.features) :
                c > plan.cols => PeakFor(req, plan.streams, c) > Budget(req)

\* What the training context allocates is covered by the estimate the plan was
\* made with, buffer by buffer and in both staging modes, however the batch was
\* asked for (the planner and GpuTrainCtx::new state their sizes, and the default
\* of the batch, in two places).
PlanCoversContext == phase = "built" => ctx.bytes <= plan.peak

\* The second stream is only opened where the upload is chunked, and it never
\* costs width: the plan is as wide as with one stream.
SecondStreamIsFree ==
    (phase \in {"residency", "planned", "built"} /\ req.streams = 0 /\ plan.streams = 2) =>
        /\ plan.cols <= RowMajorMaxFeats
        /\ plan.cols >= Width(req, 1)
        /\ plan.cols > 1 => PeakFor(req, 2, IF req.cols = 0 THEN plan.cols ELSE 1) <= Budget(req)

\* A width given for a source whose rows are not known in advance is kept by the
\* plan that is completed after opening it.
DeferredWidthKept == phase # "geometry_error"

\* With an explicit width the budget plays no part: the plan is the one that all
\* the free memory gives.
ExplicitWidthIgnoresBudget ==
    (phase = "planned" /\ req.cols > 0 /\ req.resident < 0) =>
        plan.resident =
            LET q    == [req EXCEPT !.budget = 0]
                fits == {r \in 0..Blocks(q, plan.cols) :
                            PeakForLayout(q, plan.cols, plan.streams, r) <= Budget(q)}
            IN  IF fits = {} THEN 0 ELSE Max(fits)
=============================================================================
