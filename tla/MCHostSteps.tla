---------------------------- MODULE MCHostSteps -----------------------------
(***************************************************************************)
(* What the host computes before and while a tree grows, for TLC: the      *)
(* quantile sketches (QuantileSketch), the plan of the device memory       *)
(* (GpuMemPlan), trees under constraints (MonotoneTree) and the parallel   *)
(* partition of a node's rows (StablePartition).  A behaviour moves one of *)
(* them.                                                                   *)
(***************************************************************************)
EXTENDS StablePartition

CONSTANTS
  Alone, Left, Right,   \* sketches
  NaN                   \* a missing value

VARIABLES
  scenario,
  buffer, levels, total, seen, drains,
  req, phase, plan, low, high, ctx,
  bins, gpair, p, tree, gains, level, next, depth, done

sketch_vars == << buffer, levels, total, seen, drains >>
plan_vars == << req, phase, plan, low, high, ctx >>
tree_vars == << bins, gpair, p, tree, gains, level, next, depth, done >>

----------------------------------------------------------------------------
\* QuantileSketch: one sketch that is fed for long, or two that are also merged.

OneSketch == INSTANCE QuantileSketch WITH
  Sketches <- {Alone}, Values <- 1..5, Weights <- {1}, Limit <- 3, MaxBins <- 3,
  MaxWeight <- 7

TwoSketches == INSTANCE QuantileSketch WITH
  Sketches <- {Left, Right}, Values <- 1..4, Weights <- {1, 2}, Limit <- 3, MaxBins <- 3,
  MaxWeight <- 5

----------------------------------------------------------------------------
\* GpuMemPlan: shapes from one row to 300 thousand and from one feature to 300, with
\* so little memory that the budget after the reserve of 512 MiB runs from nothing to
\* much; and every option with a few shapes.

MiB == 1048576

Request(rows, features, bin, batches, free, budget, cols, streams, resident, fast, k, cache, dq, def) ==
    [rows |-> rows, features |-> features, max_bin |-> bin, batch |-> batches[1],
     env_batch |-> batches[2], free |-> free * MiB, budget |-> budget * MiB, cols |-> cols, streams |-> streams,
     resident |-> resident, fast |-> fast, weights |-> k > 1, outputs |-> k,
     split_cache |-> cache, device_quantize |-> dq, deferred |-> def]

\* Batches asked for by parameter and by environment; -1 is neither.
Ask(param, env) == << param, env >>
Default == Ask(-1, -1)

MCRequests ==
    {Request(n, m, bin, Default, free, 0, 0, 0, -1, fast, 1, cache, TRUE, FALSE) :
        n \in {1, 5000, 80000, 300000}, m \in {1, 3, 5, 21, 28, 40, 100, 300},
        bin \in {15, 255}, free \in {500, 545, 560, 570, 580, 600, 640, 700, 900},
        fast \in BOOLEAN, cache \in BOOLEAN}
    \cup
    {Request(n, m, 63, batch, free, budget, cols, s, r, fast, k, TRUE, TRUE, FALSE) :
        n \in {2000, 200000}, m \in {7, 300}, batch \in {Ask(1, -1), Ask(16, 32)}, free \in {600, 800},
        budget \in {0, 572}, cols \in {0, 4, 40}, s \in {0, 1, 2, 3}, r \in {-1, 99},
        fast \in BOOLEAN, k \in {1, 3}}
    \cup
    {Request(n, m, 255, batch, free, 0, 0, 0, -1, FALSE, 1, cache, TRUE, FALSE) :
        n \in {2000, 200000}, m \in {28, 300},
        batch \in {Ask(-1, 32), Ask(-1, 1), Ask(32, 1), Ask(-1, 33), Ask(33, -1), Ask(0, 16)},
        free \in {560, 600, 900}, cache \in BOOLEAN}
    \cup
    {Request(n, m, 63, Default, 700, 0, cols, 0, -1, FALSE, 1, TRUE, dq, TRUE) :
        n \in {2000, 200000}, m \in {7, 60}, cols \in {4, 7, 64}, dq \in BOOLEAN}
    \cup
    {Request(2000, 7, 63, Default, 700, 0, 0, 0, -1, TRUE, 1, TRUE, FALSE, FALSE)}

Planning == INSTANCE GpuMemPlan WITH Requests <- MCRequests

----------------------------------------------------------------------------
\* MonotoneTree: five rows with all combinations of a constrained feature of four
\* bins and one of two that occur in three matrices, one with missing values.

MCRow == 1..5
MCCuts == << << -1, 0, 1 >>, << 0 >> >>

MCMatrices ==
  {<< << 0, 0 >>, << 1, 1 >>, << 2, 0 >>, << 3, 1 >>, << 1, 0 >> >>,
   << << 0, 1 >>, << 1, 0 >>, << 2, 1 >>, << 3, 0 >>, << 3, 1 >> >>,
   << << 0, 0 >>, << 2, 1 >>, << 255, 0 >>, << 3, 255 >>, << 1, 1 >> >>}

Pairs(gs) == [r \in MCRow |-> [grad |-> gs[r], hess |-> 1]]

\* Gradients that rise and fall along the constrained feature.
MCGrads == {gs \in [MCRow -> {-3, 1, 4}] : gs[1] # 1 /\ gs[4] # -3 /\ gs[5] = -3}

MCInputs == {[bins |-> m, gpair |-> Pairs(gs)] : m \in MCMatrices, gs \in MCGrads}

Par(c1, c2, a, m) ==
  [constraint |-> << c1, c2 >>, alpha |-> a, max_delta_step |-> m]

MCParams ==
  {Par(1, 0, 0, 0), Par(-1, 0, 0, 0), Par(1, -1, 0, 0), Par(-1, 1, 1, 0), Par(0, 1, 0, 1),
   Par(0, 0, 1, 1)}

Constrained == INSTANCE MonotoneTree WITH
  Feature <- {1, 2}, Cuts <- MCCuts, F32_MAX <- 2, Lambda <- 1, Gamma <- 2, MinChildWeight <- 1,
  Scale <- 60, Row <- MCRow, MaxDepth <- 3, Inputs <- MCInputs, Params <- MCParams

----------------------------------------------------------------------------
\* StablePartition, which this module extends: the configuration gives it bytes of two
\* rows, so that nodes of up to seven rows have several bytes and a short last one, and
\* up to three segments of one or two bytes.

ASSUME OneSketch!SketchAssumption /\ TwoSketches!SketchAssumption
ASSUME Planning!RequestsAssumption /\ Constrained!TreeParams

----------------------------------------------------------------------------
Some(T) == CHOOSE x \in T : TRUE

StepsInit(scenarios) ==
  /\ scenario \in scenarios
  /\ IF scenario = "one sketch" THEN OneSketch!Init ELSE TwoSketches!Init
  /\ scenario # "plan" => req = Some(MCRequests)
  /\ Planning!Init
  /\ scenario # "constrain" => /\ bins = Some(MCMatrices) /\ p = Some(MCParams)
                               /\ gpair = Pairs(<< 4, 1, 1, 1, -3 >>)
  /\ Constrained!Init
  /\ scenario # "partition" => goes = << >> /\ threads = 1
  /\ PartitionInit

Sketch ==
  /\ \/ scenario = "one sketch" /\ OneSketch!Next
     \/ scenario = "two sketches" /\ TwoSketches!Next
  /\ UNCHANGED << scenario, plan_vars, tree_vars, partition_vars >>

PlanMemory ==
  /\ scenario = "plan" /\ Planning!Next
  /\ UNCHANGED << scenario, sketch_vars, tree_vars, partition_vars >>

GrowConstrained ==
  /\ scenario = "constrain" /\ Constrained!Next
  /\ UNCHANGED << scenario, sketch_vars, plan_vars, partition_vars >>

PartitionRows ==
  /\ scenario = "partition" /\ PartitionNext
  /\ UNCHANGED << scenario, sketch_vars, plan_vars, tree_vars >>

Next == Sketch \/ PlanMemory \/ GrowConstrained \/ PartitionRows

vars == << scenario, sketch_vars, plan_vars, tree_vars, partition_vars >>

StepsSpec ==
  StepsInit({"one sketch", "two sketches", "plan", "constrain", "partition"}) /\ [][Next]_vars

\* Only plans, for the refutation of DeferredWidthKept.
PlansSpec == StepsInit({"plan"}) /\ [][Next]_vars

----------------------------------------------------------------------------
\* Properties

\* However the data came in, a sketch keeps the ends and the weight of a feature, is
\* exact while there are few values, never overstates a rank, cuts the values apart
\* and has few levels.
SketchKeepsRanks ==
  IF scenario = "one sketch"
  THEN /\ OneSketch!NothingLost /\ OneSketch!ExactWhenFew /\ OneSketch!RanksNeverOverstated
       /\ OneSketch!CutsSeparate /\ OneSketch!LevelsAreFew
  ELSE scenario = "two sketches" =>
       /\ TwoSketches!NothingLost /\ TwoSketches!ExactWhenFew
       /\ TwoSketches!RanksNeverOverstated /\ TwoSketches!CutsSeparate

\* A plan stays within the budget, uses it as far as whole blocks go, stops at the
\* knee of the width, and covers every buffer the training context then allocates.
PlanFitsAndCovers ==
  /\ Planning!PlanFitsBudget /\ Planning!CapacityIsLargest /\ Planning!WidthStopsAtKnee
  /\ Planning!PlanCoversContext /\ Planning!SecondStreamIsFree

\* A width the caller fixed before the rows were known is the width of the plan.
DeferredWidthKept == Planning!DeferredWidthKept

\* Predictions follow the constraints between any two points, and the gains stored
\* in the tree are what its bounded leaf weights gain.
ConstraintsHold ==
  scenario = "constrain" =>
    Constrained!PredictionsMonotone /\ Constrained!StoredWeightIsOwn /\ Constrained!GainsAddUp
=============================================================================
