----------------------------- MODULE Predictors ------------------------------
(***************************************************************************)
(* Predicting with a model (python.rs, inference.rs, cuda/inference.rs):   *)
(* from a contiguous array, another array, files read in batches, or on a  *)
(* GPU, one class after the other.  The CPU paths are one step; the GPU    *)
(* goes through the rows in batches, in a staging buffer that is kept for  *)
(* the next call if it is small.                                           *)
(*                                                                         *)
(* Sizes count f32 values.                                                 *)
(***************************************************************************)
EXTENDS TreeArrays

CONSTANTS
  Models,           \* [trees, base : one margin per class, n_features]
  RowSeqs,          \* the inputs: sequences of rows
  BlockRows,        \* CPU_PREDICTION_BLOCK_ROWS
  ChunksPerWorker,  \* chunks of a parallel prediction per worker
  WorkerCounts,     \* worker counts, a set
  FreeMemory,       \* free device memory a call may find, a set
  MaxStaging,       \* MAX_STAGING_BYTES
  MaxCachedStaging, \* MAX_CACHED_STAGING_BYTES
  Headroom          \* DEVICE_HEADROOM_BYTES

PredictorParams ==
  /\ BlockRows \in Nat \ {0} /\ ChunksPerWorker \in Nat \ {0}
  /\ WorkerCounts \subseteq Nat \ {0} /\ FreeMemory \subseteq Nat
  /\ MaxStaging \in Nat /\ MaxCachedStaging \in Nat /\ Headroom \in Nat

VARIABLES
  model,
  pc,               \* "idle", "stage", "batch", "done" or "failed"
  rows, upto,       \* the call: its rows and n_trees
  class, out,       \* GPU: the class in progress; the margins so far, per class
  staging,          \* per class: rows of the cached staging buffer, 0 for none
  held, usable      \* rows of this call's staging buffer, memory it may use

vars == << model, pc, rows, upto, class, out, staging, held, usable >>

Classes == 1..Len(model.base)
View(c) == ClassView(model, c)
Count(c) == ClassTreeCount(model, upto', c)

Init ==
  /\ model \in Models
  /\ pc = "idle" /\ rows = << >> /\ upto = 0 /\ class = 1
  /\ out = [c \in Classes |-> << >>]
  /\ staging = [c \in Classes |-> 0] /\ held = 0 /\ usable = 0

----------------------------------------------------------------------------
\* The CPU paths

\* CpuInferenceModel::predict_margins, in blocks.
CpuMargins(m, input, n) ==
  FlattenSeq([p \in DOMAIN Pieces(input, BlockRows) |->
                BlockMargins(m, Pieces(input, BlockRows)[p], n)])

\* The rows of one chunk: enough for every worker to get its chunks.
RowsPerChunk(n, workers) ==
  Max({1, (n + workers * ChunksPerWorker - 1) \div (workers * ChunksPerWorker)})

\* score_contiguous_rows: chunks own disjoint ranges of the rows.
ScoreContiguous(m, input, n, workers) ==
  IF workers <= 1 THEN CpuMargins(m, input, n)
  ELSE LET chunks == Pieces(input, RowsPerChunk(Len(input), workers)) IN
       FlattenSeq([p \in DOMAIN chunks |-> CpuMargins(m, chunks[p], n)])

\* score_rows: an array that is not contiguous, one logical row at a time.
ScoreRows(m, input, n) ==
  [r \in DOMAIN input |->
     << m.base[1] >> \o [t \in 1..Smaller(n, Len(m.trees)) |->
                           LeafValue(m.trees[t], input[r])]]

Projected(m, input) == [r \in DOMAIN input |-> Project(m, input[r])]

\* predict_files: each batch is projected to the features of the class and
\* scored by the compact model.
ScoreBatches(m, input, n, workers, cut) ==
  LET batch(b) == ScoreContiguous(Compact(m), Projected(m, b), n, workers)
  IN  batch(SubSeq(input, 1, cut)) \o batch(SubSeq(input, cut + 1, Len(input)))

CpuCall ==
  \E input \in RowSeqs, n \in 0..Len(model.trees) + 1, w \in WorkerCounts :
    /\ pc = "idle"
    /\ rows' = input /\ upto' = n /\ pc' = "done"
    /\ \/ out' = [c \in Classes |-> ScoreContiguous(View(c), input, Count(c), w)]
       \/ out' = [c \in Classes |-> ScoreRows(View(c), input, Count(c))]
       \/ \E cut \in 0..Len(input) :
            out' = [c \in Classes |-> ScoreBatches(View(c), input, Count(c), w, cut)]
    /\ UNCHANGED << model, class, staging, held, usable >>

----------------------------------------------------------------------------
\* The GPU path

Width(c) == Compact(View(c)).n_features
Values(n, c) == n * (Width(c) + 1)

GpuCall ==
  \E input \in RowSeqs, n \in 0..Len(model.trees) + 1 :
    /\ pc = "idle" /\ pc' = IF input = << >> THEN "done" ELSE "stage"
    /\ rows' = input /\ upto' = n /\ class' = 1
    /\ UNCHANGED << model, out, staging, held, usable >>

Reusable(cached, n, limit) ==
  cached > 0 /\ cached >= n /\ Values(cached, class) <= limit

\* How many rows a batch may have, and whether the cached buffer serves them; the
\* buffer leaves the cache until the call has succeeded.
Stage ==
  /\ pc = "stage"
  /\ \E free \in FreeMemory :
       LET cached == staging[class]
           left   == free + Values(cached, class) - Headroom
           limit  == IF left < 0 THEN 0 ELSE Smaller(left, MaxStaging)
           n      == Smaller(Max({1, limit \div (Width(class) + 1)}), Len(rows))
       IN  /\ held' = IF Reusable(cached, n, limit) THEN cached ELSE n
           /\ usable' = limit
  /\ staging' = [staging EXCEPT ![class] = 0]
  /\ pc' = "batch"
  /\ UNCHANGED << model, rows, upto, class, out >>

\* One batch of predict_with_staging: up, through the kernel, and down.
Batch ==
  /\ pc = "batch" /\ Len(out[class]) < Len(rows)
  /\ LET first == Len(out[class])
         batch == SubSeq(rows, first + 1, Smaller(first + held, Len(rows)))
         view  == View(class)
     IN  out' = [out EXCEPT ![class] = @ \o
                   [r \in DOMAIN batch |->
                      GpuMargin(Compact(view), Project(view, batch[r]),
                                ClassTreeCount(model, upto, class))]]
  /\ UNCHANGED << model, pc, rows, upto, class, staging, held, usable >>

\* A small buffer goes back to the cache.
FinishClass ==
  /\ pc = "batch" /\ Len(out[class]) = Len(rows)
  /\ staging' = [staging EXCEPT ![class] =
                   IF Values(held, class) <= MaxCachedStaging THEN held ELSE 0]
  /\ held' = 0 /\ usable' = 0
  /\ IF class < Len(model.base) THEN class' = class + 1 /\ pc' = "stage"
     ELSE class' = class /\ pc' = "done"
  /\ UNCHANGED << model, rows, upto, out >>

\* An allocation, a copy or a launch fails; the buffer is dropped.
GpuFails ==
  /\ pc = "batch"
  /\ held' = 0 /\ usable' = 0 /\ pc' = "failed"
  /\ UNCHANGED << model, rows, upto, class, out, staging >>

Return ==
  /\ pc \in {"done", "failed"} /\ pc' = "idle"
  /\ rows' = << >> /\ upto' = 0 /\ class' = 1
  /\ out' = [c \in Classes |-> << >>]
  /\ UNCHANGED << model, staging, held, usable >>

Next == \/ CpuCall \/ GpuCall \/ Stage \/ Batch \/ FinishClass \/ GpuFails \/ Return

Spec == Init /\ [][Next]_vars

----------------------------------------------------------------------------
\* Properties

TypeOK ==
  /\ model \in Models
  /\ pc \in {"idle", "stage", "batch", "done", "failed"}
  /\ rows \in RowSeqs \cup {<< >>} /\ upto \in Nat /\ class \in Classes
  /\ DOMAIN out = Classes /\ \A c \in Classes : Len(out[c]) <= Len(rows)
  /\ staging \in [Classes -> Nat] /\ held \in Nat /\ usable \in Nat

\* Whichever path a call takes - heap or child indices, compacted or not, cut into
\* blocks, chunks and batches, on a reused buffer or a new one, after a failed call
\* or not - each row gets, in order and for every class, the margin the model
\* defines, added up in the order of the trees.
PredictsTheModel ==
  pc = "done" =>
    \A c \in Classes :
      out[c] = [r \in DOMAIN rows |-> PredictMarginsUpto(model, rows[r], upto)[c]]

\* A buffer uses no more memory than the call found usable, unless a single row
\* already does, and no buffer outlives a call that is larger than the cache may
\* hold.
StagingWithinLimits ==
  /\ held > 1 => Values(held, class) <= usable
  /\ \A c \in Classes : Values(staging[c], c) <= MaxCachedStaging
=============================================================================
