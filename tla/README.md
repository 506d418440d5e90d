# A TLA+ model of FerrisBoost

FerrisBoost trains gradient-boosted trees over column blocks, on the CPU or on
one GPU, from Parquet, CSV or in-memory tables. Its promise is that nothing of
*how* the work is done shows in the result: not the number of threads, the block
layout, histogram subtraction, the memory a histogram lives in, the place where
predictions are kept, or the order in which files are decoded. The modules here
state that promise, as abstract specifications where it has an operational form
and as invariants where it has not, and check that models of the code keep it.

All source paths below are relative to `src/src/` of the repository.

## Inventory

| Part | State | Operations | What is hard |
|---|---|---|---|
| Tree builder, `train.rs` `build_tree` | tree, level nodes with rows and sums, parent histograms, partitions | per level: block workers (accumulate, subtract, enumerate), reduction, partition, next level | rayon workers in any order; histograms moved, not copied; failing sources; bounds of constrained trees; threads of one partition |
| Histograms, `hist.rs`, `types.rs` | fixed-point sums per bin | build, node_sum, subtract_in_place, quantize | exactness, i64 range |
| Split search, `split.rs` | none | forward and reverse scan, reduce | ties, missing values, empty sides, constraints |
| Tree, `tree.rs` | node vector | push, split, descend, export, import | missing values, thresholds, foreign files |
| Round loop, `train.rs` `train_with_backend` | predictions, pending delta, gradients, model, evaluation predictions | gradient, sample, quantize, build, evaluate, stop | three ways of keeping predictions, a deferred update, several classes per round, errors in the middle of a round |
| Callbacks, `callback.rs` | best score, patience, history | after_iteration | ties, patience, order of callbacks |
| GPU context, `backend/cuda/train_ctx.rs` | device buffers, row arena, histogram slots, delta, resident predictions | begin tree, partition, resolve, leaf values, sessions, launches | stale spans and tokens, leases, failed uploads, half-open configurations |
| Split cache, `backend/cuda/split_ctx.rs` | histograms of two levels | begin, submit, collect, finish level | generations, capacity, windows |
| GPU kernels, `histogram.cu`, `backend/cuda/mod.rs` | shared and global memory | accumulate, quantize, partition | barriers, split 64-bit sums, launch geometry |
| Inference, `inference.rs`, `backend/cuda/inference.rs` | staging buffers | heap, arrays, batches | layouts without leaf flags, reused buffers |
| GPU memory plan, `gpu_mem_plan.rs` | none | solve block width, streams, residency | formulas that must match the allocations |
| Parallel file reader, `source/parallel_reader.rs` | claim counter, one channel per file | worker loop, next, drop | back-pressure, blocked workers, panics |
| Parquet source, `source/parquet_source.rs` | bins in memory or in a cache directory with a manifest | build, commit, reuse, read | crash between renames, damaged blocks, source files replaced |
| CSV source, `source/csv_source.rs` | job queue, message queue, a result channel per chunk | produce, parse, next | chunk order, bounded queues, errors and panics |
| Opening and prediction input, `source/mod.rs`, `source/predict_input.rs` | column roles, projections | open_many, bind, read | columns in another order in every file and pass |
| Quantile sketch, `sketch.rs` | buffer, levels of summaries | push, merge, cuts | rank bounds through merging and compression |
| Model files, `model_io.rs`; prediction files, `python.rs` | temporary file, channel to a writer thread | save, load, predict to file | crashes, failures on either side, racing calls |
| Objectives, metrics, column sampling, threads, diagnostics, other bindings | numeric or none | | |

How they interact: the round loop calls the tree builder once per round (once
per class with several outputs) with the quantized gradients, and the builder
borrows blocks and columns from a source and, with a GPU, histograms and row
partitions from the context. The builder gives every row a leaf value, on the CPU
by adding to `predictions`, on the GPU by filling a delta buffer that the loop
adds later. The loop then descends the new tree for each evaluation set and
runs the callbacks. Sources with several files read them through the parallel
reader before training starts; their bins come from cuts of the sketches and may
be kept in the quantized cache. A finished model goes to a file and back, and is
applied to arrays or files on either device.

`PROJECT.json` lists every component with its status, and every hazard with the
properties that cover it or the reason why none does.

## Modules

| Module | Models | Run |
|---|---|---|
| `TreeParts` | operators of `types.rs`, `columns.rs` (cuts and bins), `hist.rs`, `split.rs` (unconstrained), `tree.rs` (with its thresholds) | `tree_core` |
| `GreedyTree` | abstract: grow a tree row by row | `tree_core` |
| `TreeBuild` | `train.rs` `build_tree` on the CPU; implements `GreedyTree` | `tree_core` |
| `Boosting`, `RoundBoosting` | abstract: tree k from trees 1..k-1; K trees on the margins of the round's start | `round_loops` |
| `BoostLoop` | `train_with_backend`, its use of the GPU context, `callback.rs`; implements `Boosting` | `round_loops` |
| `MulticlassLoop` | `train_multiclass_rounds`; implements `RoundBoosting` | `round_loops` |
| `OrderedStream` | abstract: the files one after the other | `readers` |
| `ParallelReader` | `source/parallel_reader.rs`; implements `OrderedStream` | `readers` |
| `CsvChunks` | `parallel_csv_chunks` of `source/csv_source.rs` | `readers` |
| `StableSplits` | abstract: nodes own row sequences | `gpu_level` |
| `RowArena` | row spans, tokens and batches of the GPU context; implements `StableSplits` | `gpu_level` |
| `SplitCache` | `backend/cuda/split_ctx.rs` | `gpu_level` |
| `HistSlots` | histogram slots, leases and uploads of the GPU context | `slots` |
| `QuantizedCache` | the cache of `source/parquet_source.rs` | `sources` |
| `ColumnBinding`, `DatasetOpen`, `PredictInput` | column roles; opening several files; files to predict on | `sources` |
| `HistLaunch`, `HistKernel` | launches of a histogram; threads of one launch | `kernels` |
| `GradientQuantizer` | `GradQuantizer` on the host and on the device | `kernels` |
| `AtomicFile` | abstract: a file replaced at once | `models` |
| `ModelFile` | `model_io.rs`; implements `AtomicFile` | `models` |
| `ModelJson` | the XGBoost JSON of `tree.rs` | `models` |
| `TreeArrays`, `Predictors` | heaps and arrays of trees; the prediction paths | `models` |
| `PredictOutput` | `predict_files_to_parquet` of `python.rs` | `models` |
| `QuantileSketch` | `sketch.rs` | `host_steps` |
| `GpuMemPlan` | `gpu_mem_plan.rs`, what the context allocates, deferred plans | `host_steps` |
| `MonotoneTree` | constraints, L1 and max_delta_step in `split.rs` and `build_tree` | `host_steps` |
| `StablePartition` | `split_rows_by_prefix` of `train.rs` | `host_steps` |
| `TreeBuildProofs` | proofs about `TreeBuild` and the operators of `TreeParts` | |
| `BoostLoopProofs` | proofs about `BoostLoop` and `MulticlassLoop` | |
| `ParallelReaderProofs` | proofs about `ParallelReader` and `CsvChunks` | |
| `DataParallelProofs` | proofs about `GradientQuantizer`, `HistLaunch`, `HistKernel` and `StablePartition` | |
| `GpuLevelProofs` | proofs about `SplitCache` and `RowArena` | |
| `FileProofs` | proofs about `ModelFile` and `PredictOutput` | |
| `HistSlots`, `QuantizedCache` | proofs at the end of the modules themselves | |
| `MC*` | instances for TLC | |

Most MC modules instantiate several components that share no state, or meet only
where one has ended. A variable (`scenario`, `input`, `outputs`, `used`, `size`)
says which of them a behaviour moves; the others stand still in an initial state
of their own. The behaviours are therefore exactly those of each component with
each set of constants, one beside the other, and each property is about one of
them. Some MC modules extend their components instead of instantiating them, so that what their
runs check and what is proved are the same definitions: `MCLoops` extends `BoostLoop` and
`MulticlassLoop`, `MCReaders` extends `ParallelReader` and `CsvChunks`, `MCGpuLevel` extends
`SplitCache` and `RowArena`, `MCModels` extends `ModelFile` and `PredictOutput`, `MCKernels` extends
`HistKernel` (which extends `HistLaunch`) and `GradientQuantizer`, `MCHostSteps` extends `StablePartition`. Where two of them have a
part of the same name, one carries a prefix (`m_round`, `MultiBuild`; `ArenaInit`; `c_out`, `ChunksInit`;
`LaunchInit`, `QuantizerInit`, `PartitionInit`). A definition that only names several properties of one
component (`LaunchesCoverSpan`, `SameAsSerial`, `PlanFitsAndCovers`, ...) is their conjunction; the parts
are stated, with their meaning, in the component's module.

Definitions named after a mistake (`ChildrenOfNeighbour`, `GradientBeforeDebt`,
...), marked "Mutant" in their comments, are plausible bugs; `PROJECT.json` pairs
each with the property that detects it. No specification uses them.

### Trees on the CPU: TreeBuild, MonotoneTree, StablePartition

One level of `build_tree` is: each block's worker accumulates the nodes marked
`Accumulate`, obtains the others as parent minus sibling (moving the parent
histogram out and leaving an empty shell), and enumerates; when all are through,
the main thread reduces the candidates in block order, partitions the rows of
all nodes that chose a feature, feature by feature, and builds the next level
slot by slot. These are the actions `AccumulateBlock`, `SubtractBlock`,
`EnumerateBlock`, `Reduce`, `PartitionFeature`, `SettleSlot`, `SplitSlot` and
`FinishLevel`; `ApplyLeaf` and `Finish` are the code after the depth loop, and
`FailBlock`, `FailColumn`, `AbortLevel` the error paths. Workers interleave
freely. A histogram is a function from features to bins to sums, and the empty
function stands for the shell of length 0, so the `expect` and the `assert_eq` of
the subtraction pass are the guard `ClaimsValid`, whose failure leads to the phase
"panicked".

Gains and leaf values are exact integers (`Scale` is a common multiple of all
denominators), the threshold `MIN_GAIN_EPS`, which absorbs rounding, becomes 0, and
the learning rate, a common factor, is left out. `Lambda` is positive. A node's
rows are a set: the order of row ids only matters for memory access and is the
subject of `RowArena` and `StablePartition`. `GreedyTree` recomputes every sum and
candidate from the rows, so the refinement checks scan, subtraction, partition
and reduction together; it maps the nodes of the level not yet handled and those
of the next level to the abstract set `open`.

A tree is grown on bins and kept with f32 thresholds. f32 values appear by their
order, numbered from `F32_MIN` to `F32_MAX`, with NaN beside them; `Cuts` holds the cuts of
each feature, `FindBin` and `Quantized` turn raw values into bins. `SplitSlot` stores
`SplitThreshold` of the chosen bin, which is a cut or, for the two splits by "missing or
not", the least or the largest f32. `LeafValue` is prediction, which compares raw values with that
threshold; `LeafValueOfBins` is the evaluation during training (`leaf_values` of `train.rs`),
which turns the threshold back into a bin (`SplitBin`). `TrainMatchesPredict` says that what
a training row was paid by its bins is what prediction gives for its raw values, and that for
every row, not only those trained on, both evaluations agree. `Quantized` and `FeatureValue` exclude what
every source of training rows excludes, `f32::MAX` and the infinities; prediction rejects
`f32::MAX` too but lets infinities pass (`source/predict_input.rs` 355-358), about which the property says
nothing.

`MonotoneTree` grows a tree under constraints on one thread: each node carries
bounds (`ChildBounds` cuts them at the middle of the two sibling weights), a
candidate's gain is that of the bounded weights, and the stored gain is compared
with the leaves the finished tree has. `StablePartition` cuts a node's rows into
segments of whole direction bytes; every `Worker` counts, and later writes, its own
segment, `CutOutputs` and `Join` are the main thread between and after.

### Rounds: BoostLoop, MulticlassLoop

A prediction is the sequence of the trees added to it, and a gradient is the
prediction it was computed from, so "trained on stale predictions" and "added
twice" are visible without any arithmetic. `config` ranges over CPU, GPU exact
and GPU fast, the `device_quantize` parameter and the environment variable
behind it. `kept` holds the row draws, which the code computes from the seed
and the tree number and which all back ends must apply once. A round is
`Gradient` (pay the delta owed, compute), `Sample`, one of `FastQuantize`,
`DeviceQuantize` and `HostQuantize`, `Build`, `Eval`, `CallbackStep`; after the loop
come `Settle` and `Finish`. Each `?` of the code is an action of `Failure`, which
ends the training with an error. `Outcome` maps `pc` to the abstract outcome, and
`kept` and `trees` to themselves.

`MulticlassLoop` does the same with a margin per class: `BeginRound` fixes the
gradients of the round, or in fast mode only the softmax statistics of every row,
from which and from the class's own margin the device computes the gradient just
before each tree (`Basis`). `Quantize`, `MultiBuild`, `ApplyDelta` and `MultiEval` then run once
per class before `MultiCallbackStep`.

### Readers: ParallelReader, CsvChunks

Each step of a worker between two accesses to shared state is an action; a send
that would block is disabled. A batch is its file and its position. `MayPanic`
lets a decoder panic. The code shares all senders between all workers, so a
channel disconnects only after the last worker has ended; `Disconnected` says
so. With a panic the consumer waits for ever on the file whose worker died, as
long as some other worker is alive, and once all have ended the file counts as
complete although batches are missing: this is the behaviour of the code, and the
reason why with panics only the order of what is delivered and the claims of the
workers are checked, and the refinement is claimed without them.

`CsvChunks` has the thread that cuts chunks (`ReadChunk`, `Announce`, `SendJob`,
`ReportError`, `ReportDone`), the parsers (`Lock` the receiver's mutex, `ReceiveJob`,
`Parse`) and the consumer (`NextReady`, `NextMessage`, `NextResult`, `DropConsumer`).
A chunk's own result channel is `result[c]`: pending, sent, or lost when its parser
panicked. Here a lost result is an error of the stream and never an end. A consumer may
read on after an error: a chunk that failed is one error in its place, and the chunks after it
still come (`Items`, `Expected`).

`OrderedStream` says only what may be delivered and when the end may be told; that it is told
is the liveness property `ReadersEnd`, together with the end of every thread.

### Row sets and histograms on the GPU: RowArena, SplitCache, HistSlots

`RowArena` keeps `rows` and `next_rows`, the two arrays, and for each node only a
span. `PartitionBatch` and `PartitionScalar` write to the output array at `cursor` and
leave a token; `Resolve` turns tokens into the children's spans when the level is
over; `SettleSlot` writes the node's leaf value to `delta` for the rows of its span;
`FinishPartitionLevel` swaps the arrays. Every limit of the code that returns an
error leads to the stage `"error"` (`Abort`), which `NoLimitHit` says is never reached. The
refinement maps a span to the sequence of rows in it, so the children's rows must also be
in their parent's order. What the next launch partitions (`Requests`) is computed from the
nodes still unlaunched, as `build_tree` groups them: resident blocks first, in batches of
`BatchCap` by feature and slot, then other columns one node at a time.

`SplitCache` represents a histogram by the node whose rows it sums, and a
difference of two that are not parent and child by `Junk`. `Submit` and `Collect`
are the two ends of a packet window, `FinishSplitLevel` shifts the generations, and
a histogram that does not fit is spilled to the host, where `SubtractOnHost` goes
on with it.

`HistSlots` has a session per worker: `Open`, `Acquire` a streaming slot from the
pool (or wait) unless the block is resident, `LockSlot` and look what it holds,
`UploadBlock`, `UploadMetadata` (every upload may fail and leave junk, and what the
slot claims to hold is withdrawn before the first and stated after the last),
kernels under the core's lock, `Unlock` and `Release`.

### Kernels: HistLaunch, HistKernel, GradientQuantizer

`HistLaunch` counts how often a row is added to a feature's bins by the launches of
each path the host can take. `HistKernel` has every thread of one launch: clear its
part of the tile, add its rows (`AddLow`, then `AddHigh` with the carry), meet at the
barriers, flush. Its tiles are those of `HistLaunch`, which it extends, since host and kernel cut
them by the same loop. `place` says at which tile and in which of its three loops a thread is,
`tasks` what the loop has left for it before the next barrier, `carry` what an atomic addition
to the lower half has handed on to the upper one. The inputs of a launch are a record of `Calls`, and
the loop's variables that do not change (the node of a block, its rows, the tiles that are
skipped) are functions of them. A word holds `Radix` values and wraps, so a lost carry shows.
`GradientQuantizer` runs two rounds on the host or on the device, where the maximum
and the sum of each block are reduced by a kernel and then by the host; magnitudes
stand for floats and `Budget` for the 62 bits of a sum.

### Sources: QuantizedCache, DatasetOpen, PredictInput

A quantized column is the record of what went into it (feature, targets, cuts,
file version), so a column that belongs to another request is visible. Every
write of a block is three actions (`CreateTmp`, `WriteTmp`, `RenameTmp`), a run may
`Stop` between any two, `Replace` changes the source file, `Corrupt` damages a block
on disk; `CheckManifest` and `Reuse` are the checks of a later run, and `WithBlock`,
`WithBlockCols` and `FeatureColumn` the three ways to read. The flag of a verified
block is shared as in the code. `DatasetOpen` binds every file's columns to the
first file's order and reads them in passes, each with its own projection, whose
results must line up; a value is its file, row and column. `PredictInput` composes
the model's, the compact and the file's numbering.

### Models: ModelFile, ModelJson, Predictors, PredictOutput

`ModelFile` interleaves saves and loads of several processes byte by byte; a file
is named by the save that created it, so a reader that opened the old version
keeps it after the rename. The removal of a temporary file may fail, which `PendingFile`'s drop
ignores; `unremoved` records the names it failed for. The refinement maps the destination to the abstract
file and an open load to the versions it may still return. `ModelJson` takes
models as trained, and files as any program might write them, through load and
save. `Predictors` runs the CPU paths as one step and the GPU path batch by batch,
with its staging buffer. `PredictOutput` is a caller and a writer thread around a
channel with room for two, and several calls for one path.

### Sketches and plans: QuantileSketch, GpuMemPlan

`QuantileSketch` keeps, beside the code's state, the bag `seen` of all observations,
against which ranks, ends and weight are compared. `GpuMemPlan` works with the
program's constants in bytes: `SolveWidth`, `Bisect`, `FillResidency` are the phases
of the planner, `BuildContext` sums what the training context then allocates. How many
histograms a slot holds (`hist_nodes_per_batch`) may come from the parameter, from
`FB_HIST_NODES_PER_BATCH` or from a default. Planner and context resolve it each in its own way
(`PlannerBatch` ignores the environment, `ContextBatch` does not), and what makes them agree is
that `parse_params` (`python.rs` 2547-2568, 2613) resolves it before either for every device that
is not the CPU: `ParseParams`. Without that step (`ParseUnresolved`) `PlanFitsAndCovers` is
violated by an unset parameter and a variable of 32.

## Runs

| Run | Bounds | Distinct states |
|---|---|---|
| `tree_core` | 4 rows, 3 features in 2 blocks, cuts of 0, 1 and 2 values, one of them f32::MIN, 5 finite f32 values, depth 3, 192 matrices, 2 gradient vectors, 3 column draws, sources with and without column reads | 114 thousand |
| `round_loops` | 2 rows, 5 rounds, 13 configurations, 8 row draws, 2 evaluation sets, 3 scores, patience 2 and 3 around a recorder; 3 classes, 2 rounds, 4 modes, 27 draws of the second round | 65 thousand |
| `readers` | 2 workers, up to 3 files of 5 kinds; 2 parsers, up to 5 chunks of 4 kinds; 3 workers, up to 4 files with panics | 296 thousand |
| `gpu_level` | 4 rows, 3 features, depth 3, batches of 2; two trees of depth 2; caches of 4 and 3 histograms over levels of depth 4, 2 trees | 170 thousand |
| `slots` | up to 3 workers, 1 resident and 2 streaming blocks, 1 streaming slot, 3 sessions in all | 43 thousand |
| `sources` | 2 features, 2 targets, 2 runs, 1 replacement, damage anywhere; 2 files with the columns in every order, missing, twice or bad; 21 models over pairs of files | 855 thousand |
| `kernels` | spans of 9 rows, tiles of 3 bins; 2 threads with 2 rows, 2 tiles, up to 4 rows; batches of up to 3 nodes; 3 rows, 2 blocks, 2 rounds of quantization | 377 thousand |
| `models` | 2 savers, 1 loader, 3 versions of up to 5 bytes; 3 trees, 3 classes, all arrangements of children of 2 and 3 nodes; 7 models, 27 rows; 2 calls of 3 batches | 456 thousand |
| `host_steps` | 7 observations of 5 values in one sketch, 5 in two; about 5500 requests; 5 rows, depth 3, 6 sets of constraints; 7 rows, 3 threads | 143 thousand |
| `loop_half_open`, `cache_race`, `mem_plan_deferred` | expected violations, as `round_loops`, `sources` and `host_steps` | |

What each run asks is the "about" of its entry in `PROJECT.json`.

Why these bounds are enough. The interesting cases of a level are a node that
accumulates, one that subtracts from an accumulated parent and one that
subtracts from a parent that was itself a difference: the last needs three
levels of histograms, hence depth 3 and four rows. Two blocks are enough for a
tie between blocks, and a single-bin feature gives "missing or not" splits; with a
feature of three bins their upper threshold lies above a bin that a search of the cuts
would send to the other side. The
matrices include rows that are missing everywhere and columns that are constant;
one gradient vector has a row that sampling has zeroed. The deferred delta
spans two rounds, so three rounds cover a first, a middle and a last one, and a
row drawn in one round and not in the next; early stopping with patience 2 and 3
needs five rounds for a reset in the middle. In the reader, two workers and three
files let both workers run ahead of the consumer while a file is still
unclaimed; four files and three workers do the same with a worker lost. Five
chunks are more than both CSV queues and the chunk waited for hold together.
Four rows give an arena whose levels interleave the rows of all nodes and have a
level in which a leaf is settled after the arrays were swapped; two trees show
what a tree leaves behind. An even and an odd cache capacity differ in whether two
siblings are kept together. Three workers are enough for two waiting ones while
the third fails. Two runs over a cache give build, kill, reuse and the
change of a file or a request in between. Nine rows are more than two whole groups
of the four-row kernel and a rest. Two tiles show every barrier of the tile loop
twice. Seven observations are enough for two compressions of a sketch of
three entries and a merge after them.

No run uses symmetry. Where a run switches deadlock checking off (`sources`,
`host_steps`) some of its components simply stop when they are done; in all others
a stuck state that is not an end state would be reported, which is how it is known
that no thread of a kernel waits for ever at a barrier and no worker of a tree
build for a result that does not come.

**Fairness.** The loops: each is one thread that keeps running, weak fairness of its
steps; nothing has to fail. Readers: the operating system schedules every
thread, hence weak fairness per thread; weak fairness of the consumer's steps
says that a caller keeps asking for the next batch or drops the iterator, and
only `Drop` is never forced. `HistSlots`: strong fairness per worker, which
says that the mutexes and the condition variable do not pass over one waiting
thread for ever, and that a session launches finitely many kernels. `PredictOutput`: weak fairness of each caller and each
writer thread.

## Findings

`loop_half_open` (documentation): the comment over `device_quantize_wanted`
(`backend/cuda/train_ctx.rs` 43-44) demands that kernels and buffers be decided by
one predicate. The context loads the kernels by `device_quantize_wanted(&config)`
(line 812) and allocates the buffers by that or fast math (line 1066). With
`gpu_math="fast"`, `device_quantize` unset and `FB_GPU_DEVICE_QUANT=0` the context
comes up with buffers and without kernels, and the first round returns an error. No
wrong model results.

`cache_race` (documentation): the manifest of the quantized cache takes the
identity of the source file after the blocks have been quantized
(`source/parquet_source.rs` 1311). A file replaced in between leaves a manifest
that vouches for bins of the old file, and the next run uses them silently, which
line 822 excludes.

`mem_plan_deferred` (code): a CSV source on a GPU is opened with the requested block
width as it is, and the plan completed afterwards clamps the width to the number of
features and then finds that the width has changed (`python.rs` 3434). Seven
features and `cols_per_block = 64`, the default, end in an error.

Statements of the documentation that the code does not keep either, stated here but
not run; each can be seen by putting the definition in place of the invariants of
the named configuration:
- `BoostLoop!SyncedPredictionsWhole` (`MCLoops`): `sync_prediction_to_host` is meant
  for callers after training (`train_ctx.rs` 2220), but single-output fast training
  ends with the last tree's delta not yet added on the device. Nothing calls it.
- `QuantizedCache!HalfWrittenIsRefused` (`MCSources`): with given cuts a directory
  that a killed build left without a manifest is built over
  (`source/parquet_source.rs` 1093) instead of refused (test comment, line 2655).
- `GpuMemPlan!ExplicitWidthIgnoresBudget` (`MCHostSteps`, as
  `Planning!ExplicitWidthIgnoresBudget`): an explicit width does not switch the
  memory budget off, as `types.rs` 483 says; it still decides the resident blocks.
- `QuantileSketch!RankIntervalsHold` (`MCHostSteps`, as
  `OneSketch!RankIntervalsHold`): an entry's upper rank may lie below the weight of the values up to
  it (`sketch.rs` 33, 293) after a compression and a merge; ranks are never
  overstated.

## Proofs

TLAPS proves the following for every value of the constants that satisfies the
named assumptions of the modules. `BinsFit`, `CutsFit`, `ScanParams`, `BuildParams`,
`BlocksAscend`, `LoopParams`, `ReaderParams`, `ChunkParams`, `SlotParams`, `CacheParams`, `DamageShows`,
`SplitCacheParams`, `RowArenaParams`, `QuantizerParams`, `LaunchParams`, `KernelParams` and `PartitionParams` are
assumptions of the modules themselves, which TLC evaluates on every run;
`FileParams`, `MulticlassParams` and `OutputParams` are hypotheses of the theorems, and
the MC modules assume them of their instances. They say what the code's types say (a patience is a natural number, a
saved model has bytes, a block a column, a byte a row) and that the values that stand for
"nothing" and "damaged" differ from all others. `QuantizerParams` also says that there are at most
`2^Budget` rows, and that the magnitude that stands for infinity, times the rows, is not larger than the
largest scale can bring down: the code has 2^62 against row numbers of 32 bits and floats below 2^128. Each proof follows the same path: the
property alone is not inductive, a stronger invariant is, and it is shown action by
action.

`TreeBuildProofs`
- `RowsAreAccountedFor`: `Spec => []RowsAccounted`. The property speaks of open
  nodes and of leaf values given; it is not inductive, because partitioning
  goes through `chosen`, `todo` and `parts`. `RowsInv` adds that the slots' rows are
  pairwise disjoint (`Disjoint`), that `parts[i]` is a two-way split of the rows of
  node i once its feature is fetched and empty before (`PartsInv`), and that a row
  has received a value exactly if its node has been settled (`Paid`). The split
  search is irrelevant: whatever candidate is chosen, the argument holds, so
  nothing about gains or sums is needed.
- `SubtractionNeverPanics`: `Spec => []NeverPanics`. `ClaimsInv` says that parents have
  the shape of the previous level (one full histogram per slot), that two
  subtracting nodes of a level have different parents, and that a worker past
  its subtraction owns full histograms for every slot; it holds from `SplitSlot`, which
  numbers parents by slot, through `FinishLevel`, which turns this level's
  histograms into parents.
- `TrainingMatchesPrediction`: `Spec => []TrainMatchesPredict`, from `RowsInv`, `PathInv` and `ExactInv`.
  `predict_row` is a recursive function from the root, `partition_rows` goes level by level:
  `RowsArrive` says that the unfinished tree leads every row of an open node to that node,
  `PaidByTheirLeaf` that it leads a row that has been paid to a closed leaf with that value;
  children come after their parents (`Grown`), so splitting an open leaf changes
  the way of nobody else. That is an argument about bins. It becomes one about raw values
  because the cuts ascend, so that a value lies below the threshold of a bin exactly if its
  own bin lies below that one, at both sentinels too, and because a threshold leads back to
  a bin that separates the same bins; `ExactInv` gives that every chosen bin is one of its feature's
  or the sentinel above them. TLC confirms `PathInv` on `MCTreeBuild`'s instance.
- `NodesAreExactAlways`: `Spec => []NodesExact`, from the two invariants above and `ExactInv`: what a
  worker has accumulated, subtracted and found (`WorkIsExact`); that a node that subtracts
  finds the histogram of its own rows and its sibling's together (`ParentsAreExact`), which
  `NextIsPlanned` prepares while the next level is built; that every chosen split is one whose
  sides are the sums of the rows it sends there (`ChoicesAreGood`); and that of two
  siblings the one with fewer rows is accumulated (`Halved`). That a candidate has
  the right sides is a statement about prefix sums over a histogram in both directions
  (`PrefixSums`, `SplitSides`), that no side is empty comes from the weight both must have.
  It needs that every bin is missing or one of its feature's, which the code demands of
  its sources (`train_ctx.rs` 2559-2572, `backend/cuda/mod.rs` 788-797) and which bins found
  in the cuts are (`Quantized`).
- `BuildImplementsGreedy`: `Spec => ImplementsGreedy`: neither the block layout nor the order of
  the workers nor histogram subtraction shows in the tree or in what a row is paid.
  Which of two equally good splits wins is decided in the code by the order in which
  candidates are met; the specification decides it by a rule on the splits themselves
  (`Earlier`). So a scan is shown to meet its candidates in the order of that rule
  (`IsScan`, `ScanIsOrdered`), a reverse scan that the code leaves out because no gradient is
  missing to have lost nothing that would win (`ReverseIsIdle`, `Covers`), scans to follow each other
  in feature order within a block and from block to block (`PlansAscend`), and the first of
  the best candidates to be the best split (`FirstIsBest`, `BestIsChosen`). `BestInv`
  carries this from the workers through the reduction, and with it that splits are
  searched above the greatest depth only; in the step simulation `SettleSlot` and
  `ApplyLeaf` are the abstract `Settle`, `SplitSlot` is `Split`, the failures are `Fail`, and the
  steps of the workers, the reduction, the partition and the change of level stutter.
  `BlocksAscend`, the assumption this rests on, is what `partition_features`
  (`columns.rs` 250-256) does and what a cache's manifest is checked for
  (`source/parquet_source.rs` 1371-1376).
- The last three are about what recursive functions and folds compute. The induction
  theorems of the library cannot be instantiated here, so every induction goes through
  `NatSetInduction`: a set of naturals with 0 and all successors has them all. On it rest
  what sums over disjoint rows do (`SumUnion`, `SumRest`), what flattened sequences hold
  and in which order (`FlattenHas`, `FlattenOrdered`), and that the reduction of candidates
  yields the first best one (`FoldIsFirstBest`).

`BoostLoopProofs`
- `TypeCorrect`: `Spec => []TypeOK`, with the strengthening that relates `pc`, `round`
  and the numbers of trees (`Progress`) and bounds `best_iteration`.
- `PredictionsAreComplete` and `OneAuthorityOnly`, from `PredInv`. `HostInv` says
  the host's predictions lack exactly the last tree when a delta is pending and
  nothing otherwise; `DeviceInv` the same of the device, whose buffer is consumed by
  the gradient kernel and refilled by the build; `DebtInv` at which places of the
  loop a debt may exist. The two halves of the property, that no tree is lost and that
  all debts are paid in the end, are `NoTreeIsLost` and `DebtIsPaid`.
- `CallbacksSeeWhatHappened`: `Spec => []SingleOutputSeen`. `SeenInv` counts the scores
  against the trees and the place in the list of callbacks (`Counted`), and says of every
  early-stopping callback which of the scores it has seen it remembers as the best and how
  many rounds ago that was (`CallbackInv`). That the training stops exactly when a
  patience is used up needs the rounds to be told apart in which a callback later in the
  list has not run yet, because an earlier one has stopped the training.
- `LoopImplementsBoosting`: `Spec => ImplementsBoosting`, from `GradInv`, which follows the
  gradients from the pass that computes them through sampling and quantization
  of each back end to the tree builder, and from a step simulation in which
  `Eval` is the abstract `Round`.

`BoostLoopProofs`, of `MulticlassLoop`
- `MulticlassTypeCorrect` and `MarginsAreComplete`: `MultiSpec => []MarginsComplete`. `MarginsInv` says which trees the margins of a
  class contain at every place of the loop: all of the class, except, on a device, between the
  build of a tree and its addition, when `delta` has it, and for the evaluation until `Eval`.
- `LoopImplementsRoundBoosting`: `MultiSpec => ImplementsRoundBoosting`. In fast mode a gradient
  is computed from the statistics of the round's start and the class's own margin; the
  invariant says that this margin has not been touched since, so that both are of the
  same round.

`ParallelReaderProofs`, of both readers
- `TypeCorrect` and `OneWorkerPerFile`: `Spec => []TypeOK`, `Spec => []OneReaderPerFile`,
  because the files of busy workers lie below the counter and differ; with and without
  panics.
- `BatchesArriveInOrder`: `Spec => []DeliveredInOrder`, with and without panics. Of every file
  what was delivered lies before what waits in its channel, both lie before what its
  worker will send next, and there is nothing of files not yet claimed (`OrderInv`).
- `QueuedBatchesHaveOwner` and `ConsumerIsServed`: `Spec => []QueuedBatchesOwned` and
  `Spec => []ConsumerServed` when decoders do not panic: files below `nextFile` are worked
  on, or their end is in the channel, or the consumer is past them.
- `ReaderImplementsStream`: `Spec => ImplementsOrderedStream` when decoders do not panic; with
  panics it is false, as described above. `BatchesArriveInOrder` leaves open whether something is
  missing. `RefineInv` closes that: of each file f the first `s[f]` of its contents were sent, by the
  place of its worker (`Working`), and were received but for the one that may wait in the
  channel (`Waiting`); `out` is the contents of the files before the current one followed by what
  was received of that. A file whose end the consumer takes, or whose channel is disconnected, has
  no worker left on it (`FileIsOver`), so that all of it was sent. `Deliver` is `Receive`, `End` and `Drop`
  are themselves, every other step stutters (`StepRefines`).
- `ChunksTypeCorrect` and `ChunksArriveInOrder`: `ChunksSpec => []ChunksKeepOrder`, with parsers that
  panic and a reader that fails, from `ChunksInv`. `StreamInv` divides the chunks in those handed
  over, the one waited for and those announced in the channel, which are consecutive (`Handled`); says
  what was given for the first d of them, the last of which may still have batches in `ready`
  (`Handed`); and what else the channel can hold once the reading thread is past its loop, where an
  error it reports is followed by the end and nothing else (`AtTheEnd`). `LossInv` says why a good
  chunk fails only by a panic: while the consumer reads, a job is dropped only with its parser, and
  the parsers end before the reading thread only by panics. The bound on the chunks in flight
  is then the length of the channel, one chunk waited for and one in hand. The expected stream
  depends on the errors already delivered, which is why a step that delivers an error has to leave
  what came before as it was (`SameUpto`).
- Both rest on where the k-th element of part c is in a flattened sequence (`FlattenPosition`,
  `UptoExtends`), shown by `NatSetInduction`.

`HistSlots`
- `TypeCorrect` and `LeasesAreConserved`: `Spec => []LeasesConserved`, from `LeaseInv`, which ties
  a lease to the places of a session between the pool and the release.
- `SessionsSeeTheirBlock`: `Spec => []SessionSeesItsBlock`. `HolderInv` says that a slot's mutex
  is held by the one session that is at its slot; `ContentsInv` that a slot marked
  resident holds its own block (`ResidentInv`) and that the device has the offsets and the
  selection the host remembers as long as the slot's shape is valid (`MetadataInv`), which
  it is not from the first of several uploads to the last; `SessionInv` what a session has
  already made sure of.
- `ResidentBlocksAreFinal`: `Spec => ResidentIsFinal`, an action property, from the same.

`QuantizedCache`
- `CompleteCaches`, `ReadersGetTheirColumns`, `ManifestsAreFinal`: the blocks of a run are
  those its cuts and widths call for up to the one in work; a block on disk has the
  content its hash was taken from, or shows damage; what one process knows of a verified
  block stays true because nobody but the builder writes, and it writes before the
  manifest. The groups of features are shown to be non-empty intervals first
  (`GroupShape`), which is where the division of the block width matters.

`FileProofs`, of `ModelFile`
- `DestinationIsComplete` and `SavesLeaveNoLitter`: every version has at most one writer,
  the bytes written are exactly those of the ranges its workers are through
  (`BytesInv`), and the ranges cover the file (`RangesCover`, the arithmetic of rounding
  up twice), so that a version is whole when its workers are joined. A save ends with its
  temporary file gone unless it was killed or the removal failed.
- `FileImplementsAtomicFile`: `Spec => ImplementsAtomicFile`. A load reads one open file to
  its end whatever is renamed meanwhile; the opening step is the abstract choice of
  the version it returns. `SavingIsAtomic` puts the three together.

`FileProofs`, of `PredictOutput`
- `SuccessIsWhole`, `FailureIsClean`, `ErrorsHaveTheirNames` and `OthersAreSafe`, and with
  them `OutputsAreWholeOrGone`: `OutputSpec => OutputWholeOrGone`. `FlowInv` says that the batches
  written, those in the channel and the one in the caller's hands are the input's
  in order; `WholeInv` that a footer is written after the caller's end of
  input and nothing else; `PathInv` that a call owns the path from its `create_new` until it
  removes the file or returns successfully, and no call ever removes what it does not own.

`GpuLevelProofs`, of `SplitCache`
- `SplitCacheExact`: `Spec => []CacheIsExact`, from `SplitCacheInvariant`. A level comes from
  the one above by a choice of split nodes and smaller sides, so its nodes come in pairs of
  the same parent (`LevelInv`). `ParentsFound` says that the histogram of every parent is in
  one place: in the slot of `previous` that `previous_ids` names, or on the host, never in
  both. During a level `StageInv` divides the nodes among the groups to do, the
  packets in flight and those done, whose candidates and cached or spilled
  histograms are their own; `PendingInv` ties a packet to the buffer positions of its
  batch, which is why a batch that does not fit the cache must be collected before the next
  overwrites `hist_out`; `Settled` and `HostInv` say the same once the host has taken over. What
  a subtraction yields depends on which two histograms meet there, so the invariant
  and the property are one argument.

`GpuLevelProofs`, of `RowArena`
- `ArenaInvariant`: `ArenaSpec => []ArenaInv`. `OpenInv` is its core: the open nodes, those
  of the level in the current array and the children already made in the other, are leaves of
  the tree so far, have no row twice or in common, and the rows in none are those with a
  value. During a level `LaunchInv` says of every token that its entry and total are those
  of its own node, that the node's rows lie at the entry's place, those of the left child
  first, and that the cursor equals the number of rows launched. That last equation is why no
  launch can pass the end of the array: rows of different nodes differ, so there are no more
  than `NRows` of them (`HeldGrows`, `BatchGrows`), whatever the order and the batches.
  `PairsInv` says the same of the children's spans when the tokens are resolved. `RouteInv`
  follows every row through the tree: it is on its way to the node that has it, or its way
  ends at the leaf that has paid it (`Leads`).
- `RowsArePaidOnce`: `ArenaSpec => []RowsPaidOnce`. The token table is large enough because a
  level is at most twice as wide as the one above (`Doubling`, `WiderBelow`) and the code keeps
  `MAX_LEVEL_NODES` at the width of the deepest level, which is the assumption
  `RowArenaParams`. At the end of a tree nothing is open, and `RouteInv` then is what
  prediction computes (`DescendIs`).
- `ArenaTypeCorrect`: `ArenaSpec => []ArenaTypeOK`.
- `ArenaImplementsStableSplits`: `ArenaSpec => ImplementsStableSplits`. `Kept` computes the rows
  of a side in their order (`KeptHas`, `KeptLengths`, by induction over the prefixes), a split
  step opens two nodes with exactly those, a leaf step closes one, and choosing, launching,
  resolving and swapping change no open node.

`DataParallelProofs`, of `GradientQuantizer`
- `QuantizerTypeCorrect` and `DeviceQuantizesLikeHost`: `QuantizerSpec => []QuantizedLikeHost`, for any
  numbers of rows and blocks, gradients and draws. `QuantizerInv` says that a block reduced so far has
  the maximum of its own rows (`BlocksMeasured`), one quantized so far the pairs the host
  would compute (`BlocksFixed`), and that scales and root sum, once taken, are the host's. A maximum of
  maxima is the maximum of all rows (`MaxOfBlocks`). For the sum it is not enough that addition is
  associative: both sides wrap. So it is shown that nothing wraps: with the scale `pow2_scale` chooses every
  row's fixed-point value is at most its share of the budget (`ScaleFits`, `Rounded`), and a fold that wraps
  at each step is the plain sum as long as every partial sum is in range (`SumIsExact`).
  The bound on a node's sum is `2^Budget` and half a unit for each row, since the code rounds
  after scaling (`Limit`); it is still below the end of the range.

`DataParallelProofs`, of `HistLaunch`
- `LaunchTypeCorrect` and `LaunchesAreRight`: `LaunchSpec => []LaunchesCoverSpan`, for any span, block size
  and features. `LaunchInv` has three parts besides the types: the tiles to come are
  the starts that follow from here, and all before them had room (`TilesOK`); what has been added is exactly
  the parts launched of this tile and all of the tiles before it (`CountsOK`, by `Covered`); every launch made
  stayed in its view, and had enough shared memory for each tile of its features (`LaunchOK`). That
  threads and rows of a part correspond one to one is the arithmetic of groups (`GroupPlace`, `GroupSplit`,
  `IndicesAre`): the number of rows of a part is a multiple of what a block takes. The views of the parts
  meet (`ViewsAre`), and the largest tile is no smaller than any (`SharedIsEnough`).

`DataParallelProofs`, of `HistKernel`
- `KernelInvariant`, `KernelTypeCorrect` and `LaunchIsExact`: `KernelSpec => []LaunchSumsExact`, for any batch
  of spans, empty ones among them, any bins, mask and order of columns, any numbers of threads and of rows per thread,
  any tile limit and any `Radix`. `KernelInv` says that every block has a front, the
  furthest place of its threads, and that the others are one barrier behind with nothing left to
  do (`IsFront`); then the words of the tile are described by the front and the tasks alone. While they are
  cleared a word is zero or in some thread's tasks (`Cleared`); while rows are added, the halves of a word,
  the carries under way and the rows to come are together the sum of the block's rows for that bin,
  modulo `Whole` (`Added`); while it is flushed the halves alone are (`Complete`), and remain so because
  nobody adds before every thread has passed the barrier. Globally, a node's histogram and the
  rows of the blocks that have yet to flush a bin are together the node's rows for it (`HistsOK`).
  All three are equations modulo `Whole` (`Same`), so the order of the additions is of no consequence.
- The lemmas under it: the binary search finds the one node whose blocks a block is among, by induction on the
  length of the interval (`SearchIs`, `NodeIs`); what the threads of the blocks of a node read is
  apart and covers its span (`ReadIs`, `RowsApart`, `RowsCover`); bins of different features
  are apart, and a tile that every thread skips has no rows to add (`SlotsAre`, `SkippedEmpty`); a
  carry taken from the value an atomic addition returned is right whatever came between (`LowerHalf`,
  `UpperHalf`).
- `KernelParams` assumes of a batch what the host hands over: spans within the row index, bins below the
  feature's number of bins or missing, features that fit a tile. That spans of one batch are apart is not
  needed. A gradient is the two's complement of its fixed-point value, a natural below `Whole`.

`DataParallelProofs`, of `StablePartition`
- `PartitionTypeCorrect` and `PartitionsLikeSerial`: `PartitionSpec => []SameAsSerial`, for any rows, directions,
  threads and smallest segments. While segments are counted, `CountedOK` says what their counts are. Once the
  outputs are cut, `WritingOK` gives for each segment the places its writer is at, which are the numbers of rows
  of each side up to the writer's byte, and says of every row of the segment that it is at its serial place
  if it lies before that byte, and that nothing has been written at that place otherwise. The
  serial place of a row is the number of rows of its side up to it (`OrderIs`, `RankIs`); the
  segments are consecutive, none is empty and together they are all bytes (`SegmentsAre`,
  `SegmentOfByte`); the places of different segments are apart (`SegmentsApart`), because the prefix sums
  of the counts are the numbers of rows before a segment (`PrefixIs`, `Offsets`). That is why
  the writers may run in any order.

Only model-checked:
- all liveness, `LoopsEnd`, `ReadersEnd`, `SessionsEnd` and `WritersReturn`: outside the prover's
  reach;
- `CellsInPlace` (`DatasetOpen`, `PredictInput`), whose bindings sort and
  flatten; `SketchKeepsRanks` (`QuantileSketch`), whose compression is a recursion over entries;
  `ModelMeansItsFile` (`ModelJson`) and `PredictsTheModel` (`TreeArrays`, `Predictors`), which compute with
  recursive operators; `ConstraintsHold` (`MonotoneTree`), whose splits are found by sorting; and
  `PlanFitsAndCovers` (`GpuMemPlan`), which works with the program's own numbers, not with parameters.

## Not modelled

- Floating point: objectives and metrics, the ROC curve among them; f32 weights of
  the sketch beyond 2^24; rounding of leaf weights. A NaN metric, which early
  stopping takes for the best score if it comes first, is not a score of the model.
- Infinities among values to predict on (see `TrainMatchesPredict` above).
- A panic of the thread that cuts a CSV file into chunks (`source/csv_source.rs` 592); those of
  the parsers are modelled.
- Of `PredictOutput`, a panic of the caller, and the writing of several outputs per row, which
  fills more columns on the same path.
- Of foreign model files, feature numbers out of range, categorical splits and arrays whose
  lengths do not match. `ModelJson` covers every arrangement of children and headers around
  sound trees.
- Text: the dialect of the CSV parser, patterns and lists of input files,
  parameter parsing, number formatting in model files.
- Read-ahead over the Arrow reader (coalescing of row groups) and the in-memory
  layouts of Arrow and dense sources.
- The histogram kernels other than the block-private and the batched one, the
  partition scan and the row-major transposition on the device. They compute what
  the modelled ones do; `RowArena` and `HistLaunch` model how they are called.
- The order in which the GPU context allocates, its events and timers.
- Backend selection, pool sizing, probes, progress reporters, and the
  communicator, whose only implementation has one process.

## What is left

Every part of the plan this project started from has been modelled and checked. The proofs still worth having,
in this order:
1. `MonotoneTree`: the bounds of a node contain those of its children, for any gradients.
2. `PredictInput`: only files with the whole schema are scored (`WholeSchema`).
