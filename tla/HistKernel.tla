----------------------------- MODULE HistKernel -----------------------------
(***************************************************************************)
(* One batched launch of the GPU histogram kernel: the host cuts the row   *)
(* spans of several nodes into blocks (produce_histogram_device_batch in   *)
(* train_ctx.rs), and the threads of a block add their rows to a histogram *)
(* in shared memory, tile of features by tile, and flush it to the node's  *)
(* histogram (histogram.cu).  Host and kernel cut the tiles as HistLaunch  *)
(* does for a fused launch.                                                *)
(*                                                                         *)
(* A sum has 64 bits; in shared memory its two halves are separate         *)
(* words, added to by separate atomic operations, the carry of the lower   *)
(* half going with the upper.  Threads interleave at every operation on    *)
(* shared or global memory and meet only at barriers.  One statistic is    *)
(* modelled; the hessian has words of its own and goes the same way.       *)
(*                                                                         *)
(* The loops of a thread between two barriers are the set of what it has   *)
(* yet to do, taken in the loops' order.  The node of a block, which its   *)
(* first thread looks up for all of them, is a function of the block.      *)
(*                                                                         *)
(* With RowsPerThread = 1 and one node this is also the fused kernel of a  *)
(* span whose length fills its blocks.  The row-major kernel skips the     *)
(* features outside its mask (selected); the column-major one is given a   *)
(* list of the sampled columns (physical) and no mask.                     *)
(***************************************************************************)
EXTENDS HistLaunch

CONSTANTS
    Radix,    \* the values of half a sum, 2^32
    Missing,  \* the bin of a missing value
    Garbage,  \* what shared memory may hold before it is cleared
    Calls     \* the batches: [nBins, spans, selected, physical, rowIdx, grads, bins]

Whole == Radix * Radix

\* The positions of the arena in the k-th span of a batch.
SpanOf(c, k) == c.spans[k].offset .. (c.spans[k].offset + c.spans[k].len - 1)

ASSUME KernelParams ==
    /\ Radix \in Nat \ {0} /\ Garbage \subseteq 0 .. (Radix - 1)
    /\ Missing \notin 0 .. (MaxTileBins - 1)
    /\ \A c \in Calls :
        /\ c.nBins \in BinLists /\ Fits(c.nBins)
        /\ c.selected \subseteq DOMAIN c.nBins
        /\ c.spans \in Seq([offset : Nat, len : Nat])
        /\ \A k \in DOMAIN c.spans : \A p \in SpanOf(c, k) :
            /\ p \in DOMAIN c.rowIdx
            /\ c.grads[c.rowIdx[p]] \in 0 .. (Whole - 1)
            /\ \A f \in DOMAIN c.nBins :
                c.bins[c.physical[f]][c.rowIdx[p]] \in 0 .. (c.nBins[f] - 1) \cup {Missing}

VARIABLES
    call,    \* the inputs of the launch; of HistLaunch's variables only nBins is used
    lo, hi,  \* shared memory of each block: the halves of the sums
    place,   \* the tile each thread is at, and what it does there
    tasks,   \* what it has yet to do before the next barrier
    carry,   \* << >>, or what it has yet to add to an upper half
    hists    \* global memory: the histogram of each node

kernel_vars == <<nBins, call, lo, hi, place, tasks, carry, hists>>

-----------------------------------------------------------------------------
\* Tiles of features.

\* The first bin of a feature.
Offset(f) == BinsOf(1, f - 1)

TileBins(f) == BinsOf(f, TileLast(f))
SharedWords == Max({0} \cup {TileBins(f) : f \in TileStarts})

\* The first tile from feature f on that has a selected feature; every thread
\* skips the others.
FirstTile(f) ==
    Min({Len(nBins) + 1} \cup {g \in TileStarts : g >= f /\ (g .. TileLast(g)) \cap call.selected # {}})

-----------------------------------------------------------------------------
\* Blocks of rows.

RowsPerBlock == ThreadsPerBlock * RowsPerThread
NodeBlocks == [k \in DOMAIN call.spans |-> (call.spans[k].len + RowsPerBlock - 1) \div RowsPerBlock]

\* The first block of a node, counted from 0.
BlkPtr(k) == MapThenSumSet(LAMBDA j : NodeBlocks[j], 1 .. (k - 1))
Blocks == 0 .. (BlkPtr(Len(call.spans) + 1) - 1)

\* The node of a block, by binary search: empty nodes have no blocks.
NodeOf(b) ==
    LET n == Len(call.spans)
        search[x \in (1 .. n + 1) \X (1 .. n + 1)] ==
            LET mid == (x[1] + x[2]) \div 2
            IN  IF x[1] + 1 >= x[2] THEN x[1]
                ELSE IF BlkPtr(mid) <= b THEN search[<<mid, x[2]>>] ELSE search[<<x[1], mid>>]
    IN  search[<<1, n + 1>>]

Threads == 0 .. (ThreadsPerBlock - 1)

\* The positions a thread reads, a block apart from each other; the last block of a
\* node may end before they do.
RowsRead(b, t) ==
    LET k == NodeOf(b)
        start == call.spans[k].offset + (b - BlkPtr(k)) * RowsPerBlock
    IN  {p \in {start + t + r * ThreadsPerBlock : r \in 0 .. (RowsPerThread - 1)} :
            p < call.spans[k].offset + call.spans[k].len}

Gradients == [p \in DOMAIN call.rowIdx |-> call.grads[call.rowIdx[p]]]
BinAt(f, p) == call.bins[call.physical[f]][call.rowIdx[p]]

\* The rows a thread adds for a feature, and where in the histogram.
Counts(f, p) == f \in call.selected /\ BinAt(f, p) # Missing
Slot(f, p) == Offset(f) + BinAt(f, p)

-----------------------------------------------------------------------------

At(f) == [tile |-> f, phase |-> IF f <= Len(nBins) THEN "clear" ELSE "done"]

\* Where a thread is after the next barrier.
Following(at) ==
    CASE at.phase = "clear" -> [at EXCEPT !.phase = "add"]
      [] at.phase = "add" -> [at EXCEPT !.phase = "flush"]
      [] OTHER -> At(FirstTile(TileLast(at.tile) + 1))

\* What a thread does at a place: it clears and flushes words that are a block
\* apart, and adds its rows for one feature after the other.  In global memory the
\* statistics of a slot are neighbours; the odd words are hessians.
Work(b, t, at) ==
    CASE at.phase = "clear" -> {w \in 0 .. (2 * TileBins(at.tile) - 1) : w % ThreadsPerBlock = t}
      [] at.phase = "add" ->
            {x \in (at.tile .. TileLast(at.tile)) \X RowsRead(b, t) : Counts(x[1], x[2])}
      [] at.phase = "flush" ->
            {w \in 0 .. (2 * TileBins(at.tile) - 1) : w % ThreadsPerBlock = t /\ w % 2 = 0}
      [] OTHER -> {}

\* The feature and the position that come first.
First(S) == CHOOSE x \in S : \A y \in S : x[1] < y[1] \/ (x[1] = y[1] /\ x[2] <= y[2])

\* The launch starts with the histograms cleared and shared memory as it is.
KernelInit ==
    /\ call \in Calls /\ nBins = call.nBins
    /\ lo \in [Blocks -> [0 .. (SharedWords - 1) -> Garbage]]
    /\ hi \in [Blocks -> [0 .. (SharedWords - 1) -> Garbage]]
    /\ place = [b \in Blocks |-> [t \in Threads |-> At(FirstTile(1))]]
    /\ tasks = [b \in Blocks |-> [t \in Threads |-> Work(b, t, At(FirstTile(1)))]]
    /\ carry = [b \in Blocks |-> [t \in Threads |-> << >>]]
    /\ hists = [k \in DOMAIN call.spans |-> [g \in 0 .. (Offset(Len(nBins) + 1) - 1) |-> 0]]

Does(b, t, phase) == place[b][t].phase = phase /\ tasks[b][t] # {}

Took(b, t, x) == tasks' = [tasks EXCEPT ![b][t] = @ \ {x}]

Clear(b, t) ==
    LET n == TileBins(place[b][t].tile)
        w == Min(tasks[b][t])
    IN  /\ Does(b, t, "clear")
        /\ lo' = IF w < n THEN [lo EXCEPT ![b][w] = 0] ELSE lo
        /\ hi' = IF w < n THEN hi ELSE [hi EXCEPT ![b][w - n] = 0]
        /\ Took(b, t, w)
        /\ UNCHANGED <<nBins, call, place, carry, hists>>

\* The slot of shared memory of what a thread adds.
SharedSlot(b, t, x) == Slot(x[1], x[2]) - Offset(place[b][t].tile)

\* Mutant: the largest sum without overflow counts as an overflow.
AddLowCarriesEarly(b, t) ==
    LET x == First(tasks[b][t])
        s == SharedSlot(b, t, x)
        g == Gradients[x[2]]
        overflow == IF lo[b][s] >= Radix - 1 - (g % Radix) THEN 1 ELSE 0
    IN  /\ Does(b, t, "add") /\ carry[b][t] = << >>
        /\ lo' = [lo EXCEPT ![b][s] = (@ + (g % Radix)) % Radix]
        /\ carry' = [carry EXCEPT ![b][t] = <<(g \div Radix) + overflow>>]
        /\ UNCHANGED <<nBins, call, hi, place, tasks, hists>>

\* The atomic addition to the lower half returns what was there before, from
\* which the thread knows whether its own addition overflowed.
AddLow(b, t) ==
    LET x == First(tasks[b][t])
        s == SharedSlot(b, t, x)
        g == Gradients[x[2]]
        overflow == IF lo[b][s] > Radix - 1 - (g % Radix) THEN 1 ELSE 0
    IN  /\ Does(b, t, "add") /\ carry[b][t] = << >>
        /\ lo' = [lo EXCEPT ![b][s] = (@ + (g % Radix)) % Radix]
        /\ carry' = [carry EXCEPT ![b][t] = <<(g \div Radix) + overflow>>]
        /\ UNCHANGED <<nBins, call, hi, place, tasks, hists>>

AddHigh(b, t) ==
    LET x == First(tasks[b][t])
        s == SharedSlot(b, t, x)
    IN  /\ Does(b, t, "add") /\ carry[b][t] # << >>
        /\ hi' = [hi EXCEPT ![b][s] = (@ + carry[b][t][1]) % Radix]
        /\ carry' = [carry EXCEPT ![b][t] = << >>]
        /\ Took(b, t, x)
        /\ UNCHANGED <<nBins, call, lo, place, hists>>

\* Blocks of one node flush to the same words, by atomic additions.
Flush(b, t) ==
    LET w == Min(tasks[b][t])
        s == w \div 2
        g == Offset(place[b][t].tile) + s
    IN  /\ Does(b, t, "flush")
        /\ hists' = [hists EXCEPT ![NodeOf(b)][g] = (@ + (lo[b][s] + Radix * hi[b][s])) % Whole]
        /\ Took(b, t, w)
        /\ UNCHANGED <<nBins, call, lo, hi, place, carry>>

\* __syncthreads: a thread goes on once all threads of the block have come to the
\* barrier; some may already be past it.
PassBarrier(b, t) ==
    /\ place[b][t].phase # "done" /\ tasks[b][t] = {}
    /\ \A u \in Threads :
        \/ place[b][u] = place[b][t] /\ tasks[b][u] = {}
        \/ place[b][u] = Following(place[b][t])
    /\ place' = [place EXCEPT ![b][t] = Following(@)]
    /\ tasks' = [tasks EXCEPT ![b][t] = Work(b, t, Following(place[b][t]))]
    /\ UNCHANGED <<nBins, call, lo, hi, carry, hists>>

KernelNext ==
    \E b \in Blocks, t \in Threads :
        \/ Clear(b, t) \/ AddLow(b, t) \/ AddHigh(b, t) \/ Flush(b, t) \/ PassBarrier(b, t)

KernelSpec == KernelInit /\ [][KernelNext]_kernel_vars

-----------------------------------------------------------------------------
\* Properties.

KernelEnded == \A b \in Blocks, t \in Threads : place[b][t].phase = "done"

Places == [tile : Nat \ {0}, phase : {"clear", "add", "flush", "done"}]

KernelTypeOK ==
    /\ call \in Calls /\ nBins = call.nBins
    /\ lo \in [Blocks -> [0 .. (SharedWords - 1) -> 0 .. (Radix - 1)]]
    /\ hi \in [Blocks -> [0 .. (SharedWords - 1) -> 0 .. (Radix - 1)]]
    /\ place \in [Blocks -> [Threads -> Places]]
    /\ tasks = [b \in Blocks |-> [t \in Threads |-> tasks[b][t]]]
    /\ \A b \in Blocks, t \in Threads : tasks[b][t] \subseteq Work(b, t, place[b][t])
    /\ carry \in [Blocks -> [Threads -> {<< >>} \cup {<<c>> : c \in 0 .. Radix}]]
    /\ hists \in [DOMAIN call.spans -> [0 .. (Offset(Len(nBins) + 1) - 1) -> 0 .. (Whole - 1)]]

GradSum(S) == MapThenSumSet(LAMBDA p : Gradients[p], S)

(***************************************************************************)
(* When the launch has ended, every node has the sums of its own rows,     *)
(* exact modulo 2^64 (Whole), whatever the order in which blocks and       *)
(* threads ran and whatever shared memory held before; bins of features    *)
(* outside the mask are zero.  This is the claim of bit-exactness of       *)
(* histogram.cu.                                                           *)
(***************************************************************************)
SumsExact ==
    KernelEnded => \A k \in DOMAIN call.spans, f \in Features : \A x \in 0 .. (nBins[f] - 1) :
        hists[k][Offset(f) + x] =
            IF f \in call.selected THEN GradSum({p \in SpanOf(call, k) : BinAt(f, p) = x}) % Whole
            ELSE 0

\* The rows of a block that belong to bin g, and those whose addition has not begun.
SlotRows(b, g) ==
    {p \in UNION {RowsRead(b, t) : t \in Threads} : \E f \in Features : Counts(f, p) /\ Slot(f, p) = g}

Begun(b, t) == IF carry[b][t] = << >> THEN {} ELSE {First(tasks[b][t])}

RowsToCome(b, g) ==
    {p \in SlotRows(b, g) : \E t \in Threads, f \in Features :
        <<f, p>> \in tasks[b][t] \ Begun(b, t) /\ Slot(f, p) = g}

\* The carries under way to the upper half of bin g.
Carries(b, g) ==
    [t \in Threads |-> IF \E x \in Begun(b, t) : Slot(x[1], x[2]) = g THEN carry[b][t][1] ELSE 0]

(***************************************************************************)
(* While the threads of a block add, the two halves of a word, the carries *)
(* still under way and the rows still to come are together the sum of the  *)
(* block's rows: splitting an addition in two loses nothing between its    *)
(* two operations.                                                         *)
(***************************************************************************)
PlanesAddUp ==
    \A b \in Blocks, f \in Features :
        (\A t \in Threads : place[b][t] = [tile |-> f, phase |-> "add"]) =>
            \A s \in 0 .. (TileBins(f) - 1) :
                LET g == Offset(f) + s
                    carried == MapThenSumSet(LAMBDA t : Carries(b, g)[t], Threads)
                IN  (lo[b][s] + Radix * (hi[b][s] + carried) + GradSum(RowsToCome(b, g))) % Whole
                        = GradSum(SlotRows(b, g)) % Whole

\* What the threads of a launch leave behind is exact, and so is what they hold on
\* the way.
LaunchSumsExact == SumsExact /\ PlanesAddUp
=============================================================================
