----------------------------- MODULE HistLaunch -----------------------------
(***************************************************************************)
(* The histogram of one row span on the GPU (histogram_span in             *)
(* train_ctx.rs): which kernels the host launches, over which rows and     *)
(* tiles of features, on each of its three paths.                          *)
(*                                                                         *)
(*   Tiles   one launch for each tile of features and each part of the     *)
(*           rows, used while buckets are profiled;                        *)
(*   Fused   one launch for each part of the rows, the kernel goes         *)
(*           through the tiles itself;                                     *)
(*   Fused4  the same, the largest part with RowsPerThread rows a thread.  *)
(*                                                                         *)
(* The kernels have no number of rows among their arguments: a thread      *)
(* reads the row at its own index, and only the launch keeps it within     *)
(* the span.  What a kernel does with the rows of one launch is module     *)
(* HistKernel; here an addition of a row to a feature's bins is counted.   *)
(***************************************************************************)
EXTENDS Integers, Sequences, FiniteSetsExt

CONSTANTS
    ArenaLen,        \* positions of the row arena
    ThreadsPerBlock,
    RowsPerThread,   \* of the kernel with several rows a thread
    MaxTileBins,     \* bins for which a block may have shared memory
    BinLists         \* the numbers of bins of the features of a column block

Paths == {"Tiles", "Fused", "Fused4"}

\* The fused kernels are only used with tiles that hold any one feature.
Fits(nBins) == \A f \in DOMAIN nBins : nBins[f] <= MaxTileBins

ASSUME LaunchParams ==
    /\ {ArenaLen, MaxTileBins} \subseteq Nat
    /\ {ThreadsPerBlock, RowsPerThread} \subseteq Nat \ {0}
    /\ BinLists \subseteq Seq(Nat \ {0})

VARIABLES
    span,      \* [offset, len]: the rows of the node
    path, nBins,
    feature,   \* first feature of the next launch
    part,      \* the part of the rows launched next
    added,     \* history: how often each row of the arena went to each feature
    launches,  \* history: threads, shared bins and views of the launches
    result     \* "running", "ok" or "too wide"

launch_vars == <<span, path, nBins, feature, part, added, launches, result>>

Features == DOMAIN nBins
Positions == 0 .. (ArenaLen - 1)

-----------------------------------------------------------------------------

BinsOf(first, last) == MapThenSumSet(LAMBDA f : nBins[f], first .. last)

\* The last feature of the tile that starts with f, or f - 1 if even f is too wide.
TileLast(f) == Max({f - 1} \cup {e \in f .. Len(nBins) : BinsOf(f, e) <= MaxTileBins})

\* The features at which a tile starts.
TileStarts ==
    LET next[f \in 1 .. (Len(nBins) + 1)] ==
            IF f > Len(nBins) THEN {} ELSE {f} \cup next[Max({TileLast(f), f}) + 1]
    IN  next[1]

\* The parts of a span, and the rows of each: [from, len, block, perThread].  The
\* tail is one block of as many threads as there are rows left.
Parts == IF path = "Fused4" THEN <<"r4", "full", "tail">> ELSE <<"full", "tail">>

Floor(n, m) == (n \div m) * m
R4Rows == IF path = "Fused4" THEN Floor(span.len, ThreadsPerBlock * RowsPerThread) ELSE 0
FullRows == R4Rows + Floor(span.len - R4Rows, ThreadsPerBlock)

\* Mutant: the full blocks start at the start of the span.
ViewFromStart(p) ==
    CASE p = "r4" -> [from |-> 0, len |-> R4Rows, block |-> ThreadsPerBlock, perThread |-> RowsPerThread]
      [] p = "full" -> [from |-> 0, len |-> FullRows - R4Rows, block |-> ThreadsPerBlock, perThread |-> 1]
      [] p = "tail" -> [from |-> FullRows, len |-> span.len - FullRows,
                        block |-> span.len - FullRows, perThread |-> 1]

View(p) ==
    CASE p = "r4" -> [from |-> 0, len |-> R4Rows, block |-> ThreadsPerBlock, perThread |-> RowsPerThread]
      [] p = "full" -> [from |-> R4Rows, len |-> FullRows - R4Rows, block |-> ThreadsPerBlock, perThread |-> 1]
      [] p = "tail" -> [from |-> FullRows, len |-> span.len - FullRows,
                        block |-> span.len - FullRows, perThread |-> 1]

Grid(v) == IF v.len = 0 THEN 0 ELSE v.len \div (v.block * v.perThread)

\* The indices into its view that the threads of a launch read.
Indices(v) ==
    {b * v.block * v.perThread + t + r * v.block :
        b \in 0 .. (Grid(v) - 1), t \in 0 .. (v.block - 1), r \in 0 .. (v.perThread - 1)}

\* The features of a launch, and the shared memory asked for: that of the tile,
\* or of the largest of the tiles the kernel goes through.
LaunchFeatures == IF path = "Tiles" THEN feature .. TileLast(feature) ELSE Features
SharedBins ==
    IF path = "Tiles" THEN BinsOf(feature, TileLast(feature))
    ELSE Max({0} \cup {BinsOf(f, TileLast(f)) : f \in TileStarts})

-----------------------------------------------------------------------------

LaunchInit ==
    /\ span \in {s \in [offset : 0 .. ArenaLen, len : 0 .. ArenaLen] : s.offset + s.len <= ArenaLen}
    /\ nBins \in BinLists
    /\ path \in {p \in Paths : p # "Tiles" => Fits(nBins)}
    /\ feature = 1
    /\ part = 1
    /\ added = [p \in Positions |-> [f \in Features |-> 0]]
    /\ launches = {}
    /\ result = "running"

\* Without rows or features there is nothing to launch.
Empty == span.len = 0 \/ Features = {}

Active == result = "running" /\ ~ Empty /\ feature <= Len(nBins) /\ part <= Len(Parts)

\* A tile that cannot hold its first feature ends the build with an error.
RefuseFeature ==
    /\ Active
    /\ path = "Tiles" /\ part = 1 /\ TileLast(feature) < feature
    /\ result' = "too wide"
    /\ UNCHANGED <<span, path, nBins, feature, part, added, launches>>

\* One part of the rows, if there are any.
Launch ==
    LET v == View(Parts[part])
        start == span.offset + v.from
    IN  /\ Active
        /\ path = "Tiles" => TileLast(feature) >= feature
        /\ added' = [p \in Positions |-> [f \in Features |->
                        added[p][f] + IF f \in LaunchFeatures /\ p - start \in Indices(v) THEN 1 ELSE 0]]
        /\ launches' = IF v.len = 0 THEN launches
                       ELSE launches \cup {[grid |-> Grid(v), view |-> v, features |-> LaunchFeatures,
                                            shared |-> SharedBins]}
        /\ part' = part + 1
        /\ UNCHANGED <<span, path, nBins, feature, result>>

\* After its last part, the next tile.
NextTile ==
    /\ result = "running" /\ ~ Empty
    /\ feature <= Len(nBins) /\ part > Len(Parts)
    /\ feature' = IF path = "Tiles" THEN TileLast(feature) + 1 ELSE Len(nBins) + 1
    /\ part' = 1
    /\ UNCHANGED <<span, path, nBins, added, launches, result>>

\* The histogram is fetched; an empty span has one of zeros.
Finish ==
    /\ result = "running"
    /\ Empty \/ feature > Len(nBins)
    /\ result' = "ok"
    /\ UNCHANGED <<span, path, nBins, feature, part, added, launches>>

LaunchNext == RefuseFeature \/ Launch \/ NextTile \/ Finish

LaunchSpec == LaunchInit /\ [][LaunchNext]_launch_vars

-----------------------------------------------------------------------------
\* Properties.

LaunchTypeOK ==
    /\ result \in {"running", "ok", "too wide"}
    /\ feature \in 1 .. (Len(nBins) + 1) /\ part \in 1 .. 4
    /\ \A l \in launches : l.shared \in Nat /\ l.features \subseteq Features

InSpan(p) == p >= span.offset /\ p < span.offset + span.len

(***************************************************************************)
(* A finished histogram has every row of the span in every feature exactly *)
(* once and no row of another node, on each path: the parts meet without a *)
(* gap or an overlap and so do the tiles.                                  *)
(***************************************************************************)
EveryRowOnce ==
    result = "ok" => \A p \in Positions, f \in Features : added[p][f] = IF InSpan(p) THEN 1 ELSE 0

(***************************************************************************)
(* No thread of any launch reads past the view of rows it was given, no    *)
(* launch is empty and none has more threads than a block may have: the    *)
(* kernels do not test it.                                                 *)
(***************************************************************************)
ThreadsStayInView ==
    \A l \in launches :
        /\ Indices(l.view) = 0 .. (l.view.len - 1)
        /\ l.grid > 0
        /\ l.view.block \in 1 .. ThreadsPerBlock
        /\ span.offset + l.view.from + l.view.len <= ArenaLen

(***************************************************************************)
(* The shared memory asked for is within the limit and enough for every    *)
(* tile the kernel makes of the launch's features.                         *)
(***************************************************************************)
SharedMemorySuffices ==
    \A l \in launches :
        /\ l.shared <= MaxTileBins
        /\ \A f \in l.features \cap TileStarts : BinsOf(f, TileLast(f)) <= l.shared

(***************************************************************************)
(* The build returns with an error exactly when a feature is too wide for  *)
(* shared memory and there are rows.                                       *)
(***************************************************************************)
RefusesTooWide ==
    result # "running" =>
        result = IF ~ Fits(nBins) /\ span.len > 0 THEN "too wide" ELSE "ok"

(***************************************************************************)
(* A built histogram has every row of the span in every feature exactly    *)
(* once and no other row, and no launch has a thread that reads past its   *)
(* view of the rows or a tile without enough shared memory; only a feature *)
(* too wide for any tile is refused.                                       *)
(***************************************************************************)
LaunchesCoverSpan ==
    EveryRowOnce /\ ThreadsStayInView /\ SharedMemorySuffices /\ RefusesTooWide
=============================================================================
