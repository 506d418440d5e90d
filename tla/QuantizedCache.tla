--------------------------- MODULE QuantizedCache ---------------------------
(***************************************************************************)
(* The cache of quantized columns of a ParquetBlockSource                  *)
(* (source/parquet_source.rs).  Runs follow one another; each asks for     *)
(* the file with `open` (cuts are scanned from the file) or `with_cuts`    *)
(* (cuts are given), in memory, in a temporary directory or in a           *)
(* directory that outlives it.  A run may be killed between any two steps; *)
(* the file may be replaced and bytes on disk may rot.                     *)
(*                                                                         *)
(* A quantized column is the record of what went into it: the feature, the *)
(* targets that fixed which file column a feature is, the cuts, and the    *)
(* version of the file.  A hash is the value hashed.                       *)
(***************************************************************************)
EXTENDS Integers, Sequences, FiniteSets, TLAPS

CONSTANTS
  NFeats,           \* n_features
  Rows,             \* Rows[v]: the row count of version v of the file
  Targets,          \* label and weight columns a run may name
  MaxBins,          \* max_bins of an `open`
  Given,            \* cuts a `with_cuts` may bring
  Widths,           \* cols_per_block of a run
  Modes,            \* the placements allowed: "memory", "temp", "path"
  ReplaceWhileOpen, \* whether the file may be replaced during a run
  NRuns,            \* how many runs are made
  None,
  Rot,              \* a file, or a column of it, overwritten at the same length
  Torn,             \* an empty file
  Error             \* what a failed read returns

Version == DOMAIN Rows

ASSUME CacheParams ==
  /\ NFeats \in Nat \ {0} /\ NRuns \in Nat
  /\ Rows \in Seq(Nat) /\ Rows # << >>
  /\ Widths \subseteq Nat \ {0}
  /\ Modes \subseteq {"memory", "temp", "path"}
  /\ ReplaceWhileOpen \in BOOLEAN

VARIABLES
  source,       \* the version of the file now
  blocks, tmps, \* per directory and block: the file and its .tmp, or None
  manifest,     \* per directory: manifest.json, or None
  pc,           \* where the run is; "none" between runs
  req,          \* what the run asks for
  seen,         \* the version whose identity the run has taken
  cuts, n_rows, \* of the run
  stage, data,  \* per block: how far its worker is, and its quantized columns
  cache,        \* the directory read from, or "memory"
  hashes,       \* block_hashes of the open source
  verified,     \* blocks whose hash has been compared
  delivered,    \* the pairs (feature, column) the last read handed over
  reused,       \* whether the run opened a cache it did not build
  rotten,       \* blocks whose bytes changed after they were verified
  runs          \* runs made

disk == << blocks, tmps, manifest >>
opened == << cuts, n_rows, cache, hashes, verified, reused >>
vars == << source, disk, pc, req, seen, stage, data, opened, delivered, rotten, runs >>

\* The two directories; a temporary one is fresh for every run.
Dirs == {"path", "temp"}
BlockId == 1..NFeats

\* partition_features: cols_per_block features to a block, in order.
Groups(width) ==
  [i \in 1..((NFeats + width - 1) \div width) |->
     [l \in 1..(IF i * width <= NFeats THEN width ELSE NFeats - (i - 1) * width) |->
        (i - 1) * width + l]]

MyGroups == Groups(req.width)

\* read_into: every column of a block, under the cuts of the run.
Quantize(i) ==
  [l \in DOMAIN MyGroups[i] |->
     [feat |-> MyGroups[i][l], target |-> req.target, cuts |-> cuts, src |-> source]]

\* The quantized columns of all runs.
ColumnData ==
  [feat : 1..NFeats, target : Targets, src : Version,
   cuts : Given \cup [src : Version, max_bins : MaxBins]]

\* A checksum tells a damaged block from every block that was written.
ASSUME DamageShows == \A n \in 1..NFeats : Rot \notin [1..n -> ColumnData]

Requests ==
  [how : {"open"}, target : Targets, max_bins : MaxBins, given : {None},
   width : Widths, mode : Modes]
  \cup
  [how : {"with_cuts"}, target : Targets, max_bins : {0}, given : Given,
   width : Widths, mode : Modes]

NoRequest == [how |-> None]

Init ==
  /\ source = 1
  /\ blocks = [d \in Dirs |-> [i \in BlockId |-> None]] /\ tmps = blocks
  /\ manifest = [d \in Dirs |-> None]
  /\ pc = "none" /\ req = NoRequest /\ seen = 0
  /\ cuts = None /\ n_rows = 0
  /\ stage = [i \in BlockId |-> "todo"] /\ data = [i \in BlockId |-> None]
  /\ cache = None /\ hashes = << >> /\ verified = {} /\ delivered = {}
  /\ reused = FALSE /\ rotten = {} /\ runs = 0

Empty(d) ==
  \A i \in BlockId : blocks[d][i] = None /\ tmps[d][i] = None

----------------------------------------------------------------------------
\* Ending a run, however it ends, loses its memory and its temporary
\* directory (whose name is never used again, also when nobody removes it).

End ==
  /\ pc' = "none" /\ req' = NoRequest /\ seen' = 0
  /\ cuts' = None /\ n_rows' = 0
  /\ stage' = [i \in BlockId |-> "todo"] /\ data' = [i \in BlockId |-> None]
  /\ cache' = None /\ hashes' = << >> /\ verified' = {} /\ delivered' = {}
  /\ reused' = FALSE /\ rotten' = {}
  /\ blocks' = [blocks EXCEPT !["temp"] = [i \in BlockId |-> None]]
  /\ tmps' = [tmps EXCEPT !["temp"] = [i \in BlockId |-> None]]
  /\ manifest' = [manifest EXCEPT !["temp"] = None]
  /\ UNCHANGED << source, runs >>

\* Dropping the source, an error returned at any step, or a kill.
Stop == pc # "none" /\ End

----------------------------------------------------------------------------
\* Opening

\* Mutant: `with_cuts` builds without looking for a manifest.
StartRebuilds ==
  /\ pc = "none" /\ runs < NRuns
  /\ runs' = runs + 1
  /\ req' \in Requests
  /\ pc' = CASE req'.how = "open" /\ req'.mode = "path" /\ manifest["path"] # None -> "identity"
             [] req'.mode = "path" /\ manifest["path"] = None /\ req'.how = "open"
                  /\ ~Empty("path") -> "refused"
             [] OTHER -> IF req'.how = "open" THEN "cuts" ELSE "label"
  /\ cuts' = req'.given
  /\ UNCHANGED << source, disk, seen, stage, data, n_rows, cache, hashes, verified,
                  reused, delivered, rotten >>

\* A run with a manifest in its directory reuses it.  Without one, `open`
\* refuses a directory that is not empty; `with_cuts` has no such check.
Start ==
  /\ pc = "none" /\ runs < NRuns
  /\ runs' = runs + 1
  /\ req' \in Requests
  /\ pc' = CASE req'.mode = "path" /\ manifest["path"] # None -> "identity"
             [] req'.mode = "path" /\ manifest["path"] = None /\ req'.how = "open"
                  /\ ~Empty("path") -> "refused"
             [] OTHER -> IF req'.how = "open" THEN "cuts" ELSE "label"
  /\ cuts' = req'.given
  /\ UNCHANGED << source, disk, seen, stage, data, n_rows, cache, hashes, verified,
                  reused, delivered, rotten >>

\* cuts_only_observed
ScanCuts ==
  /\ pc = "cuts"
  /\ cuts' = [src |-> source, max_bins |-> req.max_bins]
  /\ pc' = "label"
  /\ UNCHANGED << source, disk, req, seen, stage, data, n_rows, cache, hashes, verified,
                  reused, delivered, rotten, runs >>

\* with_cuts_inner: the labels, which also count the rows.
ReadLabels ==
  /\ pc = "label"
  /\ n_rows' = Rows[source]
  /\ pc' = "build"
  /\ UNCHANGED << source, disk, req, seen, stage, data, cuts, cache, hashes, verified,
                  reused, delivered, rotten, runs >>

----------------------------------------------------------------------------
\* build_cache: one worker per block; the steps of the workers interleave.

Step(i, from, to) ==
  /\ pc = "build" /\ i \in DOMAIN MyGroups
  /\ stage[i] = from /\ stage' = [stage EXCEPT ![i] = to]
  /\ UNCHANGED << source, manifest, pc, req, seen, opened, delivered, rotten, runs >>

\* quantize_block; a file with another row count is an error (Stop).
QuantizeBlock(i) ==
  /\ Step(i, "todo", IF req.mode = "memory" THEN "done" ELSE "quantized")
  /\ Rows[source] = n_rows
  /\ data' = [data EXCEPT ![i] = Quantize(i)]
  /\ UNCHANGED << blocks, tmps >>

CreateTmp(i) ==
  /\ Step(i, "quantized", "created")
  /\ tmps' = [tmps EXCEPT ![req.mode][i] = Torn]
  /\ UNCHANGED << blocks, data >>

WriteTmp(i) ==
  /\ Step(i, "created", "written")
  /\ tmps' = [tmps EXCEPT ![req.mode][i] = data[i]]
  /\ UNCHANGED << blocks, data >>

RenameTmp(i) ==
  /\ Step(i, "written", "done")
  /\ blocks' = [blocks EXCEPT ![req.mode][i] = tmps[req.mode][i]]
  /\ tmps' = [tmps EXCEPT ![req.mode][i] = None]
  /\ UNCHANGED data

Manifest ==
  [src |-> source, target |-> req.target, max_bins |-> req.max_bins,
   width |-> req.width, n_rows |-> n_rows, cuts |-> cuts, groups |-> MyGroups,
   hashes |-> [i \in DOMAIN MyGroups |-> data[i]]]

\* Mutant: the manifest is committed while blocks are still being renamed.
BlocksQuantized == \A i \in DOMAIN MyGroups : stage[i] # "todo"

BlocksDone == \A i \in DOMAIN MyGroups : stage[i] = "done"

\* The manifest takes the identity of the file only now, and is renamed last.
Commit ==
  /\ pc = "build" /\ BlocksDone
  /\ pc' = "open"
  /\ cache' = req.mode
  /\ IF req.mode = "memory"
     THEN hashes' = << >> /\ UNCHANGED << manifest, seen >>
     ELSE /\ manifest' = [manifest EXCEPT ![req.mode] = Manifest]
          /\ hashes' = Manifest.hashes
          /\ seen' = source
  /\ verified' = {} /\ reused' = FALSE
  /\ stage' = [i \in BlockId |-> "todo"]
  /\ data' = IF req.mode = "memory" THEN data ELSE [i \in BlockId |-> None]
  /\ UNCHANGED << source, blocks, tmps, req, cuts, n_rows, delivered, rotten, runs >>

----------------------------------------------------------------------------
\* reuse_cache

M == manifest["path"]

SameRequest ==
  /\ M.src = source /\ M.target = req.target
  /\ M.width = req.width
  /\ req.max_bins = 0 \/ M.max_bins = req.max_bins
  /\ M.groups = MyGroups

\* The manifest is checked against the request and the file as it is now.
CheckManifest ==
  /\ pc = "identity"
  /\ seen' = source
  /\ pc' = IF SameRequest THEN "lengths" ELSE "refused"
  /\ UNCHANGED << source, disk, req, stage, data, opened, delivered, rotten, runs >>

\* Labels are read, block lengths compared, and given cuts compared with the
\* cached ones; the checksums wait for the first read of a block.
Reuse ==
  /\ pc = "lengths"
  /\ pc' = IF /\ Rows[source] = M.n_rows
              /\ \A i \in DOMAIN M.groups : blocks["path"][i] \notin {None, Torn}
              /\ req.given \in {None, M.cuts}
           THEN "open" ELSE "refused"
  /\ cuts' = M.cuts /\ n_rows' = M.n_rows
  /\ cache' = "path" /\ hashes' = M.hashes /\ verified' = {} /\ reused' = TRUE
  /\ UNCHANGED << source, disk, req, seen, stage, data, delivered, rotten, runs >>

----------------------------------------------------------------------------
\* Reading the open source

\* What a handed-over block says: its features with their columns.
Pairs(feats, columns) == {<< feats[k], columns[k] >> : k \in DOMAIN feats}

RotColumns(i) == [l \in DOMAIN MyGroups[i] |-> Rot]

\* The columns of block i as with_block sees them, Error when it fails.
Whole(i) ==
  IF cache = "memory" THEN data[i]
  ELSE LET file == blocks[cache][i] IN
       CASE file \in {None, Torn} -> Error
         [] i \notin verified /\ file # hashes[i] -> Error
         [] OTHER -> IF file = Rot THEN RotColumns(i) ELSE file

\* Mutant: a read of selected columns trusts a block nobody has verified.
PartialUnverified(i, cols) ==
  LET file == blocks[cache][i] IN
  IF file \in {None, Torn} THEN Error
  ELSE [k \in DOMAIN cols |-> IF file = Rot THEN Rot ELSE file[cols[k]]]

\* with_block_cols: an unverified block is read whole and verified, and then
\* only the columns asked for are handed over; memory hands over the block.
Partial(i, cols) ==
  LET file == IF i \in verified THEN blocks[cache][i] ELSE Whole(i) IN
  CASE file \in {Error, None, Torn} -> Error
    [] OTHER -> [k \in DOMAIN cols |-> IF file = Rot THEN Rot ELSE file[cols[k]]]

Read(i, columns, pairs) ==
  /\ pc = "open" /\ i \in DOMAIN MyGroups
  /\ IF columns = Error
     THEN delivered' = {} /\ UNCHANGED verified
     ELSE delivered' = pairs /\ verified' = IF cache = "memory" THEN {} ELSE verified \cup {i}
  /\ UNCHANGED << source, disk, pc, req, seen, stage, data, cuts, n_rows, cache, hashes,
                  reused, rotten, runs >>

WithBlock(i) ==
  Read(i, Whole(i), Pairs(MyGroups[i], Whole(i)))

\* No selection, all columns, or a source in memory: the whole block.
WithBlockCols(i, cols) ==
  IF cols = << >> \/ Len(cols) = Len(MyGroups[i]) \/ cache = "memory"
  THEN WithBlock(i)
  ELSE Read(i, Partial(i, cols), Pairs([k \in DOMAIN cols |-> MyGroups[i][cols[k]]],
                                       Partial(i, cols)))

\* feature_column: the block and the place of the feature, then one column.
FeatureColumn(f) ==
  \E i \in DOMAIN MyGroups : \E l \in DOMAIN MyGroups[i] :
    /\ MyGroups[i][l] = f
    /\ LET whole == cache = "memory" \/ Len(MyGroups[i]) = 1
           block == IF whole THEN Whole(i) ELSE Partial(i, << l >>)
           col == IF Len(block) = 1 THEN 1 ELSE l
       IN  Read(i, block, {<< f, block[col] >>})

----------------------------------------------------------------------------
\* The world

Replace ==
  /\ source + 1 \in Version
  /\ pc = "none" \/ ReplaceWhileOpen
  /\ source' = source + 1
  /\ UNCHANGED << disk, pc, req, seen, stage, data, opened, delivered, rotten, runs >>

\* A file of the cache rots, or is truncated to nothing.
Corrupt(d, i) ==
  /\ blocks[d][i] \notin {None, Rot, Torn}
  /\ \E bad \in {Rot, Torn} : blocks' = [blocks EXCEPT ![d][i] = bad]
  /\ rotten' = IF cache = d /\ i \in verified THEN rotten \cup {i} ELSE rotten
  /\ UNCHANGED << source, tmps, manifest, pc, req, seen, stage, data, opened, delivered, runs >>

Next ==
  \/ Start \/ Stop \/ ScanCuts \/ ReadLabels \/ Commit \/ CheckManifest \/ Reuse
  \/ \E i \in BlockId : \/ QuantizeBlock(i) \/ CreateTmp(i) \/ WriteTmp(i)
                        \/ RenameTmp(i)
  \/ \E i \in BlockId : WithBlock(i)
  \/ \E i \in BlockId, l, m \in 1..NFeats :
       /\ pc = "open" /\ i \in DOMAIN MyGroups
       /\ l \in DOMAIN MyGroups[i] /\ m \in DOMAIN MyGroups[i] /\ l <= m
       /\ WithBlockCols(i, IF l = m THEN << l >> ELSE << l, m >>)
  \/ \E f \in 1..NFeats : pc = "open" /\ FeatureColumn(f)
  \/ Replace
  \/ \E d \in Dirs, i \in BlockId : Corrupt(d, i)

Spec == Init /\ [][Next]_vars

-----------------------------------------------------------------------------
\* Properties

\* What a column must be for a run: its own feature and targets, its own cuts.
Column(f, v) == [feat |-> f, target |-> req.target, cuts |-> cuts, src |-> v]

\* What the state of a run and of the directories is made of: a manifest
\* names a version of the file, a source that is open has its cuts and, on
\* disk, one hash per block, and only blocks of its own are verified.
TypeOK ==
  /\ source \in Version /\ seen \in Version \cup {0} /\ runs \in 0..NRuns
  /\ pc \in {"none", "cuts", "label", "build", "identity", "lengths", "refused", "open"}
  /\ \A d \in Dirs : manifest[d] # None => manifest[d].src \in Version
  /\ pc = "none" <=> req = NoRequest
  /\ pc = "open" => /\ cuts # None /\ cache \in {"memory", "path", "temp"}
                    /\ cache # "memory" => Len(hashes) = Len(MyGroups)
  /\ pc = "open" => verified \subseteq DOMAIN MyGroups
  /\ rotten \subseteq verified

\* Whatever is handed to a reader is the column of the feature it is handed
\* over as, quantized by the cuts the source reports, for the targets of the
\* run, from some version of the file: a killed build, a rotten block, another
\* run's cache or a partial read never shows through.  The one exception is
\* the documented one, bytes that rot after their block was verified.
DeliveredIsRight ==
  \A p \in delivered :
    \/ \E v \in Version : p[2] = Column(p[1], v)
    \/ \E i \in rotten : \E l \in DOMAIN MyGroups[i] : MyGroups[i][l] = p[1]

\* A manifest means the cache is complete: every block of it is on disk and
\* is the one hashed, or has been damaged since; its groups are whole.
ManifestMeansComplete ==
  \A d \in Dirs : manifest[d] # None =>
    \A i \in DOMAIN manifest[d].groups :
      blocks[d][i] \in {manifest[d].hashes[i], Rot, Torn}

\* A cache that is reused holds the bins of the file the run looks at.
\* (parquet_source.rs:822: stale bins are never used silently.)
ReusedBinsAreCurrent ==
  reused => \A p \in delivered : p[2] = Rot \/ p[2] = Column(p[1], seen)

\* A directory left half written by a killed build is never built over.
\* (parquet_source.rs:2655: it must be rejected, not rebuilt silently.)
HalfWrittenIsRefused ==
  [][pc = "none" /\ req'.how # None /\ req'.mode = "path"
       /\ ~Empty("path") /\ manifest["path"] = None
       => pc' = "refused"]_pc

\* A manifest, once there, is never replaced: what a reused cache vouches
\* for cannot change under a source that reads from it.
ManifestIsFinal ==
  [][manifest["path"] # None => manifest'["path"] = manifest["path"]]_manifest

----------------------------------------------------------------------------
(***************************************************************************)
(* Proofs, for any number of features, runs, versions of the file, cuts,   *)
(* targets and block widths: a manifest vouches for every block of its     *)
(* cache and is never replaced, and a reader is given the columns of its   *)
(* own features, cuts and targets only.                                    *)
(***************************************************************************)

----------------------------------------------------------------------------
(***************************************************************************)
(* Groups of features                                                      *)
(***************************************************************************)

\* A group is a non-empty interval of features, and there is no more than one
\* block per feature.
LEMMA GroupShape ==
  ASSUME NEW width \in Nat \ {0}, NEW i \in DOMAIN Groups(width)
  PROVE  /\ i \in BlockId
         /\ \E n \in 1..NFeats : Groups(width)[i] \in [1..n -> 1..NFeats]
<1> DEFINE n == IF i * width <= NFeats THEN width ELSE NFeats - (i - 1) * width
<1>1. NFeats \in Nat \ {0}
  BY CacheParams
<1>2. i \in 1..((NFeats + width - 1) \div width)
  BY DEF Groups
<1>3. i * width <= NFeats + width - 1
  <2>1. ASSUME NEW q \in Int, q = (NFeats + width - 1) \div width
        PROVE  q * width <= NFeats + width - 1
    BY <1>1, <2>1
  <2>2. (NFeats + width - 1) \div width \in Int
    BY <1>1
  <2>3. i * width <= ((NFeats + width - 1) \div width) * width
    BY <1>1, <1>2, <2>2
  <2> QED
    BY <1>1, <1>2, <2>1, <2>2, <2>3
<1>4. (i - 1) * width = i * width - width /\ i * width \in Int
  BY <1>2
<1>5. i <= NFeats
  <2>1. (i - 1) * width >= i - 1
    BY <1>2
  <2> QED
    BY <1>1, <1>2, <1>3, <1>4, <2>1
<1>6. n \in 1..NFeats
  <2>1. i * width >= width
    BY <1>2
  <2> QED
    BY <1>1, <1>2, <1>3, <1>4, <2>1
<1>7. \A l \in 1..n : (i - 1) * width + l \in 1..NFeats
  <2>1. (i - 1) * width >= 0 /\ (i - 1) * width \in Int
    BY <1>2
  <2> QED
    BY <1>1, <1>2, <1>3, <1>4, <1>6, <2>1
<1>8. Groups(width)[i] = [l \in 1..n |-> (i - 1) * width + l]
  BY <1>2 DEF Groups
<1> HIDE DEF n
<1>9. Groups(width)[i] \in [1..n -> 1..NFeats]
  BY <1>7, <1>8
<1>10. i \in BlockId
  BY <1>1, <1>2, <1>5 DEF BlockId
<1> QED
  BY <1>6, <1>9, <1>10

----------------------------------------------------------------------------
(***************************************************************************)
(* The invariant                                                           *)
(***************************************************************************)

Cuts == Given \cup [src : Version, max_bins : MaxBins]

\* A function from directories and blocks.
PerFile(F) == F = [d \in Dirs |-> [j \in BlockId |-> F[d][j]]]

Shape ==
  /\ source \in Version
  /\ pc \in {"none", "cuts", "label", "build", "identity", "lengths", "refused", "open"}
  /\ pc # "none" => req \in Requests
  /\ PerFile(blocks) /\ PerFile(tmps)
  /\ manifest = [d \in Dirs |-> manifest[d]]
  /\ stage = [i \in BlockId |-> stage[i]]
  /\ data = [i \in BlockId |-> data[i]]
  /\ pc = "cuts" => req.max_bins \in MaxBins
  /\ pc \in {"label", "build", "open"} => cuts \in Cuts

\* Block i of a cache for these groups, targets and cuts, of some version of the file.
IsBlock(x, i, groups, target, cs) ==
  \E v \in Version :
    x = [l \in DOMAIN groups[i] |->
           [feat |-> groups[i][l], target |-> target, cuts |-> cs, src |-> v]]

IsMine(x, i) == IsBlock(x, i, MyGroups, req.target, cuts)

\* A worker's data is right from the moment it is quantized, and so is what it
\* has written; nothing in the directory is vouched for yet.
BuildInv ==
  /\ pc \in {"cuts", "label", "build"} /\ req.mode = "path" => manifest["path"] = None
  /\ pc # "open" => manifest["temp"] = None
  /\ pc # "build" => \A i \in BlockId : stage[i] = "todo"
  /\ pc = "build" =>
       \A i \in DOMAIN MyGroups :
         /\ stage[i] # "todo" => IsMine(data[i], i)
         /\ stage[i] \notin {"todo", "done"} => req.mode \in Dirs
         /\ stage[i] = "written" => tmps[req.mode][i] = data[i]
         /\ stage[i] = "done" /\ req.mode # "memory" =>
              blocks[req.mode][i] \in {data[i], Rot, Torn}

\* The hashes of a manifest are those of right blocks.
ManifestInv ==
  \A d \in Dirs : manifest[d] # None =>
    /\ \E width \in Widths : manifest[d].groups = Groups(width)
    /\ manifest[d].target \in Targets /\ manifest[d].cuts \in Cuts
    /\ \A i \in DOMAIN manifest[d].groups :
         IsBlock(manifest[d].hashes[i], i, manifest[d].groups, manifest[d].target,
                 manifest[d].cuts)

\* A run that reuses a cache has compared its request with the manifest.
ReuseInv ==
  /\ pc \in {"identity", "lengths"} => req.mode = "path" /\ manifest["path"] # None
  /\ pc = "lengths" =>
       manifest["path"].target = req.target /\ manifest["path"].groups = MyGroups

\* An open source holds, or knows the hashes of, right blocks; what was verified is
\* still as it was unless it has rotted since.
OpenInv ==
  /\ pc # "open" => verified = {} /\ delivered = {}
  /\ pc = "open" =>
       /\ cache \in {"memory", "path", "temp"}
       /\ \A i \in DOMAIN MyGroups :
            IF cache = "memory" THEN IsMine(data[i], i)
            ELSE /\ IsMine(hashes[i], i)
                 /\ i \in verified => blocks[cache][i] = hashes[i] \/ i \in rotten

Inv == /\ Shape /\ BuildInv /\ ManifestInv /\ ReuseInv /\ OpenInv
       /\ ManifestMeansComplete /\ DeliveredIsRight

\* The facts about a request that a run relies on.
LEMMA RequestShape ==
  ASSUME Shape, pc # "none"
  PROVE  /\ req.width \in Widths /\ req.width \in Nat \ {0}
         /\ req.target \in Targets /\ req.mode \in {"memory", "temp", "path"}
         /\ req.how \in {"open", "with_cuts"}
         /\ req.how = "open" => req.max_bins \in MaxBins
         /\ req.how = "with_cuts" => req.given \in Given
BY CacheParams DEF Shape, Requests

\* The blocks of the run are among those a directory has room for.
LEMMA MyBlocks ==
  ASSUME Shape, pc # "none", NEW i \in DOMAIN MyGroups
  PROVE  /\ i \in BlockId
         /\ \E n \in 1..NFeats : MyGroups[i] \in [1..n -> 1..NFeats]
BY RequestShape, GroupShape DEF MyGroups

LEMMA InitInv == Init => Inv
<1> SUFFICES ASSUME Init PROVE Inv
  OBVIOUS
<1>1. Shape
  BY CacheParams DEF Init, Shape, Version, PerFile
<1> QED
  BY <1>1 DEF Init, Inv, BuildInv, ManifestInv, ReuseInv, OpenInv, ManifestMeansComplete,
     DeliveredIsRight, Dirs

\* The steps before a build.
LEMMA StartStep ==
  ASSUME Inv, Start PROVE Inv'
<1> USE DEF disk
<1>1. Shape'
  BY DEF Inv, Shape, Start, Requests, Cuts
<1>2. BuildInv' /\ ReuseInv'
  BY DEF Inv, Shape, Start, BuildInv, ReuseInv
<1>3. ManifestInv' /\ ManifestMeansComplete'
  BY DEF Inv, Start, ManifestInv, ManifestMeansComplete
<1>4. OpenInv' /\ DeliveredIsRight'
  BY DEF Inv, Start, OpenInv, DeliveredIsRight
<1> QED
  BY <1>1, <1>2, <1>3, <1>4 DEF Inv

LEMMA ScanStep ==
  ASSUME Inv, ScanCuts \/ ReadLabels PROVE Inv'
<1> USE DEF disk
<1>1. Shape'
  BY DEF Inv, Shape, ScanCuts, ReadLabels, Cuts
<1>2. BuildInv' /\ ReuseInv'
  <2>1. req' = req /\ MyGroups' = MyGroups /\ UNCHANGED << disk, stage, data >>
    BY DEF ScanCuts, ReadLabels, MyGroups
  <2>2. pc \in {"cuts", "label"} /\ pc' \in {"label", "build"}
    BY DEF ScanCuts, ReadLabels
  <2>3. \A i \in DOMAIN MyGroups : stage[i] = "todo"
    BY <2>2, MyBlocks DEF Inv, BuildInv
  <2> QED
    BY <2>1, <2>2, <2>3 DEF Inv, BuildInv, ReuseInv
<1>3. ManifestInv' /\ ManifestMeansComplete'
  BY DEF Inv, ScanCuts, ReadLabels, ManifestInv, ManifestMeansComplete
<1>4. OpenInv' /\ DeliveredIsRight'
  BY DEF Inv, ScanCuts, ReadLabels, OpenInv, DeliveredIsRight
<1> QED
  BY <1>1, <1>2, <1>3, <1>4 DEF Inv

LEMMA StopStep ==
  ASSUME Inv, Stop PROVE Inv'
<1> USE DEF Stop, End
<1>1. Shape'
  BY DEF Inv, Shape, PerFile, Dirs
<1>2. BuildInv' /\ ReuseInv'
  BY DEF Inv, Shape, BuildInv, ReuseInv, Dirs
<1>3. ManifestInv' /\ ManifestMeansComplete'
  BY DEF Inv, Shape, PerFile, ManifestInv, ManifestMeansComplete, Dirs
<1>4. OpenInv' /\ DeliveredIsRight'
  BY DEF OpenInv, DeliveredIsRight
<1> QED
  BY <1>1, <1>2, <1>3, <1>4 DEF Inv

\* The steps of the workers.
LEMMA QuantizeStep ==
  ASSUME Inv, NEW i \in BlockId, QuantizeBlock(i) PROVE Inv'
<1> USE DEF opened
<1>1. /\ pc = "build" /\ i \in DOMAIN MyGroups /\ pc' = pc /\ req' = req /\ cuts' = cuts
      /\ MyGroups' = MyGroups
      /\ UNCHANGED << source, blocks, tmps, manifest, verified, delivered, rotten, cache, hashes >>
  BY DEF QuantizeBlock, Step, MyGroups
<1>2. /\ stage' = [stage EXCEPT ![i] = IF req.mode = "memory" THEN "done" ELSE "quantized"]
      /\ data' = [data EXCEPT ![i] = Quantize(i)]
  BY DEF QuantizeBlock, Step
<1>3. Shape'
  BY <1>1, <1>2 DEF Inv, Shape
<1>4. BuildInv'
  <2>1. IsMine(Quantize(i), i)
    BY <1>1 DEF Inv, Shape, Quantize, IsMine, IsBlock
  <2>2. ASSUME NEW j \in DOMAIN MyGroups, stage'[j] # "todo"
        PROVE  /\ IsMine(data'[j], j)
               /\ stage'[j] \notin {"todo", "done"} => req.mode \in Dirs
               /\ stage'[j] = "written" => tmps'[req.mode][j] = data'[j]
               /\ stage'[j] = "done" /\ req.mode # "memory" =>
                    blocks'[req.mode][j] \in {data'[j], Rot, Torn}
    <3>1. j \in BlockId
      BY <1>1, MyBlocks DEF Inv
    <3>2. CASE j = i
      BY <1>1, <1>2, <2>1, <3>1, <3>2, RequestShape DEF Inv, Shape, Dirs
    <3>3. CASE j # i
      BY <1>1, <1>2, <2>2, <3>1, <3>3 DEF Inv, Shape, BuildInv
    <3> QED
      BY <3>2, <3>3
  <2> QED
    BY <1>1, <2>2 DEF Inv, BuildInv, IsMine
<1>5. ReuseInv' /\ ManifestInv' /\ ManifestMeansComplete' /\ OpenInv' /\ DeliveredIsRight'
  BY <1>1 DEF Inv, ReuseInv, ManifestInv, ManifestMeansComplete, OpenInv, DeliveredIsRight
<1> QED
  BY <1>3, <1>4, <1>5 DEF Inv

\* Replacing one file of one directory.
Put(F, mode, i, x) == [F EXCEPT ![mode][i] = x]

LEMMA OneFile ==
  ASSUME NEW F, PerFile(F), NEW mode \in Dirs, NEW i \in BlockId, NEW x
  PROVE  /\ PerFile(Put(F, mode, i, x))
         /\ \A d \in Dirs, j \in BlockId :
              Put(F, mode, i, x)[d][j] = IF d = mode /\ j = i THEN x ELSE F[d][j]
<1> DEFINE G == Put(F, mode, i, x)
<1>1. G = [d \in Dirs |-> IF d = mode THEN [F[mode] EXCEPT ![i] = x] ELSE F[d]]
  BY DEF PerFile, Put
<1> HIDE DEF G
<1>2. ASSUME NEW d \in Dirs
      PROVE  /\ G[d] = [j \in BlockId |-> G[d][j]]
             /\ \A j \in BlockId : G[d][j] = IF d = mode /\ j = i THEN x ELSE F[d][j]
  <2>1. F[d] = [j \in BlockId |-> F[d][j]]
    BY DEF PerFile
  <2>2. CASE d = mode
    <3>1. G[d] = [F[d] EXCEPT ![i] = x]
      BY <1>1, <2>2
    <3> QED
      BY <2>1, <2>2, <3>1
  <2>3. CASE d # mode
    <3>1. G[d] = F[d]
      BY <1>1, <2>3
    <3> QED
      BY <2>1, <2>3, <3>1
  <2> QED
    BY <2>2, <2>3
<1>3. G = [d \in Dirs |-> G[d]]
  BY <1>1
<1>4. PerFile(G)
  BY <1>2, <1>3 DEF PerFile
<1>5. \A d \in Dirs, j \in BlockId : G[d][j] = IF d = mode /\ j = i THEN x ELSE F[d][j]
  BY <1>2
<1> QED
  BY <1>4, <1>5 DEF G

\* A worker that writes moves its own block, in the run's directory only.
LEMMA WriteStep ==
  ASSUME Inv, NEW i \in BlockId, CreateTmp(i) \/ WriteTmp(i) \/ RenameTmp(i) PROVE Inv'
<1> USE DEF opened
<1>1. /\ pc = "build" /\ i \in DOMAIN MyGroups /\ pc' = pc /\ req' = req /\ cuts' = cuts
      /\ MyGroups' = MyGroups
      /\ UNCHANGED << source, data, manifest, verified, delivered, rotten, cache, hashes >>
  BY DEF CreateTmp, WriteTmp, RenameTmp, Step, MyGroups
<1>2. /\ stage[i] \in {"quantized", "created", "written"}
      /\ \E l \in {"created", "written", "done"} : stage' = [stage EXCEPT ![i] = l]
  BY DEF CreateTmp, WriteTmp, RenameTmp, Step
<1>3. /\ PerFile(tmps) /\ PerFile(blocks)
      /\ stage = [j \in BlockId |-> stage[j]]
  BY DEF Inv, Shape
<1>4. req.mode \in Dirs
  BY <1>1, <1>2 DEF Inv, BuildInv
<1>5. \A j \in BlockId : j # i => stage'[j] = stage[j]
  BY <1>2, <1>3
<1>6. /\ PerFile(tmps')
      /\ \A d \in Dirs, j \in BlockId : d # req.mode \/ j # i => tmps'[d][j] = tmps[d][j]
      /\ stage'[i] = "written" => tmps'[req.mode][i] = data[i]
  <2>1. \E x : /\ tmps' = Put(tmps, req.mode, i, x)
               /\ stage'[i] = "written" => x = data[i]
    BY <1>3 DEF Put, CreateTmp, WriteTmp, RenameTmp, Step
  <2>2. PICK x : /\ tmps' = Put(tmps, req.mode, i, x)
                 /\ stage'[i] = "written" => x = data[i]
    BY <2>1
  <2>3. \A d \in Dirs, j \in BlockId :
          tmps'[d][j] = IF d = req.mode /\ j = i THEN x ELSE tmps[d][j]
    BY <1>3, <1>4, <2>2, OneFile
  <2>4. PerFile(tmps')
    BY <1>3, <1>4, <2>2, OneFile
  <2> QED
    BY <1>4, <2>2, <2>3, <2>4
<1>7. /\ PerFile(blocks')
      /\ \A d \in Dirs, j \in BlockId : d # req.mode \/ j # i => blocks'[d][j] = blocks[d][j]
      /\ stage'[i] = "done" => blocks'[req.mode][i] = data[i]
  <2>1. CASE CreateTmp(i) \/ WriteTmp(i)
    BY <1>3, <2>1 DEF CreateTmp, WriteTmp, Step
  <2>2. CASE RenameTmp(i)
    <3>1. /\ blocks' = Put(blocks, req.mode, i, tmps[req.mode][i])
          /\ stage[i] = "written"
      BY <2>2 DEF Put, RenameTmp, Step
    <3>2. tmps[req.mode][i] = data[i]
      BY <1>1, <3>1 DEF Inv, BuildInv
    <3>3. \A d \in Dirs, j \in BlockId :
            blocks'[d][j] = IF d = req.mode /\ j = i THEN tmps[req.mode][i] ELSE blocks[d][j]
      BY <1>3, <1>4, <3>1, OneFile
    <3>4. PerFile(blocks')
      BY <1>3, <1>4, <3>1, OneFile
    <3> QED
      BY <1>4, <3>2, <3>3, <3>4
  <2> QED
    BY <2>1, <2>2
<1>8. Shape'
  BY <1>1, <1>2, <1>3, <1>6, <1>7 DEF Inv, Shape
<1>9. BuildInv'
  <2>1. ASSUME NEW j \in DOMAIN MyGroups, stage'[j] # "todo"
        PROVE  /\ IsMine(data'[j], j)
               /\ stage'[j] \notin {"todo", "done"} => req.mode \in Dirs
               /\ stage'[j] = "written" => tmps'[req.mode][j] = data'[j]
               /\ stage'[j] = "done" /\ req.mode # "memory" =>
                    blocks'[req.mode][j] \in {data'[j], Rot, Torn}
    <3>1. j \in BlockId
      BY <1>1, MyBlocks DEF Inv
    <3>2. CASE j = i
      BY <1>1, <1>2, <1>4, <1>6, <1>7, <3>2 DEF Inv, BuildInv
    <3>3. CASE j # i
      BY <1>1, <1>4, <1>5, <1>6, <1>7, <2>1, <3>1, <3>3 DEF Inv, BuildInv
    <3> QED
      BY <3>2, <3>3
  <2> QED
    BY <1>1, <2>1 DEF Inv, BuildInv, IsMine
<1>10. ManifestMeansComplete'
  <2>1. ASSUME NEW d \in Dirs, manifest[d] # None PROVE blocks'[d] = blocks[d]
    <3>1. d # req.mode
      BY <1>1, <2>1 DEF Inv, BuildInv, Dirs
    <3> QED
      BY <1>3, <1>7, <3>1 DEF PerFile
  <2> QED
    BY <1>1, <2>1 DEF Inv, ManifestMeansComplete
<1>11. ReuseInv' /\ ManifestInv' /\ OpenInv' /\ DeliveredIsRight'
  BY <1>1 DEF Inv, ReuseInv, ManifestInv, OpenInv, DeliveredIsRight
<1> QED
  BY <1>8, <1>9, <1>10, <1>11 DEF Inv

\* The manifest vouches for what the workers have done.
LEMMA CommitStep ==
  ASSUME Inv, Commit PROVE Inv'
<1>1. /\ pc = "build" /\ pc' = "open" /\ cache' = req.mode /\ req' = req /\ cuts' = cuts
      /\ MyGroups' = MyGroups /\ verified' = {}
      /\ UNCHANGED << source, blocks, tmps, delivered, rotten >>
      /\ stage' = [j \in BlockId |-> "todo"]
      /\ req.mode = "memory" => data' = data /\ manifest' = manifest
      /\ req.mode # "memory" => /\ data' = [j \in BlockId |-> None]
                                /\ manifest' = [manifest EXCEPT ![req.mode] = Manifest]
                                /\ hashes' = Manifest.hashes
  BY DEF Commit, MyGroups
<1>2. /\ req.mode \in {"memory", "temp", "path"} /\ req.target \in Targets
      /\ req.width \in Widths /\ cuts \in Cuts
  BY <1>1, RequestShape DEF Inv, Shape
<1>3. \A i \in DOMAIN MyGroups :
        /\ IsMine(data[i], i)
        /\ req.mode # "memory" => blocks[req.mode][i] \in {data[i], Rot, Torn}
  BY <1>1 DEF Commit, BlocksDone, Inv, BuildInv
<1>4. /\ Manifest.hashes = [i \in DOMAIN MyGroups |-> data[i]] /\ Manifest.groups = MyGroups
      /\ Manifest.target = req.target /\ Manifest.cuts = cuts
  BY DEF Manifest
<1>5. Shape'
  BY <1>1, <1>2 DEF Inv, Shape
<1>6. BuildInv' /\ ReuseInv'
  BY <1>1 DEF BuildInv, ReuseInv
<1>7. ManifestInv' /\ ManifestMeansComplete'
  <2>1. ASSUME NEW d \in Dirs, manifest'[d] # None
        PROVE  ManifestInv!(d)' /\ ManifestMeansComplete!(d)'
    <3>1. CASE d = req.mode
      <4>1. manifest'[d] = Manifest
        BY <1>1, <3>1 DEF Inv, Shape, Dirs
      <4>2. \A i \in DOMAIN MyGroups :
              /\ Manifest.hashes[i] = data[i]
              /\ IsBlock(data[i], i, MyGroups, req.target, cuts)
              /\ blocks'[d][i] \in {data[i], Rot, Torn}
        BY <1>1, <1>3, <1>4, <3>1 DEF IsMine, Dirs
      <4> QED
        BY <1>2, <1>4, <4>1, <4>2 DEF MyGroups
    <3>2. CASE d # req.mode
      <4>1. manifest'[d] = manifest[d] /\ blocks'[d] = blocks[d]
        BY <1>1, <1>2, <3>2 DEF Inv, Shape
      <4> QED
        BY <2>1, <4>1 DEF Inv, ManifestInv, ManifestMeansComplete
    <3> QED
      BY <3>1, <3>2
  <2> QED
    BY <2>1 DEF ManifestInv, ManifestMeansComplete
<1>8. OpenInv' /\ DeliveredIsRight'
  BY <1>1, <1>2, <1>3, <1>4 DEF Inv, OpenInv, DeliveredIsRight, IsMine
<1> QED
  BY <1>5, <1>6, <1>7, <1>8 DEF Inv

LEMMA ReuseStep ==
  ASSUME Inv, CheckManifest \/ Reuse PROVE Inv'
<1> USE DEF disk, opened
<1>1. /\ pc \in {"identity", "lengths"} /\ req' = req /\ MyGroups' = MyGroups
      /\ pc' \in {"lengths", "open", "refused"}
      /\ UNCHANGED << source, blocks, tmps, manifest, stage, data, delivered, rotten >>
      /\ verified' = {}
  BY DEF CheckManifest, Reuse, MyGroups, Inv, OpenInv
<1>2. pc' = "lengths" => M.target = req.target /\ M.groups = MyGroups
  BY DEF CheckManifest, Reuse, SameRequest
<1>3. pc' = "open" => /\ cuts' = M.cuts /\ hashes' = M.hashes /\ cache' = "path"
                     /\ M.target = req.target /\ M.groups = MyGroups
                     /\ M.cuts \in Cuts
                     /\ \A i \in DOMAIN MyGroups :
                          IsBlock(M.hashes[i], i, MyGroups, req.target, M.cuts)
  BY DEF CheckManifest, Reuse, Inv, ReuseInv, ManifestInv, M, Dirs
<1>4. Shape'
  BY <1>1, <1>3 DEF Inv, Shape
<1>5. BuildInv' /\ ReuseInv'
  BY <1>1, <1>2 DEF Inv, BuildInv, ReuseInv, M
<1>6. ManifestInv' /\ ManifestMeansComplete'
  BY <1>1 DEF Inv, ManifestInv, ManifestMeansComplete
<1>7. OpenInv' /\ DeliveredIsRight'
  BY <1>1, <1>3 DEF Inv, OpenInv, DeliveredIsRight, IsMine
<1> QED
  BY <1>4, <1>5, <1>6, <1>7 DEF Inv

----------------------------------------------------------------------------
(***************************************************************************)
(* Reading the open source                                                 *)
(***************************************************************************)

\* A right block has the right column in every place, and is no damaged block.
LEMMA RightBlock ==
  ASSUME Shape, pc = "open", NEW i \in DOMAIN MyGroups, NEW x, IsMine(x, i)
  PROVE  /\ x # Rot /\ Len(x) = Len(MyGroups[i])
         /\ \A l \in DOMAIN MyGroups[i] : \E v \in Version : x[l] = Column(MyGroups[i][l], v)
<1>1. PICK n \in 1..NFeats : MyGroups[i] \in [1..n -> 1..NFeats]
  BY MyBlocks
<1>2. PICK v \in Version :
        x = [l \in DOMAIN MyGroups[i] |->
               [feat |-> MyGroups[i][l], target |-> req.target, cuts |-> cuts, src |-> v]]
  BY DEF IsMine, IsBlock
<1>3. req.target \in Targets /\ cuts \in Cuts
  BY RequestShape DEF Shape
<1>4. \A f \in 1..NFeats :
        [feat |-> f, target |-> req.target, cuts |-> cuts, src |-> v] \in ColumnData
  BY <1>3 DEF ColumnData, Cuts
<1>5. x \in [1..n -> ColumnData]
  BY <1>1, <1>2, <1>4
<1>6. x # Rot
  BY <1>5, DamageShows
<1>7. Len(x) = Len(MyGroups[i])
  <2>1. n \in Nat /\ Len(x) = n /\ Len(MyGroups[i]) = n
    BY <1>1, <1>5, CacheParams
  <2> QED
    BY <2>1
<1> QED
  BY <1>2, <1>6, <1>7 DEF Column

\* The block on disk is the one hashed, once it has been verified and as long as
\* it has not rotted since.
Vouched(i) == blocks[cache][i] = hashes[i] \/ i \in rotten

LEMMA VouchedBlock ==
  ASSUME Inv, pc = "open", NEW i \in DOMAIN MyGroups, cache # "memory",
         i \in verified \/ blocks[cache][i] = hashes[i]
  PROVE  /\ Vouched(i)
         /\ i \in rotten \/ IsMine(blocks[cache][i], i)
BY DEF Vouched, Inv, OpenInv

\* A column in place k of what is read of block i, for the feature in place l of it.
RightAt(i, x, k, l) ==
  i \in rotten \/ \E v \in Version : x[k] = Column(MyGroups[i][l], v)

\* A block that is read without an error holds the columns of its features.
LEMMA WholeRight ==
  ASSUME Inv, pc = "open", NEW i \in DOMAIN MyGroups, Whole(i) # Error
  PROVE  /\ \A l \in DOMAIN MyGroups[i] : RightAt(i, Whole(i), l, l)
         /\ i \in rotten \/ Len(Whole(i)) = Len(MyGroups[i])
         /\ cache # "memory" => Vouched(i)
<1>1. CASE cache = "memory"
  <2>1. IsMine(Whole(i), i)
    BY <1>1 DEF Inv, OpenInv, Whole
  <2> QED
    BY <1>1, <2>1, RightBlock DEF Inv, RightAt
<1>2. CASE cache # "memory"
  <2> DEFINE file == blocks[cache][i]
  <2>1. /\ i \in verified \/ file = hashes[i]
        /\ Whole(i) = IF file = Rot THEN RotColumns(i) ELSE file
    BY <1>2 DEF Whole
  <2>2. Vouched(i) /\ (i \in rotten \/ IsMine(file, i))
    BY <1>2, <2>1, VouchedBlock
  <2>3. ASSUME i \notin rotten PROVE IsMine(Whole(i), i)
    <3>1. IsMine(file, i) /\ file # Rot
      BY <2>2, <2>3, RightBlock DEF Inv
    <3> QED
      BY <2>1, <3>1
  <2> QED
    BY <2>2, <2>3, RightBlock DEF Inv, RightAt
<1> QED
  BY <1>1, <1>2

\* So do the columns that are read of it.
LEMMA PartialRight ==
  ASSUME Inv, pc = "open", NEW i \in DOMAIN MyGroups, cache # "memory",
         NEW cols, \A k \in DOMAIN cols : cols[k] \in DOMAIN MyGroups[i],
         Partial(i, cols) # Error
  PROVE  /\ DOMAIN Partial(i, cols) = DOMAIN cols
         /\ \A k \in DOMAIN cols : RightAt(i, Partial(i, cols), k, cols[k])
         /\ Vouched(i)
<1> DEFINE file == IF i \in verified THEN blocks[cache][i] ELSE Whole(i)
<1>1. /\ file \notin {Error, None, Torn}
      /\ Partial(i, cols) = [k \in DOMAIN cols |-> IF file = Rot THEN Rot ELSE file[cols[k]]]
  BY DEF Partial
<1>2. Vouched(i) /\ (i \in rotten \/ IsMine(file, i))
  <2>1. CASE i \in verified
    BY <2>1, VouchedBlock
  <2>2. CASE i \notin verified
    <3>1. /\ blocks[cache][i] = hashes[i]
          /\ file = IF blocks[cache][i] = Rot THEN RotColumns(i) ELSE blocks[cache][i]
      BY <1>1, <2>2 DEF Whole
    <3>2. Vouched(i) /\ (i \in rotten \/ IsMine(blocks[cache][i], i))
      BY <3>1, VouchedBlock
    <3>3. i \in rotten \/ blocks[cache][i] # Rot
      BY <3>2, RightBlock DEF Inv
    <3> QED
      BY <3>1, <3>2, <3>3
  <2> QED
    BY <2>1, <2>2
<1> HIDE DEF file
<1>3. ASSUME i \notin rotten, NEW k \in DOMAIN cols
      PROVE  \E v \in Version : Partial(i, cols)[k] = Column(MyGroups[i][cols[k]], v)
  <2>1. IsMine(file, i)
    BY <1>2, <1>3
  <2>2. file # Rot /\ \E v \in Version : file[cols[k]] = Column(MyGroups[i][cols[k]], v)
    BY <1>3, <2>1, RightBlock DEF Inv
  <2> QED
    BY <1>1, <2>2
<1> QED
  BY <1>1, <1>2, <1>3 DEF RightAt

\* A read that hands over right pairs of a block it can vouch for keeps the invariant.
LEMMA ReadStep ==
  ASSUME Inv, pc = "open", NEW i \in DOMAIN MyGroups, NEW columns, NEW pairs,
         Read(i, columns, pairs),
         columns # Error =>
           /\ \A p \in pairs : \E l \in DOMAIN MyGroups[i] :
                /\ p[1] = MyGroups[i][l]
                /\ i \in rotten \/ \E v \in Version : p[2] = Column(p[1], v)
           /\ cache # "memory" => Vouched(i)
  PROVE  Inv'
<1>1. /\ pc' = pc /\ req' = req /\ cuts' = cuts /\ MyGroups' = MyGroups
      /\ UNCHANGED << source, blocks, tmps, manifest, stage, data, cache, hashes, rotten >>
  BY DEF Read, disk, MyGroups
<1>2. /\ verified' \subseteq verified \cup {i}
      /\ i \in verified' => i \in verified \/ cache = "memory" \/ Vouched(i)
      /\ delivered' = {} \/ (columns # Error /\ delivered' = pairs)
  BY DEF Read
<1>3. Shape' /\ BuildInv'
  BY <1>1 DEF Inv, Shape, BuildInv
<1>4. ReuseInv' /\ ManifestInv' /\ ManifestMeansComplete'
  BY <1>1 DEF Inv, ReuseInv, ManifestInv, ManifestMeansComplete
<1>5. OpenInv'
  BY <1>1, <1>2 DEF Inv, OpenInv, Vouched, IsMine
<1>6. DeliveredIsRight'
  <2>1. ASSUME NEW p \in delivered'
        PROVE  \/ \E v \in Version : p[2] = Column(p[1], v)
               \/ \E j \in rotten : \E l \in DOMAIN MyGroups[j] : MyGroups[j][l] = p[1]
    BY <1>2, <2>1
  <2> QED
    BY <1>1, <2>1 DEF DeliveredIsRight, Column
<1> QED
  BY <1>3, <1>4, <1>5, <1>6 DEF Inv

LEMMA WithBlockStep ==
  ASSUME Inv, NEW i, WithBlock(i) PROVE Inv'
<1>1. pc = "open" /\ i \in DOMAIN MyGroups
  BY DEF WithBlock, Read
<1>2. ASSUME Whole(i) # Error, NEW p \in Pairs(MyGroups[i], Whole(i))
      PROVE  \E l \in DOMAIN MyGroups[i] :
                /\ p[1] = MyGroups[i][l]
                /\ i \in rotten \/ \E v \in Version : p[2] = Column(p[1], v)
  <2>1. PICK l \in DOMAIN MyGroups[i] : p = << MyGroups[i][l], Whole(i)[l] >>
    BY <1>2 DEF Pairs
  <2>2. RightAt(i, Whole(i), l, l)
    BY <1>1, <1>2, WholeRight
  <2> QED
    BY <2>1, <2>2 DEF RightAt
<1> QED
  BY <1>1, <1>2, ReadStep, WholeRight DEF WithBlock

LEMMA WithBlockColsStep ==
  ASSUME Inv, pc = "open", NEW i \in DOMAIN MyGroups, NEW cols,
         \A k \in DOMAIN cols : cols[k] \in DOMAIN MyGroups[i],
         WithBlockCols(i, cols)
  PROVE  Inv'
<1>1. CASE WithBlock(i)
  BY <1>1, WithBlockStep
<1>2. CASE cache # "memory" /\ ~WithBlock(i)
  <2> DEFINE feats == [k \in DOMAIN cols |-> MyGroups[i][cols[k]]]
             block == Partial(i, cols)
  <2>1. Read(i, block, Pairs(feats, block))
    BY <1>2 DEF WithBlockCols
  <2>2. ASSUME block # Error, NEW p \in Pairs(feats, block)
        PROVE  \E l \in DOMAIN MyGroups[i] :
                  /\ p[1] = MyGroups[i][l]
                  /\ i \in rotten \/ \E v \in Version : p[2] = Column(p[1], v)
    <3>1. PICK k \in DOMAIN cols : p = << MyGroups[i][cols[k]], block[k] >>
      BY <2>2 DEF Pairs
    <3>2. RightAt(i, block, k, cols[k])
      BY <1>2, <2>2, PartialRight
    <3> QED
      BY <3>1, <3>2 DEF RightAt
  <2>3. block # Error => Vouched(i)
    BY <1>2, PartialRight
  <2> HIDE DEF feats, block
  <2> QED
    BY <2>1, <2>2, <2>3, ReadStep
<1> QED
  BY <1>1, <1>2 DEF WithBlockCols

LEMMA FeatureColumnStep ==
  ASSUME Inv, pc = "open", NEW f, FeatureColumn(f) PROVE Inv'
<1>1. PICK i \in DOMAIN MyGroups : \E l \in DOMAIN MyGroups[i] : FeatureColumn(f)!(i)!(l)
  BY DEF FeatureColumn
<1>2. PICK l \in DOMAIN MyGroups[i] : FeatureColumn(f)!(i)!(l)
  BY <1>1
<1> DEFINE whole == cache = "memory" \/ Len(MyGroups[i]) = 1
           block == IF whole THEN Whole(i) ELSE Partial(i, << l >>)
           col == IF Len(block) = 1 THEN 1 ELSE l
<1>3. MyGroups[i][l] = f /\ Read(i, block, {<< f, block[col] >>})
  BY <1>2
<1>4. ASSUME block # Error PROVE cache # "memory" => Vouched(i)
  BY <1>4, WholeRight, PartialRight
<1>5. ASSUME block # Error, i \notin rotten
      PROVE  \E v \in Version : block[col] = Column(f, v)
  <2>1. CASE whole
    <3>1. block = Whole(i)
      BY <2>1
    <3>2. Len(block) = Len(MyGroups[i]) /\ RightAt(i, block, l, l)
      BY <1>5, <3>1, WholeRight
    <3>3. Len(MyGroups[i]) = 1 => l = 1
      BY MyBlocks, CacheParams DEF Inv
    <3>4. col = l
      BY <3>2, <3>3
    <3> QED
      BY <1>3, <1>5, <3>2, <3>4 DEF RightAt
  <2>2. CASE ~whole
    <3>1. block = Partial(i, << l >>) /\ cache # "memory"
      BY <2>2
    <3>2. DOMAIN << l >> = {1} /\ << l >>[1] = l
      OBVIOUS
    <3>3. DOMAIN block = {1} /\ RightAt(i, block, 1, l)
      BY <1>5, <3>1, <3>2, PartialRight
    <3>4. block[col] = block[1]
      BY <3>1, <3>2, <3>3 DEF Partial
    <3> QED
      BY <1>3, <1>5, <3>3, <3>4 DEF RightAt
  <2> QED
    BY <2>1, <2>2
<1> HIDE DEF block, col, whole
<1> QED
  BY <1>3, <1>4, <1>5, ReadStep

\* The world: a new version of the file, a block that rots.
LEMMA WorldStep ==
  ASSUME Inv, Replace \/ (\E d \in Dirs, i \in BlockId : Corrupt(d, i)) PROVE Inv'
<1>1. CASE Replace
  <2>1. /\ MyGroups' = MyGroups /\ source' \in Version
        /\ UNCHANGED << blocks, tmps, manifest, pc, req, cuts, stage, data, cache, hashes,
                        verified, delivered, rotten >>
    BY <1>1 DEF Replace, disk, opened, MyGroups
  <2>2. Shape' /\ BuildInv'
    BY <2>1 DEF Inv, Shape, BuildInv, IsMine
  <2> QED
    BY <2>1, <2>2 DEF Inv, ReuseInv, ManifestInv, ManifestMeansComplete, OpenInv, IsMine,
       DeliveredIsRight, Column
<1>2. CASE \E d \in Dirs, i \in BlockId : Corrupt(d, i)
  <2>1. PICK d \in Dirs, i \in BlockId, bad \in {Rot, Torn} :
          /\ blocks' = Put(blocks, d, i, bad)
          /\ rotten' = IF cache = d /\ i \in verified THEN rotten \cup {i} ELSE rotten
    BY <1>2 DEF Corrupt, Put
  <2>2. /\ MyGroups' = MyGroups
        /\ UNCHANGED << source, tmps, manifest, pc, req, cuts, stage, data, cache, hashes,
                        verified, delivered >>
    BY <1>2 DEF Corrupt, opened, MyGroups
  <2>3. /\ PerFile(blocks')
        /\ \A e \in Dirs, j \in BlockId :
             blocks'[e][j] = IF e = d /\ j = i THEN bad ELSE blocks[e][j]
    BY <2>1, OneFile DEF Inv, Shape
  <2>4. Shape'
    BY <2>2, <2>3 DEF Inv, Shape
  <2>5. BuildInv' /\ ReuseInv' /\ ManifestInv'
    <3>1. ASSUME pc = "build", NEW j \in DOMAIN MyGroups, stage[j] = "done", req.mode # "memory"
          PROVE  blocks'[req.mode][j] \in {data[j], Rot, Torn}
      <4>1. j \in BlockId /\ req.mode \in Dirs
        BY <3>1, MyBlocks, RequestShape DEF Inv, Dirs
      <4> QED
        BY <2>3, <3>1, <4>1 DEF Inv, BuildInv
    <3> QED
      BY <2>2, <3>1 DEF Inv, BuildInv, ReuseInv, ManifestInv, IsMine
  <2>6. ManifestMeansComplete'
    <3>1. ASSUME NEW e \in Dirs, manifest[e] # None, NEW j \in DOMAIN manifest[e].groups
          PROVE  blocks'[e][j] \in {manifest[e].hashes[j], Rot, Torn}
      <4>1. j \in BlockId
        BY <3>1, GroupShape, CacheParams DEF Inv, ManifestInv
      <4> QED
        BY <2>3, <3>1, <4>1 DEF Inv, ManifestMeansComplete
    <3> QED
      BY <2>2, <3>1 DEF ManifestMeansComplete
  <2>7. OpenInv'
    <3>1. ASSUME pc = "open", NEW j \in DOMAIN MyGroups, cache # "memory", j \in verified
          PROVE  blocks'[cache][j] = hashes[j] \/ j \in rotten'
      <4>1. j \in BlockId /\ cache \in Dirs
        BY <3>1, MyBlocks DEF Inv, OpenInv, Dirs
      <4>2. blocks[cache][j] = hashes[j] \/ j \in rotten
        BY <3>1 DEF Inv, OpenInv
      <4> QED
        BY <2>1, <2>3, <3>1, <4>1, <4>2
    <3> QED
      BY <2>2, <3>1 DEF Inv, OpenInv, IsMine
  <2>8. DeliveredIsRight'
    BY <2>1, <2>2 DEF Inv, DeliveredIsRight, Column
  <2> QED
    BY <2>4, <2>5, <2>6, <2>7, <2>8 DEF Inv
<1> QED
  BY <1>1, <1>2

LEMMA StutterStep ==
  ASSUME Inv, UNCHANGED vars PROVE Inv'
<1> USE DEF vars, disk, opened, IsMine, MyGroups
<1>1. Shape' /\ BuildInv'
  BY DEF Inv, Shape, BuildInv
<1>2. ManifestInv' /\ ReuseInv' /\ OpenInv'
  BY DEF Inv, ManifestInv, ReuseInv, OpenInv
<1>3. ManifestMeansComplete' /\ DeliveredIsRight'
  BY DEF Inv, ManifestMeansComplete, DeliveredIsRight, Column
<1> QED
  BY <1>1, <1>2, <1>3 DEF Inv

----------------------------------------------------------------------------
(***************************************************************************)
(* The theorems                                                            *)
(***************************************************************************)

LEMMA Invariance == Spec => []Inv
<1>1. Inv /\ [Next]_vars => Inv'
  <2> SUFFICES ASSUME Inv, [Next]_vars PROVE Inv'
    OBVIOUS
  <2>1. CASE Start \/ Stop \/ ScanCuts \/ ReadLabels \/ Commit \/ CheckManifest \/ Reuse
    BY <2>1, StartStep, StopStep, ScanStep, CommitStep, ReuseStep
  <2>2. CASE \E i \in BlockId : \/ QuantizeBlock(i) \/ CreateTmp(i) \/ WriteTmp(i)
                                \/ RenameTmp(i)
    BY <2>2, QuantizeStep, WriteStep
  <2>3. CASE \E i \in BlockId : WithBlock(i)
    BY <2>3, WithBlockStep
  <2>4. ASSUME NEW i \in BlockId, NEW l \in 1..NFeats, NEW m \in 1..NFeats,
               pc = "open", i \in DOMAIN MyGroups,
               l \in DOMAIN MyGroups[i], m \in DOMAIN MyGroups[i],
               WithBlockCols(i, IF l = m THEN << l >> ELSE << l, m >>)
        PROVE  Inv'
    <3> DEFINE cols == IF l = m THEN << l >> ELSE << l, m >>
    <3>1. \A k \in DOMAIN cols : cols[k] \in DOMAIN MyGroups[i]
      BY <2>4
    <3> HIDE DEF cols
    <3> QED
      BY <2>4, <3>1, WithBlockColsStep DEF cols
  <2>5. CASE \E f \in 1..NFeats : pc = "open" /\ FeatureColumn(f)
    BY <2>5, FeatureColumnStep
  <2>6. CASE Replace \/ \E d \in Dirs, i \in BlockId : Corrupt(d, i)
    BY <2>6, WorldStep
  <2>7. CASE UNCHANGED vars
    BY <2>7, StutterStep
  <2> QED
    BY <2>1, <2>2, <2>3, <2>4, <2>5, <2>6, <2>7 DEF Next
<1> QED
  BY InitInv, <1>1, PTL DEF Spec

\* A directory with a manifest holds every block of its cache, each as it was
\* hashed or damaged since, however runs are killed (build_cache renames the
\* manifest last; manifest_path).
THEOREM CompleteCaches == Spec => []ManifestMeansComplete
BY Invariance, PTL DEF Inv

\* A reader is only ever given columns of its own features, targets and cuts, unless
\* their bytes rotted after they were verified (with_block, with_block_cols,
\* feature_column).
THEOREM ReadersGetTheirColumns == Spec => []DeliveredIsRight
BY Invariance, PTL DEF Inv

\* A run that found a manifest never writes another (with_cuts_inner: the manifest
\* decides between reuse and build).
THEOREM ManifestsAreFinal == Spec => ManifestIsFinal
<1>1. Inv /\ [Next]_vars =>
        [manifest["path"] # None => manifest'["path"] = manifest["path"]]_manifest
  <2> SUFFICES ASSUME Inv, [Next]_vars, manifest["path"] # None, manifest' # manifest
               PROVE  manifest'["path"] = manifest["path"]
    OBVIOUS
  <2>1. CASE Commit
    <3>1. /\ pc = "build" /\ req.mode # "path"
          /\ manifest' = [manifest EXCEPT ![req.mode] = Manifest]
      BY <2>1 DEF Commit, Inv, BuildInv
    <3> QED
      BY <3>1
  <2>2. CASE Stop
    BY <2>2 DEF Stop, End
  <2>3. CASE ~Commit /\ ~Stop
    <3> USE DEF vars, disk
    <3>1. ~(Start \/ ScanCuts \/ ReadLabels \/ CheckManifest \/ Reuse)
      BY DEF Start, ScanCuts, ReadLabels, CheckManifest, Reuse
    <3>2. ~\E i \in BlockId : QuantizeBlock(i) \/ CreateTmp(i) \/ WriteTmp(i) \/ RenameTmp(i)
      BY DEF QuantizeBlock, CreateTmp, WriteTmp, RenameTmp, Step
    <3>3. \A i, cols : ~WithBlock(i) /\ ~WithBlockCols(i, cols)
      BY DEF WithBlock, WithBlockCols, Read
    <3>4. \A f : ~FeatureColumn(f)
      BY DEF FeatureColumn, Read
    <3>5. ~Replace /\ ~\E d \in Dirs, i \in BlockId : Corrupt(d, i)
      BY DEF Replace, Corrupt
    <3> QED
      BY <2>3, <3>1, <3>2, <3>3, <3>4, <3>5 DEF Next
  <2> QED
    BY <2>1, <2>2, <2>3
<1> QED
  BY Invariance, <1>1, PTL DEF Spec, ManifestIsFinal
=============================================================================
