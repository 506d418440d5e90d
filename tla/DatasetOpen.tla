---------------------------- MODULE DatasetOpen ----------------------------
(***************************************************************************)
(* Opening a training or validation dataset from several files: each       *)
(* file's schema is bound to one canonical feature order, then the files   *)
(* are read in passes (cuts, bins, labels, weights) whose rows must line   *)
(* up although each pass has its own projection.                           *)
(*   source/parquet_source.rs  open_many_observed, feature_columns,        *)
(*       cuts_only_observed, coalesced_row_group_reader, Dataset::assemble *)
(*   source/csv_source.rs      open_many_impl, columns, FeatureLabelBatches*)
(* The parallel readers deliver their batches in order (ParallelReader,    *)
(* CsvChunks), so a pass is a sequence here.                               *)
(***************************************************************************)
EXTENDS ColumnBinding

CONSTANTS
    Calls,      \* the calls the program can make, see CallShape
    Positional  \* the names Arrow gives to the columns of a headerless file

\* A file has columns, row groups (their numbers of rows), a set of missing or
\* refused values <<row, column>>, and a set of columns that are not numeric.
CallShape(c) ==
    /\ c.format \in {"parquet", "csv"}
    /\ c.header \in BOOLEAN /\ c.given \in BOOLEAN
    /\ c.header \/ c.format = "csv"
    /\ Len(c.files) > 0
    /\ \A f \in DOMAIN c.files : Len(c.files[f].groups) > 0
    /\ c.targets.weight # c.targets.label

CallsAssumption == \A c \in Calls : CallShape(c)

VARIABLES
    call, stage,
    names,          \* the canonical feature names
    proj,           \* per file: where its features, label and weight are
    file, group,    \* the next file to bind, or the next row group to read
    cuts, bins, labels, weights

vars == <<call, stage, names, proj, file, group, cuts, bins, labels, weights>>
read == <<cuts, bins, labels, weights>>

Wanted   == call.targets
Weighted == Wanted.weight # ""
NFiles   == Len(call.files)

ColumnNames(f) ==
    IF call.header THEN call.files[f].columns
    ELSE SubSeq(Positional, 1, Len(call.files[f].columns))

Init ==
    /\ call \in Calls
    /\ stage = "schema"
    /\ names = <<>> /\ proj = <<>>
    /\ file = 1 /\ group = 1
    /\ cuts = <<>> /\ bins = <<>> /\ labels = <<>> /\ weights = <<>>

-----------------------------------------------------------------------------
(* Binding the schemas.                                                    *)

\* A CSV schema is inferred; every column but the label must be numeric.
NotNumeric(f) ==
    /\ call.format = "csv"
    /\ \E k \in call.files[f].text : ColumnNames(f)[k] # Wanted.label

SchemaRefuses(f) ==
    LET c     == ColumnNames(f)
        theirs == NamesAt(c, SelectFeatures(Wanted, c))
    IN  \/ NotNumeric(f)
        \/ Wanted.label \notin Range(c)
        \/ Weighted /\ Wanted.weight \notin Range(c)
        \/ SelectRefuses(Wanted, c)
        \/ f > 1 /\ ~SelectRefuses(Wanted, c) /\ Len(theirs) # Len(names)
        \/ f > 1 /\ ~SelectRefuses(Wanted, c) /\ call.header
           /\ ~(Range(names) \subseteq Range(theirs))

\* Features by name in the order of the first file; by position without header.
FeaturesOf(f) ==
    LET c == ColumnNames(f)
    IN  IF f = 1 \/ ~call.header THEN SelectFeatures(Wanted, c)
        ELSE [k \in DOMAIN names |-> Position(c, names[k])]

RefuseFile ==
    /\ stage = "schema" /\ SchemaRefuses(file)
    /\ stage' = "refused"
    /\ UNCHANGED <<call, names, proj, file, group, read>>

FirstPass == IF call.given THEN "bins" ELSE "cuts"

BindFile ==
    /\ stage = "schema" /\ ~SchemaRefuses(file)
    /\ LET c == ColumnNames(file) IN
       /\ names' = IF file = 1 THEN NamesAt(c, SelectFeatures(Wanted, c)) ELSE names
       /\ proj' = Append(proj, [features |-> FeaturesOf(file),
                                label    |-> Position(c, Wanted.label),
                                weight   |-> Position(c, Wanted.weight)])
    /\ IF file = NFiles THEN stage' = FirstPass /\ file' = 1
                        ELSE stage' = stage /\ file' = file + 1
    /\ UNCHANGED <<call, group, read>>

-----------------------------------------------------------------------------
(* The passes.                                                             *)

Passes == {"cuts", "bins", "labels", "weights"}

\* The columns a pass asks of a file.  CSV reads label and weight beside the
\* features, because a CSV record has to be parsed as a whole anyway.
Asked(pass, f) ==
    LET p == proj[f]
        w == IF Weighted THEN <<p.weight>> ELSE <<>>
    IN  CASE pass = "cuts"    -> p.features \o w
          [] pass = "bins"    -> IF call.format = "csv"
                                   THEN p.features \o <<p.label>> \o w
                                   ELSE p.features
          [] pass = "labels"  -> <<p.label>>
          [] pass = "weights" -> <<p.weight>>

NextPass(pass) ==
    CASE pass = "cuts"    -> "bins"
      [] pass = "bins"    -> IF call.format = "csv" THEN "assemble" ELSE "labels"
      [] pass = "labels"  -> IF Weighted THEN "weights" ELSE "assemble"
      [] pass = "weights" -> "assemble"

FirstRow(f, g) == FoldSeq(LAMBDA n, sum : n + sum, 0, SubSeq(call.files[f].groups, 1, g - 1))

\* The rows of one row group, decoded with the pass's projection.
Batch(pass, f, g) ==
    [r \in 1..call.files[f].groups[g] |->
        ProjectedRow(f, FirstRow(f, g) + r, Asked(pass, f))]

Column(rows, k) == [r \in DOMAIN rows |-> rows[r][k]]
FirstColumns(rows, n)  == [r \in DOMAIN rows |-> SubSeq(rows[r], 1, n)]

TextAsked(pass, f) == Range(Asked(pass, f)) \cap call.files[f].text # {}

\* A row group of the current file, then the next group, file or pass.
ReadGroup ==
    /\ stage \in Passes /\ ~TextAsked(stage, file)
    /\ LET rows == Batch(stage, file, group)
           n    == Len(names)
           csv  == call.format = "csv"
       IN  /\ cuts'    = IF stage = "cuts" THEN cuts \o rows ELSE cuts
           /\ bins'    = IF stage = "bins" THEN bins \o FirstColumns(rows, n) ELSE bins
           /\ labels'  = CASE stage = "labels"       -> labels \o Column(rows, 1)
                           [] stage = "bins" /\ csv  -> labels \o Column(rows, n + 1)
                           [] OTHER                  -> labels
           /\ weights' = CASE stage = "weights" -> weights \o Column(rows, 1)
                           [] stage = "bins" /\ csv /\ Weighted
                                                -> weights \o Column(rows, n + 2)
                           [] OTHER             -> weights
    /\ IF group < Len(call.files[file].groups)
         THEN group' = group + 1 /\ UNCHANGED <<stage, file>>
         ELSE /\ group' = 1
              /\ IF file < NFiles THEN file' = file + 1 /\ stage' = stage
                                  ELSE file' = 1 /\ stage' = NextPass(stage)
    /\ UNCHANGED <<call, names, proj>>

\* A column that does not convert to f32 refuses the batch.
RefuseColumn ==
    /\ stage \in Passes /\ TextAsked(stage, file)
    /\ stage' = "refused"
    /\ UNCHANGED <<call, names, proj, file, group, read>>

\* The file cannot be opened or decoded: the stream ends with the error.
ReadFails ==
    /\ stage \in Passes
    /\ stage' = "io_error"
    /\ UNCHANGED <<call, names, proj, file, group, read>>

IsBad(cell) == <<cell[2], cell[3]>> \in call.files[cell[1]].bad

\* Dataset::assemble: lengths, missing labels, missing or negative weights.
AssembleRefuses ==
    \/ Len(labels) # Len(bins)
    \/ \E r \in DOMAIN labels : IsBad(labels[r])
    \/ Weighted /\ Len(weights) # Len(bins)
    \/ Weighted /\ \E r \in DOMAIN weights : IsBad(weights[r])

Assemble ==
    /\ stage = "assemble"
    /\ stage' = IF AssembleRefuses THEN "refused" ELSE "open"
    /\ UNCHANGED <<call, names, proj, file, group, read>>

Next == BindFile \/ RefuseFile \/ ReadGroup \/ RefuseColumn \/ ReadFails \/ Assemble

Spec == Init /\ [][Next]_vars

-----------------------------------------------------------------------------
\* Properties

\* The state has its shape: at most one projection per file, and no pass reads
\* more rows than the files hold.
TotalRows == FoldSeq(LAMBDA f, n : n + FoldSeq(LAMBDA a, b : a + b, 0, f.groups), 0, call.files)

TypeOK ==
    /\ stage \in Passes \cup {"schema", "assemble", "open", "refused", "io_error"}
    /\ file \in 1..NFiles /\ group \in Nat \ {0}
    /\ Len(proj) <= NFiles
    /\ Len(cuts) <= TotalRows /\ Len(bins) <= TotalRows
    /\ Len(labels) <= TotalRows /\ Len(weights) <= TotalRows

\* What a value should be: the cell of this row in the column that carries the
\* name (by position when there is no header).
DataRows == [k \in 1..TotalRows |->
              CHOOSE c \in {<<f, r>> : f \in 1..NFiles, r \in 1..TotalRows} :
                LET before == FoldSeq(LAMBDA x, n : n + FoldSeq(LAMBDA a, b : a + b, 0, x.groups), 0,
                                      SubSeq(call.files, 1, c[1] - 1))
                    here   == FoldSeq(LAMBDA a, b : a + b, 0, call.files[c[1]].groups)
                IN  c[2] <= here /\ before + c[2] = k]

CellOf(k, name) == LET c == DataRows[k] IN <<c[1], c[2], Position(ColumnNames(c[1]), name)>>

\* Whatever the physical order of the columns of each file, an opened dataset
\* has in every row the value of the column its feature name says, the label and
\* the weight of the same row, and its cuts were built from the same values with
\* the weights of their own rows (open_many: "bound by column name, not by
\* physical order").
NamesBound ==
    stage = "open" =>
        /\ bins = [k \in 1..TotalRows |-> [i \in DOMAIN names |-> CellOf(k, names[i])]]
        /\ labels = [k \in 1..TotalRows |-> CellOf(k, Wanted.label)]
        /\ Weighted => weights = [k \in 1..TotalRows |-> CellOf(k, Wanted.weight)]
        /\ ~call.given => cuts = [k \in 1..TotalRows |->
                bins[k] \o (IF Weighted THEN <<weights[k]>> ELSE <<>>)]

\* A call that should be refused: told from the files alone.
Wrong(f) ==
    LET c == ColumnNames(f)
        d == ColumnNames(1)
        x == {Wanted.label, Wanted.weight}
    IN  \/ HasDuplicate(c)
        \/ ~((x \ {""}) \subseteq Range(c))
        \/ Range(c) \subseteq x
        \/ Range(c) \ x # Range(d) \ x
        \/ Wanted.want # <<>> /\ Range(c) \ x # Range(Wanted.want)
        \/ call.files[f].text # {}
        \/ \E v \in call.files[f].bad : c[v[2]] \in x

\* A dataset opens exactly when every file has the columns asked for, all
\* numeric, no missing label and no missing or negative weight; only a failing
\* read may refuse a good one.
OpensExactlyGood ==
    LET wrong == \E f \in 1..NFiles : Wrong(f)
    IN  (stage = "open" => ~wrong) /\ (stage = "refused" => wrong)
=============================================================================
