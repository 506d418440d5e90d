--------------------------- MODULE ColumnBinding ---------------------------
(***************************************************************************)
(* How a column is found and read: by name or by position, through a       *)
(* projection that never keeps the order it was asked for.  Columns are    *)
(* counted from 1; a cell is <<file, row, physical column>>, so a value    *)
(* that ends in the wrong place is visible.                                *)
(*   source/input.rs  projection_and_order, reorder                        *)
(*   source/mod.rs    Targets::select_features                             *)
(***************************************************************************)
EXTENDS Naturals, Sequences, SequencesExt, FiniteSets

\* The first position of a name, 0 when it is missing.
Position(s, x) == SelectInSeq(s, LAMBDA y : y = x)

Ascending(S) == SetToSortSeq(S, LAMBDA i, j : i < j)

HasDuplicate(s) == Cardinality(Range(s)) < Len(s)

\* Arrow and the Parquet reader return the chosen columns in the order of the
\* file, whatever the order of the mask.
ReadRow(file, row, mask) ==
    LET physical == Ascending(Range(mask))
    IN  [k \in DOMAIN physical |-> <<file, row, physical[k]>>]

Mask(proj)  == Ascending(Range(proj))

\* Mutant: the batch is used as the reader returns it.
OrderAsRead(proj) == [k \in DOMAIN proj |-> k]

Order(proj) == LET mask == Mask(proj) IN [k \in DOMAIN proj |-> Position(mask, proj[k])]

Reorder(values, order) == [k \in DOMAIN order |-> values[order[k]]]

\* One row of a projected reader: project, then reorder.
ProjectedRow(file, row, proj) == Reorder(ReadRow(file, row, Mask(proj)), Order(proj))

-----------------------------------------------------------------------------
\* Targets: label, weight ("" when there is none), want (<<>> when the file's
\* own order counts).
Excludes(t, name) == name = t.label \/ (t.weight # "" /\ name = t.weight)

FeaturePositions(t, columns) ==
    Ascending({k \in DOMAIN columns : ~Excludes(t, columns[k])})

NamesAt(columns, idx) == [k \in DOMAIN idx |-> columns[idx[k]]]

SelectRefuses(t, columns) ==
    LET idx == FeaturePositions(t, columns)
    IN  \/ HasDuplicate(columns)
        \/ idx = <<>>
        \/ t.want # <<>> /\ Range(NamesAt(columns, idx)) # Range(t.want)

SelectFeatures(t, columns) ==
    IF t.want = <<>> THEN FeaturePositions(t, columns)
    ELSE [k \in DOMAIN t.want |-> Position(columns, t.want[k])]
=============================================================================
