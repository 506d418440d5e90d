---------------------------- MODULE PredictInput ----------------------------
(***************************************************************************)
(* Reading files to predict on: the model's canonical features are bound   *)
(* in each file by name, or by position when the model has no names, and   *)
(* only the features the trees use are read, in compact order.             *)
(*   source/predict_input.rs  for_each_projected_contiguous_batch,         *)
(*                            open_projected, bind                         *)
(* Column 0 stands for a column the file does not have.                    *)
(***************************************************************************)
EXTENDS ColumnBinding

CONSTANTS
    Models,     \* [names, n, used]: names <<>> is the positional mode
    FileLists   \* sequences of [columns, rows]

ModelsAssumption ==
    \A m \in Models : m.n > 0 /\ (m.names = <<>> \/ Len(m.names) = m.n)

VARIABLES model, files, stage, file, row, bound, scored

vars == <<model, files, stage, file, row, bound, scored>>

\* The request is refused unless used is a non-empty ascending list of features.
ProjectionRefused ==
    \/ model.used = <<>>
    \/ \E k \in 1..(Len(model.used) - 1) : model.used[k] >= model.used[k + 1]
    \/ \E k \in DOMAIN model.used : model.used[k] > model.n

Init ==
    /\ model \in Models /\ files \in FileLists
    /\ stage = IF ProjectionRefused THEN "refused" ELSE "binding"
    /\ file = 1 /\ row = 1 /\ bound = <<>> /\ scored = <<>>

BindRefuses(columns) ==
    IF model.names = <<>> THEN Len(columns) # model.n
    ELSE \E k \in DOMAIN model.names : Position(columns, model.names[k]) = 0

\* Mutant: by position also when the model has names.
BindPosition(columns) == [k \in 1..model.n |-> k]

\* Where the model's features are; of two columns with one name, the first.
Bind(columns) ==
    IF model.names = <<>> THEN [k \in 1..model.n |-> k]
    ELSE [k \in DOMAIN model.names |-> Position(columns, model.names[k])]

OpenProjected ==
    /\ stage = "binding" /\ ~BindRefuses(files[file].columns)
    /\ bound' = [k \in DOMAIN model.used |-> Bind(files[file].columns)[model.used[k]]]
    /\ stage' = "reading" /\ row' = 1
    /\ UNCHANGED <<model, files, file, scored>>

RefuseFile ==
    /\ stage = "binding" /\ BindRefuses(files[file].columns)
    /\ stage' = "refused"
    /\ UNCHANGED <<model, files, file, row, bound, scored>>

\* A batch of the file, here one row, handed to the callback.
OnRows ==
    /\ stage = "reading" /\ row <= files[file].rows
    /\ scored' = Append(scored, ProjectedRow(file, row, bound))
    /\ row' = row + 1
    /\ UNCHANGED <<model, files, stage, file, bound>>

NextFile ==
    /\ stage = "reading" /\ row > files[file].rows
    /\ IF file < Len(files) THEN file' = file + 1 /\ stage' = "binding"
                            ELSE file' = file /\ stage' = "done"
    /\ UNCHANGED <<model, files, row, bound, scored>>

Next == OpenProjected \/ RefuseFile \/ OnRows \/ NextFile

Spec == Init /\ [][Next]_vars

-----------------------------------------------------------------------------
\* Properties

\* The state has its shape.
TypeOK ==
    /\ stage \in {"binding", "reading", "done", "refused"}
    /\ file \in DOMAIN files /\ row \in Nat
    /\ stage = "reading" => /\ row <= files[file].rows + 1
                          /\ bound \in Seq(DOMAIN files[file].columns)

\* Every row handed to the model carries, at compact position k, the value of
\* the column named as the k-th feature the trees use, whatever the order of the
\* columns in its file and whatever else the file holds; positional models read
\* the position.  No row is skipped and files do not overtake each other.
FeaturesInPlace ==
    LET Right(f, feat) == IF model.names = <<>> THEN feat
                          ELSE Position(files[f].columns, model.names[feat])
        Expected(f, r) == [k \in DOMAIN model.used |-> <<f, r, Right(f, model.used[k])>>]
        Cells == [f \in DOMAIN files |-> [r \in 1..files[f].rows |-> Expected(f, r)]]
    IN  /\ scored # <<>> => IsPrefix(scored, FlattenSeq(Cells))
        /\ stage = "done" => scored = FlattenSeq(Cells)

\* A file is scored only if it has every feature of the model, also those the
\* trees do not use, and a positional file only with exactly their number.
WholeSchema ==
    \A k \in DOMAIN scored :
        LET c == files[scored[k][1][1]].columns
        IN  IF model.names = <<>> THEN Len(c) = model.n
            ELSE Range(model.names) \subseteq Range(c)
=============================================================================
