----------------------------- MODULE MCSources ------------------------------
(***************************************************************************)
(* Where columns come from, for TLC: a Parquet source with its cache of    *)
(* quantized columns (QuantizedCache), a dataset opened from several files *)
(* (DatasetOpen) and files read for prediction (PredictInput).  A          *)
(* behaviour uses one of them; each has a constant input and stands still  *)
(* where another is used.                                                  *)
(***************************************************************************)
EXTENDS QuantizedCache

CONSTANTS Calls, Positional, Models, FileLists

VARIABLES
  used,     \* "cache", "dataset" or "prediction"
  call, d_stage, names, proj, d_file, group, d_cuts, bins, labels, weights,
  model, files, p_stage, p_file, row, bound, scored

dataset_vars == << call, d_stage, names, proj, d_file, group, d_cuts, bins, labels, weights >>
predict_vars == << model, files, p_stage, p_file, row, bound, scored >>

Dataset == INSTANCE DatasetOpen WITH stage <- d_stage, file <- d_file, cuts <- d_cuts
Prediction == INSTANCE PredictInput WITH stage <- p_stage, file <- p_file

ASSUME Dataset!CallsAssumption /\ Prediction!ModelsAssumption

Some(S) == CHOOSE x \in S : TRUE

SourcesInit ==
  /\ used \in {"cache", "dataset", "prediction"}
  /\ used # "dataset" => call = Some(Calls)
  /\ used # "prediction" => model = Some(Models) /\ files = Some(FileLists)
  /\ Init /\ Dataset!Init /\ Prediction!Init

UseCache == used = "cache" /\ Next /\ UNCHANGED << used, dataset_vars, predict_vars >>
OpenDataset ==
  used = "dataset" /\ Dataset!Next /\ UNCHANGED << used, vars, predict_vars >>
ReadForPrediction ==
  used = "prediction" /\ Prediction!Next /\ UNCHANGED << used, vars, dataset_vars >>

SourcesSpec ==
  /\ SourcesInit
  /\ [][UseCache \/ OpenDataset \/ ReadForPrediction]_<< used, vars, dataset_vars, predict_vars >>

----------------------------------------------------------------------------
\* Properties

\* A dataset has under every name the values of the columns of that name, row by
\* row over all passes and files, and opens exactly if the files allow it.  Every
\* feature of a row to predict on comes from its own column, and only files with
\* the whole schema of the model are scored.
CellsInPlace ==
  /\ Dataset!NamesBound /\ Dataset!OpensExactlyGood
  /\ Prediction!FeaturesInPlace /\ Prediction!WholeSchema

----------------------------------------------------------------------------
\* Instances

MCRows == << 4, 4 >>
MCTargets == {"label", "label+weight"}
MCGiven == {[src |-> 2, max_bins |-> 8]}

PosNames == << "c1", "c2", "c3", "c4" >>

Perms(S) == {s \in [1..Cardinality(S) -> S] : \A i, j \in DOMAIN s : s[i] = s[j] => i = j}

\* The columns y (label), w (weight), a and b in every order; a column too few,
\* too many or twice.
Columns ==
  Perms({"y", "w", "a", "b"}) \cup
    {<< "y", "a" >>, << "b", "a" >>, << "y", "w" >>, << "y", "a", "a" >>,
     << "a", "b", "y" >>, << "b", "y", "a" >>}

Plain(cols, groups) == [columns |-> cols, groups |-> groups, bad |-> {}, text |-> {}]

TargetsOf == {[label |-> "y", weight |-> w, want |-> v] :
                w \in {"", "w"}, v \in {<< >>, << "b", "a" >>}}

Call(fmt, header, given, t, fs) ==
  [format |-> fmt, header |-> header, given |-> given, targets |-> t, files |-> fs]

\* Two files whose columns differ.
ColumnCalls ==
  {Call(fmt, TRUE, FALSE, t, << Plain(c, << 1 >>), Plain(d, << 1 >>) >>) :
     fmt \in {"parquet", "csv"}, t \in TargetsOf, c \in Columns,
     d \in {c2 \in Columns : c2[1] \in {"y", "b"}}}

\* Two headerless files; the label is the second column of the first.
HeaderlessCalls ==
  {Call("csv", FALSE, v, [label |-> "c2", weight |-> "", want |-> << >>],
        << Plain(SubSeq(PosNames, 1, n), << 1 >>), Plain(SubSeq(PosNames, 1, m), << 2 >>) >>) :
     v \in BOOLEAN, n \in 1..4, m \in 1..4}

\* One file or two whose contents differ: several row groups, a bad value, a
\* column of text.
Contents ==
  {[columns |-> c, groups |-> g, bad |-> b, text |-> x] :
     c \in {<< "a", "y", "b", "w" >>, << "w", "b", "a", "y" >>}, g \in {<< 1 >>, << 2, 1 >>},
     b \in {{}} \cup {{<< 1, k >>} : k \in 1..4}, x \in {{}, {1}, {2}}}

ContentCalls ==
  {Call(fmt, TRUE, v, t, << s >> \o rest) :
     fmt \in {"parquet", "csv"}, v \in BOOLEAN, t \in TargetsOf, s \in Contents,
     rest \in {<< >>, << Plain(<< "b", "w", "y", "a" >>, << 1, 2 >>) >>}}

MCCalls == ColumnCalls \cup HeaderlessCalls \cup ContentCalls

\* Models of three features, named or positional, that use some of them; files
\* with the features in any order, with more columns, one missing or one twice.
MCModels ==
  {[names |-> ns, n |-> 3, used |-> u] :
     ns \in {<< >>, << "a", "b", "c" >>, << "c", "a", "b" >>},
     u \in {<< >>, << 3 >>, << 1, 3 >>, << 2, 3 >>, << 1, 2, 3 >>, << 3, 1 >>, << 2, 4 >>}}

FileColumns ==
  Perms({"a", "b", "c"})
  \cup {<< "y", "c", "b", "a" >>, << "b", "y", "a", "c" >>, << "c", "a", "b", "y" >>,
        << "a", "b" >>, << "b", "c", "a", "b" >>, << "y", "c", "y" >>}

MCFileLists ==
  {<< [columns |-> c, rows |-> 2], [columns |-> d, rows |-> 1] >> :
     c \in FileColumns, d \in FileColumns}
=============================================================================
