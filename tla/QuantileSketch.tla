--------------------------- MODULE QuantileSketch ---------------------------
(***************************************************************************)
(* The weighted quantile sketch from which the bins of a feature are cut   *)
(* (sketch.rs), for a set of sketches of one feature that observe values,  *)
(* are merged and are asked for cuts in any order.                         *)
(*                                                                         *)
(* A value is an integer and a weight a positive integer, so sums are      *)
(* exact, as they are in f32 while they stay below 2^24; two consecutive   *)
(* integers stand for two adjacent floating-point numbers, between which   *)
(* there is no midpoint.  The input buffer is a bag: it is sorted and      *)
(* equal values are added up before anything else looks at it.             *)
(* Missing values and weights that are not positive are dropped by push    *)
(* and change nothing.                                                     *)
(***************************************************************************)
EXTENDS Integers, SequencesExt, FiniteSetsExt

CONSTANTS
    Sketches,   \* the sketches: one for each part of the data
    Values,     \* the values of the feature
    Weights,    \* the weights of the rows
    Limit,      \* entries of a level, and observations the buffer holds
    MaxBins,    \* bins asked for
    MaxWeight   \* bound on the weight in all sketches together

SketchAssumption ==
    /\ Values \subseteq Nat /\ IsFiniteSet(Values)
    /\ Weights \subseteq Nat \ {0} /\ IsFiniteSet(Weights)
    /\ MaxBins \in Nat \ {0} /\ Limit \in Nat /\ Limit >= 3 /\ Limit >= MaxBins

VARIABLES
    buffer,  \* the observations no summary holds yet: how often each occurs
    levels,  \* the summaries by level, {} for a level that is empty
    total,   \* total_weight
    seen,    \* history: the weight observed of each value
    drains   \* history: how often the buffer has been turned into a summary

vars == <<buffer, levels, total, seen, drains>>

Observations == Values \X Weights
NoObservation == [o \in Observations |-> 0]
InBuffer(b) == MapThenSumSet(LAMBDA o : b[o], Observations)

-----------------------------------------------------------------------------
\* Summaries: sets of entries of different values, read in the order of the
\* values.

\* An entry: a value, its weight and the bounds of its rank.
Entry(v, w, lo, hi) == [value |-> v, weight |-> w, rmin |-> lo, rmax |-> hi]

\* Twice the middle of the rank bounds, to stay with integers.
TwiceRmid(e) == e.rmin + e.rmax

Below(s, v) == {e \in s : e.value < v}
UpTo(s, v) == {e \in s : e.value <= v}
At(s, i) == CHOOSE e \in s : Cardinality(UpTo(s, e.value)) = i
LastOf(s) == At(s, Cardinality(s))
UpperRank(s) == IF s = {} THEN 0 ELSE LastOf(s).rmax

\* The exact summary of the values with a weight in w.
SummaryOf(w) ==
    LET Sum(T) == MapThenSumSet(LAMBDA u : w[u], T)
    IN  {Entry(v, w[v], Sum({u \in DOMAIN w : u < v}), Sum({u \in DOMAIN w : u <= v})) :
            v \in {u \in DOMAIN w : w[u] > 0}}

BuildSummary(b) ==
    SummaryOf([v \in Values |-> MapThenSumSet(LAMBDA w : b[<<v, w>>] * w, Weights)])

\* At most maxSize entries: the first; for each of the evenly spaced ranks
\* between, the first entry after the one taken before it that reaches the rank,
\* leaving an entry for each rank that follows; and the last.
Compress(s, maxSize) ==
    LET n == Cardinality(s)
        slots == maxSize - 1
        Reaches(j, k) == j >= n \/ TwiceRmid(At(s, j)) * slots >= 2 * LastOf(s).rmax * k
        Next(taken, k) ==
            Min({Min({j \in (taken + 1) .. (n + 1) : Reaches(j, k)}), n - (slots - 1 - k)})
        picked[k \in 0 .. (slots - 1)] ==
            IF k = 0 THEN {1}
            ELSE LET taken == Max(picked[k - 1])
                     next == Next(taken, k)
                 IN  picked[k - 1] \cup (IF next > taken THEN {next} ELSE {})
    IN  IF n <= maxSize THEN s ELSE {At(s, i) : i \in picked[slots - 1] \cup {n}}

\* Mutant: the weight of an equal value of the other summary counts as below.
MergeEntriesTiesTwice(a, b) ==
    LET Moved(e, passed) == [e EXCEPT !.rmin = @ + passed, !.rmax = @ + passed]
        all == {Moved(e, UpperRank(UpTo(b, e.value))) : e \in a}
                 \cup {Moved(e, UpperRank(UpTo(a, e.value))) : e \in b}
        One(v) == LET es == {e \in all : e.value = v}
                  IN  Entry(v, MapThenSumSet(LAMBDA e : e.weight, es),
                            Min({e.rmin : e \in es}), Max({e.rmax : e \in es}))
    IN  {One(v) : v \in {e.value : e \in a \cup b}}

\* The bounds of an entry move by the upper rank of the last entry of the other
\* summary before it; of equal values that of a comes first.  They become one
\* entry, with the sum of the weights and the wider bounds.
MergeEntries(a, b) ==
    LET Shifted(e, passed) == [e EXCEPT !.rmin = @ + passed, !.rmax = @ + passed]
        FromA == {Shifted(e, UpperRank(Below(b, e.value))) : e \in a}
        FromB == {Shifted(e, UpperRank(UpTo(a, e.value))) : e \in b}
        One(v) ==
            LET x == {e \in FromA : e.value = v}
                y == {e \in FromB : e.value = v}
                Weight(es) == MapThenSumSet(LAMBDA e : e.weight, es)
            IN  Entry(v, Weight(x) + Weight(y),
                      Min({e.rmin : e \in x \cup y}), Max({e.rmax : e \in x \cup y}))
    IN  {One(v) : v \in {e.value : e \in a \cup b}}

-----------------------------------------------------------------------------
\* Levels: two summaries of a level become one of the next, and only then is
\* anything compressed.

\* A new summary goes to the first level; where one is already, the two are
\* merged and go on to the next.
InsertLevel(ls, summary) ==
    LET free == Min({Len(ls) + 1} \cup {l \in DOMAIN ls : ls[l] = {}})
        carried[l \in 1 .. free] ==
            IF l = 1 THEN summary
            ELSE Compress(MergeEntries(ls[l - 1], carried[l - 1]), Limit)
        cleared == [l \in DOMAIN ls |-> IF l < free THEN {} ELSE ls[l]]
    IN  IF free > Len(ls) THEN Append(cleared, carried[free])
                          ELSE [cleared EXCEPT ![free] = carried[free]]

DrainBuffer(b, ls) ==
    IF InBuffer(b) = 0 THEN ls ELSE InsertLevel(ls, Compress(BuildSummary(b), Limit))

\* One summary of everything, the levels merged from the lowest up.
Collapsed(b, ls) ==
    Compress(FoldLeft(MergeEntries, {}, DrainBuffer(b, ls)), Limit)

Collapse(b, ls) ==
    IF Collapsed(b, ls) = {} THEN << >> ELSE <<Collapsed(b, ls)>>

-----------------------------------------------------------------------------
\* Cuts, as a set read in increasing order: the bin of a value is the number of
\* cuts at or below it.

Midpoint(a, b) == LET m == (a + b) \div 2 IN IF m <= a THEN b ELSE m

\* With few values, one cut between each two neighbours; with many, the first
\* value whose rank reaches each of the evenly spaced ranks, each value once.
Cuts(s) ==
    LET nCuts == MaxBins - 1
        n == Cardinality(s)
        Between(i) == Midpoint(At(s, i).value, At(s, i + 1).value)
        Reaches(j, k) == j = n \/ TwiceRmid(At(s, j)) * MaxBins >= 2 * LastOf(s).rmax * k
        Quantile(k) == At(s, Min({j \in 1 .. n : Reaches(j, k)})).value
    IN  CASE nCuts = 0 \/ n = 0 -> {}
          [] nCuts > 0 /\ n \in 1 .. nCuts -> {Between(i) : i \in 1 .. (n - 1)}
          [] OTHER -> {Quantile(k) : k \in 1 .. nCuts}

FindBin(cuts, v) == Cardinality({c \in cuts : c <= v})

-----------------------------------------------------------------------------

Init ==
    /\ buffer = [s \in Sketches |-> NoObservation]
    /\ levels = [s \in Sketches |-> << >>]
    /\ total = [s \in Sketches |-> 0]
    /\ seen = [s \in Sketches |-> [v \in Values |-> 0]]
    /\ drains = [s \in Sketches |-> 0]

\* The bound of the model: w more weight may be added.
Room(w) == MapThenSumSet(LAMBDA s : total[s], Sketches) + w <= MaxWeight

Drained(s) == IF InBuffer(buffer[s]) > 0 THEN 1 ELSE 0

\* An observation is buffered; the one that fills the buffer drains it.
Push(s, v, w) ==
    LET filled == [buffer[s] EXCEPT ![<<v, w>>] = @ + 1]
        full == InBuffer(filled) >= Limit
    IN  /\ Room(w)
        /\ total' = [total EXCEPT ![s] = @ + w]
        /\ seen' = [seen EXCEPT ![s][v] = @ + w]
        /\ buffer' = [buffer EXCEPT ![s] = IF full THEN NoObservation ELSE filled]
        /\ levels' = [levels EXCEPT ![s] = IF full THEN DrainBuffer(filled, @) ELSE @]
        /\ drains' = [drains EXCEPT ![s] = IF full THEN @ + 1 ELSE @]

\* The cuts are read from one summary, which takes the place of the levels.
QueryCuts(s) ==
    /\ buffer' = [buffer EXCEPT ![s] = NoObservation]
    /\ levels' = [levels EXCEPT ![s] = Collapse(buffer[s], @)]
    /\ drains' = [drains EXCEPT ![s] = @ + Drained(s)]
    /\ UNCHANGED <<total, seen>>

\* Another sketch is merged into s; it is collapsed in a copy and keeps its state.
Merge(s, other) ==
    LET mine == Collapsed(buffer[s], levels[s])
        theirs == Collapsed(buffer[other], levels[other])
        both == Compress(MergeEntries(mine, theirs), Limit)
    IN  /\ s # other
        /\ Room(total[other])
        /\ buffer' = [buffer EXCEPT ![s] = NoObservation]
        /\ levels' = [levels EXCEPT ![s] = IF both = {} THEN << >> ELSE <<both>>]
        /\ total' = [total EXCEPT ![s] = @ + total[other]]
        /\ seen' = [seen EXCEPT ![s] = [v \in Values |-> @[v] + seen[other][v]]]
        /\ drains' = [drains EXCEPT ![s] = @ + drains[other] + Drained(s) + Drained(other)]

Next ==
    \/ \E s \in Sketches, v \in Values, w \in Weights : Push(s, v, w)
    \/ \E s \in Sketches : QueryCuts(s)
    \/ \E s, other \in Sketches : Merge(s, other)

Spec == Init /\ [][Next]_vars
-----------------------------------------------------------------------------
\* Properties.

TypeOK ==
    /\ \A s \in Sketches :
        /\ \A o \in Observations : buffer[s][o] \in 0 .. (Limit - 1)
        /\ InBuffer(buffer[s]) < Limit
        /\ total[s] \in 0 .. MaxWeight
        /\ drains[s] \in 0 .. MaxWeight
        /\ seen[s] \in [Values -> 0 .. MaxWeight]
        /\ \A l \in DOMAIN levels[s] : \A e \in levels[s][l] :
            e \in [value : Values, weight : 1 .. MaxWeight,
                                 rmin : 0 .. MaxWeight, rmax : 1 .. MaxWeight]

Summary(s) == Collapsed(buffer[s], levels[s])
Distinct(s) == {v \in Values : seen[s][v] > 0}
WeightBelow(s, v) == MapThenSumSet(LAMBDA u : seen[s][u], {u \in Values : u < v})
WeightUpTo(s, v) == WeightBelow(s, v) + seen[s][v]

(***************************************************************************)
(* However the data was cut into buffers, levels and merged sketches, the  *)
(* summary spans exactly the observed values, from the smallest to the     *)
(* largest, and its last rank is the weight of everything observed: no     *)
(* compression or merge loses an end of the feature or any weight.         *)
(***************************************************************************)
NothingLost ==
    \A s \in Sketches : LET summary == Summary(s) IN
        /\ total[s] = MapThenSumSet(LAMBDA v : seen[s][v], Values)
        /\ (summary = {}) <=> (Distinct(s) = {})
        /\ Distinct(s) # {} =>
            /\ At(summary, 1).value = Min(Distinct(s))
            /\ LastOf(summary).value = Max(Distinct(s))
            /\ LastOf(summary).rmax = total[s]

(***************************************************************************)
(* While a feature has no more values than a level has entries, the        *)
(* sketch is the exact summary, whatever the order of observations,        *)
(* queries and merges: one-hot and categorical features lose nothing.      *)
(***************************************************************************)
ExactWhenFew ==
    \A s \in Sketches :
        Cardinality(Distinct(s)) <= Limit => Summary(s) = SummaryOf(seen[s])

(***************************************************************************)
(* The ranks a summary gives are never above the true ones: passing over   *)
(* entries that a compression dropped may only understate a rank.  The     *)
(* values increase, and the ranks with them.                               *)
(***************************************************************************)
RanksNeverOverstated ==
    \A s \in Sketches : LET summary == Summary(s) IN \A e \in summary :
        /\ e.rmin <= WeightBelow(s, e.value)
        /\ e.rmax <= WeightUpTo(s, e.value)
        /\ e.rmin < e.rmax
        /\ UpperRank(Below(summary, e.value)) < e.rmax

(***************************************************************************)
(* Cuts are values a bin can start at: fewer than MaxBins, within the      *)
(* observed range.  A feature with fewer values than bins gets  *)
(* a bin for each value, also when two values have no midpoint.            *)
(***************************************************************************)
CutsSeparate ==
    \A s \in Sketches : LET cuts == Cuts(Summary(s)) IN
        /\ Cardinality(cuts) < MaxBins
        /\ \A c \in cuts : c \in Min(Distinct(s)) .. Max(Distinct(s))
        /\ Cardinality(Distinct(s)) < MaxBins =>
            Cardinality({FindBin(cuts, v) : v \in Distinct(s)}) = Cardinality(Distinct(s))

(***************************************************************************)
(* An observation goes through as many compressions as there are levels:   *)
(* their number grows with the logarithm of the number of buffers, and     *)
(* each holds at most Limit entries.                                       *)
(***************************************************************************)
LevelsAreFew ==
    \A s \in Sketches :
        /\ levels[s] # << >> => 2 ^ (Len(levels[s]) - 1) <= drains[s]
        /\ \A l \in DOMAIN levels[s] : Cardinality(levels[s][l]) <= Limit

(***************************************************************************)
(* What the comments promise of an entry: its rank bounds enclose the      *)
(* weight below its value and the weight up to it.                         *)
(***************************************************************************)
RankIntervalsHold ==
    \A s \in Sketches : \A e \in Summary(s) :
        /\ e.rmin <= WeightBelow(s, e.value)
        /\ WeightUpTo(s, e.value) <= e.rmax
=============================================================================
