-------------------------- MODULE TreeBuildProofs ---------------------------
(***************************************************************************)
(* Proofs about TreeBuild, for every data set, block layout and depth:     *)
(*   - rows are accounted for, and the subtraction pass cannot panic; these*)
(*     rest on how row sets and histogram slots are handed from level to   *)
(*     level, and leave the folds of TreeParts unexpanded;                 *)
(*   - the tree predicts from the raw values of a training row what        *)
(*     training, which sees its bins, added to it, and an evaluation on    *)
(*     the bins of any row is the prediction on its values;                *)
(*   - every node's sum and histograms are those of its rows, no node is   *)
(*     empty, and a level reads at most half of the rows;                  *)
(*   - the build implements GreedyTree: every node is split by the best    *)
(*     split of its own rows.                                              *)
(* The last three are about what recursive functions and folds compute.    *)
(* There is no induction rule for them here, so each induction is one over *)
(* a set of naturals: NatSetInduction.                                     *)
(***************************************************************************)
EXTENDS TreeBuild, FiniteSetTheorems, WellFoundedInduction, TLAPS

----------------------------------------------------------------------------
(***************************************************************************)
(* Sequences whose elements have no common type: a level node holds sums   *)
(* that come out of folds, so `level` cannot be placed in Seq(S) for an S  *)
(* known beforehand.                                                       *)
(***************************************************************************)

IsSequence(s) == Len(s) \in Nat /\ s = [i \in 1..Len(s) |-> s[i]]

LEMMA SequenceIsSeq ==
  ASSUME NEW s, IsSequence(s), NEW S, \A i \in 1..Len(s) : s[i] \in S
  PROVE  s \in Seq(S)
BY DEF IsSequence

LEMMA SeqIsSequence ==
  ASSUME NEW S, NEW s \in Seq(S)
  PROVE  IsSequence(s) /\ DOMAIN s = 1..Len(s)
<1>1. Len(s) \in Nat /\ s \in [1..Len(s) -> S]
  OBVIOUS
<1>2. s = [i \in 1..Len(s) |-> s[i]] /\ DOMAIN s = 1..Len(s)
  BY <1>1
<1> QED
  BY <1>1, <1>2 DEF IsSequence

LEMMA SequenceDomain ==
  ASSUME NEW s, IsSequence(s)
  PROVE  Len(s) \in Nat /\ DOMAIN s = 1..Len(s)
BY DEF IsSequence

LEMMA EmptyIsSequence == IsSequence(<< >>) /\ Len(<< >>) = 0
BY DEF IsSequence

LEMMA SingletonIsSequence ==
  ASSUME NEW x
  PROVE  IsSequence(<< x >>) /\ Len(<< x >>) = 1 /\ << x >>[1] = x
BY DEF IsSequence

LEMMA AppendIsSequence ==
  ASSUME NEW s, NEW x, IsSequence(s)
  PROVE  /\ IsSequence(Append(s, x))
         /\ Len(Append(s, x)) = Len(s) + 1
<1> DEFINE S == {s[i] : i \in 1..Len(s)} \cup {x}
<1>1. \A i \in 1..Len(s) : s[i] \in S
  OBVIOUS
<1>2. x \in S
  OBVIOUS
<1> HIDE DEF S
<1>3. s \in Seq(S)
  BY <1>1, SequenceIsSeq
<1>4. Append(s, x) \in Seq(S) /\ Len(Append(s, x)) = Len(s) + 1
  BY <1>2, <1>3
<1> QED
  BY <1>4, SeqIsSequence

\* Appending the two children of a split.
LEMMA AppendTwo ==
  ASSUME NEW s, NEW x, NEW y, IsSequence(s)
  PROVE  LET t == s \o << x, y >>
         IN  /\ IsSequence(t)
             /\ DOMAIN t = 1..(Len(s) + 2)
             /\ Len(t) = Len(s) + 2
             /\ \A i \in 1..Len(s) : t[i] = s[i]
             /\ t[Len(s) + 1] = x
             /\ t[Len(s) + 2] = y
<1> DEFINE S == {s[i] : i \in 1..Len(s)} \cup {x, y}
           t == s \o << x, y >>
<1>a. \A i \in 1..Len(s) : s[i] \in S
  OBVIOUS
<1>b. x \in S /\ y \in S
  OBVIOUS
<1> HIDE DEF S
<1>1. s \in Seq(S)
  BY <1>a, SequenceIsSeq
<1>2. << x, y >> \in Seq(S) /\ Len(<< x, y >>) = 2
  BY <1>b
<1>3. t \in Seq(S) /\ Len(t) = Len(s) + 2
  BY <1>1, <1>2
<1>4. \A i \in 1..Len(s) : t[i] = s[i]
  BY <1>1, <1>2
<1>5. t[Len(s) + 1] = x /\ t[Len(s) + 2] = y
  BY <1>1, <1>2
<1>6. IsSequence(t) /\ DOMAIN t = 1..(Len(s) + 2)
  BY <1>3, SeqIsSequence
<1> QED
  BY <1>3, <1>4, <1>5, <1>6

----------------------------------------------------------------------------
(***************************************************************************)
(* Every row is accounted for                                              *)
(***************************************************************************)

\* The levels are sequences and the cursor points into or just behind one.
Shape ==
  /\ IsSequence(level)
  /\ IsSequence(next)
  /\ slot \in Nat \ {0}

\* Once the column of its feature has been fetched, a node's rows are split in
\* two parts that neither overlap nor leave a row out.
PartsInv ==
  phase = "partition" =>
    \A i \in DOMAIN level :
      chosen[i] # NoSplit /\ chosen[i].feat \notin todo =>
        /\ parts[i][1] \cup parts[i][2] = level[i].rows
        /\ parts[i][1] \cap parts[i][2] = {}

\* No row is in two nodes of a level, nor in a node of the level that is still
\* to be handled and in one of the next level.
Disjoint ==
  /\ \A i, j \in DOMAIN level : i # j => level[i].rows \cap level[j].rows = {}
  /\ \A i, j \in DOMAIN next : i # j => next[i].rows \cap next[j].rows = {}
  /\ \A i \in DOMAIN level, j \in DOMAIN next :
       i >= slot => level[i].rows \cap next[j].rows = {}

\* A row is open while the node that holds it is.
OpenRow(r) ==
  \/ \E i \in DOMAIN level : i >= slot /\ r \in level[i].rows
  \/ \E j \in DOMAIN next : r \in next[j].rows

\* A row has received one leaf value if it is not open any more, none before.
Paid ==
  \A r \in Row : /\ IsSequence(pred[r])
                 /\ Len(pred[r]) = IF OpenRow(r) THEN 0 ELSE 1

\* The inductive invariant behind RowsAccounted.
RowsInv == Shape /\ PartsInv /\ Disjoint /\ Paid

\* RowsAccounted speaks of the set of open nodes, RowsInv of their positions.
LEMMA RowsInvImplies == RowsInv => RowsAccounted
<1> SUFFICES ASSUME RowsInv PROVE RowsAccounted
  OBVIOUS
<1> USE DEF RowsInv, Disjoint, Paid
<1>1. ASSUME NEW m \in OpenNodes, NEW n \in OpenNodes, m # n
      PROVE  m.rows \cap n.rows = {}
  <2> DEFINE OfLevel(x) == \E i \in DOMAIN level :
               /\ i >= slot
               /\ x = [node |-> level[i].node, rows |-> level[i].rows, depth |-> depth]
             OfNext(x) == \E j \in DOMAIN next :
               x = [node |-> next[j].node, rows |-> next[j].rows, depth |-> depth + 1]
  <2>1. (OfLevel(m) \/ OfNext(m)) /\ (OfLevel(n) \/ OfNext(n))
    BY DEF OpenNodes
  <2>2. CASE OfLevel(m) /\ OfLevel(n)
    BY <1>1, <2>2
  <2>3. CASE OfLevel(m) /\ OfNext(n)
    BY <2>3
  <2>4. CASE OfNext(m) /\ OfLevel(n)
    BY <2>4
  <2>5. CASE OfNext(m) /\ OfNext(n)
    BY <1>1, <2>5
  <2> QED
    BY <2>1, <2>2, <2>3, <2>4, <2>5
<1>2. ASSUME NEW r \in Row
      PROVE  OpenRow(r) <=> \E n \in OpenNodes : r \in n.rows
  <2>1. ASSUME NEW i \in DOMAIN level, i >= slot, r \in level[i].rows
        PROVE  \E n \in OpenNodes : r \in n.rows
    <3> DEFINE n == [node |-> level[i].node, rows |-> level[i].rows, depth |-> depth]
    <3>1. n \in OpenNodes
      BY <2>1 DEF OpenNodes
    <3>2. r \in n.rows
      BY <2>1
    <3> QED
      BY <3>1, <3>2
  <2>2. ASSUME NEW j \in DOMAIN next, r \in next[j].rows
        PROVE  \E n \in OpenNodes : r \in n.rows
    <3> DEFINE n == [node |-> next[j].node, rows |-> next[j].rows, depth |-> depth + 1]
    <3>1. n \in OpenNodes
      BY <2>2 DEF OpenNodes
    <3>2. r \in n.rows
      BY <2>2
    <3> QED
      BY <3>1, <3>2
  <2>3. ASSUME NEW n \in OpenNodes, r \in n.rows
        PROVE  OpenRow(r)
    BY <2>3 DEF OpenRow, OpenNodes
  <2> QED
    BY <2>1, <2>2, <2>3 DEF OpenRow
<1>3. \A r \in Row :
        Len(pred[r]) = IF \E n \in OpenNodes : r \in n.rows THEN 0 ELSE 1
  BY <1>2
<1> QED
  BY <1>1, <1>3 DEF RowsAccounted

\* The root owns every row.
LEMMA RowsInvInit == Init => RowsInv
<1> SUFFICES ASSUME Init PROVE RowsInv
  OBVIOUS
<1> DEFINE root == LevelNode(1, Row, NodeSum(gpair, Row), Accumulate)
<1>1. level = << root >> /\ next = << >> /\ slot = 1 /\ pred = [r \in Row |-> << >>]
  BY DEF Init
<1>2. root.rows = Row
  BY DEF LevelNode
<1> HIDE DEF root
<1>3. IsSequence(level) /\ Len(level) = 1 /\ level[1] = root
  BY <1>1, SingletonIsSequence
<1>4. IsSequence(next) /\ Len(next) = 0
  BY <1>1, EmptyIsSequence
<1>5. DOMAIN level = {1} /\ DOMAIN next = {}
  BY <1>3, <1>4, SequenceDomain
<1>6. phase # "partition"
  BY DEF Init, EnterLevel
<1>7. \A r \in Row : OpenRow(r) /\ pred[r] = << >>
  BY <1>1, <1>2, <1>3, <1>5 DEF OpenRow
<1>8. Paid
  BY <1>7, EmptyIsSequence DEF Paid
<1> QED
  BY <1>1, <1>3, <1>4, <1>5, <1>6, <1>8 DEF RowsInv, Shape, PartsInv, Disjoint

\* A step that moves no row.
LEMMA RowsInvQuiet ==
  ASSUME RowsInv, UNCHANGED << level, next, slot, pred >>, PartsInv'
  PROVE  RowsInv'
<1>1. Shape' /\ Disjoint'
  BY DEF RowsInv, Shape, Disjoint
<1>2. \A r \in Row : OpenRow(r)' <=> OpenRow(r)
  BY DEF OpenRow
<1>3. Paid'
  BY <1>2 DEF RowsInv, Paid
<1> QED
  BY <1>1, <1>3 DEF RowsInv

LEMMA RowsInvReduce == RowsInv /\ Reduce => RowsInv'
<1> SUFFICES ASSUME RowsInv, Reduce PROVE RowsInv'
  OBVIOUS
<1>1. \A i \in DOMAIN level : chosen'[i] # NoSplit => chosen'[i].feat \in todo'
  BY DEF Reduce
<1>2. level' = level
  BY DEF Reduce
<1>3. PartsInv'
  BY <1>1, <1>2 DEF PartsInv
<1> QED
  BY <1>3, RowsInvQuiet DEF Reduce

LEMMA PartitionRowsSplits ==
  ASSUME NEW rows, NEW c
  PROVE  /\ PartitionRows(rows, c)[1] \cup PartitionRows(rows, c)[2] = rows
         /\ PartitionRows(rows, c)[1] \cap PartitionRows(rows, c)[2] = {}
<1> DEFINE lrows == {r \in rows : GoesLeft(bins[r][c.feat], c.bin, c.missing_left)}
<1>1. PartitionRows(rows, c) = << lrows, rows \ lrows >>
  BY DEF PartitionRows
<1>2. lrows \subseteq rows
  OBVIOUS
<1> HIDE DEF lrows
<1> QED
  BY <1>1, <1>2

LEMMA RowsInvPartitionFeature == RowsInv /\ PartitionFeature => RowsInv'
<1> SUFFICES ASSUME RowsInv, PartitionFeature PROVE RowsInv'
  OBVIOUS
<1>1. /\ phase = "partition"
      /\ UNCHANGED << level, next, slot, pred, chosen >>
  BY DEF PartitionFeature
<1>2. PICK f \in todo :
        /\ parts' = [i \in DOMAIN level |->
                       IF chosen[i].feat = f
                       THEN PartitionRows(level[i].rows, chosen[i])
                       ELSE parts[i]]
        /\ todo' = todo \ {f}
  BY DEF PartitionFeature
<1>3. ASSUME NEW i \in DOMAIN level, chosen[i] # NoSplit, chosen[i].feat \notin todo'
      PROVE  /\ parts'[i][1] \cup parts'[i][2] = level[i].rows
             /\ parts'[i][1] \cap parts'[i][2] = {}
  <2>1. CASE chosen[i].feat = f
    <3>1. parts'[i] = PartitionRows(level[i].rows, chosen[i])
      BY <1>2, <2>1
    <3> QED
      BY <3>1, PartitionRowsSplits
  <2>2. CASE chosen[i].feat # f
    <3>1. chosen[i].feat \notin todo /\ parts'[i] = parts[i]
      BY <1>2, <1>3, <2>2
    <3> QED
      BY <1>1, <1>3, <3>1 DEF RowsInv, PartsInv
  <2> QED
    BY <2>1, <2>2
<1>4. PartsInv'
  BY <1>1, <1>3 DEF PartsInv
<1> QED
  BY <1>1, <1>4, RowsInvQuiet

\* A node is closed: each of its rows receives a value.
LEMMA RowsInvSettle ==
  ASSUME RowsInv, slot \in DOMAIN level, AddLeafValue(level[slot]),
         slot' = slot + 1, UNCHANGED << level, next >>, PartsInv'
  PROVE  RowsInv'
<1> USE DEF RowsInv
<1>1. slot \in Nat /\ DOMAIN level \subseteq Nat
  BY SequenceDomain DEF Shape
<1>2. Shape'
  BY <1>1 DEF Shape
<1>3. Disjoint'
  BY <1>1 DEF Disjoint
<1>4. ASSUME NEW r \in Row
      PROVE  /\ IsSequence(pred'[r])
             /\ Len(pred'[r]) = IF OpenRow(r)' THEN 0 ELSE 1
  <2>1. IsSequence(pred[r]) /\ Len(pred[r]) = IF OpenRow(r) THEN 0 ELSE 1
    BY DEF Paid
  <2>2. CASE r \in level[slot].rows
    <3>1. OpenRow(r)
      BY <1>1, <2>2 DEF OpenRow
    <3>2. ~OpenRow(r)'
      BY <1>1, <2>2 DEF OpenRow, Disjoint
    <3>3. pred'[r] = Append(pred[r], tree[level[slot].node].leaf_value)
      BY <2>2 DEF AddLeafValue
    <3> QED
      BY <2>1, <3>1, <3>2, <3>3, AppendIsSequence
  <2>3. CASE r \notin level[slot].rows
    <3>1. OpenRow(r)' <=> OpenRow(r)
      BY <1>1, <2>3 DEF OpenRow
    <3>2. pred'[r] = pred[r]
      BY <2>3 DEF AddLeafValue
    <3> QED
      BY <2>1, <3>1, <3>2
  <2> QED
    BY <2>2, <2>3
<1>5. Paid'
  BY <1>4 DEF Paid
<1> QED
  BY <1>2, <1>3, <1>5

LEMMA RowsInvSettleSlot == RowsInv /\ SettleSlot => RowsInv'
<1> SUFFICES ASSUME RowsInv, SettleSlot PROVE RowsInv'
  OBVIOUS
<1>1. PartsInv'
  BY DEF SettleSlot, RowsInv, PartsInv
<1> QED
  BY <1>1, RowsInvSettle DEF SettleSlot

LEMMA RowsInvApplyLeaf == RowsInv /\ ApplyLeaf => RowsInv'
<1> SUFFICES ASSUME RowsInv, ApplyLeaf PROVE RowsInv'
  OBVIOUS
<1>1. PartsInv'
  BY DEF ApplyLeaf, PartsInv
<1> QED
  BY <1>1, RowsInvSettle DEF ApplyLeaf

\* The children of a split, as the proofs need them.
LEMMA ChildrenAre ==
  ASSUME NEW i, NEW first
  PROVE  LET small == SmallSide(i)
             x == LevelNode(Len(tree) + 1, parts[i][1], chosen[i].left,
                    IF 0 = small THEN Accumulate ELSE Subtract(i, first + small))
             y == LevelNode(Len(tree) + 1 + 1, parts[i][2], chosen[i].right,
                    IF 1 = small THEN Accumulate ELSE Subtract(i, first + small))
         IN  Children(i, first) = << x, y >>
BY DEF Children, ChildrenFrom

\* A split hands the rows of its node to the two children.
LEMMA RowsInvSplitSlot == RowsInv /\ SplitSlot => RowsInv'
<1> SUFFICES ASSUME RowsInv, SplitSlot PROVE RowsInv'
  OBVIOUS
<1> USE DEF RowsInv
<1> DEFINE n == Len(next)
           c == Children(slot, n + 1)
           L == parts[slot][1]
           R == parts[slot][2]
<1>1. /\ phase = "partition" /\ slot \in DOMAIN level
      /\ next' = next \o c /\ slot' = slot + 1
      /\ UNCHANGED << level, phase, chosen, todo, parts, pred >>
  BY DEF SplitSlot
<1>2. L \cup R = level[slot].rows /\ L \cap R = {}
  BY DEF SplitSlot, PartsInv
<1>3. PICK x, y : c = << x, y >> /\ x.rows = L /\ y.rows = R
  BY ChildrenAre DEF LevelNode
<1> HIDE DEF c, L, R
<1>4. IsSequence(next) /\ n \in Nat /\ DOMAIN next = 1..n
  BY SequenceDomain DEF Shape
<1>5. /\ IsSequence(next') /\ DOMAIN next' = 1..(n + 2)
      /\ \A i \in 1..n : next'[i] = next[i]
      /\ next'[n + 1].rows = L /\ next'[n + 2].rows = R
  BY <1>1, <1>3, <1>4, AppendTwo
<1>6. slot \in Nat /\ DOMAIN level \subseteq Nat
  BY SequenceDomain DEF Shape
<1> HIDE DEF n
<1>7. Shape'
  BY <1>1, <1>5, <1>6 DEF Shape
<1>8. PartsInv'
  BY <1>1 DEF PartsInv
<1>9. Disjoint'
  <2>1. \A j \in 1..n : next[j].rows \cap L = {} /\ next[j].rows \cap R = {}
    BY <1>1, <1>2, <1>4, <1>6 DEF Disjoint
  <2>2. \A i \in DOMAIN level : i > slot =>
          level[i].rows \cap L = {} /\ level[i].rows \cap R = {}
    BY <1>1, <1>2, <1>6 DEF Disjoint
  <2>3. ASSUME NEW i \in DOMAIN next', NEW j \in DOMAIN next', i # j
        PROVE  next'[i].rows \cap next'[j].rows = {}
    <3>1. i \in 1..n \/ i = n + 1 \/ i = n + 2
      BY <1>4, <1>5
    <3>2. j \in 1..n \/ j = n + 1 \/ j = n + 2
      BY <1>4, <1>5
    <3>3. CASE i \in 1..n /\ j \in 1..n
      BY <1>4, <1>5, <2>3, <3>3 DEF Disjoint
    <3>4. CASE i \in 1..n /\ j \notin 1..n
      BY <1>5, <2>1, <3>2, <3>4
    <3>5. CASE i \notin 1..n /\ j \in 1..n
      BY <1>5, <2>1, <3>1, <3>5
    <3>6. CASE i \notin 1..n /\ j \notin 1..n
      BY <1>2, <1>5, <2>3, <3>1, <3>2, <3>6
    <3> QED
      BY <3>3, <3>4, <3>5, <3>6
  <2>4. ASSUME NEW i \in DOMAIN level, NEW j \in DOMAIN next', i >= slot + 1
        PROVE  level[i].rows \cap next'[j].rows = {}
    <3>1. j \in 1..n \/ j = n + 1 \/ j = n + 2
      BY <1>4, <1>5
    <3>2. i >= slot /\ i > slot
      BY <1>6, <2>4
    <3> QED
      BY <1>4, <1>5, <2>2, <3>1, <3>2 DEF Disjoint
  <2> QED
    BY <1>1, <2>3, <2>4 DEF Disjoint
<1>10. ASSUME NEW r \in Row
       PROVE  OpenRow(r)' <=> OpenRow(r)
  <2>1. (\E j \in DOMAIN next' : r \in next'[j].rows) <=>
          (\E j \in DOMAIN next : r \in next[j].rows) \/ r \in level[slot].rows
    <3>1. ASSUME NEW j \in DOMAIN next', r \in next'[j].rows
          PROVE  (\E k \in DOMAIN next : r \in next[k].rows) \/ r \in level[slot].rows
      <4>1. j \in 1..n \/ j = n + 1 \/ j = n + 2
        BY <1>4, <1>5
      <4> QED
        BY <1>2, <1>4, <1>5, <3>1, <4>1
    <3>2. ASSUME NEW j \in DOMAIN next, r \in next[j].rows
          PROVE  \E k \in DOMAIN next' : r \in next'[k].rows
      BY <1>4, <1>5, <3>2
    <3>3. ASSUME r \in level[slot].rows
          PROVE  \E k \in DOMAIN next' : r \in next'[k].rows
      <4>1. n + 1 \in DOMAIN next' /\ n + 2 \in DOMAIN next'
        BY <1>4, <1>5
      <4> QED
        BY <1>2, <1>5, <3>3, <4>1
    <3> QED
      BY <3>1, <3>2, <3>3
  <2>2. (\E i \in DOMAIN level : i >= slot /\ r \in level[i].rows) <=>
          (\E i \in DOMAIN level : i >= slot + 1 /\ r \in level[i].rows)
            \/ r \in level[slot].rows
    BY <1>1, <1>6
  <2> QED
    BY <1>1, <2>1, <2>2 DEF OpenRow
<1>11. Paid'
  BY <1>1, <1>10 DEF Paid
<1> QED
  BY <1>7, <1>8, <1>9, <1>11

\* The next level takes the place of the finished one.
LEMMA RowsInvFinishLevel == RowsInv /\ FinishLevel => RowsInv'
<1> SUFFICES ASSUME RowsInv, FinishLevel PROVE RowsInv'
  OBVIOUS
<1> USE DEF RowsInv
<1>1. /\ level' = next /\ next' = << >> /\ slot' = 1 /\ pred' = pred
      /\ slot = Len(level) + 1
  BY DEF FinishLevel
<1>2. IsSequence(next') /\ DOMAIN next' = {}
  BY <1>1, EmptyIsSequence, SequenceDomain
<1>3. DOMAIN level' \subseteq Nat \ {0} /\ DOMAIN level = 1..Len(level) /\ Len(level) \in Nat
  BY <1>1, SequenceDomain DEF Shape
<1>4. Shape' /\ Disjoint'
  BY <1>1, <1>2 DEF Shape, Disjoint
<1>5. PartsInv'
  BY DEF FinishLevel, EnterLevel, PartsInv
<1>6. \A r \in Row : OpenRow(r)' <=> OpenRow(r)
  BY <1>1, <1>2, <1>3 DEF OpenRow
<1>7. Paid'
  BY <1>1, <1>6 DEF Paid
<1> QED
  BY <1>4, <1>5, <1>7

\* The workers and the failures move no row.
LEMMA RowsInvOther ==
  ASSUME RowsInv,
         \/ \E b \in Plan : Work(b) \/ FailBlock(b)
         \/ AbortLevel \/ Finish \/ FailColumn \/ Terminated
         \/ UNCHANGED vars
  PROVE  RowsInv'
<1>1. UNCHANGED << level, next, slot, pred >>
  BY DEF Work, AccumulateBlock, SubtractBlock, EnumerateBlock, FailBlock,
         AbortLevel, Finish, FailColumn, Terminated, vars
<1>2. PartsInv'
  BY DEF RowsInv, PartsInv, Work, AccumulateBlock, SubtractBlock,
         EnumerateBlock, FailBlock, AbortLevel, Finish, FailColumn, Terminated,
         vars
<1> QED
  BY <1>1, <1>2, RowsInvQuiet

LEMMA RowsInvNext == RowsInv /\ [Next]_vars => RowsInv'
<1> SUFFICES ASSUME RowsInv, [Next]_vars PROVE RowsInv'
  OBVIOUS
<1>1. CASE Reduce
  BY <1>1, RowsInvReduce
<1>2. CASE PartitionFeature
  BY <1>2, RowsInvPartitionFeature
<1>3. CASE SettleSlot
  BY <1>3, RowsInvSettleSlot
<1>4. CASE SplitSlot
  BY <1>4, RowsInvSplitSlot
<1>5. CASE FinishLevel
  BY <1>5, RowsInvFinishLevel
<1>6. CASE ApplyLeaf
  BY <1>6, RowsInvApplyLeaf
<1>7. CASE \/ \E b \in Plan : Work(b) \/ FailBlock(b)
           \/ AbortLevel \/ Finish \/ FailColumn \/ Terminated
           \/ UNCHANGED vars
  BY <1>7, RowsInvOther
<1> QED
  BY <1>1, <1>2, <1>3, <1>4, <1>5, <1>6, <1>7 DEF Next, Main, Failure

\* Partitioning neither loses nor duplicates a row, and every row receives
\* exactly one leaf value, when its node is closed: the level loop of
\* build_tree keeps the training predictions of all rows in step with the tree.
THEOREM RowsAreAccountedFor == Spec => []RowsAccounted
<1>1. Spec => []RowsInv
  BY RowsInvInit, RowsInvNext, PTL DEF Spec
<1> QED
  BY <1>1, RowsInvImplies, PTL

----------------------------------------------------------------------------
(***************************************************************************)
(* The subtraction pass never panics                                       *)
(***************************************************************************)

\* A worker's state is a record of three fields.
IsWork(w) == w = [pc |-> w.pc, hists |-> w.hists, cands |-> w.cands]

WorkShape ==
  /\ DOMAIN work = Plan /\ DOMAIN parents = Plan
  /\ \A b \in Plan : IsWork(work[b])

\* Which histograms a worker holds: those it had to accumulate after pass one,
\* and all of them after pass two.
HistsHeld ==
  \A b \in Plan :
    /\ work[b].pc = "accumulated" =>
         /\ DOMAIN work[b].hists = DOMAIN level
         /\ \A i \in DOMAIN level :
              Accumulated(i) => DOMAIN work[b].hists[i] = FeaturesOf(b)
    /\ work[b].pc \in {"subtracted", "done"} =>
         /\ DOMAIN work[b].hists = DOMAIN level
         /\ \A i \in DOMAIN level : DOMAIN work[b].hists[i] = FeaturesOf(b)

\* The claims are in order until a worker acts on them.
ClaimsPending ==
  phase = "blocks" =>
    /\ next = << >>
    /\ \A b \in Plan : work[b].pc \in {"idle", "accumulated"} => ClaimsValid(b)

\* The claims the next level will make: a slot of this level each, behind the
\* cursor, and no slot twice.
ClaimsPlanned ==
  phase = "partition" =>
    /\ \A b \in Plan : work[b].pc = "done"
    /\ \A j \in DOMAIN next :
         next[j].from # Accumulate =>
           next[j].from.parent \in Nat \ {0} /\ next[j].from.parent < slot
    /\ \A j, k \in DOMAIN next :
         /\ next[j].from # Accumulate /\ next[k].from # Accumulate
         /\ next[j].from.parent = next[k].from.parent
         => j = k

\* The inductive invariant behind NeverPanics, on top of Shape.
ClaimsInv ==
  /\ WorkShape /\ HistsHeld /\ ClaimsPending /\ ClaimsPlanned
  /\ phase # "panicked"

LEMMA ClaimsInvInit == Init => ClaimsInv
<1> SUFFICES ASSUME Init PROVE ClaimsInv
  OBVIOUS
<1>1. /\ work = [b \in Plan |-> Idle] /\ parents = [b \in Plan |-> << >>]
      /\ next = << >>
  BY DEF Init
<1>2. phase \in {"blocks", "leaves"}
  BY DEF Init, EnterLevel
<1>3. Subtracted = {}
  <2>1. level = << LevelNode(1, Row, NodeSum(gpair, Row), Accumulate) >>
    BY DEF Init
  <2>2. DOMAIN level = {1} /\ level[1].from = Accumulate
    BY <2>1 DEF LevelNode
  <2> QED
    BY <2>2 DEF Subtracted, Accumulated
<1>4. WorkShape /\ HistsHeld
  BY <1>1 DEF WorkShape, HistsHeld, IsWork, Idle
<1>5. ClaimsPending
  BY <1>1, <1>3 DEF ClaimsPending, ClaimsValid
<1> QED
  BY <1>2, <1>4, <1>5 DEF ClaimsInv, ClaimsPlanned

LEMMA ClaimsInvAccumulateBlock ==
  ASSUME ClaimsInv, NEW b \in Plan, AccumulateBlock(b)
  PROVE  ClaimsInv'
<1> DEFINE w == [pc |-> "accumulated",
                 hists |-> [i \in DOMAIN level |->
                              IF Accumulated(i)
                              THEN BuildHist(FeaturesOf(b), bins, gpair, level[i].rows)
                              ELSE Shell],
                 cands |-> << >>]
<1>1. /\ phase = "blocks" /\ work[b].pc = "idle"
      /\ work' = [work EXCEPT ![b] = w]
      /\ UNCHANGED << inputs, level, next, phase, slot, parents >>
  BY DEF AccumulateBlock
<1>2. Plan' = Plan /\ \A c \in Plan : FeaturesOf(c)' = FeaturesOf(c)
  BY <1>1 DEF inputs, Plan, FeaturesOf
<1>3. /\ DOMAIN w.hists = DOMAIN level
      /\ \A i \in DOMAIN level :
           Accumulated(i) => DOMAIN w.hists[i] = FeaturesOf(b)
  BY DEF BuildHist
<1>4. w.pc = "accumulated" /\ IsWork(w)
  BY DEF IsWork
<1> HIDE DEF w
<1>5. /\ DOMAIN work' = Plan
      /\ \A c \in Plan : work'[c] = IF c = b THEN w ELSE work[c]
  BY <1>1 DEF ClaimsInv, WorkShape
<1>6. WorkShape'
  BY <1>1, <1>2, <1>4, <1>5 DEF ClaimsInv, WorkShape
<1>7. HistsHeld'
  BY <1>1, <1>2, <1>3, <1>4, <1>5 DEF ClaimsInv, HistsHeld, Accumulated
<1>8. ClaimsPending'
  BY <1>1, <1>2, <1>4, <1>5
     DEF ClaimsInv, ClaimsPending, ClaimsValid, Subtracted, Accumulated
<1> QED
  BY <1>1, <1>6, <1>7, <1>8 DEF ClaimsInv, ClaimsPlanned

\* The claims of the worker that acts hold, so every node finds its parent's
\* histogram; the claims of the other workers concern their own parents.
LEMMA ClaimsInvSubtractBlock ==
  ASSUME ClaimsInv, NEW b \in Plan, SubtractBlock(b)
  PROVE  ClaimsInv'
<1>1. /\ phase = "blocks" /\ work[b].pc = "accumulated" /\ ClaimsValid(b)
      /\ UNCHANGED << inputs, level, next, slot >>
  BY DEF SubtractBlock, ClaimsInv, ClaimsPending
<1> DEFINE hists == [i \in DOMAIN level |->
                       IF Accumulated(i)
                       THEN work[b].hists[i]
                       ELSE SubtractHist(parents[b][level[i].from.parent],
                                         work[b].hists[level[i].from.sibling])]
           left == [p \in DOMAIN parents[b] |->
                      IF \E i \in Subtracted : level[i].from.parent = p
                      THEN Shell ELSE parents[b][p]]
<1>2. /\ work' = [work EXCEPT ![b].pc = "subtracted", ![b].hists = hists]
      /\ parents' = [parents EXCEPT ![b] = left]
      /\ phase' = phase
  BY <1>1 DEF SubtractBlock
<1>3. Plan' = Plan /\ \A c \in Plan : FeaturesOf(c)' = FeaturesOf(c)
  BY <1>1 DEF inputs, Plan, FeaturesOf
<1>4. \A i \in DOMAIN level : DOMAIN hists[i] = FeaturesOf(b)
  <2> TAKE i \in DOMAIN level
  <2>1. CASE Accumulated(i)
    BY <1>1, <2>1 DEF ClaimsInv, HistsHeld
  <2>2. CASE ~Accumulated(i)
    <3>1. DOMAIN parents[b][level[i].from.parent] = FeaturesOf(b)
      BY <1>1, <2>2 DEF ClaimsValid, Subtracted
    <3> QED
      BY <2>2, <3>1 DEF SubtractHist
  <2> QED
    BY <2>1, <2>2
<1>5. DOMAIN hists = DOMAIN level
  OBVIOUS
<1> HIDE DEF hists, left
<1>6. /\ DOMAIN work' = Plan /\ DOMAIN parents' = Plan
      /\ work'[b] = [pc |-> "subtracted", hists |-> hists, cands |-> work[b].cands]
      /\ \A c \in Plan \ {b} : work'[c] = work[c] /\ parents'[c] = parents[c]
  <2>1. DOMAIN work = Plan /\ DOMAIN parents = Plan
    BY DEF ClaimsInv, WorkShape
  <2>2. DOMAIN work' = Plan /\ \A c \in Plan \ {b} : work'[c] = work[c]
    BY <1>2, <2>1
  <2>3. DOMAIN parents' = Plan /\ \A c \in Plan \ {b} : parents'[c] = parents[c]
    BY <1>2, <2>1
  <2>4. work'[b] = [work[b] EXCEPT !.pc = "subtracted", !.hists = hists]
    BY <1>2, <2>1
  <2>5. work[b] = [pc |-> work[b].pc, hists |-> work[b].hists,
                   cands |-> work[b].cands]
    BY DEF ClaimsInv, WorkShape, IsWork
  <2>6. work'[b] = [pc |-> "subtracted", hists |-> hists, cands |-> work[b].cands]
    BY <2>4, <2>5
  <2> QED
    BY <2>2, <2>3, <2>6
<1>7. WorkShape'
  BY <1>3, <1>6 DEF ClaimsInv, WorkShape, IsWork
<1>8. HistsHeld'
  BY <1>1, <1>3, <1>4, <1>5, <1>6 DEF ClaimsInv, HistsHeld, Accumulated
<1>9. ClaimsPending'
  BY <1>1, <1>2, <1>3, <1>6
     DEF ClaimsInv, ClaimsPending, ClaimsValid, Subtracted, Accumulated
<1> QED
  BY <1>1, <1>2, <1>7, <1>8, <1>9 DEF ClaimsInv, ClaimsPlanned

LEMMA ClaimsInvEnumerateBlock ==
  ASSUME ClaimsInv, NEW b \in Plan, EnumerateBlock(b)
  PROVE  ClaimsInv'
<1> DEFINE cands == [i \in DOMAIN level |->
                       BestSplitInBlock(work[b].hists[i], plans[b], level[i].sum,
                                        sampled)]
<1>1. /\ phase = "blocks" /\ work[b].pc = "subtracted"
      /\ work' = [work EXCEPT ![b].pc = "done", ![b].cands = cands]
      /\ UNCHANGED << inputs, level, next, phase, slot, parents >>
  BY DEF EnumerateBlock
<1> HIDE DEF cands
<1>2. Plan' = Plan /\ \A c \in Plan : FeaturesOf(c)' = FeaturesOf(c)
  BY <1>1 DEF inputs, Plan, FeaturesOf
<1>3. /\ DOMAIN work' = Plan
      /\ work'[b] = [pc |-> "done", hists |-> work[b].hists, cands |-> cands]
      /\ \A c \in Plan \ {b} : work'[c] = work[c]
  <2>1. DOMAIN work = Plan
    BY DEF ClaimsInv, WorkShape
  <2>2. DOMAIN work' = Plan /\ \A c \in Plan \ {b} : work'[c] = work[c]
    BY <1>1, <2>1
  <2>3. work'[b] = [work[b] EXCEPT !.pc = "done", !.cands = cands]
    BY <1>1, <2>1
  <2>4. work[b] = [pc |-> work[b].pc, hists |-> work[b].hists,
                   cands |-> work[b].cands]
    BY DEF ClaimsInv, WorkShape, IsWork
  <2>5. work'[b] = [pc |-> "done", hists |-> work[b].hists, cands |-> cands]
    BY <2>3, <2>4
  <2> QED
    BY <2>2, <2>5
<1>4. WorkShape'
  BY <1>1, <1>2, <1>3 DEF ClaimsInv, WorkShape, IsWork
<1>5. HistsHeld'
  BY <1>1, <1>2, <1>3 DEF ClaimsInv, HistsHeld, Accumulated
<1>6. ClaimsPending'
  BY <1>1, <1>2, <1>3
     DEF ClaimsInv, ClaimsPending, ClaimsValid, Subtracted, Accumulated
<1> QED
  BY <1>1, <1>4, <1>5, <1>6 DEF ClaimsInv, ClaimsPlanned

LEMMA ClaimsInvFailBlock ==
  ASSUME ClaimsInv, NEW b \in Plan, FailBlock(b)
  PROVE  ClaimsInv'
<1>1. /\ phase = "blocks" /\ work' = [work EXCEPT ![b].pc = "failed"]
      /\ UNCHANGED << inputs, level, next, phase, slot, parents >>
  BY DEF FailBlock
<1>2. Plan' = Plan /\ \A c \in Plan : FeaturesOf(c)' = FeaturesOf(c)
  BY <1>1 DEF inputs, Plan, FeaturesOf
<1>3. /\ DOMAIN work' = Plan
      /\ work'[b] = [pc |-> "failed", hists |-> work[b].hists,
                     cands |-> work[b].cands]
      /\ \A c \in Plan \ {b} : work'[c] = work[c]
  <2>1. DOMAIN work = Plan
    BY DEF ClaimsInv, WorkShape
  <2>2. DOMAIN work' = Plan /\ \A c \in Plan \ {b} : work'[c] = work[c]
    BY <1>1, <2>1
  <2>3. work'[b] = [work[b] EXCEPT !.pc = "failed"]
    BY <1>1, <2>1
  <2>4. work[b] = [pc |-> work[b].pc, hists |-> work[b].hists,
                   cands |-> work[b].cands]
    BY DEF ClaimsInv, WorkShape, IsWork
  <2>5. work'[b] = [pc |-> "failed", hists |-> work[b].hists,
                    cands |-> work[b].cands]
    BY <2>3, <2>4
  <2> QED
    BY <2>2, <2>5
<1>4. WorkShape'
  BY <1>1, <1>2, <1>3 DEF ClaimsInv, WorkShape, IsWork
<1>5. HistsHeld'
  BY <1>1, <1>2, <1>3 DEF ClaimsInv, HistsHeld, Accumulated
<1>6. ClaimsPending'
  BY <1>1, <1>2, <1>3
     DEF ClaimsInv, ClaimsPending, ClaimsValid, Subtracted, Accumulated
<1> QED
  BY <1>1, <1>4, <1>5, <1>6 DEF ClaimsInv, ClaimsPlanned

\* A split plans one claim, on the slot under the cursor, which no earlier
\* split can have claimed.
LEMMA ClaimsInvSplitSlot ==
  ASSUME Shape, ClaimsInv, SplitSlot
  PROVE  ClaimsInv'
<1> DEFINE n == Len(next)
           small == SmallSide(slot)
           claim == Subtract(slot, n + 1 + small)
           c == Children(slot, n + 1)
<1>1. /\ phase = "partition" /\ slot \in DOMAIN level
      /\ next' = next \o c /\ slot' = slot + 1
      /\ UNCHANGED << inputs, level, phase, work, parents >>
  BY DEF SplitSlot
<1>2. PICK x, y : /\ c = << x, y >>
                  /\ x.from = IF 0 = small THEN Accumulate ELSE claim
                  /\ y.from = IF 1 = small THEN Accumulate ELSE claim
  BY ChildrenAre DEF LevelNode
<1>3. small \in {0, 1} /\ claim.parent = slot
  BY DEF SmallSide, Subtract
<1> HIDE DEF c, claim, small
<1>4. IsSequence(next) /\ n \in Nat /\ DOMAIN next = 1..n
  BY SequenceDomain DEF Shape
<1>5. /\ DOMAIN next' = 1..(n + 2)
      /\ \A i \in 1..n : next'[i] = next[i]
      /\ next'[n + 1] = x /\ next'[n + 2] = y
  BY <1>1, <1>2, <1>4, AppendTwo
<1> HIDE DEF n
<1>6. slot \in Nat \ {0}
  BY DEF Shape
<1>7. ASSUME NEW j \in DOMAIN next', next'[j].from # Accumulate
      PROVE  \/ /\ j \in DOMAIN next /\ next'[j] = next[j]
                /\ next'[j].from.parent \in Nat \ {0}
                /\ next'[j].from.parent < slot
             \/ /\ j = IF small = 0 THEN n + 2 ELSE n + 1
                /\ next'[j].from.parent = slot
  <2>1. j \in 1..n \/ j = n + 1 \/ j = n + 2
    BY <1>4, <1>5
  <2>2. CASE j \in 1..n
    BY <1>1, <1>4, <1>5, <1>7, <2>2 DEF ClaimsInv, ClaimsPlanned
  <2>3. CASE j = n + 1
    BY <1>2, <1>3, <1>5, <1>7, <2>3
  <2>4. CASE j = n + 2
    BY <1>2, <1>3, <1>5, <1>7, <2>4
  <2> QED
    BY <2>1, <2>2, <2>3, <2>4
<1>8. ASSUME NEW j \in DOMAIN next', NEW k \in DOMAIN next',
             next'[j].from # Accumulate, next'[k].from # Accumulate,
             next'[j].from.parent = next'[k].from.parent
      PROVE  j = k
  <2>1. CASE j \in DOMAIN next /\ next'[j] = next[j] /\ next'[j].from.parent < slot
    <3>1. k \in DOMAIN next /\ next'[k] = next[k]
      BY <1>6, <1>7, <1>8, <2>1
    <3> QED
      BY <1>1, <1>8, <2>1, <3>1 DEF ClaimsInv, ClaimsPlanned
  <2>2. CASE next'[j].from.parent = slot
    <3>a. next'[k].from.parent = slot
      BY <1>8, <2>2
    <3>b. ~(slot < slot)
      BY <1>6
    <3>1. k = IF small = 0 THEN n + 2 ELSE n + 1
      BY <1>7, <1>8, <3>a, <3>b
    <3>2. j = IF small = 0 THEN n + 2 ELSE n + 1
      BY <1>6, <1>7, <1>8, <2>2
    <3> QED
      BY <3>1, <3>2
  <2> QED
    BY <1>7, <1>8, <2>1, <2>2
<1>9. ClaimsPlanned'
  <2>1. \A j \in DOMAIN next' : next'[j].from # Accumulate =>
          next'[j].from.parent \in Nat \ {0} /\ next'[j].from.parent < slot'
    BY <1>1, <1>6, <1>7
  <2>2. \A b \in Plan' : work'[b].pc = "done"
    BY <1>1 DEF ClaimsInv, ClaimsPlanned, Plan, inputs
  <2> QED
    BY <1>8, <2>1, <2>2 DEF ClaimsPlanned
<1>10. WorkShape' /\ HistsHeld'
  BY <1>1 DEF ClaimsInv, WorkShape, HistsHeld, Plan, FeaturesOf, Accumulated, inputs
<1> QED
  BY <1>1, <1>9, <1>10 DEF ClaimsInv, ClaimsPending

\* The planned claims come due: every slot below the cursor has a histogram.
LEMMA ClaimsInvFinishLevel ==
  ASSUME Shape, ClaimsInv, FinishLevel
  PROVE  ClaimsInv'
<1>1. /\ phase = "partition" /\ slot = Len(level) + 1
      /\ parents' = [b \in Plan |-> work[b].hists]
      /\ work' = [b \in Plan |-> Idle]
      /\ level' = next /\ next' = << >>
      /\ phase' \in {"blocks", "leaves"}
      /\ UNCHANGED inputs
  BY DEF FinishLevel, EnterLevel
<1>2. Plan' = Plan /\ \A b \in Plan : FeaturesOf(b)' = FeaturesOf(b)
  BY <1>1 DEF inputs, Plan, FeaturesOf
<1>3. DOMAIN level = 1..Len(level) /\ Len(level) \in Nat
  BY SequenceDomain DEF Shape
<1>4. WorkShape' /\ HistsHeld'
  BY <1>1, <1>2 DEF WorkShape, HistsHeld, IsWork, Idle
<1>5. ASSUME NEW b \in Plan
      PROVE  ClaimsValid(b)'
  <2>1. /\ DOMAIN work[b].hists = DOMAIN level
        /\ \A i \in DOMAIN level : DOMAIN work[b].hists[i] = FeaturesOf(b)
    BY <1>1 DEF ClaimsInv, ClaimsPlanned, HistsHeld
  <2>2. parents'[b] = work[b].hists
    BY <1>1
  <2>3. \A i \in Subtracted' : i \in DOMAIN next /\ next[i].from # Accumulate
    BY <1>1 DEF Subtracted, Accumulated
  <2>4. \A i \in Subtracted' : next[i].from.parent \in DOMAIN level
    BY <1>1, <1>3, <2>3 DEF ClaimsInv, ClaimsPlanned
  <2>5. \A i, j \in Subtracted' :
          next[i].from.parent = next[j].from.parent => i = j
    BY <1>1, <2>3 DEF ClaimsInv, ClaimsPlanned
  <2> QED
    BY <1>1, <1>2, <2>1, <2>2, <2>4, <2>5 DEF ClaimsValid
<1>6. ClaimsPending'
  BY <1>1, <1>2, <1>5 DEF ClaimsPending
<1> QED
  BY <1>1, <1>4, <1>6 DEF ClaimsInv, ClaimsPlanned

\* The other steps of the main thread leave the workers alone.
LEMMA ClaimsInvOther ==
  ASSUME Shape, ClaimsInv,
         \/ Reduce \/ PartitionFeature \/ SettleSlot \/ ApplyLeaf \/ Finish
         \/ AbortLevel \/ FailColumn \/ Terminated \/ UNCHANGED vars
  PROVE  ClaimsInv'
<1>1. UNCHANGED << inputs, level, next, work, parents >>
  BY DEF Reduce, PartitionFeature, SettleSlot, ApplyLeaf, Finish, AbortLevel,
         FailColumn, Terminated, vars, inputs
<1>2. WorkShape' /\ HistsHeld'
  BY <1>1 DEF ClaimsInv, WorkShape, HistsHeld, Plan, FeaturesOf, Accumulated, inputs
<1>3. /\ phase' # "panicked"
      /\ phase' = "blocks" => phase = "blocks"
      /\ slot' \in {slot, slot + 1}
      /\ phase' = "partition" => phase = "partition" \/ Reduce
  BY DEF Reduce, PartitionFeature, SettleSlot, ApplyLeaf, Finish, AbortLevel,
         FailColumn, Terminated, vars, ClaimsInv
<1>4. ClaimsPending'
  BY <1>1, <1>3
     DEF ClaimsInv, ClaimsPending, ClaimsValid, Plan, FeaturesOf, Subtracted,
         Accumulated, inputs
<1>5. ASSUME phase' = "partition"
      PROVE  ClaimsPlanned'
  <2>1. CASE phase = "partition"
    <3>1. \A j \in DOMAIN next : next[j].from # Accumulate =>
            next[j].from.parent \in Nat \ {0} /\ next[j].from.parent < slot
      BY <2>1 DEF ClaimsInv, ClaimsPlanned
    <3>2. \A j \in DOMAIN next : next[j].from # Accumulate =>
            next[j].from.parent \in Nat \ {0} /\ next[j].from.parent < slot'
      BY <1>3, <3>1 DEF Shape
    <3> QED
      BY <1>1, <2>1, <3>2 DEF ClaimsInv, ClaimsPlanned, Plan, inputs
  <2>2. CASE Reduce
    <3>1. next = << >> /\ \A b \in Plan : work[b].pc = "done"
      BY <2>2 DEF Reduce, ClaimsInv, ClaimsPending
    <3>2. DOMAIN next = {}
      BY <3>1
    <3> QED
      BY <1>1, <3>1, <3>2 DEF ClaimsPlanned, Plan, inputs
  <2> QED
    BY <1>3, <1>5, <2>1, <2>2
<1>6. ClaimsPlanned'
  BY <1>5 DEF ClaimsPlanned
<1> QED
  BY <1>2, <1>3, <1>4, <1>6 DEF ClaimsInv

LEMMA ClaimsInvNext == Shape /\ ClaimsInv /\ [Next]_vars => ClaimsInv'
<1> SUFFICES ASSUME Shape, ClaimsInv, [Next]_vars PROVE ClaimsInv'
  OBVIOUS
<1>1. ASSUME NEW b \in Plan, Work(b)
      PROVE  ClaimsInv'
  BY <1>1, ClaimsInvAccumulateBlock, ClaimsInvSubtractBlock,
     ClaimsInvEnumerateBlock DEF Work
<1>2. ASSUME NEW b \in Plan, FailBlock(b)
      PROVE  ClaimsInv'
  BY <1>2, ClaimsInvFailBlock
<1>3. CASE SplitSlot
  BY <1>3, ClaimsInvSplitSlot
<1>4. CASE FinishLevel
  BY <1>4, ClaimsInvFinishLevel
<1>5. CASE \/ Reduce \/ PartitionFeature \/ SettleSlot \/ ApplyLeaf \/ Finish
           \/ AbortLevel \/ FailColumn \/ Terminated \/ UNCHANGED vars
  BY <1>5, ClaimsInvOther
<1> QED
  BY <1>1, <1>2, <1>3, <1>4, <1>5 DEF Next, Main, Failure

\* No interleaving of the block workers over any number of levels claims a
\* parent histogram twice, or one that is not there: the two expect() calls of
\* the subtraction pass cannot fire.
THEOREM SubtractionNeverPanics == Spec => []NeverPanics
<1>1. Init => Shape /\ ClaimsInv
  BY RowsInvInit, ClaimsInvInit DEF RowsInv
<1>2. Spec => []RowsInv
  BY RowsInvInit, RowsInvNext, PTL DEF Spec
<1>3. RowsInv => Shape
  BY DEF RowsInv
<1>4. Spec => []ClaimsInv
  BY <1>1, <1>2, <1>3, ClaimsInvNext, PTL DEF Spec
<1>5. ClaimsInv => NeverPanics
  BY DEF ClaimsInv, NeverPanics
<1> QED
  BY <1>4, <1>5, PTL

----------------------------------------------------------------------------
(***************************************************************************)
(* Induction                                                               *)
(***************************************************************************)

\* A set of naturals that has 0 and the successor of each of its elements.
LEMMA NatSetInduction ==
  ASSUME NEW S \in SUBSET Nat, 0 \in S, \A n \in S : n + 1 \in S
  PROVE  S = Nat
<1> DEFINE T == Nat \ S
<1> SUFFICES ASSUME T # {} PROVE FALSE
  OBVIOUS
<1>1. PICK x \in T : \A y \in T : ~ (<<y, x>> \in OpToRel(<,Nat))
  BY NatLessThanWellFounded, WFMin
<1>2. \A y \in Nat : y < x => <<y, x>> \in OpToRel(<, Nat)
  BY DEF OpToRel
<1>3. x \in Nat /\ x # 0 /\ x - 1 \in Nat /\ x - 1 < x
  OBVIOUS
<1>4. x - 1 \in S
  BY <1>1, <1>2, <1>3
<1>5. (x - 1) + 1 = x
  BY <1>3
<1> QED
  BY <1>4, <1>5

LEMMA NatMin ==
  ASSUME NEW T \in SUBSET Nat, T # {}
  PROVE  \E x \in T : \A y \in T : x <= y
<1>1. PICK x \in T : \A y \in T : ~ (<<y, x>> \in OpToRel(<,Nat))
  BY NatLessThanWellFounded, WFMin
<1>2. \A y \in Nat : y < x => <<y, x>> \in OpToRel(<, Nat)
  BY DEF OpToRel
<1>3. \A y \in T : ~(y < x)
  BY <1>1, <1>2
<1>4. \A y \in T : y \in Nat /\ x \in Nat
  OBVIOUS
<1>5. \A y \in T : x <= y
  BY <1>3, <1>4
<1> QED
  BY <1>5

LEMMA MaxIsIn ==
  ASSUME NEW n \in Nat, NEW s \in SUBSET (1..n), s # {}
  PROVE  Max(s) \in s /\ \A y \in s : Max(s) >= y
<1> DEFINE T == {n - x : x \in s}
<1>1. T \in SUBSET Nat /\ T # {}
  <2>1. \A x \in s : n - x \in Nat /\ n - x \in T
    OBVIOUS
  <2>2. PICK x : x \in s
    OBVIOUS
  <2>3. T # {}
    BY <2>1, <2>2
  <2>4. \A y \in T : y \in Nat
    BY <2>1
  <2> HIDE DEF T
  <2> QED
    BY <2>3, <2>4
<1>2. PICK m \in T : \A y \in T : m <= y
  BY <1>1, NatMin
<1>3. PICK x \in s : m = n - x
  BY <1>2
<1>4. \A y \in s : n - y \in T
  OBVIOUS
<1> HIDE DEF T
<1>5. \A y \in s : x >= y
  BY <1>2, <1>3, <1>4
<1> QED
  BY <1>5, Zenon DEF Max

----------------------------------------------------------------------------
(***************************************************************************)
(* The tree leads every row to its leaf                                    *)
(***************************************************************************)

\* Children come after their parents.
Grown(nodes) ==
  /\ IsSequence(nodes) /\ Len(nodes) > 0
  /\ \A i \in 1..Len(nodes) : ~nodes[i].is_leaf =>
       nodes[i].left \in (i + 1)..Len(nodes) /\ nodes[i].right \in (i + 1)..Len(nodes)

\* Where a descent goes from node i.
StepFrom(nodes, goes_left, i) ==
  IF goes_left[i] THEN nodes[i].left ELSE nodes[i].right

ValueAt(nodes, goes_left, v, i) ==
  IF nodes[i].is_leaf THEN nodes[i].leaf_value ELSE v[StepFrom(nodes, goes_left, i)]

LEMMA ValuesExist ==
  ASSUME NEW nodes, NEW goes_left, Grown(nodes)
  PROVE  \E v : v = [i \in 1..Len(nodes) |-> ValueAt(nodes, goes_left, v, i)]
<1> DEFINE n == Len(nodes)
           D == 1..n
           V == {nodes[i].leaf_value : i \in D}
           Right(v, k) == \A i \in D : i > n - k => v[i] = ValueAt(nodes, goes_left, v, i)
           S == {k \in Nat : \E v \in [D -> V] : Right(v, k)}
<1>1. n \in Nat /\ DOMAIN nodes = D /\ n > 0
  BY SequenceDomain DEF Grown
<1>2. \A i \in D : ~nodes[i].is_leaf => StepFrom(nodes, goes_left, i) \in (i + 1)..n
  BY DEF Grown, StepFrom
<1>3. 0 \in S
  <2> DEFINE v == [i \in D |-> nodes[i].leaf_value]
  <2>1. v \in [D -> V]
    OBVIOUS
  <2>2. Right(v, 0)
    BY <1>1
  <2> QED
    BY <2>1, <2>2
<1>4. ASSUME NEW k \in S PROVE k + 1 \in S
  <2>1. PICK v \in [D -> V] : Right(v, k)
    BY <1>4
  <2> DEFINE j == n - k
             w == [v EXCEPT ![j] = ValueAt(nodes, goes_left, v, j)]
  <2>2. k \in Nat /\ j \in Int
    BY <1>1
  <2>3. CASE j \notin D
    <3>1. Right(v, k + 1)
      BY <1>1, <2>1, <2>2, <2>3
    <3> QED
      BY <3>1, <2>2
  <2>4. CASE j \in D
    <3>0. /\ nodes[j].leaf_value \in V
          /\ ~nodes[j].is_leaf => v[StepFrom(nodes, goes_left, j)] \in V
      <4>1. ~nodes[j].is_leaf => StepFrom(nodes, goes_left, j) \in D
        BY <1>1, <1>2, <2>2, <2>4
      <4> HIDE DEF j
      <4> QED
        BY <4>1, <2>1, <2>4
    <3>1. ValueAt(nodes, goes_left, v, j) \in V
      BY <3>0 DEF ValueAt
    <3> HIDE DEF j, V
    <3>2. w \in [D -> V]
      BY <3>1
    <3>3. \A i \in D : i >= j => ValueAt(nodes, goes_left, w, i) = ValueAt(nodes, goes_left, v, i)
      BY <1>1, <1>2, <2>2, <2>4, <2>1 DEF ValueAt
    <3>4. ASSUME NEW i \in D, i > n - (k + 1)
          PROVE  w[i] = ValueAt(nodes, goes_left, w, i)
      <4>1. i >= j
        BY <1>1, <2>2, <3>4 DEF j
      <4>2. CASE i = j
        BY <2>4, <3>3, <4>1, <4>2
      <4>3. CASE i # j
        <5>0. w[i] = v[i]
          BY <2>1, <4>3
        <5> HIDE DEF w, D
        <5>a. i \in Int /\ i >= j /\ i # j
          BY <4>1, <4>3 DEF D
        <5>1. i > n - k
          BY <1>1, <2>2, <5>a DEF j
        <5>2. v[i] = ValueAt(nodes, goes_left, v, i)
          BY <2>1, <5>1
        <5> QED
          BY <3>3, <4>1, <5>0, <5>2
      <4> QED
        BY <4>2, <4>3
    <3>5. Right(w, k + 1)
      BY <3>4
    <3> HIDE DEF w, Right
    <3>6. \E u \in [D -> V] : Right(u, k + 1)
      BY <3>2, <3>5
    <3> QED
      BY <3>6, <2>2
  <2>5. j \in D \/ j \notin D
    OBVIOUS
  <2> HIDE DEF S, j, D
  <2> QED
    BY <2>3, <2>4, <2>5
<1> HIDE DEF S
<1>5. S \in SUBSET Nat
  BY DEF S
<1>6. S = Nat
  BY <1>3, <1>4, <1>5, NatSetInduction
<1>7. n \in S
  BY <1>1, <1>6
<1>8. PICK v \in [D -> V] : Right(v, n)
  BY <1>7 DEF S
<1>9. \A i \in D : v[i] = ValueAt(nodes, goes_left, v, i)
  BY <1>1, <1>8
<1>10. v = [i \in D |-> v[i]]
  OBVIOUS
<1>11. v = [i \in D |-> ValueAt(nodes, goes_left, v, i)]
  BY <1>9, <1>10
<1> QED
  BY <1>11, Zenon

\* A descent visits the nodes of P and ends in the leaf l.
Leads(nodes, goes_left, l) ==
  \E P \in SUBSET (1..Len(nodes)) :
    /\ 1 \in P /\ l \in P
    /\ nodes[l].is_leaf
    /\ \A i \in P \ {l} : ~nodes[i].is_leaf /\ StepFrom(nodes, goes_left, i) \in P

LEMMA DescentIs ==
  ASSUME NEW nodes, NEW goes_left, NEW l, Grown(nodes), Leads(nodes, goes_left, l)
  PROVE  Descend(nodes, goes_left) = nodes[l].leaf_value
<1> DEFINE n == Len(nodes)
           IsValue(v) == v = [i \in 1..n |-> ValueAt(nodes, goes_left, v, i)]
           value == CHOOSE v : IsValue(v)
<1>1. Descend(nodes, goes_left) = value[1]
  BY DEF Descend, ValueAt, StepFrom
<1>2. IsValue(value)
  <2>1. \E v : IsValue(v)
    BY ValuesExist
  <2> QED
    BY <2>1
<1>3. n \in Nat /\ DOMAIN nodes = 1..n
  BY SequenceDomain DEF Grown
<1>4. \A i \in 1..n : value[i] = ValueAt(nodes, goes_left, value, i)
  BY <1>2, Zenon
<1> HIDE DEF value, IsValue
<1>5. PICK P \in SUBSET (1..n) :
        /\ 1 \in P /\ l \in P
        /\ nodes[l].is_leaf
        /\ \A i \in P \ {l} : ~nodes[i].is_leaf /\ StepFrom(nodes, goes_left, i) \in P
  BY DEF Leads
<1> DEFINE S == {k \in Nat : \A i \in P : i >= n - k => value[i] = nodes[l].leaf_value}
<1>6. ASSUME NEW i \in P,
             \A j \in P : j > i => value[j] = nodes[l].leaf_value
      PROVE  value[i] = nodes[l].leaf_value
  <2>1. CASE i = l
    BY <1>4, <1>5, <2>1 DEF ValueAt
  <2>2. CASE i # l
    <3>1. ~nodes[i].is_leaf /\ StepFrom(nodes, goes_left, i) \in P
      BY <1>5, <2>2
    <3>2. StepFrom(nodes, goes_left, i) > i
      BY <1>3, <1>5, <3>1 DEF StepFrom, Grown
    <3>3. value[i] = value[StepFrom(nodes, goes_left, i)]
      BY <1>4, <1>5, <3>1 DEF ValueAt
    <3> QED
      BY <1>6, <3>1, <3>2, <3>3
  <2> QED
    BY <2>1, <2>2
<1>7. 0 \in S
  BY <1>3, <1>6
<1>8. ASSUME NEW k \in S PROVE k + 1 \in S
  <2>1. k \in Nat /\ \A i \in P : i >= n - k => value[i] = nodes[l].leaf_value
    BY <1>8
  <2>2. ASSUME NEW i \in P, i >= n - (k + 1)
        PROVE  value[i] = nodes[l].leaf_value
    BY <1>3, <1>6, <2>1, <2>2
  <2> QED
    BY <2>1, <2>2
<1>9. S \in SUBSET Nat
  OBVIOUS
<1> HIDE DEF S
<1>10. n \in S
  BY <1>3, <1>7, <1>8, <1>9, NatSetInduction
<1>11. value[1] = nodes[l].leaf_value
  BY <1>3, <1>5, <1>10 DEF S
<1> QED
  BY <1>1, <1>11

\* A leaf that turns into an inner node with two leaves behind the others.
LEMMA SplitLeafIs ==
  ASSUME NEW nodes, NEW n \in 1..Len(nodes), IsSequence(nodes), NEW feat, NEW cond,
         NEW default_left, NEW lvalue, NEW rvalue
  PROVE  LET t == SplitLeaf(nodes, n, feat, cond, default_left, lvalue, rvalue)
         IN  /\ IsSequence(t)
             /\ Len(t) = Len(nodes) + 2
             /\ \A i \in 1..Len(nodes) : i # n => t[i] = nodes[i]
             /\ ~t[n].is_leaf /\ t[n].feat = feat /\ t[n].split_cond = cond
             /\ t[n].default_left = default_left
             /\ t[n].left = Len(nodes) + 1 /\ t[n].right = Len(nodes) + 2
             /\ t[Len(nodes) + 1] = Leaf(lvalue) /\ t[Len(nodes) + 2] = Leaf(rvalue)
<1> DEFINE m == Len(nodes)
           one == Append(nodes, Leaf(lvalue))
           grown == Append(one, Leaf(rvalue))
           inner == [is_leaf |-> FALSE, leaf_value |-> 0, feat |-> feat,
                     split_cond |-> cond, default_left |-> default_left,
                     left |-> m + 1, right |-> m + 2]
           t == [grown EXCEPT ![n] = inner]
<1>1. SplitLeaf(nodes, n, feat, cond, default_left, lvalue, rvalue) = t
  BY DEF SplitLeaf, PushLeaf
<1>2. m \in Nat /\ n \in 1..m
  BY SequenceDomain
<1> DEFINE S == {nodes[i] : i \in 1..m} \cup {Leaf(lvalue), Leaf(rvalue), inner}
<1>3. \A i \in 1..m : nodes[i] \in S
  OBVIOUS
<1>4. Leaf(lvalue) \in S /\ Leaf(rvalue) \in S /\ inner \in S
  OBVIOUS
<1> HIDE DEF S
<1>5. nodes \in Seq(S)
  BY <1>3, SequenceIsSeq
<1>6. /\ ~inner.is_leaf /\ inner.feat = feat /\ inner.split_cond = cond
      /\ inner.default_left = default_left
      /\ inner.left = m + 1 /\ inner.right = m + 2
  OBVIOUS
<1>7. PICK x, y, z : x = Leaf(lvalue) /\ y = Leaf(rvalue) /\ z = inner
  OBVIOUS
<1>8. one \in Seq(S) /\ Len(one) = m + 1 /\ one[m + 1] = Leaf(lvalue)
      /\ \A i \in 1..m : one[i] = nodes[i]
  BY <1>4, <1>5, <1>2
<1> HIDE DEF one
<1>9. grown \in Seq(S) /\ Len(grown) = m + 2 /\ grown[m + 2] = Leaf(rvalue)
      /\ grown[m + 1] = Leaf(lvalue) /\ \A i \in 1..m : grown[i] = nodes[i]
  BY <1>4, <1>8, <1>2
<1> HIDE DEF grown, inner
<1>10. t \in Seq(S) /\ Len(t) = m + 2 /\ t[n] = inner
       /\ \A i \in 1..(m + 2) : i # n => t[i] = grown[i]
  <2>1. grown \in [1..(m + 2) -> S] /\ m + 2 \in Nat
    BY <1>2, <1>9
  <2>2. t \in [1..(m + 2) -> S]
    BY <1>4, <2>1
  <2> HIDE DEF m
  <2>3. t \in Seq(S)
    BY <2>1, <2>2
  <2>4. Len(t) = m + 2
    BY <2>1, <2>2
  <2>5. t[n] = inner /\ \A i \in 1..(m + 2) : i # n => t[i] = grown[i]
    BY <1>2, <2>1
  <2> QED
    BY <2>3, <2>4, <2>5
<1> HIDE DEF t
<1>11. IsSequence(t)
  BY <1>10, SeqIsSequence
<1>12. /\ \A i \in 1..m : i # n => t[i] = nodes[i]
       /\ t[m + 1] = Leaf(lvalue) /\ t[m + 2] = Leaf(rvalue)
  BY <1>2, <1>9, <1>10
<1>13. /\ ~t[n].is_leaf /\ t[n].feat = feat /\ t[n].split_cond = cond
       /\ t[n].default_left = default_left
       /\ t[n].left = m + 1 /\ t[n].right = m + 2
  BY <1>6, <1>10
<1> QED
  BY <1>1, <1>10, <1>11, <1>12, <1>13

\* A row arrives in the leaf l by its bins.
Arrives(nodes, row_bins, l) == Leads(nodes, BinLeft(nodes, row_bins), l)

----------------------------------------------------------------------------
(***************************************************************************)
(* Bins, thresholds and raw values                                         *)
(***************************************************************************)

LEMMA NBinsFit ==
  ASSUME NEW f \in Feature
  PROVE  NBins[f] \in Nat /\ NBins[f] >= 1 /\ NBins[f] <= 255
BY BinsFit DEF MISSING_BIN

LEMMA CutsAre ==
  ASSUME NEW f \in Feature
  PROVE  /\ Len(Cuts[f]) \in Nat /\ Len(Cuts[f]) = NBins[f] - 1
         /\ \A i \in 1..Len(Cuts[f]) : Cuts[f][i] \in F32
         /\ \A i, j \in 1..Len(Cuts[f]) : i < j => Cuts[f][i] < Cuts[f][j]
<1>1. Cuts[f] \in Seq(F32)
  BY CutsFit
<1>2. Len(Cuts[f]) \in Nat /\ DOMAIN Cuts[f] = 1..Len(Cuts[f])
  BY <1>1
<1>3. NBins[f] = Len(Cuts[f]) + 1
  BY DEF NBins
<1>4. \A i, j \in DOMAIN Cuts[f] : i < j => Cuts[f][i] < Cuts[f][j]
  BY CutsFit
<1> QED
  BY <1>1, <1>2, <1>3, <1>4

\* partition_point: the cuts up to the value come first.
LEMMA FindBinIs ==
  ASSUME NEW f \in Feature, NEW v \in Int
  PROVE  /\ FindBin(f, v) \in 0..Len(Cuts[f])
         /\ \A i \in 1..Len(Cuts[f]) : i <= FindBin(f, v) <=> Cuts[f][i] <= v
<1> DEFINE n == Len(Cuts[f])
           Parts(k) == \A i \in 1..n : i <= k <=> Cuts[f][i] <= v
           above == {i \in 1..n : ~(Cuts[f][i] <= v)}
<1>1. /\ n \in Nat /\ \A i \in 1..n : Cuts[f][i] \in Int
      /\ \A i, j \in 1..n : i < j => Cuts[f][i] < Cuts[f][j]
  BY CutsAre, CutsFit DEF F32, F32_MIN
<1>2. \E k \in 0..n : Parts(k)
  <2>1. CASE above = {}
    <3>1. Parts(n) /\ n \in 0..n
      BY <1>1, <2>1
    <3> QED
      BY <3>1
  <2>2. CASE above # {}
    <3>1. above \subseteq Nat
      BY <1>1
    <3>2. PICK m \in above : \A i \in above : m <= i
      BY <2>2, <3>1, NatMin
    <3>3. m - 1 \in 0..n /\ m \in 1..n /\ ~(Cuts[f][m] <= v)
      BY <1>1
    <3>4. ASSUME NEW i \in 1..n PROVE i <= m - 1 <=> Cuts[f][i] <= v
      <4>1. CASE i < m
        BY <1>1, <3>2, <3>3, <4>1
      <4>2. CASE i >= m
        BY <1>1, <3>3, <4>2
      <4> QED
        BY <3>3, <4>1, <4>2
    <3>5. Parts(m - 1)
      BY <3>4
    <3> QED
      BY <3>3, <3>5
  <2> QED
    BY <2>1, <2>2
<1> QED
  BY <1>2 DEF FindBin

\* A bin is left of a split exactly if the values in it are below the threshold, and
\* exactly if it is left of the bin the threshold is turned back into.  That one need
\* not be the bin of the split: beside a cut at f32::MIN there is an empty bin.
LEMMA ThresholdIsSplit ==
  ASSUME NEW f \in Feature, NEW bin \in 0..NBins[f], NEW v \in F32 \ {F32_MAX}
  PROVE  /\ SplitThreshold(f, bin) \in Int
         /\ FindBin(f, v) < bin <=> v < SplitThreshold(f, bin)
         /\ FindBin(f, v) < SplitBin(f, SplitThreshold(f, bin)) <=> v < SplitThreshold(f, bin)
<1> DEFINE n == Len(Cuts[f])
           at == FindBin(f, v)
           cond == SplitThreshold(f, bin)
<1>1. /\ n \in Nat /\ NBins[f] = n + 1 /\ NBins[f] \in Nat
      /\ \A i \in 1..n : Cuts[f][i] \in F32
  BY CutsAre, NBinsFit
<1>2. F32_MAX \in Int /\ F32_MIN \in Int /\ v \in Int /\ F32_MIN <= v /\ v < F32_MAX
      /\ F32 \subseteq Int /\ F32_MIN < F32_MAX
  BY CutsFit DEF F32, F32_MIN
<1>3. at \in 0..n /\ \A i \in 1..n : i <= at <=> Cuts[f][i] <= v
  BY <1>2, FindBinIs
<1>4. /\ cond \in F32
      /\ at < bin <=> v < cond
  <2>1. CASE bin = 0
    <3>1. cond = F32_MIN /\ F32_MIN \in F32
      BY <1>2, <2>1 DEF SplitThreshold, F32
    <3> QED
      BY <1>2, <1>3, <2>1, <3>1
  <2>2. CASE bin > n
    <3>1. cond = F32_MAX /\ F32_MAX \in F32
      BY <1>1, <1>2, <2>2 DEF SplitThreshold, F32
    <3> QED
      BY <1>1, <1>2, <1>3, <2>2, <3>1
  <2>3. CASE bin \in 1..n
    <3>1. cond = Cuts[f][bin]
      BY <1>1, <2>3 DEF SplitThreshold
    <3>2. bin <= at <=> Cuts[f][bin] <= v
      BY <1>3, <2>3
    <3>3. Cuts[f][bin] \in Int
      BY <1>1, <1>2, <2>3
    <3> HIDE DEF at, cond
    <3> QED
      BY <1>1, <1>2, <1>3, <2>3, <3>1, <3>2, <3>3
  <2> QED
    BY <1>1, <2>1, <2>2, <2>3
<1>5. at < SplitBin(f, cond) <=> v < cond
  <2>1. CASE cond = F32_MAX
    BY <1>1, <1>2, <1>3, <2>1 DEF SplitBin
  <2>2. CASE cond # F32_MAX
    <3>1. SplitBin(f, cond) = FindBin(f, cond) /\ cond \in Int
      BY <1>2, <1>4, <2>2 DEF SplitBin
    <3>2. /\ FindBin(f, cond) \in 0..n
          /\ \A i \in 1..n : i <= FindBin(f, cond) <=> Cuts[f][i] <= cond
      BY <3>1, FindBinIs
    <3> DEFINE to == FindBin(f, cond)
    <3>3. \A i \in 1..n : Cuts[f][i] \in Int
      BY <1>1, <1>2
    <3>4. CASE v >= cond
      <4>1. ~(at < to)
        <5> SUFFICES ASSUME at < to PROVE FALSE
          OBVIOUS
        <5>1. to \in 1..n
          BY <1>3, <3>2
        <5>2. Cuts[f][to] <= cond
          BY <3>2, <5>1
        <5>3. Cuts[f][to] <= v
          BY <1>2, <3>1, <3>3, <3>4, <5>1, <5>2
        <5> QED
          BY <1>3, <5>1, <5>3
      <4> QED
        BY <1>2, <3>1, <3>4, <4>1
    <3>5. CASE v < cond
      <4>1. bin \in 1..n /\ cond = Cuts[f][bin]
        BY <1>1, <1>2, <2>2, <3>5 DEF SplitThreshold
      <4>2. bin <= to
        <5>1. Cuts[f][bin] <= cond
          BY <3>1, <4>1
        <5> QED
          BY <3>2, <4>1, <5>1
      <4>3. at < bin
        BY <1>4, <3>5
      <4> QED
        BY <1>3, <3>1, <3>2, <3>5, <4>1, <4>2, <4>3
    <3> QED
      BY <1>2, <3>1, <3>4, <3>5
  <2> QED
    BY <2>1, <2>2
<1> QED
  BY <1>2, <1>4, <1>5

LEMMA QuantizedIs ==
  ASSUME NEW row \in RawRow, NEW f \in Feature
  PROVE  /\ Quantized(row)[f] = IF row[f] = NaN THEN MISSING_BIN ELSE FindBin(f, row[f])
         /\ row[f] # NaN => row[f] \in F32 \ {F32_MAX} /\ FindBin(f, row[f]) \in BinsOf(f)
         /\ MISSING_BIN \notin BinsOf(f)
         /\ Quantized(row)[f] \in BinsOf(f) \cup {MISSING_BIN}
<1>1. Quantized(row)[f] = IF row[f] = NaN THEN MISSING_BIN ELSE FindBin(f, row[f])
  BY DEF Quantized
<1>2. ASSUME row[f] # NaN
      PROVE  row[f] \in F32 \ {F32_MAX} /\ FindBin(f, row[f]) \in BinsOf(f)
  <2>1. row[f] \in F32 \ {F32_MAX}
    BY <1>2 DEF RawRow, FeatureValue
  <2>2. row[f] \in Int
    BY <2>1, CutsFit DEF F32, F32_MIN
  <2>3. FindBin(f, row[f]) \in 0..Len(Cuts[f])
    BY <2>2, FindBinIs
  <2> QED
    BY <2>1, <2>3, CutsAre, NBinsFit DEF BinsOf
<1>3. MISSING_BIN \notin BinsOf(f)
  BY NBinsFit DEF BinsOf, MISSING_BIN
<1> QED
  BY <1>1, <1>2, <1>3

\* A row goes one way, whether by its bin and the bin of the split, by its bin and the
\* threshold turned back into a bin, or by its value and the threshold.
LEMMA OneWay ==
  ASSUME NEW row \in RawRow, NEW f \in Feature, NEW bin \in 0..NBins[f], NEW default_left
  PROVE  LET k    == Quantized(row)[f]
             cond == SplitThreshold(f, bin)
         IN  /\ GoesLeft(k, SplitBin(f, cond), default_left) = GoesLeft(k, bin, default_left)
             /\ GoesLeft(k, SplitBin(f, cond), default_left) =
                  IF row[f] = NaN THEN default_left ELSE row[f] < cond
<1>1. CASE row[f] = NaN
  BY <1>1, QuantizedIs DEF GoesLeft
<1>2. CASE row[f] # NaN
  <2>1. PICK v, k, cond : v = row[f] /\ k = FindBin(f, v) /\ cond = SplitThreshold(f, bin)
    OBVIOUS
  <2>2. Quantized(row)[f] = k /\ k # MISSING_BIN /\ v \in F32 \ {F32_MAX}
    BY <1>2, <2>1, QuantizedIs
  <2>3. /\ k < bin <=> v < cond
        /\ k < SplitBin(f, cond) <=> v < cond
    BY <2>1, <2>2, ThresholdIsSplit
  <2> QED
    BY <1>2, <2>1, <2>2, <2>3 DEF GoesLeft
<1> QED
  BY <1>1, <1>2

\* The thresholds of the inner nodes are those of splits.
ThresholdsFit(nodes) ==
  \A i \in 1..Len(nodes) : ~nodes[i].is_leaf =>
    /\ nodes[i].feat \in Feature
    /\ \E bin \in 0..NBins[nodes[i].feat] :
         nodes[i].split_cond = SplitThreshold(nodes[i].feat, bin)

\* Then a row takes the same way by its bins and by its values.
LEMMA DescentsAgree ==
  ASSUME NEW nodes, ThresholdsFit(nodes), NEW row \in RawRow
  PROVE  /\ BinLeft(nodes, Quantized(row)) = RawLeft(nodes, row)
         /\ LeafValueOfBins(nodes, Quantized(row)) = LeafValue(nodes, row)
<1>1. ASSUME NEW i \in 1..Len(nodes), ~nodes[i].is_leaf
      PROVE  GoesLeft(Quantized(row)[nodes[i].feat],
                      SplitBin(nodes[i].feat, nodes[i].split_cond), nodes[i].default_left)
               = IF row[nodes[i].feat] = NaN THEN nodes[i].default_left
                 ELSE row[nodes[i].feat] < nodes[i].split_cond
  <2>1. PICK bin \in 0..NBins[nodes[i].feat] :
          nodes[i].feat \in Feature /\ nodes[i].split_cond = SplitThreshold(nodes[i].feat, bin)
    BY <1>1 DEF ThresholdsFit
  <2>2. PICK f, cond, dl, k :
          /\ f = nodes[i].feat /\ cond = nodes[i].split_cond /\ dl = nodes[i].default_left
          /\ k = Quantized(row)[f]
    OBVIOUS
  <2>3. f \in Feature /\ bin \in 0..NBins[f] /\ cond = SplitThreshold(f, bin)
    BY <2>1, <2>2
  <2>4. GoesLeft(k, SplitBin(f, cond), dl) = IF row[f] = NaN THEN dl ELSE row[f] < cond
    BY <2>2, <2>3, OneWay
  <2> QED
    BY <2>2, <2>4
<1>2. BinLeft(nodes, Quantized(row)) = RawLeft(nodes, row)
  BY <1>1 DEF BinLeft, RawLeft
<1> QED
  BY <1>2 DEF LeafValueOfBins, LeafValue

\* The bins are those of the values.
RowsQuantized ==
  /\ values \in [Row -> RawRow]
  /\ bins = [r \in Row |-> Quantized(values[r])]

\* The splits chosen are at bins of their features and part training rows.
ChosenFit ==
  phase = "partition" =>
    \A i \in DOMAIN level : chosen[i] # NoSplit =>
      /\ level[i].rows \subseteq Row
      /\ chosen[i].feat \in Feature /\ chosen[i].bin \in 0..NBins[chosen[i].feat]
      /\ chosen[i].missing_left \in BOOLEAN

----------------------------------------------------------------------------
(***************************************************************************)
(* The rows a node holds are those that arrive there                       *)
(***************************************************************************)

\* The nodes that are still to be handled.
OpenAt(n) ==
  \/ \E i \in DOMAIN level : i >= slot /\ level[i].node = n
  \/ \E j \in DOMAIN next : next[j].node = n

\* They are different leaves of the tree.
OpenLeaves ==
  /\ \A n : OpenAt(n) => n \in 1..Len(tree) /\ tree[n].is_leaf
  /\ \A i, j \in DOMAIN level : i # j => level[i].node # level[j].node
  /\ \A i, j \in DOMAIN next : i # j => next[i].node # next[j].node
  /\ \A i \in DOMAIN level, j \in DOMAIN next :
       i >= slot => level[i].node # next[j].node

\* The tree leads every row of an open node there.
RowsArrive ==
  /\ \A i \in DOMAIN level : i >= slot =>
       \A r \in level[i].rows : Arrives(tree, bins[r], level[i].node)
  /\ \A j \in DOMAIN next :
       \A r \in next[j].rows : Arrives(tree, bins[r], next[j].node)

\* It leads a row that has been paid to a leaf that is closed and has this value.
PaidByTheirLeaf ==
  \A r \in Row : ~OpenRow(r) =>
    \E l \in 1..Len(tree) :
      ~OpenAt(l) /\ Arrives(tree, bins[r], l) /\ pred[r] = << tree[l].leaf_value >>

\* Rows are parted the way a descent would part them.
PartsExact ==
  phase = "partition" =>
    \A i \in DOMAIN level :
      chosen[i] # NoSplit /\ chosen[i].feat \notin todo =>
        parts[i] = PartitionRows(level[i].rows, chosen[i])

\* When the levels are through there is no next one, and at the end no node is left.
LevelsEnd ==
  /\ phase \in {"leaves", "done"} => next = << >>
  /\ phase = "blocks" => next = << >>
  /\ phase = "done" => slot = Len(level) + 1

PathInv ==
  /\ Grown(tree) /\ ThresholdsFit(tree) /\ OpenLeaves /\ RowsArrive /\ PaidByTheirLeaf /\ PartsExact
  /\ LevelsEnd

LEMMA PathInvImplies == RowsInv /\ PathInv /\ RowsQuantized => TrainMatchesPredict
<1> SUFFICES ASSUME RowsInv, PathInv, RowsQuantized, phase = "done"
             PROVE  /\ \A r \in Row : pred[r] = << LeafValue(tree, values[r]) >>
                    /\ \A v \in RawRow : LeafValueOfBins(tree, Quantized(v)) = LeafValue(tree, v)
  BY DEF TrainMatchesPredict
<1>1. \A v \in RawRow : LeafValueOfBins(tree, Quantized(v)) = LeafValue(tree, v)
  BY DescentsAgree DEF PathInv
<1>2. ASSUME NEW r \in Row PROVE pred[r] = << LeafValue(tree, values[r]) >>
  <2>1. ~OpenRow(r)
    <3>1. next = << >> /\ slot = Len(level) + 1
      BY DEF PathInv, LevelsEnd
    <3>2. DOMAIN next = {} /\ DOMAIN level = 1..Len(level) /\ Len(level) \in Nat
      BY <3>1, EmptyIsSequence, SequenceDomain DEF RowsInv, Shape
    <3> QED
      BY <3>1, <3>2 DEF OpenRow
  <2>2. PICK l \in 1..Len(tree) :
          Arrives(tree, bins[r], l) /\ pred[r] = << tree[l].leaf_value >>
    BY <2>1 DEF PathInv, PaidByTheirLeaf
  <2>3. LeafValueOfBins(tree, bins[r]) = tree[l].leaf_value
    BY <2>2, DescentIs DEF PathInv, Arrives, LeafValueOfBins
  <2>4. values[r] \in RawRow /\ bins[r] = Quantized(values[r])
    BY DEF RowsQuantized
  <2> QED
    BY <1>1, <2>2, <2>3, <2>4
<1> QED
  BY <1>1, <1>2

LEMMA PathInvInit == Init => PathInv
<1> SUFFICES ASSUME Init PROVE PathInv
  OBVIOUS
<1> DEFINE root == LevelNode(1, Row, NodeSum(gpair, Row), Accumulate)
           leaf == Leaf(LeafOf(NodeSum(gpair, Row)))
<1>1. /\ level = << root >> /\ next = << >> /\ slot = 1 /\ depth = 0
      /\ phase \in {"blocks", "leaves"}
  BY DEF Init, EnterLevel
<1>2. root.rows = Row /\ root.node = 1 /\ leaf.is_leaf = TRUE
  BY DEF LevelNode, Leaf
<1>3. tree = Append(<< >>, leaf)
  BY DEF Init, PushLeaf
<1> HIDE DEF root, leaf
<1>4. Len(tree) = 1 /\ tree[1] = leaf /\ IsSequence(tree)
  <2>1. Append(<< >>, leaf) = << leaf >>
    OBVIOUS
  <2> QED
    BY <1>3, <2>1, SingletonIsSequence
<1>5. DOMAIN level = {1} /\ DOMAIN next = {} /\ level[1] = root
  BY <1>1, EmptyIsSequence, SequenceDomain, SingletonIsSequence
<1>6. Grown(tree) /\ ThresholdsFit(tree)
  BY <1>2, <1>4 DEF Grown, ThresholdsFit
<1>7. OpenLeaves
  BY <1>1, <1>2, <1>4, <1>5 DEF OpenLeaves, OpenAt
<1>8. \A r : Arrives(tree, bins[r], 1)
  <2> SUFFICES ASSUME NEW r PROVE Arrives(tree, bins[r], 1)
    OBVIOUS
  <2> DEFINE P == {1}
  <2>1. P \in SUBSET (1..Len(tree)) /\ 1 \in P /\ P \ {1} = {}
    BY <1>4
  <2> QED
    BY <1>2, <1>4, <2>1 DEF Arrives, Leads
<1>9. RowsArrive
  BY <1>2, <1>5, <1>8 DEF RowsArrive
<1>10. \A r \in Row : OpenRow(r)
  BY <1>1, <1>2, <1>5 DEF OpenRow
<1>11. PartsExact /\ PaidByTheirLeaf /\ LevelsEnd
  BY <1>1, <1>10 DEF PartsExact, PaidByTheirLeaf, LevelsEnd
<1> QED
  BY <1>6, <1>7, <1>9, <1>11 DEF PathInv

\* A step that moves no node.
LEMMA PathInvQuiet ==
  ASSUME PathInv, UNCHANGED << tree, bins, level, next, slot, pred >>, PartsExact', LevelsEnd'
  PROVE  PathInv'
<1>1. (Grown(tree) /\ ThresholdsFit(tree))'
  BY DEF PathInv, Grown, ThresholdsFit
<1>2. OpenLeaves'
  BY DEF PathInv, OpenLeaves, OpenAt
<1>3. RowsArrive'
  BY DEF PathInv, RowsArrive
<1>4. PaidByTheirLeaf'
  BY DEF PathInv, PaidByTheirLeaf, OpenRow, OpenAt
<1> QED
  BY <1>1, <1>2, <1>3, <1>4 DEF PathInv

LEMMA PathInvReduce == PathInv /\ Reduce => PathInv'
<1> SUFFICES ASSUME PathInv, Reduce PROVE PathInv'
  OBVIOUS
<1>1. \A i \in DOMAIN level : chosen'[i] # NoSplit => chosen'[i].feat \in todo'
  BY DEF Reduce
<1>2. /\ UNCHANGED << tree, bins, level, next, slot, pred >> /\ phase' = "partition"
  BY DEF Reduce, inputs
<1>3. PartsExact'
  BY <1>1, <1>2 DEF PartsExact
<1>4. LevelsEnd'
  BY <1>2 DEF LevelsEnd
<1> QED
  BY <1>2, <1>3, <1>4, PathInvQuiet

LEMMA PathInvPartitionFeature == RowsInv /\ PathInv /\ PartitionFeature => PathInv'
<1> SUFFICES ASSUME RowsInv, PathInv, PartitionFeature PROVE PathInv'
  OBVIOUS
<1>1. /\ phase = "partition" /\ phase' = phase
      /\ UNCHANGED << tree, bins, level, next, slot, pred, chosen >>
  BY DEF PartitionFeature, inputs
<1>2. PICK f \in todo :
        /\ parts' = [i \in DOMAIN level |->
                       IF chosen[i].feat = f
                       THEN PartitionRows(level[i].rows, chosen[i])
                       ELSE parts[i]]
        /\ todo' = todo \ {f}
  BY DEF PartitionFeature
<1>3. ASSUME NEW i \in DOMAIN level, chosen[i] # NoSplit, chosen[i].feat \notin todo'
      PROVE  parts'[i] = PartitionRows(level[i].rows, chosen[i])
  BY <1>1, <1>2, <1>3 DEF PathInv, PartsExact
<1>4. \A rows, c : PartitionRows(rows, c)' = PartitionRows(rows, c)
  BY <1>1 DEF PartitionRows
<1>5. PartsExact'
  BY <1>1, <1>3, <1>4 DEF PartsExact, PartitionRows
<1>6. LevelsEnd'
  BY <1>1 DEF LevelsEnd
<1> QED
  BY <1>1, <1>5, <1>6, PathInvQuiet

\* A node that is settled pays its rows and is closed.
LEMMA PathInvSettle ==
  ASSUME RowsInv, PathInv, slot \in DOMAIN level, AddLeafValue(level[slot]),
         slot' = slot + 1, UNCHANGED << tree, bins, level, next >>, PartsExact', LevelsEnd'
  PROVE  PathInv'
<1>1. /\ slot \in Nat /\ DOMAIN level \subseteq Nat
  BY SequenceDomain DEF RowsInv, Shape
<1>2. (Grown(tree) /\ ThresholdsFit(tree))'
  BY DEF PathInv, Grown, ThresholdsFit
<1>3. \A n : OpenAt(n)' => OpenAt(n)
  BY <1>1 DEF OpenAt
<1>4. OpenLeaves'
  BY <1>1, <1>3 DEF PathInv, OpenLeaves
<1>5. RowsArrive'
  BY <1>1 DEF PathInv, RowsArrive
<1>6. ASSUME NEW r \in Row, ~OpenRow(r)'
      PROVE  \E l \in 1..Len(tree) :
               ~OpenAt(l)' /\ Arrives(tree, bins[r], l) /\ pred'[r] = << tree[l].leaf_value >>
  <2>1. CASE r \in level[slot].rows
    <3>0. PICK l : l = level[slot].node
      OBVIOUS
    <3>1. OpenAt(l) /\ Arrives(tree, bins[r], l)
      BY <1>1, <2>1, <3>0 DEF OpenAt, PathInv, RowsArrive
    <3>2. l \in 1..Len(tree)
      BY <3>1 DEF PathInv, OpenLeaves
    <3>3. ~OpenAt(l)'
      BY <1>1, <3>0 DEF OpenAt, PathInv, OpenLeaves
    <3>4. OpenRow(r)
      BY <1>1, <2>1 DEF OpenRow
    <3>5. IsSequence(pred[r]) /\ Len(pred[r]) = 0
      BY <3>4 DEF RowsInv, Paid
    <3>6. pred[r] = << >>
      BY <3>5, SequenceIsSeq
    <3>7. pred'[r] = << tree[l].leaf_value >>
      <4>1. pred'[r] = Append(pred[r], tree[l].leaf_value)
        BY <2>1, <3>0 DEF AddLeafValue
      <4>2. \A v : Append(<< >>, v) = << v >>
        OBVIOUS
      <4> QED
        BY <3>6, <4>1, <4>2
    <3> QED
      BY <3>1, <3>2, <3>3, <3>7
  <2>2. CASE r \notin level[slot].rows
    <3>1. ~OpenRow(r)
      BY <1>1, <1>6, <2>2 DEF OpenRow
    <3>2. pred'[r] = pred[r]
      BY <2>2 DEF AddLeafValue
    <3> QED
      BY <1>3, <3>1, <3>2 DEF PathInv, PaidByTheirLeaf
  <2> QED
    BY <2>1, <2>2
<1>7. PaidByTheirLeaf'
  BY <1>6 DEF PaidByTheirLeaf
<1> QED
  BY <1>2, <1>4, <1>5, <1>7 DEF PathInv

LEMMA PathInvSettleSlot == RowsInv /\ PathInv /\ SettleSlot => PathInv'
<1> SUFFICES ASSUME RowsInv, PathInv, SettleSlot PROVE PathInv'
  OBVIOUS
<1>1. /\ slot \in DOMAIN level /\ AddLeafValue(level[slot]) /\ slot' = slot + 1
      /\ UNCHANGED << tree, bins, level, next, phase, chosen, todo, parts >>
      /\ phase = "partition"
  BY DEF SettleSlot, inputs
<1>2. PartsExact'
  BY <1>1 DEF PathInv, PartsExact, PartitionRows
<1>3. LevelsEnd'
  BY <1>1 DEF LevelsEnd
<1> QED
  BY <1>1, <1>2, <1>3, PathInvSettle

LEMMA PathInvApplyLeaf == RowsInv /\ PathInv /\ ApplyLeaf => PathInv'
<1> SUFFICES ASSUME RowsInv, PathInv, ApplyLeaf PROVE PathInv'
  OBVIOUS
<1>1. /\ slot \in DOMAIN level /\ AddLeafValue(level[slot]) /\ slot' = slot + 1
      /\ UNCHANGED << tree, bins, level, next, phase >>
      /\ phase = "leaves"
  BY DEF ApplyLeaf, inputs
<1>2. PartsExact'
  BY <1>1 DEF PartsExact
<1>3. LevelsEnd'
  BY <1>1 DEF PathInv, LevelsEnd
<1> QED
  BY <1>1, <1>2, <1>3, PathInvSettle

LEMMA LeadsElsewhere ==
  ASSUME NEW nodes, NEW grown, NEW n \in 1..Len(nodes), Len(nodes) \in Nat,
         Len(grown) = Len(nodes) + 2, nodes[n].is_leaf,
         \A i \in 1..Len(nodes) : i # n => grown[i] = nodes[i],
         NEW before, NEW after, \A i \in 1..Len(nodes) : i # n => after[i] = before[i],
         NEW l, l # n, Leads(nodes, before, l)
  PROVE  Leads(grown, after, l)
<1>1. PICK P \in SUBSET (1..Len(nodes)) :
        /\ 1 \in P /\ l \in P
        /\ nodes[l].is_leaf
        /\ \A i \in P \ {l} : ~nodes[i].is_leaf /\ StepFrom(nodes, before, i) \in P
  BY DEF Leads
<1>2. \A i \in P : i # n
  BY <1>1
<1>3. \A i \in P : grown[i] = nodes[i]
  BY <1>2
<1>4. P \in SUBSET (1..Len(grown))
  OBVIOUS
<1>5. \A i \in P : StepFrom(grown, after, i) = StepFrom(nodes, before, i)
  <2>1. \A i \in P : after[i] = before[i]
    BY <1>2
  <2> QED
    BY <1>3, <2>1 DEF StepFrom
<1>6. /\ grown[l].is_leaf
      /\ \A i \in P \ {l} : ~grown[i].is_leaf /\ StepFrom(grown, after, i) \in P
  BY <1>1, <1>3, <1>5
<1> QED
  BY <1>1, <1>4, <1>6 DEF Leads

LEMMA LeadsOn ==
  ASSUME NEW nodes, NEW grown, NEW n \in 1..Len(nodes), Len(nodes) \in Nat,
         Len(grown) = Len(nodes) + 2, nodes[n].is_leaf, ~grown[n].is_leaf,
         \A i \in 1..Len(nodes) : i # n => grown[i] = nodes[i],
         NEW before, NEW after, \A i \in 1..Len(nodes) : i # n => after[i] = before[i],
         Leads(nodes, before, n),
         NEW l \in {Len(nodes) + 1, Len(nodes) + 2},
         StepFrom(grown, after, n) = l, grown[l].is_leaf
  PROVE  Leads(grown, after, l)
<1>1. PICK P \in SUBSET (1..Len(nodes)) :
        /\ 1 \in P /\ n \in P
        /\ \A i \in P \ {n} : ~nodes[i].is_leaf /\ StepFrom(nodes, before, i) \in P
  BY DEF Leads
<1> DEFINE Q == P \cup {l}
<1>2. l \notin P
  OBVIOUS
<1>3. \A i \in P \ {n} : /\ ~grown[i].is_leaf
                         /\ StepFrom(grown, after, i) = StepFrom(nodes, before, i)
  BY <1>1 DEF StepFrom
<1>4. Q \in SUBSET (1..Len(grown))
  OBVIOUS
<1>5. \A i \in Q \ {l} : ~grown[i].is_leaf /\ StepFrom(grown, after, i) \in Q
  BY <1>1, <1>3
<1>6. 1 \in Q /\ l \in Q
  BY <1>1
<1> HIDE DEF Q
<1> QED
  BY <1>4, <1>5, <1>6 DEF Leads

\* The same of the rows.
LEMMA ArrivesElsewhere ==
  ASSUME NEW nodes, NEW grown, NEW n \in 1..Len(nodes), Len(nodes) \in Nat,
         Len(grown) = Len(nodes) + 2, nodes[n].is_leaf,
         \A i \in 1..Len(nodes) : i # n => grown[i] = nodes[i],
         NEW row_bins, NEW l, l # n, Arrives(nodes, row_bins, l)
  PROVE  Arrives(grown, row_bins, l)
<1>1. PICK before, after : before = BinLeft(nodes, row_bins) /\ after = BinLeft(grown, row_bins)
  OBVIOUS
<1>2. \A i \in 1..Len(nodes) : i # n => after[i] = before[i]
  <2> SUFFICES ASSUME NEW i \in 1..Len(nodes), i # n PROVE after[i] = before[i]
    OBVIOUS
  <2>1. i \in 1..Len(grown) /\ grown[i] = nodes[i]
    OBVIOUS
  <2> QED
    BY <1>1, <2>1 DEF BinLeft
<1>3. Leads(nodes, before, l)
  BY <1>1 DEF Arrives
<1>4. Leads(grown, after, l)
  BY <1>2, <1>3, LeadsElsewhere
<1> QED
  BY <1>1, <1>4 DEF Arrives

LEMMA ArrivesOn ==
  ASSUME NEW nodes, NEW grown, NEW n \in 1..Len(nodes), Len(nodes) \in Nat,
         Len(grown) = Len(nodes) + 2, nodes[n].is_leaf, ~grown[n].is_leaf,
         \A i \in 1..Len(nodes) : i # n => grown[i] = nodes[i],
         NEW row_bins, Arrives(nodes, row_bins, n),
         NEW l \in {Len(nodes) + 1, Len(nodes) + 2},
         (IF GoesLeft(row_bins[grown[n].feat], SplitBin(grown[n].feat, grown[n].split_cond),
                      grown[n].default_left)
          THEN grown[n].left ELSE grown[n].right) = l,
         grown[l].is_leaf
  PROVE  Arrives(grown, row_bins, l)
<1>1. PICK before, after : before = BinLeft(nodes, row_bins) /\ after = BinLeft(grown, row_bins)
  OBVIOUS
<1>2. \A i \in 1..Len(nodes) : i # n => after[i] = before[i]
  <2> SUFFICES ASSUME NEW i \in 1..Len(nodes), i # n PROVE after[i] = before[i]
    OBVIOUS
  <2>1. i \in 1..Len(grown) /\ grown[i] = nodes[i]
    OBVIOUS
  <2> QED
    BY <1>1, <2>1 DEF BinLeft
<1>3. Leads(nodes, before, n)
  BY <1>1 DEF Arrives
<1>4. StepFrom(grown, after, n) = l
  <2>1. n \in 1..Len(grown)
    OBVIOUS
  <2>2. after[n] <=> GoesLeft(row_bins[grown[n].feat],
                              SplitBin(grown[n].feat, grown[n].split_cond), grown[n].default_left)
    BY <1>1, <2>1 DEF BinLeft
  <2> QED
    BY <2>2 DEF StepFrom
<1>5. Leads(grown, after, l)
  BY <1>2, <1>3, <1>4, LeadsOn
<1> QED
  BY <1>1, <1>5 DEF Arrives

LEMMA PathInvSplitSlot ==
  RowsInv /\ PathInv /\ RowsQuantized /\ ChosenFit /\ SplitSlot => PathInv'
<1> SUFFICES ASSUME RowsInv, PathInv, RowsQuantized, ChosenFit, SplitSlot PROVE PathInv'
  OBVIOUS
<1>1. /\ phase = "partition" /\ todo = {} /\ slot \in DOMAIN level /\ chosen[slot] # NoSplit
      /\ tree' = SplitLeaf(tree, level[slot].node, chosen[slot].feat,
                           SplitThreshold(chosen[slot].feat, chosen[slot].bin),
                           chosen[slot].missing_left, LeafOf(chosen[slot].left),
                           LeafOf(chosen[slot].right))
      /\ next' = next \o Children(slot, Len(next) + 1) /\ slot' = slot + 1
      /\ UNCHANGED << bins, level, phase, chosen, todo, parts, pred >>
  BY DEF SplitSlot, inputs
<1>2. /\ slot \in Nat /\ DOMAIN level \subseteq Nat
      /\ IsSequence(next) /\ Len(next) \in Nat /\ DOMAIN next = 1..Len(next)
  BY SequenceDomain DEF RowsInv, Shape
<1>3. IsSequence(tree) /\ Len(tree) \in Nat /\ Len(tree) > 0
  BY SequenceDomain DEF PathInv, Grown
<1>4. PICK n, m, lrows, rrows, s, c, cond :
        /\ n = level[slot].node /\ m = Len(tree) /\ s = Len(next) /\ c = chosen[slot]
        /\ cond = SplitThreshold(chosen[slot].feat, chosen[slot].bin)
        /\ lrows = parts[slot][1] /\ rrows = parts[slot][2]
  OBVIOUS
<1>5. OpenAt(n) /\ n \in 1..m /\ tree[n].is_leaf
  BY <1>1, <1>2, <1>4 DEF OpenAt, PathInv, OpenLeaves
<1>6. PICK x, y : /\ Children(slot, s + 1) = << x, y >>
                  /\ x.rows = lrows /\ x.node = m + 1 /\ y.rows = rrows /\ y.node = m + 2
  <2>1. m + 1 + 1 = m + 2
    BY <1>3, <1>4
  <2> QED
    BY <1>4, <2>1, ChildrenAre DEF LevelNode
<1>7. /\ IsSequence(next') /\ DOMAIN next' = 1..(s + 2)
      /\ \A i \in 1..s : next'[i] = next[i]
      /\ next'[s + 1] = x /\ next'[s + 2] = y
  <2>1. next' = next \o << x, y >>
    BY <1>1, <1>4, <1>6
  <2> QED
    BY <1>2, <1>4, <2>1, AppendTwo
<1>8. /\ IsSequence(tree') /\ Len(tree') = m + 2
      /\ \A i \in 1..m : i # n => tree'[i] = tree[i]
      /\ ~tree'[n].is_leaf /\ tree'[n].feat = c.feat /\ tree'[n].split_cond = cond
      /\ tree'[n].default_left = c.missing_left
      /\ tree'[n].left = m + 1 /\ tree'[n].right = m + 2
      /\ tree'[m + 1].is_leaf /\ tree'[m + 2].is_leaf
  <2>1. PICK lv, rv : tree' = SplitLeaf(tree, n, c.feat, cond, c.missing_left, lv, rv)
    BY <1>1, <1>4
  <2>2. n \in 1..Len(tree)
    BY <1>4, <1>5
  <2>3. Leaf(lv).is_leaf = TRUE /\ Leaf(rv).is_leaf = TRUE
    BY DEF Leaf
  <2>4. PICK t : t = SplitLeaf(tree, n, c.feat, cond, c.missing_left, lv, rv)
    OBVIOUS
  <2>5. /\ IsSequence(t) /\ Len(t) = Len(tree) + 2
        /\ \A i \in 1..Len(tree) : i # n => t[i] = tree[i]
        /\ ~t[n].is_leaf /\ t[n].feat = c.feat /\ t[n].split_cond = cond
        /\ t[n].default_left = c.missing_left
        /\ t[n].left = Len(tree) + 1 /\ t[n].right = Len(tree) + 2
        /\ t[Len(tree) + 1] = Leaf(lv) /\ t[Len(tree) + 2] = Leaf(rv)
    BY <1>3, <2>2, <2>4, SplitLeafIs
  <2> QED
    BY <1>4, <2>1, <2>3, <2>4, <2>5
<1>a. /\ n \in 1..Len(tree) /\ Len(tree') = Len(tree) + 2
      /\ \A i \in 1..Len(tree) : i # n => tree'[i] = tree[i]
      /\ ~tree'[n].is_leaf
  BY <1>4, <1>5, <1>8
<1>b. c.feat \in Feature /\ c.bin \in 0..NBins[c.feat] /\ cond = SplitThreshold(c.feat, c.bin)
  BY <1>1, <1>4 DEF ChosenFit
<1>c. ThresholdsFit(tree')
  <2>1. m \in Nat /\ n \in 1..m
    BY <1>3, <1>4, <1>5
  <2>2. ASSUME NEW i \in 1..(m + 2), ~tree'[i].is_leaf
        PROVE  /\ tree'[i].feat \in Feature
               /\ \E bin \in 0..NBins[tree'[i].feat] :
                    tree'[i].split_cond = SplitThreshold(tree'[i].feat, bin)
    <3>1. CASE i = n
      BY <1>8, <1>b, <3>1
    <3>2. CASE i \in 1..m /\ i # n
      <4>1. tree'[i] = tree[i] /\ i \in 1..Len(tree)
        BY <1>4, <1>8, <3>2
      <4> QED
        BY <2>2, <4>1 DEF PathInv, ThresholdsFit
    <3> QED
      BY <1>8, <2>1, <2>2, <3>1, <3>2
  <2> QED
    BY <1>8, <2>2 DEF ThresholdsFit
<1>9. Grown(tree')
  <2>1. m \in Nat /\ n \in 1..m
    BY <1>3, <1>4, <1>5
  <2>2. ASSUME NEW i \in 1..(m + 2), ~tree'[i].is_leaf
        PROVE  tree'[i].left \in (i + 1)..(m + 2) /\ tree'[i].right \in (i + 1)..(m + 2)
    <3>1. CASE i = n
      BY <1>8, <2>1, <3>1
    <3>2. CASE i \in 1..m /\ i # n
      <4>1. tree[i].left \in (i + 1)..m /\ tree[i].right \in (i + 1)..m
        BY <1>4, <1>8, <2>2, <3>2 DEF PathInv, Grown
      <4> QED
        BY <1>8, <2>1, <3>2, <4>1
    <3> QED
      BY <1>8, <2>1, <2>2, <3>1, <3>2
  <2> QED
    BY <1>8, <2>1, <2>2 DEF Grown
<1>10. \A j \in DOMAIN next' : \/ j \in 1..s /\ j \in DOMAIN next /\ next'[j] = next[j]
                               \/ j = s + 1 /\ next'[j] = x
                               \/ j = s + 2 /\ next'[j] = y
  BY <1>2, <1>4, <1>7
<1>11. ASSUME NEW k
       PROVE  OpenAt(k)' => (OpenAt(k) /\ k # n) \/ k = m + 1 \/ k = m + 2
  <2>1. SUFFICES ASSUME OpenAt(k)', k # m + 1, k # m + 2 PROVE OpenAt(k) /\ k # n
    OBVIOUS
  <2>2. CASE \E i \in DOMAIN level : i >= slot + 1 /\ level[i].node = k
    BY <1>1, <1>2, <1>4, <2>2 DEF OpenAt, PathInv, OpenLeaves
  <2>3. CASE \E j \in DOMAIN next' : next'[j].node = k
    <3>1. PICK j \in DOMAIN next : next[j].node = k
      BY <1>6, <1>10, <2>1, <2>3
    <3> QED
      BY <1>1, <1>2, <1>4, <3>1 DEF OpenAt, PathInv, OpenLeaves
  <2>4. \/ \E i \in DOMAIN level : i >= slot + 1 /\ level[i].node = k
        \/ \E j \in DOMAIN next' : next'[j].node = k
    BY <1>1, <2>1 DEF OpenAt
  <2> QED
    BY <2>2, <2>3, <2>4
<1>12. OpenLeaves'
  <2>1. ASSUME NEW k, OpenAt(k)'
        PROVE  k \in 1..Len(tree') /\ tree'[k].is_leaf
    BY <1>3, <1>4, <1>8, <1>11, <2>1 DEF PathInv, OpenLeaves
  <2>2. \A i, j \in DOMAIN level : i # j => level[i].node # level[j].node
    BY DEF PathInv, OpenLeaves
  <2>3. \A j \in DOMAIN next : next[j].node \in 1..m /\ next[j].node # n
    BY <1>1, <1>2, <1>4 DEF OpenAt, PathInv, OpenLeaves
  <2>4. ASSUME NEW i \in DOMAIN next', NEW j \in DOMAIN next', i # j
        PROVE  next'[i].node # next'[j].node
    <3>1. CASE i \in 1..s /\ j \in 1..s
      BY <1>2, <1>4, <1>7, <2>4, <3>1 DEF PathInv, OpenLeaves
    <3>2. CASE ~(i \in 1..s /\ j \in 1..s)
      BY <1>2, <1>3, <1>4, <1>6, <1>10, <2>3, <2>4, <3>2
    <3> QED
      BY <3>1, <3>2
  <2>5. ASSUME NEW i \in DOMAIN level, NEW j \in DOMAIN next', i >= slot + 1
        PROVE  level[i].node # next'[j].node
    <3>1. level[i].node \in 1..m
      BY <1>2, <1>4, <2>5 DEF OpenAt, PathInv, OpenLeaves
    <3>2. i >= slot
      BY <1>2, <2>5
    <3> QED
      BY <1>3, <1>4, <1>6, <1>10, <3>1, <3>2 DEF PathInv, OpenLeaves
  <2> QED
    BY <1>1, <2>1, <2>2, <2>4, <2>5 DEF OpenLeaves
<1>13. ASSUME NEW l, NEW r, l # n, Arrives(tree, bins[r], l)
       PROVE  Arrives(tree', bins[r], l)
  BY <1>3, <1>5, <1>a, <1>13, ArrivesElsewhere
<1>14. /\ lrows = {r \in level[slot].rows : GoesLeft(bins[r][c.feat], c.bin, c.missing_left)}
       /\ rrows = level[slot].rows \ lrows
  <2>1. parts[slot] = PartitionRows(level[slot].rows, c)
    BY <1>1, <1>4 DEF PathInv, PartsExact
  <2> QED
    BY <1>4, <2>1 DEF PartitionRows
<1>15. ASSUME NEW r \in level[slot].rows
       PROVE  Arrives(tree', bins[r], IF r \in lrows THEN m + 1 ELSE m + 2)
  <2> DEFINE l == IF r \in lrows THEN m + 1 ELSE m + 2
  <2>1. Arrives(tree, bins[r], n)
    BY <1>1, <1>2, <1>4 DEF PathInv, RowsArrive
  <2>2. (IF GoesLeft(bins[r][tree'[n].feat], SplitBin(tree'[n].feat, tree'[n].split_cond),
                     tree'[n].default_left)
         THEN tree'[n].left ELSE tree'[n].right) = l
    <3>1. r \in Row
      BY <1>1 DEF ChosenFit
    <3>2. PICK b : b = bins[r] /\ b = Quantized(values[r]) /\ values[r] \in RawRow
      BY <3>1 DEF RowsQuantized
    <3>3. GoesLeft(b[c.feat], SplitBin(c.feat, cond), c.missing_left)
            = GoesLeft(b[c.feat], c.bin, c.missing_left)
      BY <1>b, <3>2, OneWay
    <3> QED
      BY <1>8, <1>14, <3>2, <3>3
  <2>3. tree'[l].is_leaf /\ l \in {Len(tree) + 1, Len(tree) + 2}
    BY <1>4, <1>8
  <2> HIDE DEF l
  <2>4. Arrives(tree', bins[r], l)
    BY <1>3, <1>5, <2>1, <2>2, <2>3, <1>a, ArrivesOn
  <2> QED
    BY <2>4 DEF l
<1>16. RowsArrive'
  <2>1. ASSUME NEW i \in DOMAIN level, i >= slot + 1, NEW r \in level[i].rows
        PROVE  Arrives(tree', bins[r], level[i].node)
    <3>1. i >= slot /\ i # slot
      BY <1>2, <2>1
    <3>2. level[i].node # n
      BY <1>1, <1>4, <3>1 DEF PathInv, OpenLeaves
    <3> QED
      BY <1>13, <2>1, <3>1, <3>2 DEF PathInv, RowsArrive
  <2>2. ASSUME NEW j \in DOMAIN next', NEW r \in next'[j].rows
        PROVE  Arrives(tree', bins[r], next'[j].node)
    <3>1. CASE j \in 1..s
      <4>1. next'[j] = next[j] /\ j \in DOMAIN next
        BY <1>2, <1>4, <1>7, <3>1
      <4>2. next[j].node # n
        BY <1>1, <1>2, <1>4, <4>1 DEF PathInv, OpenLeaves
      <4> QED
        BY <1>13, <2>2, <4>1, <4>2 DEF PathInv, RowsArrive
    <3>2. CASE next'[j] = x
      BY <1>6, <1>14, <1>15, <2>2, <3>2
    <3>3. CASE next'[j] = y
      BY <1>6, <1>14, <1>15, <2>2, <3>3
    <3> QED
      BY <1>10, <3>1, <3>2, <3>3
  <2> QED
    BY <1>1, <2>1, <2>2 DEF RowsArrive
<1>17. ASSUME NEW r \in Row, ~OpenRow(r)'
       PROVE  \E l \in 1..Len(tree') :
                ~OpenAt(l)' /\ Arrives(tree', bins[r], l) /\ pred[r] = << tree'[l].leaf_value >>
  <2>1. ~OpenRow(r)
    <3>1. s + 1 \in DOMAIN next' /\ s + 2 \in DOMAIN next' /\ 1..s \subseteq DOMAIN next'
      BY <1>2, <1>4, <1>7
    <3>2. r \notin level[slot].rows
      BY <1>6, <1>7, <1>14, <1>17, <3>1 DEF OpenRow
    <3>3. \A j \in DOMAIN next : r \notin next[j].rows
      BY <1>2, <1>4, <1>7, <1>17, <3>1 DEF OpenRow
    <3>4. \A i \in DOMAIN level : i >= slot /\ i # slot => r \notin level[i].rows
      <4>1. \A i \in DOMAIN level : i >= slot /\ i # slot => i >= slot'
        BY <1>1, <1>2
      <4> QED
        BY <1>1, <1>17, <4>1 DEF OpenRow
    <3> QED
      BY <3>2, <3>3, <3>4 DEF OpenRow
  <2>2. PICK l \in 1..m :
          ~OpenAt(l) /\ Arrives(tree, bins[r], l) /\ pred[r] = << tree[l].leaf_value >>
    BY <1>4, <2>1 DEF PathInv, PaidByTheirLeaf
  <2>3. l # n
    BY <1>5, <2>2
  <2>4. ~OpenAt(l)'
    BY <1>3, <1>4, <1>11, <2>2
  <2>5. Arrives(tree', bins[r], l)
    BY <1>13, <2>2, <2>3
  <2>6. tree'[l] = tree[l] /\ l \in 1..Len(tree')
    BY <1>3, <1>4, <1>8, <2>2, <2>3
  <2> QED
    BY <2>2, <2>4, <2>5, <2>6
<1>18. PaidByTheirLeaf'
  BY <1>1, <1>17 DEF PaidByTheirLeaf
<1>19. PartsExact'
  BY <1>1 DEF PathInv, PartsExact, PartitionRows
<1>20. LevelsEnd'
  BY <1>1 DEF LevelsEnd
<1> QED
  BY <1>c, <1>9, <1>12, <1>16, <1>18, <1>19, <1>20 DEF PathInv

LEMMA PathInvFinishLevel == RowsInv /\ PathInv /\ FinishLevel => PathInv'
<1> SUFFICES ASSUME RowsInv, PathInv, FinishLevel PROVE PathInv'
  OBVIOUS
<1>1. /\ level' = next /\ next' = << >> /\ slot' = 1 /\ pred' = pred
      /\ slot = Len(level) + 1 /\ UNCHANGED << bins, tree >>
      /\ phase' \in {"blocks", "leaves"}
  BY DEF FinishLevel, inputs, EnterLevel
<1>2. IsSequence(next') /\ DOMAIN next' = {}
  BY <1>1, EmptyIsSequence, SequenceDomain
<1>3. DOMAIN level' \subseteq Nat \ {0} /\ DOMAIN level = 1..Len(level) /\ Len(level) \in Nat
  BY <1>1, SequenceDomain DEF RowsInv, Shape
<1>4. \A n : OpenAt(n)' <=> OpenAt(n)
  BY <1>1, <1>2, <1>3 DEF OpenAt
<1>5. \A r \in Row : OpenRow(r)' <=> OpenRow(r)
  BY <1>1, <1>2, <1>3 DEF OpenRow
<1>6. (Grown(tree) /\ ThresholdsFit(tree))'
  BY <1>1 DEF PathInv, Grown, ThresholdsFit
<1>7. OpenLeaves'
  BY <1>1, <1>2, <1>4 DEF PathInv, OpenLeaves
<1>8. RowsArrive'
  BY <1>1, <1>2 DEF PathInv, RowsArrive
<1>9. PaidByTheirLeaf'
  BY <1>1, <1>4, <1>5 DEF PathInv, PaidByTheirLeaf
<1>10. PartsExact' /\ LevelsEnd'
  BY <1>1 DEF PartsExact, LevelsEnd
<1> QED
  BY <1>6, <1>7, <1>8, <1>9, <1>10 DEF PathInv

LEMMA PathInvOther ==
  ASSUME RowsInv, PathInv,
         \/ \E b \in Plan : Work(b) \/ FailBlock(b)
         \/ AbortLevel \/ Finish \/ FailColumn \/ Terminated
         \/ UNCHANGED vars
  PROVE  PathInv'
<1>1. UNCHANGED << tree, bins, level, next, slot, pred >>
  BY DEF Work, AccumulateBlock, SubtractBlock, EnumerateBlock, FailBlock,
         AbortLevel, Finish, FailColumn, Terminated, vars, inputs
<1>2. UNCHANGED << phase, chosen, todo, parts >> \/ phase' \in {"panicked", "failed"}
        \/ (phase' = "done" /\ phase = "leaves" /\ slot = Len(level) + 1)
  BY DEF Work, AccumulateBlock, SubtractBlock, EnumerateBlock, FailBlock,
         AbortLevel, Finish, FailColumn, Terminated, vars, inputs
<1>3. PartsExact'
  BY <1>1, <1>2 DEF PathInv, PartsExact, PartitionRows
<1>4. LevelsEnd'
  BY <1>1, <1>2 DEF PathInv, LevelsEnd
<1> QED
  BY <1>1, <1>3, <1>4, PathInvQuiet

LEMMA PathInvNext ==
  RowsInv /\ PathInv /\ RowsQuantized /\ ChosenFit /\ [Next]_vars => PathInv'
<1> SUFFICES ASSUME RowsInv, PathInv, RowsQuantized, ChosenFit, [Next]_vars PROVE PathInv'
  OBVIOUS
<1>1. CASE Reduce
  BY <1>1, PathInvReduce
<1>2. CASE PartitionFeature
  BY <1>2, PathInvPartitionFeature
<1>3. CASE SettleSlot
  BY <1>3, PathInvSettleSlot
<1>4. CASE SplitSlot
  BY <1>4, PathInvSplitSlot
<1>5. CASE FinishLevel
  BY <1>5, PathInvFinishLevel
<1>6. CASE ApplyLeaf
  BY <1>6, PathInvApplyLeaf
<1>7. CASE \/ \E b \in Plan : Work(b) \/ FailBlock(b)
           \/ AbortLevel \/ Finish \/ FailColumn \/ Terminated
           \/ UNCHANGED vars
  BY <1>7, PathInvOther
<1> QED
  BY <1>1, <1>2, <1>3, <1>4, <1>5, <1>6, <1>7 DEF Next, Main, Failure

----------------------------------------------------------------------------
(***************************************************************************)
(* Folds over finite sets                                                  *)
(***************************************************************************)

LEMMA SmallerSets ==
  ASSUME NEW s, IsFiniteSet(s), NEW x \in s
  PROVE  /\ IsFiniteSet(s \ {x})
         /\ Cardinality(s) \in Nat /\ Cardinality(s \ {x}) = Cardinality(s) - 1
         /\ Cardinality(s) > 0
<1>1. IsFiniteSet(s \ {x}) /\ Cardinality(s \ {x}) = Cardinality(s) - 1
  BY FS_RemoveElement
<1>2. Cardinality(s) \in Nat /\ Cardinality(s \ {x}) \in Nat
  BY <1>1, FS_CardinalityType
<1> QED
  BY <1>1, <1>2

\* A fold over the subsets of S: pick says which element is taken from a set,
\* step what is added for it.
FoldData(S, V, base, pick, step) ==
  /\ IsFiniteSet(S) /\ base \in V
  /\ \A s \in SUBSET S : s # {} => pick[s] \in s
  /\ \A x \in S, v \in V : step[<< x, v >>] \in V

IsFoldOf(F, S, base, pick, step) ==
  \A s \in SUBSET S :
    F[s] = IF s = {} THEN base ELSE step[<< pick[s], F[s \ {pick[s]}] >>]

LEMMA FoldExists ==
  ASSUME NEW S, NEW V, NEW base, NEW pick, NEW step, FoldData(S, V, base, pick, step)
  PROVE  \E F \in [SUBSET S -> V] : IsFoldOf(F, S, base, pick, step)
<1> USE DEF FoldData
<1> DEFINE Body(F, s) == IF s = {} THEN base ELSE step[<< pick[s], F[s \ {pick[s]}] >>]
           Right(F, k) == \A s \in SUBSET S : Cardinality(s) < k => F[s] = Body(F, s)
           K == {k \in Nat : \E F \in [SUBSET S -> V] : Right(F, k)}
<1>1. \A s \in SUBSET S : IsFiniteSet(s) /\ Cardinality(s) \in Nat
  BY FS_Subset, FS_CardinalityType
<1>2. 0 \in K
  <2>1. [s \in SUBSET S |-> base] \in [SUBSET S -> V]
    OBVIOUS
  <2>2. Right([s \in SUBSET S |-> base], 0)
    BY <1>1
  <2> QED
    BY <2>1, <2>2
<1>3. ASSUME NEW k \in K PROVE k + 1 \in K
  <2>1. k \in Nat
    OBVIOUS
  <2>2. PICK F \in [SUBSET S -> V] : Right(F, k)
    OBVIOUS
  <2> DEFINE G == [s \in SUBSET S |-> IF Cardinality(s) < k THEN F[s] ELSE Body(F, s)]
  <2>3. \A s \in SUBSET S : Body(F, s) \in V
    OBVIOUS
  <2> HIDE DEF Body
  <2>4. G \in [SUBSET S -> V]
    BY <2>3
  <2>5. ASSUME NEW s \in SUBSET S, Cardinality(s) < k + 1
        PROVE  Body(G, s) = Body(F, s)
    <3>1. CASE s = {}
      BY <3>1 DEF Body
    <3>2. CASE s # {}
      <4>1. pick[s] \in s /\ s \ {pick[s]} \in SUBSET S
        BY <3>2
      <4>2. Cardinality(s \ {pick[s]}) < k
        BY <1>1, <2>1, <2>5, <4>1, SmallerSets
      <4>3. G[s \ {pick[s]}] = F[s \ {pick[s]}]
        BY <4>1, <4>2
      <4> HIDE DEF G
      <4> QED
        BY <3>2, <4>3 DEF Body
    <3> QED
      BY <3>1, <3>2
  <2>6. ASSUME NEW s \in SUBSET S, Cardinality(s) < k + 1
        PROVE  G[s] = Body(G, s)
    BY <2>2, <2>5, <2>6
  <2> HIDE DEF G
  <2> QED
    BY <2>1, <2>4, <2>6
<1>4. K \in SUBSET Nat
  OBVIOUS
<1> HIDE DEF K
<1>5. Cardinality(S) + 1 \in K
  BY <1>1, <1>2, <1>3, <1>4, NatSetInduction
<1>6. PICK F \in [SUBSET S -> V] : Right(F, Cardinality(S) + 1)
  BY <1>5 DEF K
<1>7. \A s \in SUBSET S : F[s] = Body(F, s)
  BY <1>1, <1>6, FS_Subset
<1> QED
  BY <1>7, Zenon DEF IsFoldOf

\* Two functions that agree on a set as soon as they do on the set with one
\* element taken away are the same.
AgreeStepwise(S, F, G) ==
  /\ F[{}] = G[{}]
  /\ \A s \in SUBSET S : s # {} =>
       \E x \in s : F[s \ {x}] = G[s \ {x}] => F[s] = G[s]

LEMMA FoldUnique ==
  ASSUME NEW S, IsFiniteSet(S), NEW F, NEW G, AgreeStepwise(S, F, G)
  PROVE  \A s \in SUBSET S : F[s] = G[s]
<1> USE DEF AgreeStepwise
<1> DEFINE K == {k \in Nat : \A s \in SUBSET S : Cardinality(s) < k => F[s] = G[s]}
<1>1. \A s \in SUBSET S : IsFiniteSet(s) /\ Cardinality(s) \in Nat
  BY FS_Subset, FS_CardinalityType
<1>2. 0 \in K
  BY <1>1
<1>3. ASSUME NEW k \in K PROVE k + 1 \in K
  <2>1. k \in Nat /\ \A s \in SUBSET S : Cardinality(s) < k => F[s] = G[s]
    OBVIOUS
  <2>2. ASSUME NEW s \in SUBSET S, Cardinality(s) < k + 1
        PROVE  F[s] = G[s]
    <3>1. CASE s = {}
      BY <3>1
    <3>2. CASE s # {}
      <4>1. PICK x \in s : F[s \ {x}] = G[s \ {x}] => F[s] = G[s]
        BY <3>2
      <4>2. Cardinality(s \ {x}) < k /\ s \ {x} \in SUBSET S
        BY <1>1, <2>1, <2>2, <4>1, SmallerSets
      <4> QED
        BY <2>1, <4>1, <4>2
    <3> QED
      BY <3>1, <3>2
  <2> QED
    BY <2>1, <2>2
<1>4. K \in SUBSET Nat
  OBVIOUS
<1> HIDE DEF K
<1>5. Cardinality(S) + 1 \in K
  BY <1>1, <1>2, <1>3, <1>4, NatSetInduction
<1> QED
  BY <1>1, <1>5, FS_Subset DEF K

----------------------------------------------------------------------------
(***************************************************************************)
(* Sums of gradient pairs                                                  *)
(***************************************************************************)

\* Fixed-point pairs: addition is exact and its order does not matter.
LEMMA PlusPair ==
  ASSUME NEW a \in GradPairFixed, NEW b \in GradPairFixed
  PROVE  /\ Plus(a, b) \in GradPairFixed /\ Minus(a, b) \in GradPairFixed
         /\ Plus(a, b) = Plus(b, a)
         /\ Plus(a, Zero) = a /\ Zero \in GradPairFixed
         /\ Minus(Plus(a, b), b) = a /\ Minus(Plus(a, b), a) = b
         /\ Minus(a, Minus(a, b)) = b
<1>1. /\ Plus(a, b) \in GradPairFixed /\ Minus(a, b) \in GradPairFixed
      /\ Zero \in GradPairFixed /\ Plus(a, b) = Plus(b, a)
  BY DEF Plus, Minus, Zero, GradPairFixed
<1>2. /\ a.grad \in Int /\ a.hess \in Int /\ b.grad \in Int /\ b.hess \in Int
      /\ a = [grad |-> a.grad, hess |-> a.hess] /\ b = [grad |-> b.grad, hess |-> b.hess]
  BY DEF GradPairFixed
<1>3. Plus(a, Zero) = [grad |-> a.grad, hess |-> a.hess]
  BY <1>2 DEF Plus, Zero
<1>4. /\ Minus(Plus(a, b), b) = [grad |-> a.grad, hess |-> a.hess]
      /\ Minus(Plus(a, b), a) = [grad |-> b.grad, hess |-> b.hess]
  BY <1>2 DEF Plus, Minus
<1>5. Minus(a, Minus(a, b)) = [grad |-> b.grad, hess |-> b.hess]
  BY <1>2 DEF Minus
<1> QED
  BY <1>1, <1>2, <1>3, <1>4, <1>5

LEMMA PlusAssociates ==
  ASSUME NEW a \in GradPairFixed, NEW b \in GradPairFixed, NEW c \in GradPairFixed
  PROVE  Plus(a, Plus(b, c)) = Plus(Plus(a, b), c) /\ Plus(a, Plus(b, c)) = Plus(b, Plus(a, c))
BY DEF Plus, GradPairFixed

IsGrads(g, S) == \A r \in S : g[r] \in GradPairFixed

\* The fold behind NodeSum, as a function of the subsets.
IsSumFold(F, S, g) ==
  \A s \in SUBSET S :
    F[s] = IF s = {} THEN Zero
           ELSE Plus(g[CHOOSE x \in s : TRUE], F[s \ {CHOOSE x \in s : TRUE}])

LEMMA SumFold ==
  ASSUME NEW S, IsFiniteSet(S), NEW g, IsGrads(g, S)
  PROVE  \E F :
           /\ IsSumFold(F, S, g)
           /\ \A s \in SUBSET S : F[s] \in GradPairFixed
           /\ F[S] = NodeSum(g, S)
<1> DEFINE pick == [s \in SUBSET S |-> CHOOSE x \in s : TRUE]
           step == [p \in S \X GradPairFixed |-> Plus(g[p[1]], p[2])]
           IsFold(F) == F = [s \in SUBSET S |->
                               IF s = {} THEN Zero
                               ELSE Plus(g[CHOOSE x \in s : TRUE],
                                         F[s \ {CHOOSE x \in s : TRUE}])]
<1>1. NodeSum(g, S) = (CHOOSE F : IsFold(F))[S]
  BY DEF NodeSum, FoldFunctionOnSet, MapThenFoldSet
<1>2. /\ \A s \in SUBSET S : s # {} => pick[s] \in s
      /\ \A x \in S, v \in GradPairFixed : step[<< x, v >>] \in GradPairFixed
  <2>1. \A s \in SUBSET S : s # {} => pick[s] \in s
    OBVIOUS
  <2>2. \A x \in S, v \in GradPairFixed : Plus(g[x], v) \in GradPairFixed
    BY PlusPair DEF IsGrads
  <2> QED
    BY <2>1, <2>2
<1>3. \A s \in SUBSET S : s # {} => pick[s] = CHOOSE x \in s : TRUE
  OBVIOUS
<1>4. \A x \in S, v \in GradPairFixed : step[<< x, v >>] = Plus(g[x], v)
  OBVIOUS
<1> HIDE DEF pick, step
<1>5. PICK F \in [SUBSET S -> GradPairFixed] : IsFoldOf(F, S, Zero, pick, step)
  <2>1. Zero \in GradPairFixed
    BY DEF Zero, GradPairFixed
  <2>2. FoldData(S, GradPairFixed, Zero, pick, step)
    BY <1>2, <2>1 DEF FoldData
  <2> QED
    BY <2>2, FoldExists
<1>6. \A s \in SUBSET S :
        F[s] = IF s = {} THEN Zero
               ELSE Plus(g[CHOOSE x \in s : TRUE], F[s \ {CHOOSE x \in s : TRUE}])
  <2> SUFFICES ASSUME NEW s \in SUBSET S, s # {}
               PROVE  F[s] = Plus(g[pick[s]], F[s \ {pick[s]}])
    BY <1>3, <1>5 DEF IsFoldOf
  <2>1. pick[s] \in S /\ F[s \ {pick[s]}] \in GradPairFixed
    BY <1>2, <1>5
  <2> QED
    BY <1>4, <1>5, <2>1 DEF IsFoldOf
<1>7. F = [s \in SUBSET S |-> F[s]]
  BY <1>5
<1>8. \E G : IsFold(G)
  <2>1. [s \in SUBSET S |-> F[s]] =
          [s \in SUBSET S |-> IF s = {} THEN Zero
             ELSE Plus(g[CHOOSE x \in s : TRUE], F[s \ {CHOOSE x \in s : TRUE}])]
    BY <1>6
  <2>2. IsFold(F)
    BY <1>7, <2>1, Zenon
  <2> QED
    BY <2>2, Zenon
<1>9. IsFold(CHOOSE G : IsFold(G))
  BY <1>8
<1> DEFINE G == CHOOSE G : IsFold(G)
<1>10. \A s \in SUBSET S :
        G[s] = IF s = {} THEN Zero
               ELSE Plus(g[CHOOSE x \in s : TRUE], G[s \ {CHOOSE x \in s : TRUE}])
  BY <1>9, Zenon
<1>11. NodeSum(g, S) = G[S]
  BY <1>1, Zenon
<1> HIDE DEF G, IsFold
<1>12. \A s \in SUBSET S : F[s] = G[s]
  <2>1. F[{}] = G[{}]
    BY <1>6, <1>10
  <2>2. \A s \in SUBSET S : s # {} =>
          (F[s \ {pick[s]}] = G[s \ {pick[s]}] => F[s] = G[s])
    <3> SUFFICES ASSUME NEW s \in SUBSET S, s # {}, F[s \ {pick[s]}] = G[s \ {pick[s]}]
                 PROVE  F[s] = G[s]
      OBVIOUS
    <3>1. F[s] = Plus(g[CHOOSE x \in s : TRUE], F[s \ {CHOOSE x \in s : TRUE}])
      BY <1>6, Zenon
    <3>2. G[s] = Plus(g[CHOOSE x \in s : TRUE], G[s \ {CHOOSE x \in s : TRUE}])
      BY <1>10, Zenon
    <3>3. pick[s] = CHOOSE x \in s : TRUE
      BY <1>3, Zenon
    <3> QED
      BY <3>1, <3>2, <3>3, Zenon
  <2>3. \A s \in SUBSET S : s # {} => \E x \in s : F[s \ {x}] = G[s \ {x}] => F[s] = G[s]
    BY <1>2, <2>2, Zenon
  <2>4. AgreeStepwise(S, F, G)
    BY <2>1, <2>3, Zenon DEF AgreeStepwise
  <2> QED
    BY <2>4, FoldUnique
<1>13. \A s \in SUBSET S : G[s] \in GradPairFixed
  BY <1>5, <1>12
<1> QED
  BY <1>10, <1>11, <1>13, Zenon DEF IsSumFold

\* What a sum over a part of S is does not depend on S.
LEMMA SumOfPart ==
  ASSUME NEW S, IsFiniteSet(S), NEW g, IsGrads(g, S), NEW F,
         IsSumFold(F, S, g), NEW T \in SUBSET S
  PROVE  NodeSum(g, T) = F[T]
<1>1. IsFiniteSet(T) /\ IsGrads(g, T)
  BY FS_Subset DEF IsGrads
<1>2. PICK G : IsSumFold(G, T, g) /\ G[T] = NodeSum(g, T)
  BY <1>1, SumFold, Zenon
<1>3. F[{}] = G[{}]
  BY <1>2 DEF IsSumFold
<1>4. \A s \in SUBSET T : s # {} => \E x \in s : F[s \ {x}] = G[s \ {x}] => F[s] = G[s]
  <2> SUFFICES ASSUME NEW s \in SUBSET T, s # {}
               PROVE  \E x \in s : F[s \ {x}] = G[s \ {x}] => F[s] = G[s]
    OBVIOUS
  <2> DEFINE x == CHOOSE x \in s : TRUE
  <2>1. x \in s /\ s \in SUBSET S
    OBVIOUS
  <2>2. F[s] = Plus(g[x], F[s \ {x}]) /\ G[s] = Plus(g[x], G[s \ {x}])
    BY <1>2, <2>1, Zenon DEF IsSumFold
  <2> HIDE DEF x
  <2> QED
    BY <2>1, <2>2
<1>5. \A s \in SUBSET T : F[s] = G[s]
  <2>1. AgreeStepwise(T, F, G)
    BY <1>3, <1>4, Zenon DEF AgreeStepwise
  <2> QED
    BY <1>1, <2>1, FoldUnique
<1> QED
  BY <1>2, <1>5

LEMMA SumIsPair ==
  ASSUME NEW S, IsFiniteSet(S), NEW g, IsGrads(g, S)
  PROVE  NodeSum(g, S) \in GradPairFixed
<1>1. PICK F : (\A s \in SUBSET S : F[s] \in GradPairFixed) /\ F[S] = NodeSum(g, S)
  BY SumFold, Zenon
<1> QED
  BY <1>1

LEMMA SumEmpty ==
  ASSUME NEW g
  PROVE  NodeSum(g, {}) = Zero
<1>1. IsFiniteSet({}) /\ IsGrads(g, {})
  BY FS_EmptySet DEF IsGrads
<1>2. PICK F : IsSumFold(F, {}, g) /\ F[{}] = NodeSum(g, {})
  BY <1>1, SumFold, Zenon
<1> QED
  BY <1>2 DEF IsSumFold

\* One element is taken away: the one the fold picks.
LEMMA SumPick ==
  ASSUME NEW S, IsFiniteSet(S), S # {}, NEW g, IsGrads(g, S)
  PROVE  \E x \in S : NodeSum(g, S) = Plus(g[x], NodeSum(g, S \ {x}))
<1>1. PICK F : IsSumFold(F, S, g) /\ F[S] = NodeSum(g, S)
  BY SumFold, Zenon
<1> DEFINE x == CHOOSE x \in S : TRUE
<1>2. x \in S
  OBVIOUS
<1>3. F[S] = Plus(g[x], F[S \ {x}])
  BY <1>1, Zenon DEF IsSumFold
<1> HIDE DEF x
<1>4. S \ {x} \in SUBSET S
  OBVIOUS
<1>5. NodeSum(g, S \ {x}) = F[S \ {x}]
  BY <1>1, <1>4, SumOfPart
<1> QED
  BY <1>1, <1>2, <1>3, <1>5

\* One element is taken away: any.
LEMMA SumRemove ==
  ASSUME NEW S, IsFiniteSet(S), NEW g, IsGrads(g, S), NEW x \in S
  PROVE  NodeSum(g, S) = Plus(g[x], NodeSum(g, S \ {x}))
<1> DEFINE K == {k \in Nat : \A s \in SUBSET S : Cardinality(s) = k =>
                   \A y \in s : NodeSum(g, s) = Plus(g[y], NodeSum(g, s \ {y}))}
<1>1. \A s \in SUBSET S : /\ IsFiniteSet(s) /\ Cardinality(s) \in Nat /\ IsGrads(g, s)
                          /\ NodeSum(g, s) \in GradPairFixed
  BY FS_Subset, FS_CardinalityType, SumIsPair DEF IsGrads
<1>2. 0 \in K
  BY <1>1, FS_EmptySet
<1>3. ASSUME NEW k \in K PROVE k + 1 \in K
  <2>1. k \in Nat /\ \A s \in SUBSET S : Cardinality(s) = k =>
                       \A y \in s : NodeSum(g, s) = Plus(g[y], NodeSum(g, s \ {y}))
    OBVIOUS
  <2>2. ASSUME NEW s \in SUBSET S, Cardinality(s) = k + 1, NEW y \in s
        PROVE  NodeSum(g, s) = Plus(g[y], NodeSum(g, s \ {y}))
    <3>1. PICK z \in s : NodeSum(g, s) = Plus(g[z], NodeSum(g, s \ {z}))
      BY <1>1, SumPick
    <3>2. CASE y = z
      BY <3>1, <3>2
    <3>3. CASE y # z
      <4>1. s \ {z} \in SUBSET S /\ s \ {y} \in SUBSET S /\ s \ {y, z} \in SUBSET S
            /\ y \in s \ {z} /\ z \in s \ {y}
            /\ (s \ {z}) \ {y} = s \ {y, z} /\ (s \ {y}) \ {z} = s \ {y, z}
        BY <3>3
      <4>2. Cardinality(s \ {z}) = k /\ Cardinality(s \ {y}) = k
        BY <1>1, <2>1, <2>2, SmallerSets
      <4>3. NodeSum(g, s \ {z}) = Plus(g[y], NodeSum(g, s \ {y, z}))
        BY <2>1, <4>1, <4>2
      <4>4. NodeSum(g, s \ {y}) = Plus(g[z], NodeSum(g, s \ {y, z}))
        BY <2>1, <4>1, <4>2
      <4>5. g[y] \in GradPairFixed /\ g[z] \in GradPairFixed
            /\ NodeSum(g, s \ {y, z}) \in GradPairFixed
        BY <1>1, <4>1 DEF IsGrads
      <4> QED
        BY <3>1, <4>3, <4>4, <4>5, PlusAssociates
    <3> QED
      BY <3>2, <3>3
  <2> QED
    BY <2>1, <2>2
<1>4. K \in SUBSET Nat
  OBVIOUS
<1> HIDE DEF K
<1>5. Cardinality(S) \in K /\ S \in SUBSET S
  BY <1>1, <1>2, <1>3, <1>4, NatSetInduction
<1> QED
  BY <1>5 DEF K

\* The sum over two sets without a common row is the sum of the sums.
LEMMA SumUnion ==
  ASSUME NEW S, IsFiniteSet(S), NEW g, IsGrads(g, S), NEW A \in SUBSET S, NEW B \in SUBSET S,
         A \cap B = {}
  PROVE  NodeSum(g, A \cup B) = Plus(NodeSum(g, A), NodeSum(g, B))
<1> DEFINE K == {k \in Nat : \A s \in SUBSET A : Cardinality(s) = k =>
                   NodeSum(g, s \cup B) = Plus(NodeSum(g, s), NodeSum(g, B))}
<1>1. \A s \in SUBSET S : /\ IsFiniteSet(s) /\ Cardinality(s) \in Nat /\ IsGrads(g, s)
                          /\ NodeSum(g, s) \in GradPairFixed
  BY FS_Subset, FS_CardinalityType, SumIsPair DEF IsGrads
<1>2. 0 \in K
  <2>1. \A s \in SUBSET A : Cardinality(s) = 0 => s = {}
    BY <1>1, FS_EmptySet
  <2>2. Plus(Zero, NodeSum(g, B)) = NodeSum(g, B)
    BY <1>1, PlusPair
  <2>3. {} \cup B = B
    OBVIOUS
  <2> QED
    BY <2>1, <2>2, <2>3, SumEmpty
<1>3. ASSUME NEW k \in K PROVE k + 1 \in K
  <2>1. k \in Nat /\ \A s \in SUBSET A : Cardinality(s) = k =>
                       NodeSum(g, s \cup B) = Plus(NodeSum(g, s), NodeSum(g, B))
    OBVIOUS
  <2>2. ASSUME NEW s \in SUBSET A, Cardinality(s) = k + 1
        PROVE  NodeSum(g, s \cup B) = Plus(NodeSum(g, s), NodeSum(g, B))
    <3>1. PICK x : x \in s
      BY <1>1, <2>1, <2>2, FS_EmptySet
    <3>2. /\ s \in SUBSET S /\ s \cup B \in SUBSET S /\ s \ {x} \in SUBSET A
          /\ s \ {x} \in SUBSET S
          /\ (s \cup B) \ {x} = (s \ {x}) \cup B /\ x \in s \cup B
      BY <3>1
    <3>3. Cardinality(s \ {x}) = k
      BY <1>1, <2>1, <2>2, <3>1, <3>2, SmallerSets
    <3>4. NodeSum(g, (s \ {x}) \cup B) = Plus(NodeSum(g, s \ {x}), NodeSum(g, B))
      BY <2>1, <3>2, <3>3
    <3>5. NodeSum(g, s \cup B) = Plus(g[x], NodeSum(g, (s \ {x}) \cup B))
      <4>1. NodeSum(g, s \cup B) = Plus(g[x], NodeSum(g, (s \cup B) \ {x}))
        BY <1>1, <3>2, SumRemove
      <4> QED
        BY <3>2, <4>1
    <3>6. NodeSum(g, s) = Plus(g[x], NodeSum(g, s \ {x}))
      BY <1>1, <3>1, <3>2, SumRemove
    <3>7. /\ g[x] \in GradPairFixed /\ NodeSum(g, s \ {x}) \in GradPairFixed
          /\ NodeSum(g, B) \in GradPairFixed
      BY <1>1, <3>1, <3>2 DEF IsGrads
    <3> QED
      BY <3>4, <3>5, <3>6, <3>7, PlusAssociates
  <2> QED
    BY <2>1, <2>2
<1>4. K \in SUBSET Nat
  OBVIOUS
<1> HIDE DEF K
<1>5. Cardinality(A) \in K /\ A \in SUBSET A
  BY <1>1, <1>2, <1>3, <1>4, NatSetInduction
<1> QED
  BY <1>5 DEF K

----------------------------------------------------------------------------
(***************************************************************************)
(* Sequences of sequences                                                  *)
(***************************************************************************)

\* The stages of a flattening.
LEMMA FlattenStages ==
  ASSUME NEW V, NEW seqs, IsSequence(seqs), \A i \in 1..Len(seqs) : seqs[i] \in Seq(V)
  PROVE  \E P \in [0..Len(seqs) -> Seq(V)] :
           /\ P[0] = << >>
           /\ \A i \in 1..Len(seqs) : P[i] = P[i - 1] \o seqs[i]
           /\ FlattenSeq(seqs) = P[Len(seqs)]
<1> DEFINE n == Len(seqs)
           Body(F, i) == IF i = 1 THEN seqs[i] ELSE F[i-1] \o seqs[i]
           IsFlatten(F) == F = [i \in 1..n |-> Body(F, i)]
           K == {k \in Nat : \E F \in [1..n -> Seq(V)] :
                               \A i \in 1..n : i <= k => F[i] = Body(F, i)}
<1>1. n \in Nat
  BY SequenceDomain
<1>2. 0 \in K
  <2> DEFINE F == [i \in 1..n |-> << >>]
  <2>1. F \in [1..n -> Seq(V)]
    OBVIOUS
  <2>2. \A i \in 1..n : ~(i <= 0)
    OBVIOUS
  <2> HIDE DEF F, Body
  <2>3. \E E \in [1..n -> Seq(V)] : \A i \in 1..n : i <= 0 => E[i] = Body(E, i)
    BY <2>1, <2>2
  <2> QED
    BY <2>3
<1>3. ASSUME NEW k \in K PROVE k + 1 \in K
  <2>1. k \in Nat
    OBVIOUS
  <2>2. PICK F \in [1..n -> Seq(V)] : \A i \in 1..n : i <= k => F[i] = Body(F, i)
    OBVIOUS
  <2> DEFINE G == [i \in 1..n |-> IF i <= k THEN F[i] ELSE Body(F, i)]
  <2>3. \A i \in 1..n : Body(F, i) \in Seq(V)
    <3> SUFFICES ASSUME NEW i \in 1..n PROVE Body(F, i) \in Seq(V)
      OBVIOUS
    <3>0. i # 1 => i - 1 \in 1..n
      BY <1>1
    <3>1. seqs[i] \in Seq(V) /\ (i # 1 => F[i-1] \in Seq(V))
      BY <3>0
    <3> QED
      BY <3>1
  <2>4. \A i \in 1..n : i <= k + 1 => Body(G, i) = Body(F, i)
    BY <1>1, <2>1
  <2> HIDE DEF Body
  <2>5. G \in [1..n -> Seq(V)]
    BY <2>3
  <2>6. \A i \in 1..n : i <= k + 1 => G[i] = Body(G, i)
    <3> SUFFICES ASSUME NEW i \in 1..n, i <= k + 1 PROVE G[i] = Body(G, i)
      OBVIOUS
    <3>1. G[i] = Body(F, i)
      BY <2>2
    <3> QED
      BY <2>4, <3>1
  <2> HIDE DEF G
  <2> QED
    BY <2>1, <2>5, <2>6
<1>4. K \in SUBSET Nat
  OBVIOUS
<1> HIDE DEF K
<1>5. n \in K
  BY <1>1, <1>2, <1>3, <1>4, NatSetInduction
<1>6. PICK F \in [1..n -> Seq(V)] : \A i \in 1..n : F[i] = Body(F, i)
  BY <1>1, <1>5 DEF K
<1>7. \E G : IsFlatten(G)
  <2>1. F = [i \in 1..n |-> F[i]]
    BY <1>6
  <2>2. [i \in 1..n |-> F[i]] = [i \in 1..n |-> Body(F, i)]
    BY <1>6
  <2>3. IsFlatten(F)
    BY <2>1, <2>2, Zenon
  <2> QED
    BY <2>3, Zenon
<1> DEFINE G == CHOOSE G : IsFlatten(G)
<1>8. FlattenSeq(seqs) = IF n = 0 THEN seqs ELSE G[n]
  BY DEF FlattenSeq
<1>9. \A i \in 1..n : G[i] = Body(G, i)
  <2>1. IsFlatten(G)
    BY <1>7, Zenon
  <2> QED
    BY <2>1, Zenon
<1> HIDE DEF G, IsFlatten
<1>10. \A i \in 1..n : G[i] = F[i]
  <2> DEFINE L == {k \in Nat : \A i \in 1..n : i <= k => G[i] = F[i]}
  <2>1. 0 \in L
    BY <1>1
  <2>2. ASSUME NEW k \in L PROVE k + 1 \in L
    <3>1. k \in Nat /\ \A i \in 1..n : i <= k => G[i] = F[i]
      OBVIOUS
    <3>2. ASSUME NEW i \in 1..n, i <= k + 1
          PROVE  G[i] = F[i]
      <4>1. CASE i = 1
        BY <1>6, <1>9, <4>1
      <4>2. CASE i # 1
        <5>1. i - 1 \in 1..n /\ i - 1 <= k
          BY <1>1, <3>1, <3>2, <4>2
        <5>2. G[i - 1] = F[i - 1]
          BY <3>1, <5>1
        <5>3. G[i] = G[i - 1] \o seqs[i] /\ F[i] = F[i - 1] \o seqs[i]
          BY <1>6, <1>9, <4>2, Zenon
        <5> QED
          BY <5>2, <5>3
      <4> QED
        BY <4>1, <4>2
    <3> QED
      BY <3>1, <3>2
  <2>3. L \in SUBSET Nat
    OBVIOUS
  <2> HIDE DEF L
  <2>4. n \in L
    BY <1>1, <2>1, <2>2, <2>3, NatSetInduction
  <2> QED
    BY <1>1, <2>4 DEF L
<1> DEFINE P == [i \in 0..n |-> IF i = 0 THEN << >> ELSE F[i]]
<1>11. P \in [0..n -> Seq(V)]
  BY <1>1
<1>12. P[0] = << >>
  BY <1>1
<1>13. \A i \in 1..n : P[i] = P[i - 1] \o seqs[i]
  <2> SUFFICES ASSUME NEW i \in 1..n PROVE P[i] = P[i - 1] \o seqs[i]
    OBVIOUS
  <2>1. P[i] = F[i] /\ seqs[i] \in Seq(V)
    BY <1>1
  <2>2. CASE i = 1
    <3>0. F[i] = seqs[i]
      BY <1>6, <2>2
    <3>1. F[i] = seqs[i] /\ P[i - 1] = << >>
      BY <1>12, <2>2, <3>0
    <3>2. \A s \in Seq(V) : << >> \o s = s
      OBVIOUS
    <3> QED
      BY <2>1, <3>1, <3>2
  <2>3. CASE i # 1
    <3>1. P[i - 1] = F[i - 1]
      BY <1>1, <2>3
    <3> QED
      BY <1>6, <2>1, <2>3, <3>1
  <2> QED
    BY <2>2, <2>3
<1>14. FlattenSeq(seqs) = P[n]
  <2>1. CASE n = 0
    <3>1. seqs = << >>
      BY <2>1 DEF IsSequence
    <3> QED
      BY <1>8, <1>12, <2>1, <3>1
  <2>2. CASE n # 0
    BY <1>1, <1>8, <1>10, <2>2
  <2> QED
    BY <2>1, <2>2
<1> HIDE DEF P
<1> QED
  BY <1>11, <1>12, <1>13, <1>14

\* u is s followed by t.
Joins(u, s, t) ==
  /\ Len(s) \in Nat /\ Len(t) \in Nat /\ Len(u) = Len(s) + Len(t)
  /\ \A j \in 1..Len(s) : j \in 1..Len(u) /\ u[j] = s[j]
  /\ \A k \in 1..Len(t) : Len(s) + k \in 1..Len(u) /\ u[Len(s) + k] = t[k]
  /\ \A j \in 1..Len(u) : j > Len(s) => j - Len(s) \in 1..Len(t) /\ u[j] = t[j - Len(s)]

LEMMA ConcatJoins ==
  ASSUME NEW V, NEW s \in Seq(V), NEW t \in Seq(V), NEW u, u = s \o t
  PROVE  Joins(u, s, t)
BY DEF Joins

LEMMA FlattenIn ==
  ASSUME NEW V, NEW seqs, IsSequence(seqs), \A i \in 1..Len(seqs) : seqs[i] \in Seq(V)
  PROVE  FlattenSeq(seqs) \in Seq(V)
<1>1. PICK P \in [0..Len(seqs) -> Seq(V)] : FlattenSeq(seqs) = P[Len(seqs)]
  BY FlattenStages
<1>2. Len(seqs) \in 0..Len(seqs)
  BY SequenceDomain
<1> QED
  BY <1>1, <1>2

\* Every element of a part is in the whole.
LEMMA FlattenHas ==
  ASSUME NEW V, NEW seqs, IsSequence(seqs), \A i \in 1..Len(seqs) : seqs[i] \in Seq(V),
         NEW i \in 1..Len(seqs), NEW k \in 1..Len(seqs[i])
  PROVE  \E j \in 1..Len(FlattenSeq(seqs)) : FlattenSeq(seqs)[j] = seqs[i][k]
<1> DEFINE n == Len(seqs)
<1>1. n \in Nat
  BY SequenceDomain
<1>2. PICK P \in [0..n -> Seq(V)] :
        /\ \A m \in 1..n : P[m] = P[m - 1] \o seqs[m]
        /\ FlattenSeq(seqs) = P[n]
  BY FlattenStages
<1> DEFINE Has(m) == \E j \in 1..Len(P[m]) : P[m][j] = seqs[i][k]
           K == {m \in Nat : i + m <= n => Has(i + m)}
<1>3. 0 \in K
  <2>1. i - 1 \in 0..n /\ i + 0 = i /\ i \in 0..n
    BY <1>1
  <2>2. P[i] = P[i - 1] \o seqs[i] /\ P[i - 1] \in Seq(V) /\ seqs[i] \in Seq(V)
    BY <1>2, <2>1
  <2>3. /\ Len(P[i - 1]) + k \in 1..Len(P[i])
        /\ P[i][Len(P[i - 1]) + k] = seqs[i][k]
    <3>1. Joins(P[i], P[i - 1], seqs[i])
      BY <2>2, ConcatJoins
    <3> QED
      BY <3>1 DEF Joins
  <2> QED
    BY <2>1, <2>3
<1>4. ASSUME NEW m \in K PROVE m + 1 \in K
  <2>0. m \in Nat /\ (i + m <= n => Has(i + m))
    OBVIOUS
  <2> HIDE DEF Has
  <2>1. SUFFICES ASSUME i + (m + 1) <= n PROVE Has(i + (m + 1))
    BY <2>0
  <2>2. m \in Nat /\ i + m <= n /\ i + m \in 0..n
    BY <1>1, <2>0, <2>1
  <2> USE DEF Has
  <2> DEFINE q == i + m + 1
  <2>3. q \in 1..n /\ q - 1 = i + m /\ q = i + (m + 1)
    BY <1>1, <2>1, <2>2
  <2>4. PICK j \in 1..Len(P[q - 1]) : P[q - 1][j] = seqs[i][k]
    BY <2>0, <2>2, <2>3
  <2> HIDE DEF q
  <2>5. P[q] = P[q - 1] \o seqs[q] /\ P[q - 1] \in Seq(V) /\ seqs[q] \in Seq(V)
    BY <1>1, <1>2, <2>2, <2>3
  <2>6. j \in 1..Len(P[q]) /\ P[q][j] = P[q - 1][j]
    <3>1. Joins(P[q], P[q - 1], seqs[q])
      BY <2>5, ConcatJoins
    <3> QED
      BY <3>1 DEF Joins
  <2>7. Has(q)
    BY <2>4, <2>6
  <2> QED
    BY <2>3, <2>7
<1>5. K \in SUBSET Nat
  OBVIOUS
<1> HIDE DEF K
<1>7. n - i \in Nat /\ i + (n - i) = n
  BY <1>1
<1>6. n - i \in K
  BY <1>3, <1>4, <1>5, <1>7, NatSetInduction
<1> QED
  BY <1>1, <1>2, <1>6, <1>7 DEF K

\* A whole is ordered when its parts are and one part precedes the next.
LEMMA FlattenOrdered ==
  ASSUME NEW V, NEW seqs, IsSequence(seqs), \A i \in 1..Len(seqs) : seqs[i] \in Seq(V),
         NEW R,
         \A i \in 1..Len(seqs) : \A j, k \in 1..Len(seqs[i]) :
           j < k => << seqs[i][j], seqs[i][k] >> \in R,
         \A i, j \in 1..Len(seqs) : i < j =>
           \A k \in 1..Len(seqs[i]) : \A l \in 1..Len(seqs[j]) :
             << seqs[i][k], seqs[j][l] >> \in R
  PROVE  \A j, k \in 1..Len(FlattenSeq(seqs)) :
           j < k => << FlattenSeq(seqs)[j], FlattenSeq(seqs)[k] >> \in R
<1> DEFINE n == Len(seqs)
<1>1. n \in Nat
  BY SequenceDomain
<1>2. PICK P \in [0..n -> Seq(V)] :
        /\ P[0] = << >>
        /\ \A m \in 1..n : P[m] = P[m - 1] \o seqs[m]
        /\ FlattenSeq(seqs) = P[n]
  BY FlattenStages
<1> DEFINE Old(m) == \A j \in 1..Len(P[m]) : \E i \in 1..m : \E k \in 1..Len(seqs[i]) :
                       P[m][j] = seqs[i][k]
           Ordered(m) == \A j, k \in 1..Len(P[m]) : j < k => << P[m][j], P[m][k] >> \in R
           K == {m \in Nat : m <= n => Old(m) /\ Ordered(m)}
<1>3. 0 \in K
  BY <1>2
<1>4. ASSUME NEW m \in K PROVE m + 1 \in K
  <2>1. SUFFICES ASSUME m + 1 <= n PROVE Old(m + 1) /\ Ordered(m + 1)
    OBVIOUS
  <2>2. m \in Nat /\ m <= n /\ m \in 0..n /\ m + 1 \in 1..n /\ (m + 1) - 1 = m
    BY <1>1, <2>1
  <2>3. Old(m) /\ Ordered(m)
    BY <2>2
  <2>4. P[m + 1] = P[m] \o seqs[m + 1] /\ P[m] \in Seq(V) /\ seqs[m + 1] \in Seq(V)
    BY <1>2, <2>2
  <2> DEFINE a == Len(P[m])
             b == Len(seqs[m + 1])
  <2>5. /\ a \in Nat /\ b \in Nat /\ Len(P[m + 1]) = a + b
        /\ \A j \in 1..a : P[m + 1][j] = P[m][j]
        /\ \A j \in 1..(a + b) : j > a => j - a \in 1..b /\ P[m + 1][j] = seqs[m + 1][j - a]
    <3>1. Joins(P[m + 1], P[m], seqs[m + 1])
      BY <2>4, ConcatJoins
    <3> QED
      BY <3>1 DEF Joins
  <2> HIDE DEF a, b
  <2>6. ASSUME NEW j \in 1..Len(P[m + 1])
        PROVE  \E i \in 1..(m + 1) : \E k \in 1..Len(seqs[i]) : P[m + 1][j] = seqs[i][k]
    <3>1. CASE j <= a
      <4>1. j \in 1..Len(P[m])
        BY <2>5, <3>1 DEF a
      <4>2. PICK i \in 1..m : \E k \in 1..Len(seqs[i]) : P[m][j] = seqs[i][k]
        BY <2>3, <4>1
      <4>3. i \in 1..(m + 1) /\ P[m + 1][j] = P[m][j]
        BY <2>2, <2>5, <3>1
      <4> QED
        BY <4>2, <4>3
    <3>2. CASE j > a
      <4>1. j - a \in 1..Len(seqs[m + 1]) /\ P[m + 1][j] = seqs[m + 1][j - a]
        BY <2>5, <3>2 DEF b
      <4>2. m + 1 \in 1..(m + 1)
        BY <2>2
      <4>3. \E k \in 1..Len(seqs[m + 1]) : P[m + 1][j] = seqs[m + 1][k]
        BY <4>1
      <4> QED
        BY <4>2, <4>3
    <3>3. j <= a \/ j > a
      BY <2>5
    <3> QED
      BY <3>1, <3>2, <3>3
  <2>7. ASSUME NEW j \in 1..Len(P[m + 1]), NEW k \in 1..Len(P[m + 1]), j < k
        PROVE  << P[m + 1][j], P[m + 1][k] >> \in R
    <3>1. CASE k <= a
      <4>1. j \in 1..Len(P[m]) /\ k \in 1..Len(P[m]) /\ P[m + 1][j] = P[m][j]
            /\ P[m + 1][k] = P[m][k]
        BY <2>5, <2>7, <3>1 DEF a
      <4> QED
        BY <2>3, <2>7, <4>1
    <3>2. CASE j > a
      <4>1. /\ j - a \in 1..Len(seqs[m + 1]) /\ k - a \in 1..Len(seqs[m + 1])
            /\ P[m + 1][j] = seqs[m + 1][j - a] /\ P[m + 1][k] = seqs[m + 1][k - a]
            /\ j - a < k - a
        BY <2>5, <2>7, <3>2 DEF b
      <4> QED
        BY <2>2, <4>1
    <3>3. CASE j <= a /\ k > a
      <4>1. /\ j \in 1..Len(P[m]) /\ k - a \in 1..Len(seqs[m + 1])
            /\ P[m + 1][j] = P[m][j] /\ P[m + 1][k] = seqs[m + 1][k - a]
        <5>1. j \in 1..a /\ k \in 1..(a + b) /\ k > a
          BY <2>5, <2>7, <3>3
        <5>2. P[m + 1][j] = P[m][j] /\ k - a \in 1..b /\ P[m + 1][k] = seqs[m + 1][k - a]
          BY <2>5, <5>1
        <5> QED
          BY <5>1, <5>2 DEF a, b
      <4>2. PICK i \in 1..m : \E l \in 1..Len(seqs[i]) : P[m][j] = seqs[i][l]
        BY <2>3, <4>1
      <4>3. i \in 1..n /\ i < m + 1
        BY <1>1, <2>2
      <4>4. PICK l \in 1..Len(seqs[i]) : P[m][j] = seqs[i][l]
        BY <4>2
      <4>5. m + 1 \in 1..n
        BY <2>2
      <4>6. << seqs[i][l], seqs[m + 1][k - a] >> \in R
        BY <4>1, <4>3, <4>5
      <4> QED
        BY <4>1, <4>4, <4>6
    <3> QED
      BY <2>5, <3>1, <3>2, <3>3
  <2> QED
    BY <2>6, <2>7
<1>5. K \in SUBSET Nat
  OBVIOUS
<1> HIDE DEF K
<1>6. n \in K
  BY <1>1, <1>3, <1>4, <1>5, NatSetInduction
<1> QED
  BY <1>1, <1>2, <1>6 DEF K

----------------------------------------------------------------------------
(***************************************************************************)
(* The first of the best candidates                                        *)
(***************************************************************************)

\* b is what the first n candidates leave: the first of those with the most gain.
FirstBest(s, n, b) ==
  \/ /\ b = NoSplit
     /\ \A i \in 1..n : s[i].gain <= 0
  \/ \E i \in 1..n :
       /\ b = s[i] /\ s[i].gain > 0
       /\ \A j \in 1..n : s[j].gain <= s[i].gain
       /\ \A j \in 1..(i - 1) : s[j].gain < s[i].gain

LEMMA UpdateKeepsFirstBest ==
  ASSUME NEW s, NEW n \in Nat, \A i \in 1..(n + 1) : s[i].gain \in Int, NEW b,
         FirstBest(s, n, b)
  PROVE  FirstBest(s, n + 1, UpdateBest(b, s[n + 1]))
<1> DEFINE c == s[n + 1]
<1> SUFFICES FirstBest(s, n + 1, UpdateBest(b, c))
  OBVIOUS
<1>1. NoSplit.gain = 0 /\ n + 1 \in 1..(n + 1) /\ c.gain \in Int
  BY DEF NoSplit
<1>2. CASE b = NoSplit /\ \A i \in 1..n : s[i].gain <= 0
  <2>1. CASE c.gain > 0
    <3>1. UpdateBest(b, c) = c
      BY <1>2, <2>1 DEF UpdateBest
    <3>2. \A j \in 1..(n + 1) : s[j].gain <= c.gain
      BY <1>1, <1>2, <2>1
    <3>3. \A j \in 1..((n + 1) - 1) : s[j].gain < c.gain
      BY <1>1, <1>2, <2>1
    <3> QED
      BY <1>1, <2>1, <3>1, <3>2, <3>3 DEF FirstBest
  <2>2. CASE ~(c.gain > 0)
    <3>1. UpdateBest(b, c) = NoSplit
      BY <1>2, <2>2 DEF UpdateBest
    <3>2. \A i \in 1..(n + 1) : s[i].gain <= 0
      BY <1>1, <1>2, <2>2
    <3> QED
      BY <3>1, <3>2 DEF FirstBest
  <2> QED
    BY <2>1, <2>2
<1>3. ASSUME NEW i \in 1..n, b = s[i], s[i].gain > 0,
             \A j \in 1..n : s[j].gain <= s[i].gain,
             \A j \in 1..(i - 1) : s[j].gain < s[i].gain
      PROVE  FirstBest(s, n + 1, UpdateBest(b, c))
  <2>0. b # NoSplit /\ i \in 1..(n + 1) /\ s[i].gain \in Int
    BY <1>1, <1>3
  <2>1. CASE c.gain > s[i].gain
    <3>1. UpdateBest(b, c) = c /\ c.gain > 0
      BY <1>1, <1>3, <2>0, <2>1 DEF UpdateBest
    <3>2. \A j \in 1..(n + 1) : s[j].gain <= c.gain
      BY <1>1, <1>3, <2>0, <2>1
    <3>3. \A j \in 1..((n + 1) - 1) : s[j].gain < c.gain
      BY <1>1, <1>3, <2>0, <2>1
    <3> QED
      BY <1>1, <3>1, <3>2, <3>3 DEF FirstBest
  <2>2. CASE ~(c.gain > s[i].gain)
    <3>1. UpdateBest(b, c) = s[i]
      BY <1>3, <2>0, <2>2 DEF UpdateBest
    <3>2. \A j \in 1..(n + 1) : s[j].gain <= s[i].gain
      BY <1>1, <1>3, <2>0, <2>2
    <3> QED
      BY <1>3, <2>0, <3>1, <3>2 DEF FirstBest
  <2> QED
    BY <2>1, <2>2
<1>4. CASE \E i \in 1..n :
             /\ b = s[i] /\ s[i].gain > 0
             /\ \A j \in 1..n : s[j].gain <= s[i].gain
             /\ \A j \in 1..(i - 1) : s[j].gain < s[i].gain
  BY <1>3, <1>4, Zenon
<1>5. \/ b = NoSplit /\ \A i \in 1..n : s[i].gain <= 0
      \/ \E i \in 1..n :
           /\ b = s[i] /\ s[i].gain > 0
           /\ \A j \in 1..n : s[j].gain <= s[i].gain
           /\ \A j \in 1..(i - 1) : s[j].gain < s[i].gain
  BY DEF FirstBest
<1> HIDE DEF c
<1> QED
  BY <1>2, <1>4, <1>5

\* The reduction of candidates keeps the first of the best.
LEMMA FoldIsFirstBest ==
  ASSUME NEW s, IsSequence(s), \A i \in 1..Len(s) : s[i].gain \in Int
  PROVE  FirstBest(s, Len(s), FoldLeft(UpdateBest, NoSplit, s))
<1> DEFINE n == Len(s)
           D == 1..n
           V == {NoSplit} \cup {s[i] : i \in D}
           pick == [t \in SUBSET D |-> Max(t)]
           step == [p \in D \X V |-> UpdateBest(p[2], s[p[1]])]
           IsFold(F) == F = [t \in SUBSET D |->
                               IF t = {} THEN NoSplit
                               ELSE UpdateBest(F[t \ {Max(t)}], s[Max(t)])]
<1>1. n \in Nat /\ DOMAIN s = D
  BY SequenceDomain
<1>2. FoldLeft(UpdateBest, NoSplit, s) = (CHOOSE F : IsFold(F))[D]
  BY <1>1 DEF FoldLeft, MapThenFoldSet
<1>3. IsFiniteSet(D)
  BY <1>1, FS_Interval
<1>4. FoldData(D, V, NoSplit, pick, step)
  <2>1. \A t \in SUBSET D : t # {} => pick[t] \in t
    BY <1>1, MaxIsIn
  <2>2. \A x \in D, v \in V : UpdateBest(v, s[x]) \in V
    BY DEF UpdateBest
  <2>3. \A x \in D, v \in V : step[<< x, v >>] \in V
    BY <2>2
  <2>4. NoSplit \in V
    OBVIOUS
  <2> HIDE DEF V, pick, step, D
  <2> QED
    BY <1>3, <2>1, <2>3, <2>4 DEF FoldData
<1>5. \A x \in D, v \in V : step[<< x, v >>] = UpdateBest(v, s[x])
  OBVIOUS
<1>6. \A t \in SUBSET D : pick[t] = Max(t)
  OBVIOUS
<1>7. \A t \in SUBSET D : t # {} => Max(t) \in t
  BY <1>1, MaxIsIn
<1> HIDE DEF V, pick, step, D
<1>8. PICK F \in [SUBSET D -> V] : IsFoldOf(F, D, NoSplit, pick, step)
  BY <1>4, FoldExists
<1>9. \A t \in SUBSET D : F[t] = IF t = {} THEN NoSplit
                                 ELSE UpdateBest(F[t \ {Max(t)}], s[Max(t)])
  <2> SUFFICES ASSUME NEW t \in SUBSET D
               PROVE  F[t] = IF t = {} THEN NoSplit
                             ELSE UpdateBest(F[t \ {Max(t)}], s[Max(t)])
    OBVIOUS
  <2>1. CASE t = {}
    BY <1>8, <2>1 DEF IsFoldOf
  <2>2. CASE t # {}
    <3>1. F[t] = step[<< Max(t), F[t \ {Max(t)}] >>]
      BY <1>6, <1>8, <2>2 DEF IsFoldOf
    <3>2. Max(t) \in D /\ F[t \ {Max(t)}] \in V
      BY <1>7, <1>8, <2>2
    <3> QED
      BY <1>5, <2>2, <3>1, <3>2
  <2> QED
    BY <2>1, <2>2
<1>10. \E G : IsFold(G)
  <2>1. F = [t \in SUBSET D |-> F[t]]
    BY <1>8
  <2>2. [t \in SUBSET D |-> F[t]] =
          [t \in SUBSET D |-> IF t = {} THEN NoSplit
                              ELSE UpdateBest(F[t \ {Max(t)}], s[Max(t)])]
    BY <1>9
  <2>3. IsFold(F)
    BY <2>1, <2>2, Zenon
  <2> QED
    BY <2>3, Zenon
<1> DEFINE G == CHOOSE G : IsFold(G)
<1>11. \A t \in SUBSET D : G[t] = IF t = {} THEN NoSplit
                                  ELSE UpdateBest(G[t \ {Max(t)}], s[Max(t)])
  <2>1. IsFold(G)
    BY <1>10, Zenon
  <2> QED
    BY <2>1, Zenon
<1>12. FoldLeft(UpdateBest, NoSplit, s) = G[D]
  BY <1>2, Zenon
<1> HIDE DEF G, IsFold
<1> DEFINE K == {k \in Nat : k <= n => FirstBest(s, k, G[1..k])}
<1>13. 0 \in K
  <2>1. 1..0 = {} /\ {} \in SUBSET D
    OBVIOUS
  <2>2. G[{}] = NoSplit
    BY <1>11, <2>1
  <2>3. FirstBest(s, 0, G[1..0])
    BY <2>1, <2>2 DEF FirstBest
  <2> QED
    BY <2>3
<1>14. ASSUME NEW k \in K PROVE k + 1 \in K
  <2>1. k \in Nat /\ (k <= n => FirstBest(s, k, G[1..k]))
    OBVIOUS
  <2>2. SUFFICES ASSUME k + 1 <= n PROVE FirstBest(s, k + 1, G[1..(k + 1)])
    BY <2>1
  <2>a. 1..(k + 1) \in SUBSET (1..n)
    BY <1>1, <2>1, <2>2
  <2>b. (1..(k + 1)) \ {k + 1} = 1..k
    BY <2>1
  <2>3. /\ k <= n /\ 1..(k + 1) \in SUBSET D /\ 1..(k + 1) # {}
        /\ k + 1 \in 1..(k + 1) /\ (1..(k + 1)) \ {k + 1} = 1..k
    <3>1. k <= n /\ k + 1 \in 1..(k + 1)
      BY <1>1, <2>1, <2>2
    <3>2. 1..(k + 1) \in SUBSET D
      BY <2>a DEF D
    <3> QED
      BY <2>b, <3>1, <3>2
  <2>4. Max(1..(k + 1)) = k + 1
    <3>0. 1..(k + 1) \in SUBSET (1..(k + 1)) /\ k + 1 \in Nat
      BY <2>1
    <3>1. Max(1..(k + 1)) \in 1..(k + 1) /\ Max(1..(k + 1)) >= k + 1
      BY <3>0, <2>3, MaxIsIn
    <3> QED
      BY <2>1, <3>1
  <2>5. G[1..(k + 1)] = UpdateBest(G[1..k], s[k + 1])
    BY <1>11, <2>3, <2>4
  <2>6. \A i \in 1..(k + 1) : s[i].gain \in Int
    BY <1>1, <2>1, <2>2
  <2> QED
    BY <2>1, <2>3, <2>5, <2>6, UpdateKeepsFirstBest
<1>15. K \in SUBSET Nat
  OBVIOUS
<1> HIDE DEF K
<1>16. n \in K
  BY <1>1, <1>13, <1>14, <1>15, NatSetInduction
<1> QED
  BY <1>1, <1>12, <1>16 DEF K, D

----------------------------------------------------------------------------
(***************************************************************************)
(* Prefix sums and the candidates of a scan                                *)
(***************************************************************************)

\* The prefix sums of a histogram.
LEMMA SumBelowIs ==
  ASSUME NEW n \in Nat, NEW h, DOMAIN h = 0..(n - 1),
         \A k \in 0..(n - 1) : h[k] \in GradPairFixed
  PROVE  /\ Cardinality(DOMAIN h) = n
         /\ SumBelow(h)[0] = Zero
         /\ \A i \in 1..n : SumBelow(h)[i] = Plus(SumBelow(h)[i - 1], h[i - 1])
<1> DEFINE Body(F, i) == IF i = 0 THEN Zero ELSE Plus(F[i - 1], h[i - 1])
           IsSums(F) == F = [i \in 0..n |-> Body(F, i)]
           K == {k \in Nat : \E F \in [0..n -> GradPairFixed] :
                               \A i \in 0..n : i <= k => F[i] = Body(F, i)}
<1>1. Cardinality(DOMAIN h) = n
  <2>1. Cardinality(0..(n - 1)) = n
    BY FS_Interval
  <2> QED
    BY <2>1
<1>2. \A F \in [0..n -> GradPairFixed], i \in 0..n : Body(F, i) \in GradPairFixed
  <2> SUFFICES ASSUME NEW F \in [0..n -> GradPairFixed], NEW i \in 0..n
               PROVE  Body(F, i) \in GradPairFixed
    OBVIOUS
  <2>1. CASE i = 0
    BY <2>1, PlusPair
  <2>2. CASE i # 0
    <3>1. F[i - 1] \in GradPairFixed /\ h[i - 1] \in GradPairFixed
      BY <2>2
    <3> QED
      BY <2>2, <3>1, PlusPair
  <2> QED
    BY <2>1, <2>2
<1>3. 0 \in K
  <2> DEFINE F == [i \in 0..n |-> Zero]
  <2>1. F \in [0..n -> GradPairFixed]
    BY DEF Zero, GradPairFixed
  <2>2. \A i \in 0..n : i <= 0 => F[i] = Body(F, i)
    OBVIOUS
  <2> HIDE DEF F, Body
  <2> QED
    BY <2>1, <2>2
<1>4. ASSUME NEW k \in K PROVE k + 1 \in K
  <2>1. k \in Nat
    OBVIOUS
  <2>2. PICK F \in [0..n -> GradPairFixed] : \A i \in 0..n : i <= k => F[i] = Body(F, i)
    OBVIOUS
  <2> DEFINE G == [i \in 0..n |-> IF i <= k THEN F[i] ELSE Body(F, i)]
  <2>3. G \in [0..n -> GradPairFixed]
    <3>1. \A i \in 0..n : Body(F, i) \in GradPairFixed /\ F[i] \in GradPairFixed
      BY <1>2
    <3> HIDE DEF Body
    <3> QED
      BY <3>1
  <2>4. ASSUME NEW i \in 0..n, i <= k + 1 PROVE G[i] = Body(G, i)
    <3>1. G[i] = Body(F, i)
      <4>1. CASE i <= k
        BY <2>2, <4>1
      <4>2. CASE ~(i <= k)
        BY <4>2
      <4> QED
        BY <4>1, <4>2
    <3>2. i # 0 => G[i - 1] = F[i - 1]
      BY <2>1, <2>4
    <3> QED
      BY <3>1, <3>2
  <2> HIDE DEF G, Body
  <2> QED
    BY <2>1, <2>3, <2>4
<1>5. K \in SUBSET Nat
  OBVIOUS
<1> HIDE DEF K
<1>6. n \in K
  BY <1>3, <1>4, <1>5, NatSetInduction
<1>7. PICK F \in [0..n -> GradPairFixed] : \A i \in 0..n : i <= n => F[i] = Body(F, i)
  BY <1>6 DEF K
<1>8. IsSums(F)
  <2>1. F = [i \in 0..n |-> F[i]]
    OBVIOUS
  <2>2. \A i \in 0..n : F[i] = Body(F, i)
    BY <1>7
  <2> HIDE DEF Body
  <2>3. [i \in 0..n |-> F[i]] = [i \in 0..n |-> Body(F, i)]
    BY <2>2
  <2> QED
    BY <2>1, <2>3, Zenon
<1> DEFINE s == CHOOSE E : IsSums(E)
<1>9. SumBelow(h) = s
  BY <1>1 DEF SumBelow
<1>10. IsSums(s)
  BY <1>8, Zenon
<1>11. \A i \in 0..n : s[i] = Body(s, i)
  BY <1>10, Zenon
<1> HIDE DEF s
<1> QED
  BY <1>1, <1>9, <1>11

\* The rows in bin k of a feature, and those in the bins below i.
RowsAt(m, rows, f, k) == {r \in rows : m[r][f] = k}
RowsBelow(m, rows, f, i) == {r \in rows : m[r][f] \in 0..(i - 1)}

\* The histogram of n bins that the rows have in feature f.
IsHistOf(h, g, m, rows, f, n) ==
  h = [k \in 0..(n - 1) |-> NodeSum(g, RowsAt(m, rows, f, k))]

\* The prefix sums are the sums of the rows in the bins below.
LEMMA PrefixSums ==
  ASSUME NEW S, IsFiniteSet(S), NEW g, IsGrads(g, S), NEW m, NEW f, NEW n \in Nat, NEW h,
         IsHistOf(h, g, m, S, f, n)
  PROVE  /\ Cardinality(DOMAIN h) = n
         /\ \A i \in 0..n : SumBelow(h)[i] = NodeSum(g, RowsBelow(m, S, f, i))
<1> USE DEF IsHistOf
<1> DEFINE At(k) == RowsAt(m, S, f, k)
           Below(i) == RowsBelow(m, S, f, i)
           K == {k \in Nat : k <= n => SumBelow(h)[k] = NodeSum(g, Below(k))}
<1>1. \A k \in 0..(n - 1) : h[k] = NodeSum(g, At(k))
  OBVIOUS
<1>2. \A k \in 0..(n - 1) : h[k] \in GradPairFixed
  <2>1. \A k : IsFiniteSet(At(k)) /\ IsGrads(g, At(k))
    BY FS_Subset DEF IsGrads, RowsAt
  <2> HIDE DEF At
  <2> QED
    BY <1>1, <2>1, SumIsPair
<1>3. DOMAIN h = 0..(n - 1)
  OBVIOUS
<1>4. /\ Cardinality(DOMAIN h) = n
      /\ SumBelow(h)[0] = Zero
      /\ \A i \in 1..n : SumBelow(h)[i] = Plus(SumBelow(h)[i - 1], h[i - 1])
  BY <1>2, <1>3, SumBelowIs
<1>5. 0 \in K
  <2>1. Below(0) = {}
    BY DEF RowsBelow
  <2> HIDE DEF Below
  <2> QED
    BY <1>4, <2>1, SumEmpty
<1>6. ASSUME NEW k \in K PROVE k + 1 \in K
  <2>1. k \in Nat /\ (k <= n => SumBelow(h)[k] = NodeSum(g, Below(k)))
    OBVIOUS
  <2> HIDE DEF Below
  <2>2. SUFFICES ASSUME k + 1 <= n PROVE SumBelow(h)[k + 1] = NodeSum(g, Below(k + 1))
    BY <2>1
  <2>3. k \in 0..(n - 1) /\ k + 1 \in 1..n /\ (k + 1) - 1 = k
    BY <2>1, <2>2
  <2>4. SumBelow(h)[k + 1] = Plus(NodeSum(g, Below(k)), NodeSum(g, At(k)))
    <3>1. h[k] = NodeSum(g, At(k))
      BY <1>1, <2>3
    <3>2. SumBelow(h)[k] = NodeSum(g, Below(k))
      BY <2>1, <2>2
    <3>3. SumBelow(h)[k + 1] = Plus(SumBelow(h)[(k + 1) - 1], h[(k + 1) - 1])
      BY <1>4, <2>3
    <3> QED
      BY <2>3, <3>1, <3>2, <3>3, Zenon
  <2>5. /\ Below(k) \in SUBSET S /\ At(k) \in SUBSET S
        /\ Below(k) \cap At(k) = {} /\ Below(k) \cup At(k) = Below(k + 1)
    BY <2>1 DEF Below, RowsBelow, RowsAt
  <2> HIDE DEF At
  <2>6. NodeSum(g, Below(k) \cup At(k)) = Plus(NodeSum(g, Below(k)), NodeSum(g, At(k)))
    BY <2>5, SumUnion
  <2> QED
    BY <2>4, <2>5, <2>6
<1>7. K \in SUBSET Nat
  OBVIOUS
<1> HIDE DEF K
<1>8. K = Nat
  BY <1>5, <1>6, <1>7, NatSetInduction
<1> HIDE DEF Below
<1>9. \A i \in 0..n : SumBelow(h)[i] = NodeSum(g, Below(i))
  <2> SUFFICES ASSUME NEW i \in 0..n PROVE SumBelow(h)[i] = NodeSum(g, Below(i))
    OBVIOUS
  <2>1. i \in K /\ i <= n
    BY <1>8
  <2> QED
    BY <2>1 DEF K
<1> USE DEF Below
<1> QED
  BY <1>4, <1>9

\* What is left of a sum.
LEMMA SumRest ==
  ASSUME NEW S, IsFiniteSet(S), NEW g, IsGrads(g, S), NEW A \in SUBSET S
  PROVE  /\ NodeSum(g, A) \in GradPairFixed /\ NodeSum(g, S \ A) \in GradPairFixed
         /\ NodeSum(g, S) = Plus(NodeSum(g, A), NodeSum(g, S \ A))
         /\ Minus(NodeSum(g, S), NodeSum(g, A)) = NodeSum(g, S \ A)
<1>1. A \cup (S \ A) = S /\ A \cap (S \ A) = {} /\ S \ A \in SUBSET S
  OBVIOUS
<1>2. IsFiniteSet(A) /\ IsFiniteSet(S \ A) /\ IsGrads(g, A) /\ IsGrads(g, S \ A)
  BY FS_Subset DEF IsGrads
<1>3. NodeSum(g, A) \in GradPairFixed /\ NodeSum(g, S \ A) \in GradPairFixed
  BY <1>2, SumIsPair
<1>4. NodeSum(g, A \cup (S \ A)) = Plus(NodeSum(g, A), NodeSum(g, S \ A))
  BY <1>1, SumUnion
<1>5. Minus(Plus(NodeSum(g, A), NodeSum(g, S \ A)), NodeSum(g, A)) = NodeSum(g, S \ A)
  BY <1>3, PlusPair
<1> QED
  BY <1>1, <1>3, <1>4, <1>5

\* The inputs of a tree, as the proofs need them.
Inputs ==
  /\ RowsQuantized
  /\ IsGrads(gpair, Row)
  /\ \A r \in Row, f \in Feature : bins[r][f] \in BinsOf(f) \cup {MISSING_BIN}
  /\ sampled \subseteq Feature
  /\ IsSequence(plans)
  /\ \A b \in Plan : plans[b] \in Seq(Feature)

LeftRows(rows, f, bin, missing_left) ==
  {r \in rows : GoesLeft(bins[r][f], bin, missing_left)}

\* A split, computed from the rows alone.
RowSplit(rows, f, bin, missing_left) ==
  LET lrows == LeftRows(rows, f, bin, missing_left)
      left  == NodeSum(gpair, lrows)
      right == NodeSum(gpair, rows \ lrows)
  IN  [feat |-> f, bin |-> bin,
       gain |-> SplitGain(Gain(NodeSum(gpair, rows)), left, right),
       left |-> left, right |-> right, missing_left |-> missing_left]

\* The splits of a feature that leave both sides heavy enough.
SplitsOf(rows, f) ==
  {c \in {RowSplit(rows, f, b, FALSE) : b \in 1..NBins[f]} \cup
         {RowSplit(rows, f, b, TRUE) : b \in 0..(NBins[f] - 1)} :
     HeavyEnough(c.left, c.right)}

LEMMA RowSplitFields ==
  ASSUME NEW rows, NEW f, NEW bin, NEW ml, NEW left, NEW right,
         left = NodeSum(gpair, LeftRows(rows, f, bin, ml)),
         right = NodeSum(gpair, rows \ LeftRows(rows, f, bin, ml))
  PROVE  RowSplit(rows, f, bin, ml) =
           [feat |-> f, bin |-> bin,
            gain |-> SplitGain(Gain(NodeSum(gpair, rows)), left, right),
            left |-> left, right |-> right, missing_left |-> ml]
BY DEF RowSplit

LEMMA RowsHaveSums ==
  ASSUME Inputs, NEW rows \in SUBSET Row
  PROVE  IsFiniteSet(rows) /\ IsGrads(gpair, rows)
BY BuildParams, FS_Subset DEF Inputs, IsGrads

\* A scan's candidate is the one computed from the rows, if its sides are heavy enough.
LEMMA CandidateIs ==
  ASSUME Inputs, NEW rows \in SUBSET Row, NEW f, NEW bin, NEW ml, NEW left,
         left = NodeSum(gpair, LeftRows(rows, f, bin, ml))
  PROVE  LET c == RowSplit(rows, f, bin, ml)
         IN  Candidate(f, bin, left, NodeSum(gpair, rows), ml) =
               IF HeavyEnough(c.left, c.right) THEN << c >> ELSE << >>
<1>1. PICK right : right = NodeSum(gpair, rows \ LeftRows(rows, f, bin, ml))
  OBVIOUS
<1>2. LeftRows(rows, f, bin, ml) \in SUBSET rows
  BY DEF LeftRows
<1>3. Minus(NodeSum(gpair, rows), left) = right
  BY <1>1, <1>2, RowsHaveSums, SumRest
<1>4. PICK c : c = RowSplit(rows, f, bin, ml)
  OBVIOUS
<1>5. /\ c.left = left /\ c.right = right
      /\ c = [feat |-> f, bin |-> bin,
              gain |-> SplitGain(Gain(NodeSum(gpair, rows)), left, right),
              left |-> left, right |-> right, missing_left |-> ml]
  BY <1>1, <1>4, RowSplitFields
<1>6. Candidate(f, bin, left, NodeSum(gpair, rows), ml) =
        IF HeavyEnough(left, right) THEN << c >> ELSE << >>
  BY <1>3, <1>5 DEF Candidate
<1> QED
  BY <1>4, <1>5, <1>6

\* What the prefix sums say about the two sides of a split.
LEMMA SidesFromSums ==
  ASSUME Inputs, NEW rows \in SUBSET Row, NEW f \in Feature, NEW h,
         IsHistOf(h, gpair, bins, rows, f, NBins[f])
  PROVE  LET n == NBins[f]
             above(b) == Minus(SumBelow(h)[n], SumBelow(h)[b])
         IN  /\ Cardinality(DOMAIN h) = n
             /\ \A i \in 1..n : SumBelow(h)[i] = NodeSum(gpair, LeftRows(rows, f, i, FALSE))
             /\ \A b \in 0..(n - 1) :
                  Minus(NodeSum(gpair, rows), above(b)) =
                    NodeSum(gpair, LeftRows(rows, f, b, TRUE))
             /\ SumBelow(h)[n] = NodeSum(gpair, LeftRows(rows, f, n, FALSE))
<1> DEFINE n == NBins[f]
           Below(i) == RowsBelow(bins, rows, f, i)
<1>1. n \in Nat /\ n >= 1 /\ n <= 255
  BY NBinsFit
<1>2. IsFiniteSet(rows) /\ IsGrads(gpair, rows)
  BY RowsHaveSums
<1>3. /\ Cardinality(DOMAIN h) = n
      /\ \A i \in 0..n : SumBelow(h)[i] = NodeSum(gpair, Below(i))
  <2>1. IsHistOf(h, gpair, bins, rows, f, n)
    OBVIOUS
  <2> HIDE DEF n
  <2>2. /\ Cardinality(DOMAIN h) = n
        /\ \A i \in 0..n : SumBelow(h)[i] = NodeSum(gpair, RowsBelow(bins, rows, f, i))
    BY <1>1, <1>2, <2>1, PrefixSums
  <2> QED
    BY <2>2
<1>4. \A r \in rows : bins[r][f] \in 0..(n - 1) \/ bins[r][f] = 255
  BY DEF Inputs, BinsOf, MISSING_BIN
<1>5. \A i \in 1..n : Below(i) = LeftRows(rows, f, i, FALSE)
  BY <1>1, <1>4 DEF LeftRows, RowsBelow, GoesLeft, MISSING_BIN
<1>6. ASSUME NEW b \in 0..(n - 1)
      PROVE  Minus(NodeSum(gpair, rows), Minus(SumBelow(h)[n], SumBelow(h)[b])) =
               NodeSum(gpair, LeftRows(rows, f, b, TRUE))
  <2> DEFINE Above == Below(n) \ Below(b)
  <2>1. SumBelow(h)[n] = NodeSum(gpair, Below(n)) /\ SumBelow(h)[b] = NodeSum(gpair, Below(b))
    <3>1. n \in 0..n /\ b \in 0..n
      BY <1>1
    <3> HIDE DEF Below
    <3> QED
      BY <1>3, <3>1
  <2>2. Below(b) \in SUBSET Below(n) /\ Below(n) \in SUBSET rows
    BY <1>1 DEF RowsBelow
  <2>3. IsFiniteSet(Below(n)) /\ IsGrads(gpair, Below(n))
    BY <1>2, <2>2, FS_Subset DEF IsGrads
  <2>4. rows \ Above = LeftRows(rows, f, b, TRUE)
    BY <1>1, <1>4 DEF LeftRows, RowsBelow, GoesLeft, MISSING_BIN
  <2>5. Above \in SUBSET rows
    BY <2>2
  <2> HIDE DEF Below
  <2>6. Minus(NodeSum(gpair, Below(n)), NodeSum(gpair, Below(b))) = NodeSum(gpair, Above)
    BY <2>2, <2>3, SumRest
  <2> HIDE DEF Above
  <2>7. Minus(NodeSum(gpair, rows), NodeSum(gpair, Above)) = NodeSum(gpair, rows \ Above)
    BY <1>2, <2>5, SumRest
  <2> QED
    BY <2>1, <2>4, <2>6, <2>7
<1>7. n \in 1..n /\ \A i \in 1..n : i \in 0..n
  BY <1>1
<1> HIDE DEF Below
<1>8. \A i \in 1..n : SumBelow(h)[i] = NodeSum(gpair, LeftRows(rows, f, i, FALSE))
  BY <1>3, <1>5, <1>7
<1> QED
  BY <1>3, <1>6, <1>7, <1>8

LEMMA QuotientIsInt ==
  ASSUME NEW a \in Int, NEW b \in Int, b > 0
  PROVE  a \div b \in Int
OBVIOUS

LEMMA GainIsInt ==
  ASSUME NEW p \in GradPairFixed, p.hess >= 0
  PROVE  Gain(p) \in Int
<1>1. p.hess + Lambda \in Int /\ p.hess + Lambda > 0
  BY ScanParams DEF GradPairFixed
<1>2. p.grad * p.grad * Scale \in Int
  BY ScanParams DEF GradPairFixed
<1> QED
  BY <1>1, <1>2, QuotientIsInt DEF Gain

\* The sides of a split are as heavy as they must be and add up to the node.
LEMMA SidesAddUp ==
  ASSUME Inputs, NEW rows \in SUBSET Row, NEW f \in Feature, NEW c \in SplitsOf(rows, f)
  PROVE  /\ c.left \in GradPairFixed /\ c.right \in GradPairFixed
         /\ c.left.hess >= 0 /\ c.right.hess >= 0
         /\ NodeSum(gpair, rows) = Plus(c.left, c.right)
<1>1. PICK b, ml : c = RowSplit(rows, f, b, ml) /\ HeavyEnough(c.left, c.right)
  BY DEF SplitsOf
<1>2. /\ c.left = NodeSum(gpair, LeftRows(rows, f, b, ml))
      /\ c.right = NodeSum(gpair, rows \ LeftRows(rows, f, b, ml))
  BY <1>1 DEF RowSplit
<1>3. LeftRows(rows, f, b, ml) \in SUBSET rows
  BY DEF LeftRows
<1>4. /\ c.left \in GradPairFixed /\ c.right \in GradPairFixed
      /\ NodeSum(gpair, rows) = Plus(c.left, c.right)
  BY <1>2, <1>3, RowsHaveSums, SumRest
<1>5. c.left.hess >= 0 /\ c.right.hess >= 0
  BY <1>1, <1>4, ScanParams DEF HeavyEnough, GradPairFixed
<1> QED
  BY <1>4, <1>5

\* Its gain is an integer and its sides add up to the node.
LEMMA SplitSides ==
  ASSUME Inputs, NEW rows \in SUBSET Row, NEW f \in Feature, NEW c \in SplitsOf(rows, f)
  PROVE  /\ c.left \in GradPairFixed /\ c.right \in GradPairFixed
         /\ c.left.hess >= 0 /\ c.right.hess >= 0
         /\ NodeSum(gpair, rows) = Plus(c.left, c.right)
         /\ c.gain \in Int
         /\ c.feat = f
         /\ c.left = NodeSum(gpair, LeftRows(rows, f, c.bin, c.missing_left))
         /\ c.right = NodeSum(gpair, rows \ LeftRows(rows, f, c.bin, c.missing_left))
         /\ c.gain = SplitGain(Gain(NodeSum(gpair, rows)), c.left, c.right)
<1>1. PICK b, ml : c = RowSplit(rows, f, b, ml) /\ HeavyEnough(c.left, c.right)
  BY DEF SplitsOf
<1>a. PICK left, right : /\ left = NodeSum(gpair, LeftRows(rows, f, b, ml))
                         /\ right = NodeSum(gpair, rows \ LeftRows(rows, f, b, ml))
  OBVIOUS
<1>b. c = [feat |-> f, bin |-> b,
           gain |-> SplitGain(Gain(NodeSum(gpair, rows)), left, right),
           left |-> left, right |-> right, missing_left |-> ml]
  BY <1>1, <1>a, RowSplitFields
<1>2. /\ c.feat = f /\ c.bin = b /\ c.missing_left = ml
      /\ c.left = NodeSum(gpair, LeftRows(rows, f, b, ml))
      /\ c.right = NodeSum(gpair, rows \ LeftRows(rows, f, b, ml))
      /\ c.gain = SplitGain(Gain(NodeSum(gpair, rows)), c.left, c.right)
  BY <1>a, <1>b
<1>3. /\ c.left \in GradPairFixed /\ c.right \in GradPairFixed
      /\ c.left.hess >= 0 /\ c.right.hess >= 0
      /\ NodeSum(gpair, rows) = Plus(c.left, c.right)
  BY SidesAddUp
<1>6. PICK total : total = NodeSum(gpair, rows)
  OBVIOUS
<1>7. total \in GradPairFixed /\ total.hess >= 0
  BY <1>3, <1>6, PlusPair DEF Plus, GradPairFixed
<1>8. Gain(total) \in Int /\ Gain(c.left) \in Int /\ Gain(c.right) \in Int
  BY <1>3, <1>7, GainIsInt
<1>9. c.gain \in Int
  BY <1>2, <1>6, <1>8, ScanParams DEF SplitGain
<1> QED
  BY <1>2, <1>3, <1>9

LEMMA SequenceOf ==
  ASSUME NEW n \in Nat, NEW V, NEW s \in [1..n -> V]
  PROVE  s \in Seq(V) /\ Len(s) = n /\ IsSequence(s)
<1>1. s \in Seq(V)
  OBVIOUS
<1>2. DOMAIN s = 1..n
  OBVIOUS
<1>3. Len(s) \in Nat /\ DOMAIN s = 1..Len(s)
  BY <1>1
<1>4. Len(s) = n
  BY <1>2, <1>3
<1> QED
  BY <1>1, <1>4, SeqIsSequence

\* The candidate for one split, if it leaves both sides heavy enough.
HeavySplit(rows, f, bin, missing_left) ==
  LET c == RowSplit(rows, f, bin, missing_left)
  IN  IF HeavyEnough(c.left, c.right) THEN << c >> ELSE << >>

\* The candidates of the two scans of a feature, one sequence per bin.
ForwardSplits(rows, f) == [i \in 1..NBins[f] |-> HeavySplit(rows, f, i, FALSE)]
ReverseSplits(rows, f) == [i \in 1..NBins[f] |-> HeavySplit(rows, f, NBins[f] - i, TRUE)]

LEMMA HeavySplitIn ==
  ASSUME NEW rows, NEW f \in Feature, NEW b, NEW ml,
         \/ ml = FALSE /\ b \in 1..NBins[f]
         \/ ml = TRUE /\ b \in 0..(NBins[f] - 1)
  PROVE  HeavySplit(rows, f, b, ml) \in Seq(SplitsOf(rows, f))
<1>1. PICK c : c = RowSplit(rows, f, b, ml)
  OBVIOUS
<1>2. HeavyEnough(c.left, c.right) => c \in SplitsOf(rows, f)
  BY <1>1 DEF SplitsOf
<1>3. HeavySplit(rows, f, b, ml) = IF HeavyEnough(c.left, c.right) THEN << c >> ELSE << >>
  BY <1>1 DEF HeavySplit
<1> QED
  BY <1>2, <1>3

\* The scans of a histogram find the splits of its rows.
LEMMA ScanFromRows ==
  ASSUME Inputs, NEW rows \in SUBSET Row, NEW f \in Feature, NEW h,
         IsHistOf(h, gpair, bins, rows, f, NBins[f])
  PROVE  /\ IsSequence(ForwardSplits(rows, f)) /\ Len(ForwardSplits(rows, f)) = NBins[f]
         /\ IsSequence(ReverseSplits(rows, f)) /\ Len(ReverseSplits(rows, f)) = NBins[f]
         /\ \A i \in 1..NBins[f] : /\ ForwardSplits(rows, f)[i] \in Seq(SplitsOf(rows, f))
                                   /\ ReverseSplits(rows, f)[i] \in Seq(SplitsOf(rows, f))
         /\ ScanFeature(f, h, NodeSum(gpair, rows)) =
              FlattenSeq(ForwardSplits(rows, f)) \o
              (IF NodeSum(gpair, LeftRows(rows, f, NBins[f], FALSE)) = NodeSum(gpair, rows)
               THEN << >> ELSE FlattenSeq(ReverseSplits(rows, f)))
<1> DEFINE n == NBins[f]
           total == NodeSum(gpair, rows)
           above(b) == Minus(SumBelow(h)[n], SumBelow(h)[b])
<1>1. n \in Nat /\ n >= 1 /\ n <= 255
  BY NBinsFit
<1>2. /\ Cardinality(DOMAIN h) = n
      /\ \A i \in 1..n : SumBelow(h)[i] = NodeSum(gpair, LeftRows(rows, f, i, FALSE))
      /\ \A b \in 0..(n - 1) :
           Minus(NodeSum(gpair, rows), above(b)) = NodeSum(gpair, LeftRows(rows, f, b, TRUE))
      /\ SumBelow(h)[n] = NodeSum(gpair, LeftRows(rows, f, n, FALSE))
  BY SidesFromSums
<1>3. ASSUME NEW i \in 1..n
      PROVE  Candidate(f, i, SumBelow(h)[i], total, FALSE) = HeavySplit(rows, f, i, FALSE)
  <2>1. SumBelow(h)[i] = NodeSum(gpair, LeftRows(rows, f, i, FALSE))
    BY <1>2
  <2> QED
    BY <2>1, CandidateIs DEF HeavySplit
<1>4. ASSUME NEW i \in 1..n
      PROVE  /\ n - i \in 0..(n - 1)
             /\ Candidate(f, n - i, Minus(total, above(n - i)), total, TRUE) =
                  HeavySplit(rows, f, n - i, TRUE)
  <2>0. n - i \in 0..(n - 1)
    BY <1>1
  <2>1. PICK b : b = n - i
    OBVIOUS
  <2>2. Minus(total, above(b)) = NodeSum(gpair, LeftRows(rows, f, b, TRUE))
    BY <1>2, <2>0, <2>1
  <2> HIDE DEF above
  <2>3. Candidate(f, b, Minus(total, above(b)), total, TRUE) = HeavySplit(rows, f, b, TRUE)
    BY <2>2, CandidateIs DEF HeavySplit
  <2> QED
    BY <2>0, <2>1, <2>3
<1>5. ForwardScan(f, h, total) = FlattenSeq(ForwardSplits(rows, f))
  <2>1. ForwardScan(f, h, total) =
          FlattenSeq([i \in 1..n |-> Candidate(f, i, SumBelow(h)[i], total, FALSE)])
    BY <1>2 DEF ForwardScan
  <2>2. [i \in 1..n |-> Candidate(f, i, SumBelow(h)[i], total, FALSE)] = ForwardSplits(rows, f)
    BY <1>3 DEF ForwardSplits
  <2> QED
    BY <2>1, <2>2, Zenon
<1>6. ReverseScan(f, h, total) = FlattenSeq(ReverseSplits(rows, f))
  <2>1. ReverseScan(f, h, total) =
          FlattenSeq([i \in 1..n |-> Candidate(f, n - i, Minus(total, above(n - i)), total, TRUE)])
    BY <1>2 DEF ReverseScan
  <2>2. [i \in 1..n |-> Candidate(f, n - i, Minus(total, above(n - i)), total, TRUE)] =
          ReverseSplits(rows, f)
    BY <1>4 DEF ReverseSplits
  <2> QED
    BY <2>1, <2>2, Zenon
<1>7. ScanFeature(f, h, total) =
        FlattenSeq(ForwardSplits(rows, f)) \o
        (IF NodeSum(gpair, LeftRows(rows, f, n, FALSE)) = total
         THEN << >> ELSE FlattenSeq(ReverseSplits(rows, f)))
  BY <1>2, <1>5, <1>6 DEF ScanFeature
<1>8. ASSUME NEW i \in 1..n
      PROVE  /\ ForwardSplits(rows, f)[i] \in Seq(SplitsOf(rows, f))
             /\ ReverseSplits(rows, f)[i] \in Seq(SplitsOf(rows, f))
  BY <1>4, HeavySplitIn DEF ForwardSplits, ReverseSplits
<1>9. /\ ForwardSplits(rows, f) \in Seq(Seq(SplitsOf(rows, f)))
      /\ ReverseSplits(rows, f) \in Seq(Seq(SplitsOf(rows, f)))
      /\ Len(ForwardSplits(rows, f)) = n /\ Len(ReverseSplits(rows, f)) = n
      /\ IsSequence(ForwardSplits(rows, f)) /\ IsSequence(ReverseSplits(rows, f))
  <2>1. /\ ForwardSplits(rows, f) \in [1..n -> Seq(SplitsOf(rows, f))]
        /\ ReverseSplits(rows, f) \in [1..n -> Seq(SplitsOf(rows, f))]
    BY <1>8 DEF ForwardSplits, ReverseSplits
  <2> QED
    BY <1>1, <2>1, SequenceOf
<1> QED
  BY <1>7, <1>8, <1>9

LEMMA ScanFinds ==
  ASSUME Inputs, NEW rows \in SUBSET Row, NEW f \in Feature, NEW h,
         IsHistOf(h, gpair, bins, rows, f, NBins[f])
  PROVE  ScanFeature(f, h, NodeSum(gpair, rows)) \in Seq(SplitsOf(rows, f))
<1> DEFINE V == SplitsOf(rows, f)
<1>1. /\ FlattenSeq(ForwardSplits(rows, f)) \in Seq(V)
      /\ FlattenSeq(ReverseSplits(rows, f)) \in Seq(V)
  <2>1. PICK s, t : s = ForwardSplits(rows, f) /\ t = ReverseSplits(rows, f)
    OBVIOUS
  <2>2. /\ IsSequence(s) /\ \A i \in 1..Len(s) : s[i] \in Seq(V)
        /\ IsSequence(t) /\ \A i \in 1..Len(t) : t[i] \in Seq(V)
    BY <2>1, ScanFromRows
  <2>3. FlattenSeq(s) \in Seq(V) /\ FlattenSeq(t) \in Seq(V)
    BY <2>2, FlattenIn
  <2> QED
    BY <2>1, <2>3
<1>2. PICK s, t, u : /\ s = FlattenSeq(ForwardSplits(rows, f))
                     /\ t = FlattenSeq(ReverseSplits(rows, f))
                     /\ u = NodeSum(gpair, LeftRows(rows, f, NBins[f], FALSE))
  OBVIOUS
<1>3. ScanFeature(f, h, NodeSum(gpair, rows)) =
        s \o (IF u = NodeSum(gpair, rows) THEN << >> ELSE t)
  BY <1>2, ScanFromRows
<1> HIDE DEF V
<1>4. s \in Seq(V) /\ t \in Seq(V) /\ << >> \in Seq(V)
  BY <1>1, <1>2
<1>5. s \o (IF u = NodeSum(gpair, rows) THEN << >> ELSE t) \in Seq(V)
  BY <1>4
<1> QED
  BY <1>3, <1>5 DEF V

\* A block's histograms, as a worker holds them for one node.
HistsOf(hist, b, rows) ==
  hist = BuildHist(FeaturesOf(b), bins, gpair, rows)

LEMMA HistIs ==
  ASSUME NEW b, NEW rows, NEW f \in FeaturesOf(b), NEW hist, HistsOf(hist, b, rows)
  PROVE  IsHistOf(hist[f], gpair, bins, rows, f, NBins[f])
BY DEF HistsOf, BuildHist, IsHistOf, RowsAt, BinsOf

\* The splits a node may make: of a drawn feature, with a positive gain.
GoodSplits(rows) ==
  {c \in UNION {SplitsOf(rows, f) : f \in sampled} : c.gain > 0}

\* The best split of a block is a good one, or there is none.
LEMMA BlockFinds ==
  ASSUME Inputs, NEW rows \in SUBSET Row, NEW b \in Plan, NEW hist, HistsOf(hist, b, rows)
  PROVE  BestSplitInBlock(hist, plans[b], NodeSum(gpair, rows), sampled) \in
           GoodSplits(rows) \cup {NoSplit}
<1> DEFINE fs == plans[b]
           total == NodeSum(gpair, rows)
           V == UNION {SplitsOf(rows, f) : f \in sampled}
           seqs == [k \in 1..Len(fs) |-> IF fs[k] \in sampled
                                         THEN ScanFeature(fs[k], hist[fs[k]], total)
                                         ELSE << >>]
           s == FlattenSeq(seqs)
<1>1. BestSplitInBlock(hist, fs, total, sampled) = FoldLeft(UpdateBest, NoSplit, s)
  BY DEF BestSplitInBlock
<1>2. fs \in Seq(Feature) /\ DOMAIN fs = 1..Len(fs) /\ Len(fs) \in Nat
  BY DEF Inputs
<1>3. ASSUME NEW k \in 1..Len(fs) PROVE seqs[k] \in Seq(V)
  <2>1. CASE fs[k] \in sampled
    <3>1. PICK f \in Feature : f = fs[k] /\ f \in FeaturesOf(b) /\ f \in sampled
      BY <1>2, <2>1 DEF FeaturesOf
    <3>2. ScanFeature(f, hist[f], total) \in Seq(SplitsOf(rows, f))
      BY <3>1, HistIs, ScanFinds
    <3>3. SplitsOf(rows, f) \subseteq V
      BY <3>1
    <3>4. ScanFeature(f, hist[f], total) \in Seq(V)
      <4> HIDE DEF V
      <4> QED
        BY <3>2, <3>3
    <3> QED
      BY <2>1, <3>1, <3>4
  <2>2. CASE fs[k] \notin sampled
    BY <2>2
  <2> QED
    BY <2>1, <2>2
<1> HIDE DEF V
<1>4. seqs \in Seq(Seq(V)) /\ Len(seqs) = Len(fs)
  <2>1. seqs \in [1..Len(fs) -> Seq(V)]
    BY <1>3
  <2> HIDE DEF seqs
  <2> QED
    BY <1>2, <2>1, SequenceOf
<1> HIDE DEF seqs
<1>5. s \in Seq(V)
  <2>1. IsSequence(seqs) /\ \A i \in 1..Len(seqs) : seqs[i] \in Seq(V)
    BY <1>4, SeqIsSequence
  <2> QED
    BY <2>1, FlattenIn
<1> HIDE DEF s
<1>6. IsSequence(s) /\ \A i \in 1..Len(s) : s[i] \in V
  BY <1>5, SeqIsSequence
<1>7. \A c \in V : c.gain \in Int
  <2> SUFFICES ASSUME NEW c \in V PROVE c.gain \in Int
    OBVIOUS
  <2>1. PICK f \in Feature : c \in SplitsOf(rows, f)
    BY DEF V, Inputs
  <2> QED
    BY <2>1, SplitSides
<1>8. FirstBest(s, Len(s), FoldLeft(UpdateBest, NoSplit, s))
  BY <1>6, <1>7, FoldIsFirstBest
<1>9. FoldLeft(UpdateBest, NoSplit, s) \in {c \in V : c.gain > 0} \cup {NoSplit}
  BY <1>6, <1>8 DEF FirstBest
<1> QED
  BY <1>1, <1>9 DEF V, GoodSplits

\* So is the best of all blocks.
LEMMA ReduceFinds ==
  ASSUME Inputs, NEW rows \in SUBSET Row, NEW cands, IsSequence(cands),
         \A b \in 1..Len(cands) : cands[b] \in GoodSplits(rows) \cup {NoSplit}
  PROVE  ReduceBest(cands) \in GoodSplits(rows) \cup {NoSplit}
<1>1. \A c \in GoodSplits(rows) : c.gain \in Int
  <2> SUFFICES ASSUME NEW c \in GoodSplits(rows) PROVE c.gain \in Int
    OBVIOUS
  <2>1. PICK f \in Feature : c \in SplitsOf(rows, f)
    BY DEF GoodSplits, Inputs
  <2> QED
    BY <2>1, SplitSides
<1>2. NoSplit.gain \in Int
  BY DEF NoSplit
<1>3. \A i \in 1..Len(cands) : cands[i].gain \in Int
  BY <1>1, <1>2
<1>4. FirstBest(cands, Len(cands), ReduceBest(cands))
  BY <1>3, FoldIsFirstBest DEF ReduceBest
<1> QED
  BY <1>4 DEF FirstBest

----------------------------------------------------------------------------
(***************************************************************************)
(* Sums and histograms are those of the rows                               *)
(***************************************************************************)

LEMMA DrawnAreFeatures ==
  ASSUME NEW fs \in Seq(Feature), NEW drawn
  PROVE  DrawnOf(fs, drawn) \in Seq(Feature)
<1> DEFINE n == Len(fs)
           s == [k \in 1..n |-> IF fs[k] \in drawn THEN << fs[k] >> ELSE << >>]
<1>1. n \in Nat /\ \A k \in 1..n : fs[k] \in Feature
  OBVIOUS
<1>2. s \in [1..n -> Seq(Feature)]
  BY <1>1
<1>3. DrawnOf(fs, drawn) = FlattenSeq(s)
  BY DEF DrawnOf
<1> HIDE DEF s
<1>4. IsSequence(s) /\ \A i \in 1..Len(s) : s[i] \in Seq(Feature)
  <2>1. s \in Seq(Seq(Feature)) /\ Len(s) = n /\ IsSequence(s)
    BY <1>1, <1>2, SequenceOf
  <2> QED
    BY <1>2, <2>1
<1> QED
  BY <1>3, <1>4, FlattenIn

LEMMA PlansAreBlocks ==
  ASSUME NEW drawn, NEW cr
  PROVE  PlansFor(drawn, cr) \in Seq(Seq(Feature))
<1> DEFINE n == Len(Blocks)
           plan(p) == IF cr THEN DrawnOf(Blocks[p], drawn) ELSE Blocks[p]
           s == [p \in 1..n |->
                   IF \A k \in 1..Len(Blocks[p]) : Blocks[p][k] \notin drawn
                   THEN << >> ELSE << plan(p) >>]
<1>1. n \in Nat /\ \A p \in 1..n : Blocks[p] \in Seq(Feature)
  BY BuildParams
<1>2. \A p \in 1..n : plan(p) \in Seq(Feature)
  BY <1>1, DrawnAreFeatures
<1>3. PlansFor(drawn, cr) = FlattenSeq(s)
  BY DEF PlansFor
<1> HIDE DEF plan
<1>4. s \in [1..n -> Seq(Seq(Feature))]
  BY <1>2
<1> HIDE DEF s
<1>5. IsSequence(s) /\ \A i \in 1..Len(s) : s[i] \in Seq(Seq(Feature))
  <2>1. s \in Seq(Seq(Seq(Feature))) /\ Len(s) = n /\ IsSequence(s)
    BY <1>1, <1>4, SequenceOf
  <2> QED
    BY <1>4, <2>1
<1>6. FlattenSeq(s) \in Seq(Seq(Feature))
  BY <1>5, FlattenIn
<1> QED
  BY <1>3, <1>6

LEMMA InputsInit == Init => Inputs
<1> SUFFICES ASSUME Init PROVE Inputs
  OBVIOUS
<1>1. IsGrads(gpair, Row)
  BY BuildParams DEF Init, IsGrads
<1>7. RowsQuantized
  BY BuildParams DEF Init, RowsQuantized
<1>2. \A r \in Row, f \in Feature : bins[r][f] \in BinsOf(f) \cup {MISSING_BIN}
  BY <1>7, QuantizedIs DEF RowsQuantized
<1>3. sampled \subseteq Feature
  BY BuildParams DEF Init
<1>4. PICK cr : plans = PlansFor(sampled, cr)
  BY DEF Init
<1>5. plans \in Seq(Seq(Feature))
  BY <1>4, PlansAreBlocks
<1>6. IsSequence(plans) /\ \A b \in Plan : plans[b] \in Seq(Feature)
  BY <1>5, SeqIsSequence DEF Plan
<1> QED
  BY <1>1, <1>2, <1>3, <1>6, <1>7 DEF Inputs

\* The inputs stay, and so does what is computed from them.
LEMMA SameInputs ==
  ASSUME UNCHANGED inputs
  PROVE  /\ Inputs => Inputs'
         /\ Plan' = Plan
         /\ gpair' = gpair
         /\ \A rows : GoodSplits(rows)' = GoodSplits(rows)
         /\ \A hist, b, rows : HistsOf(hist, b, rows)' <=> HistsOf(hist, b, rows)
<1>1. UNCHANGED << values, bins, gpair, sampled, plans >>
  BY DEF inputs
<1>2. Plan' = Plan /\ (Inputs => Inputs')
  BY <1>1 DEF Plan, Inputs, RowsQuantized
<1>3. \A rows, f, b, ml : RowSplit(rows, f, b, ml)' = RowSplit(rows, f, b, ml)
  BY <1>1 DEF RowSplit, LeftRows
<1>4. \A rows, f : SplitsOf(rows, f)' = SplitsOf(rows, f)
  BY <1>3 DEF SplitsOf
<1>5. \A rows : GoodSplits(rows)' = GoodSplits(rows)
  BY <1>1, <1>4 DEF GoodSplits
<1>6. \A hist, b, rows : HistsOf(hist, b, rows)' <=> HistsOf(hist, b, rows)
  BY <1>1 DEF HistsOf, FeaturesOf
<1> QED
  BY <1>1, <1>2, <1>5, <1>6

\* Parent minus sibling, bin by bin, is the histogram of the remaining rows.
LEMMA SubtractionIsExact ==
  ASSUME Inputs, NEW b, NEW A \in SUBSET Row, NEW B \in SUBSET Row, A \cap B = {},
         NEW parent, HistsOf(parent, b, A \cup B), NEW child, HistsOf(child, b, B)
  PROVE  HistsOf(SubtractHist(parent, child), b, A)
<1> DEFINE F == FeaturesOf(b)
<1>1. /\ parent = [f \in F |-> [k \in BinsOf(f) |-> NodeSum(gpair, RowsAt(bins, A \cup B, f, k))]]
      /\ child = [f \in F |-> [k \in BinsOf(f) |-> NodeSum(gpair, RowsAt(bins, B, f, k))]]
  BY DEF HistsOf, BuildHist, RowsAt
<1>2. ASSUME NEW f \in F, NEW k \in BinsOf(f)
      PROVE  Minus(parent[f][k], child[f][k]) = NodeSum(gpair, RowsAt(bins, A, f, k))
  <2>1. PICK S, T : S = RowsAt(bins, A \cup B, f, k) /\ T = RowsAt(bins, B, f, k)
    OBVIOUS
  <2>2. parent[f][k] = NodeSum(gpair, S) /\ child[f][k] = NodeSum(gpair, T)
    BY <1>1, <2>1
  <2>3. S \in SUBSET Row /\ T \in SUBSET S /\ S \ T = RowsAt(bins, A, f, k)
    BY <2>1 DEF RowsAt
  <2>4. Minus(NodeSum(gpair, S), NodeSum(gpair, T)) = NodeSum(gpair, S \ T)
    BY <2>3, RowsHaveSums, SumRest
  <2> QED
    BY <2>2, <2>3, <2>4
<1>3. SubtractHist(parent, child) =
        [f \in F |-> [k \in BinsOf(f) |-> Minus(parent[f][k], child[f][k])]]
  BY <1>1 DEF SubtractHist
<1>4. SubtractHist(parent, child) =
        [f \in F |-> [k \in BinsOf(f) |-> NodeSum(gpair, RowsAt(bins, A, f, k))]]
  BY <1>2, <1>3
<1> QED
  BY <1>4 DEF HistsOf, BuildHist, RowsAt

\* A node with rows of its own and their sum.
NodeIsExact(n) ==
  n.rows \in SUBSET Row /\ n.rows # {} /\ n.sum = NodeSum(gpair, n.rows)

NodesAreExact ==
  /\ \A i \in DOMAIN level : NodeIsExact(level[i])
  /\ \A j \in DOMAIN next : NodeIsExact(next[j])

\* What a worker has: after pass one the accumulated histograms, after pass two all of
\* them, and in the end a good split, if there is one, for every node.
WorkerIsExact(b, w) ==
  /\ w.pc = "accumulated" =>
       \A i \in DOMAIN level :
         level[i].from = Accumulate => HistsOf(w.hists[i], b, level[i].rows)
  /\ w.pc \in {"subtracted", "done"} =>
       \A i \in DOMAIN level : HistsOf(w.hists[i], b, level[i].rows)
  /\ w.pc = "done" =>
       \A i \in DOMAIN level : w.cands[i] \in GoodSplits(level[i].rows) \cup {NoSplit}

WorkIsExact == \A b \in Plan : WorkerIsExact(b, work[b])

\* A node that subtracts finds the histogram of its own rows and its sibling's, until the
\* worker has used it.
ParentsAreExact ==
  \A i \in DOMAIN level : level[i].from # Accumulate =>
    LET s == level[i].from.sibling
    IN  /\ s \in DOMAIN level /\ level[s].from = Accumulate
        /\ \A b \in Plan : work[b].pc \in {"idle", "accumulated"} =>
             HistsOf(parents[b][level[i].from.parent], b, level[i].rows \cup level[s].rows)

\* The same for the level that is being built.
NextIsPlanned ==
  \A j \in DOMAIN next : next[j].from # Accumulate =>
    LET s == next[j].from.sibling
        p == next[j].from.parent
    IN  /\ s \in DOMAIN next /\ next[s].from = Accumulate
        /\ p \in DOMAIN level /\ level[p].rows = next[j].rows \cup next[s].rows

ChoicesAreGood ==
  phase = "partition" =>
    \A i \in DOMAIN level : chosen[i] \in GoodSplits(level[i].rows) \cup {NoSplit}

\* The rows of a level whose histograms are accumulated are at most half of its rows.
AccumulatedRows(lv) == UNION {lv[i].rows : i \in {j \in DOMAIN lv : lv[j].from = Accumulate}}
SubtractedRows(lv) == UNION {lv[i].rows : i \in {j \in DOMAIN lv : lv[j].from # Accumulate}}
Halved(lv) == Cardinality(AccumulatedRows(lv)) <= Cardinality(SubtractedRows(lv))

ExactInv ==
  /\ Inputs /\ NodesAreExact /\ WorkIsExact /\ ParentsAreExact /\ NextIsPlanned
  /\ ChoicesAreGood
  /\ (depth > 0 => Halved(level)) /\ Halved(next)
  /\ depth \in Nat

LEMMA ExactInvInit == Init => ExactInv
<1> SUFFICES ASSUME Init PROVE ExactInv
  OBVIOUS
<1> DEFINE root == LevelNode(1, Row, NodeSum(gpair, Row), Accumulate)
<1>1. /\ level = << root >> /\ next = << >> /\ depth = 0
      /\ work = [b \in Plan |-> Idle] /\ phase \in {"blocks", "leaves"}
  BY DEF Init, EnterLevel
<1>2. root.rows = Row /\ root.sum = NodeSum(gpair, Row) /\ root.from = Accumulate
  BY DEF LevelNode
<1> HIDE DEF root
<1>3. DOMAIN level = {1} /\ DOMAIN next = {} /\ level[1] = root
  BY <1>1, EmptyIsSequence, SequenceDomain, SingletonIsSequence
<1>4. Inputs
  BY InputsInit
<1>5. NodesAreExact
  BY <1>2, <1>3, BuildParams DEF NodesAreExact, NodeIsExact
<1>6. WorkIsExact
  BY <1>1 DEF WorkIsExact, WorkerIsExact, Idle
<1>7. ParentsAreExact /\ NextIsPlanned
  BY <1>2, <1>3 DEF ParentsAreExact, NextIsPlanned
<1>8. ChoicesAreGood
  BY <1>1 DEF ChoicesAreGood
<1>9. Halved(next)
  <2>1. AccumulatedRows(next) = {} /\ SubtractedRows(next) = {}
    BY <1>3 DEF AccumulatedRows, SubtractedRows
  <2> QED
    BY <2>1, FS_EmptySet DEF Halved
<1> QED
  BY <1>1, <1>4, <1>5, <1>6, <1>7, <1>8, <1>9 DEF ExactInv

\* Steps that leave the nodes alone.
LEMMA ExactInvNodesStay ==
  ASSUME ExactInv, UNCHANGED << inputs, level, next, depth >>,
         WorkIsExact', ParentsAreExact', ChoicesAreGood'
  PROVE  ExactInv'
<1>1. Inputs' /\ gpair' = gpair
  BY SameInputs DEF ExactInv
<1>2. NodesAreExact'
  BY <1>1 DEF ExactInv, NodesAreExact, NodeIsExact
<1>3. NextIsPlanned'
  BY DEF ExactInv, NextIsPlanned
<1>4. Halved(level)' = Halved(level) /\ Halved(next)' = Halved(next)
  BY DEF Halved, AccumulatedRows, SubtractedRows
<1> QED
  BY <1>1, <1>2, <1>3, <1>4 DEF ExactInv

LEMMA SameWorker ==
  ASSUME UNCHANGED << inputs, level >>
  PROVE  \A b, w : WorkerIsExact(b, w)' <=> WorkerIsExact(b, w)
<1>1. /\ \A rows : GoodSplits(rows)' = GoodSplits(rows)
      /\ \A hist, b, rows : HistsOf(hist, b, rows)' <=> HistsOf(hist, b, rows)
  BY SameInputs
<1> QED
  BY <1>1 DEF WorkerIsExact

LEMMA ExactInvAccumulateBlock ==
  ASSUME ClaimsInv, ExactInv, NEW b \in Plan, AccumulateBlock(b)
  PROVE  ExactInv'
<1> DEFINE w == [pc |-> "accumulated",
                 hists |-> [i \in DOMAIN level |->
                              IF Accumulated(i)
                              THEN BuildHist(FeaturesOf(b), bins, gpair, level[i].rows)
                              ELSE Shell],
                 cands |-> << >>]
<1>1. /\ phase = "blocks" /\ work[b].pc = "idle"
      /\ work' = [work EXCEPT ![b] = w]
      /\ UNCHANGED << inputs, level, next, depth, phase, parents >>
  BY DEF AccumulateBlock
<1>2. w.pc = "accumulated"
      /\ \A i \in DOMAIN level :
           level[i].from = Accumulate => HistsOf(w.hists[i], b, level[i].rows)
  BY DEF HistsOf, Accumulated
<1> HIDE DEF w
<1>3. \A c \in Plan : work'[c] = IF c = b THEN w ELSE work[c]
  BY <1>1 DEF ClaimsInv, WorkShape
<1>4. /\ Plan' = Plan
      /\ \A hist, c, rows : HistsOf(hist, c, rows)' <=> HistsOf(hist, c, rows)
      /\ \A c, v : WorkerIsExact(c, v)' <=> WorkerIsExact(c, v)
  BY <1>1, SameInputs, SameWorker
<1>5. WorkerIsExact(b, w)
  BY <1>2 DEF WorkerIsExact
<1>6. WorkIsExact'
  BY <1>3, <1>4, <1>5 DEF ExactInv, WorkIsExact
<1>7. \A c \in Plan : work'[c].pc \in {"idle", "accumulated"} =>
                        work[c].pc \in {"idle", "accumulated"}
  BY <1>1, <1>3
<1>8. ParentsAreExact'
  BY <1>1, <1>4, <1>7 DEF ExactInv, ParentsAreExact
<1>9. ChoicesAreGood'
  BY <1>1 DEF ChoicesAreGood
<1> QED
  BY <1>1, <1>6, <1>8, <1>9, ExactInvNodesStay

LEMMA ExactInvSubtractBlock ==
  ASSUME RowsInv, ClaimsInv, ExactInv, NEW b \in Plan, SubtractBlock(b)
  PROVE  ExactInv'
<1>1. /\ phase = "blocks" /\ work[b].pc = "accumulated" /\ ClaimsValid(b)
      /\ UNCHANGED << inputs, level, next, depth >>
  BY DEF SubtractBlock, ClaimsInv, ClaimsPending
<1> DEFINE hists == [i \in DOMAIN level |->
                       IF Accumulated(i)
                       THEN work[b].hists[i]
                       ELSE SubtractHist(parents[b][level[i].from.parent],
                                         work[b].hists[level[i].from.sibling])]
           left == [p \in DOMAIN parents[b] |->
                      IF \E i \in Subtracted : level[i].from.parent = p
                      THEN Shell ELSE parents[b][p]]
<1>2. /\ work' = [work EXCEPT ![b].pc = "subtracted", ![b].hists = hists]
      /\ parents' = [parents EXCEPT ![b] = left]
      /\ phase' = phase
  BY <1>1 DEF SubtractBlock
<1>3. ASSUME NEW i \in DOMAIN level
      PROVE  HistsOf(hists[i], b, level[i].rows)
  <2>1. CASE Accumulated(i)
    BY <1>1, <2>1 DEF Accumulated, ExactInv, WorkIsExact, WorkerIsExact
  <2>2. CASE ~Accumulated(i)
    <3>1. PICK s : s = level[i].from.sibling
      OBVIOUS
    <3>2. PICK parent, child : /\ parent = parents[b][level[i].from.parent]
                               /\ child = work[b].hists[s]
      OBVIOUS
    <3>3. /\ s \in DOMAIN level /\ level[s].from = Accumulate
          /\ HistsOf(parent, b, level[i].rows \cup level[s].rows)
      BY <1>1, <2>2, <3>1, <3>2 DEF Accumulated, ExactInv, ParentsAreExact
    <3>4. HistsOf(child, b, level[s].rows)
      BY <1>1, <3>2, <3>3 DEF ExactInv, WorkIsExact, WorkerIsExact
    <3>5. /\ level[i].rows \in SUBSET Row /\ level[s].rows \in SUBSET Row
          /\ level[i].rows \cap level[s].rows = {}
      <4>1. i # s
        BY <2>2, <3>3 DEF Accumulated
      <4> QED
        BY <3>3, <4>1 DEF ExactInv, NodesAreExact, NodeIsExact, RowsInv, Disjoint
    <3>6. HistsOf(SubtractHist(parent, child), b, level[i].rows)
      BY <3>3, <3>4, <3>5, SubtractionIsExact DEF ExactInv
    <3>7. hists[i] = SubtractHist(parent, child)
      BY <2>2, <3>1, <3>2
    <3> QED
      BY <3>6, <3>7
  <2> QED
    BY <2>1, <2>2
<1> HIDE DEF hists, left
<1>4. /\ work'[b] = [pc |-> "subtracted", hists |-> hists, cands |-> work[b].cands]
      /\ \A c \in Plan \ {b} : work'[c] = work[c] /\ parents'[c] = parents[c]
  <2>1. DOMAIN work = Plan /\ DOMAIN parents = Plan
    BY DEF ClaimsInv, WorkShape
  <2>2. \A c \in Plan \ {b} : work'[c] = work[c] /\ parents'[c] = parents[c]
    BY <1>2, <2>1
  <2>3. work'[b] = [work[b] EXCEPT !.pc = "subtracted", !.hists = hists]
    BY <1>2, <2>1
  <2>4. work[b] = [pc |-> work[b].pc, hists |-> work[b].hists, cands |-> work[b].cands]
    BY DEF ClaimsInv, WorkShape, IsWork
  <2>5. work'[b] = [pc |-> "subtracted", hists |-> hists, cands |-> work[b].cands]
    BY <2>3, <2>4
  <2> QED
    BY <2>2, <2>5
<1>5. /\ Plan' = Plan
      /\ \A hist, c, rows : HistsOf(hist, c, rows)' <=> HistsOf(hist, c, rows)
      /\ \A c, v : WorkerIsExact(c, v)' <=> WorkerIsExact(c, v)
  BY <1>1, SameInputs, SameWorker
<1>6. WorkerIsExact(b, work'[b])
  <2>1. work'[b].pc = "subtracted" /\ work'[b].hists = hists
    BY <1>4
  <2> QED
    BY <1>3, <2>1 DEF WorkerIsExact
<1>7. WorkIsExact'
  BY <1>4, <1>5, <1>6 DEF ExactInv, WorkIsExact
<1>8. ParentsAreExact'
  <2>1. work'[b].pc \notin {"idle", "accumulated"}
    BY <1>4
  <2> QED
    BY <1>1, <1>4, <1>5, <2>1 DEF ExactInv, ParentsAreExact
<1>9. ChoicesAreGood'
  BY <1>1, <1>2 DEF ChoicesAreGood
<1> QED
  BY <1>1, <1>7, <1>8, <1>9, ExactInvNodesStay

LEMMA ExactInvEnumerateBlock ==
  ASSUME ClaimsInv, ExactInv, NEW b \in Plan, EnumerateBlock(b)
  PROVE  ExactInv'
<1> DEFINE cands == [i \in DOMAIN level |->
                       BestSplitInBlock(work[b].hists[i], plans[b], level[i].sum, sampled)]
<1>1. /\ phase = "blocks" /\ work[b].pc = "subtracted"
      /\ work' = [work EXCEPT ![b].pc = "done", ![b].cands = cands]
      /\ UNCHANGED << inputs, level, next, depth, phase, parents >>
  BY DEF EnumerateBlock
<1>2. ASSUME NEW i \in DOMAIN level
      PROVE  cands[i] \in GoodSplits(level[i].rows) \cup {NoSplit}
  <2>1. PICK hist, rows : hist = work[b].hists[i] /\ rows = level[i].rows
    OBVIOUS
  <2>2. HistsOf(hist, b, rows)
    BY <1>1, <2>1 DEF ExactInv, WorkIsExact, WorkerIsExact
  <2>3. rows \in SUBSET Row /\ level[i].sum = NodeSum(gpair, rows)
    BY <2>1 DEF ExactInv, NodesAreExact, NodeIsExact
  <2>4. BestSplitInBlock(hist, plans[b], NodeSum(gpair, rows), sampled) \in
          GoodSplits(rows) \cup {NoSplit}
    BY <2>2, <2>3, BlockFinds DEF ExactInv
  <2> QED
    BY <2>1, <2>3, <2>4
<1> HIDE DEF cands
<1>3. /\ work'[b] = [pc |-> "done", hists |-> work[b].hists, cands |-> cands]
      /\ \A c \in Plan \ {b} : work'[c] = work[c]
  <2>1. DOMAIN work = Plan
    BY DEF ClaimsInv, WorkShape
  <2>2. \A c \in Plan \ {b} : work'[c] = work[c]
    BY <1>1, <2>1
  <2>3. work'[b] = [work[b] EXCEPT !.pc = "done", !.cands = cands]
    BY <1>1, <2>1
  <2>4. work[b] = [pc |-> work[b].pc, hists |-> work[b].hists, cands |-> work[b].cands]
    BY DEF ClaimsInv, WorkShape, IsWork
  <2>5. work'[b] = [pc |-> "done", hists |-> work[b].hists, cands |-> cands]
    BY <2>3, <2>4
  <2> QED
    BY <2>2, <2>5
<1>4. /\ Plan' = Plan
      /\ \A hist, c, rows : HistsOf(hist, c, rows)' <=> HistsOf(hist, c, rows)
      /\ \A c, v : WorkerIsExact(c, v)' <=> WorkerIsExact(c, v)
  BY <1>1, SameInputs, SameWorker
<1>5. WorkerIsExact(b, work'[b])
  <2>1. /\ work'[b].pc = "done" /\ work'[b].hists = work[b].hists
        /\ work'[b].cands = cands
    BY <1>3
  <2>2. \A i \in DOMAIN level : HistsOf(work[b].hists[i], b, level[i].rows)
    BY <1>1 DEF ExactInv, WorkIsExact, WorkerIsExact
  <2> QED
    BY <1>2, <2>1, <2>2 DEF WorkerIsExact
<1>6. WorkIsExact'
  BY <1>3, <1>4, <1>5 DEF ExactInv, WorkIsExact
<1>7. ParentsAreExact'
  <2>1. work'[b].pc \notin {"idle", "accumulated"}
    BY <1>3
  <2> QED
    BY <1>1, <1>3, <1>4, <2>1 DEF ExactInv, ParentsAreExact
<1>8. ChoicesAreGood'
  BY <1>1 DEF ChoicesAreGood
<1> QED
  BY <1>1, <1>6, <1>7, <1>8, ExactInvNodesStay

LEMMA ExactInvFailBlock ==
  ASSUME ClaimsInv, ExactInv, NEW b \in Plan, FailBlock(b)
  PROVE  ExactInv'
<1>1. /\ phase = "blocks" /\ work' = [work EXCEPT ![b].pc = "failed"]
      /\ UNCHANGED << inputs, level, next, depth, phase, parents >>
  BY DEF FailBlock
<1>2. /\ work'[b].pc = "failed" /\ \A c \in Plan \ {b} : work'[c] = work[c]
  <2>1. DOMAIN work = Plan
    BY DEF ClaimsInv, WorkShape
  <2>2. \A c \in Plan \ {b} : work'[c] = work[c]
    BY <1>1, <2>1
  <2>3. work'[b] = [work[b] EXCEPT !.pc = "failed"]
    BY <1>1, <2>1
  <2>4. work[b] = [pc |-> work[b].pc, hists |-> work[b].hists, cands |-> work[b].cands]
    BY DEF ClaimsInv, WorkShape, IsWork
  <2>5. work'[b].pc = "failed"
    BY <2>3, <2>4
  <2> QED
    BY <2>2, <2>5
<1>3. /\ Plan' = Plan
      /\ \A hist, c, rows : HistsOf(hist, c, rows)' <=> HistsOf(hist, c, rows)
      /\ \A c, v : WorkerIsExact(c, v)' <=> WorkerIsExact(c, v)
  BY <1>1, SameInputs, SameWorker
<1>4. WorkerIsExact(b, work'[b])
  BY <1>2 DEF WorkerIsExact
<1>5. WorkIsExact'
  BY <1>2, <1>3, <1>4 DEF ExactInv, WorkIsExact
<1>6. ParentsAreExact'
  BY <1>1, <1>2, <1>3 DEF ExactInv, ParentsAreExact
<1>7. ChoicesAreGood'
  BY <1>1 DEF ChoicesAreGood
<1> QED
  BY <1>1, <1>5, <1>6, <1>7, ExactInvNodesStay

LEMMA ExactInvReduce == ExactInv /\ Reduce => ExactInv'
<1> SUFFICES ASSUME ExactInv, Reduce PROVE ExactInv'
  OBVIOUS
<1>1. /\ chosen' = [i \in DOMAIN level |-> BestOfBlocks(i)]
      /\ \A b \in Plan : work[b].pc = "done"
      /\ UNCHANGED << inputs, level, next, depth, work, parents >>
  BY DEF Reduce
<1>2. ASSUME NEW i \in DOMAIN level
      PROVE  BestOfBlocks(i) \in GoodSplits(level[i].rows) \cup {NoSplit}
  <2> DEFINE cands == [b \in Plan |-> work[b].cands[i]]
             V == GoodSplits(level[i].rows) \cup {NoSplit}
  <2>1. \A b \in Plan : work[b].cands[i] \in V
    BY <1>1 DEF ExactInv, WorkIsExact, WorkerIsExact
  <2>2. Plan = 1..Len(plans) /\ Len(plans) \in Nat
    BY SequenceDomain DEF ExactInv, Inputs, Plan
  <2>3. cands \in [1..Len(plans) -> V]
    BY <2>1, <2>2
  <2> HIDE DEF cands, V
  <2>4. IsSequence(cands) /\ \A b \in 1..Len(cands) : cands[b] \in V
    BY <2>2, <2>3, SequenceOf
  <2>5. level[i].rows \in SUBSET Row
    BY DEF ExactInv, NodesAreExact, NodeIsExact
  <2>6. ReduceBest(cands) \in V
    BY <2>4, <2>5, ReduceFinds DEF V, ExactInv
  <2> QED
    BY <2>6 DEF BestOfBlocks, cands, V
<1>3. /\ Plan' = Plan
      /\ \A rows : GoodSplits(rows)' = GoodSplits(rows)
      /\ \A hist, c, rows : HistsOf(hist, c, rows)' <=> HistsOf(hist, c, rows)
      /\ \A c, v : WorkerIsExact(c, v)' <=> WorkerIsExact(c, v)
  BY <1>1, SameInputs, SameWorker
<1>4. WorkIsExact' /\ ParentsAreExact'
  BY <1>1, <1>3 DEF ExactInv, WorkIsExact, ParentsAreExact
<1>5. ChoicesAreGood'
  BY <1>1, <1>2, <1>3 DEF ChoicesAreGood
<1> QED
  BY <1>1, <1>4, <1>5, ExactInvNodesStay

LEMMA ExactInvOther ==
  ASSUME ExactInv,
         \/ PartitionFeature \/ SettleSlot \/ ApplyLeaf \/ Finish
         \/ AbortLevel \/ FailColumn \/ Terminated \/ UNCHANGED vars
  PROVE  ExactInv'
<1>1. /\ UNCHANGED << inputs, level, next, depth, work, parents, chosen >>
      /\ phase' = "partition" => phase = "partition"
  BY DEF PartitionFeature, SettleSlot, ApplyLeaf, Finish, AbortLevel, FailColumn,
         Terminated, vars, inputs
<1>2. /\ Plan' = Plan
      /\ \A rows : GoodSplits(rows)' = GoodSplits(rows)
      /\ \A hist, c, rows : HistsOf(hist, c, rows)' <=> HistsOf(hist, c, rows)
      /\ \A c, v : WorkerIsExact(c, v)' <=> WorkerIsExact(c, v)
  BY <1>1, SameInputs, SameWorker
<1>3. WorkIsExact' /\ ParentsAreExact'
  BY <1>1, <1>2 DEF ExactInv, WorkIsExact, ParentsAreExact
<1>4. ChoicesAreGood'
  BY <1>1, <1>2 DEF ExactInv, ChoicesAreGood
<1> QED
  BY <1>1, <1>3, <1>4, ExactInvNodesStay

\* A split with a positive gain has rows on both sides, and its sums are theirs.
LEMMA GoodSplitSides ==
  ASSUME Inputs, NEW rows \in SUBSET Row, NEW c \in GoodSplits(rows)
  PROVE  LET lrows == LeftRows(rows, c.feat, c.bin, c.missing_left)
         IN  /\ lrows # {} /\ rows \ lrows # {}
             /\ c.left = NodeSum(gpair, lrows) /\ c.right = NodeSum(gpair, rows \ lrows)
<1>1. PICK f \in Feature : c \in SplitsOf(rows, f) /\ c.gain > 0
  BY DEF GoodSplits, Inputs
<1>2. PICK lrows, total : /\ lrows = LeftRows(rows, f, c.bin, c.missing_left)
                          /\ total = NodeSum(gpair, rows)
  OBVIOUS
<1>3. /\ c.left \in GradPairFixed /\ c.right \in GradPairFixed
      /\ c.left.hess >= 0 /\ c.right.hess >= 0
      /\ total = Plus(c.left, c.right) /\ c.feat = f
      /\ c.left = NodeSum(gpair, lrows) /\ c.right = NodeSum(gpair, rows \ lrows)
      /\ c.gain = SplitGain(Gain(total), c.left, c.right)
  <2>1. /\ c.left \in GradPairFixed /\ c.right \in GradPairFixed
        /\ c.left.hess >= 0 /\ c.right.hess >= 0
        /\ NodeSum(gpair, rows) = Plus(c.left, c.right) /\ c.feat = f
        /\ c.left = NodeSum(gpair, LeftRows(rows, f, c.bin, c.missing_left))
        /\ c.right = NodeSum(gpair, rows \ LeftRows(rows, f, c.bin, c.missing_left))
        /\ c.gain = SplitGain(Gain(NodeSum(gpair, rows)), c.left, c.right)
    BY <1>1, SplitSides
  <2> QED
    BY <1>2, <2>1
<1>4. Gain(Zero) = 0
  <2>1. Lambda \in Int /\ Lambda > 0 /\ Scale \in Int
    BY ScanParams
  <2>2. 0 \div Lambda = 0
    BY <2>1
  <2> QED
    BY <2>1, <2>2 DEF Gain, Zero
<1>5. Gain(c.left) \in Int /\ Gain(c.right) \in Int /\ Gamma \in Nat
  BY <1>3, GainIsInt, ScanParams
<1>6. c.left # Zero
  <2> SUFFICES ASSUME c.left = Zero PROVE FALSE
    OBVIOUS
  <2>1. total = c.right
    BY <1>3, PlusPair
  <2> QED
    BY <1>1, <1>3, <1>4, <1>5, <2>1 DEF SplitGain
<1>7. c.right # Zero
  <2> SUFFICES ASSUME c.right = Zero PROVE FALSE
    OBVIOUS
  <2>1. total = c.left
    BY <1>3, PlusPair
  <2> QED
    BY <1>1, <1>3, <1>4, <1>5, <2>1 DEF SplitGain
<1>8. lrows # {} /\ rows \ lrows # {}
  BY <1>3, <1>6, <1>7, SumEmpty
<1> QED
  BY <1>2, <1>3, <1>8

LEMMA SmallerUnion ==
  ASSUME NEW A, NEW B, NEW C, NEW D, IsFiniteSet(A), IsFiniteSet(B), IsFiniteSet(C),
         IsFiniteSet(D), B \cap D = {},
         Cardinality(A) <= Cardinality(B), Cardinality(C) <= Cardinality(D)
  PROVE  Cardinality(A \cup C) <= Cardinality(B \cup D)
<1>1. /\ Cardinality(A) \in Nat /\ Cardinality(B) \in Nat /\ Cardinality(C) \in Nat
      /\ Cardinality(D) \in Nat
  BY FS_CardinalityType
<1>2. Cardinality(B \cap D) = 0
  BY FS_EmptySet
<1>3. Cardinality(B \cup D) = Cardinality(B) + Cardinality(D)
  <2>1. Cardinality(B \cup D) = Cardinality(B) + Cardinality(D) - Cardinality(B \cap D)
    BY FS_Union
  <2> QED
    BY <1>1, <1>2, <2>1
<1>4. IsFiniteSet(A \cap C)
  <2>1. A \cap C \in SUBSET A
    OBVIOUS
  <2> QED
    BY <2>1, FS_Subset
<1>5. Cardinality(A \cap C) \in Nat
  BY <1>4, FS_CardinalityType
<1>6. Cardinality(A \cup C) = Cardinality(A) + Cardinality(C) - Cardinality(A \cap C)
  BY FS_Union
<1> QED
  BY <1>1, <1>3, <1>5, <1>6

LEMMA ExactInvSplitSlot == RowsInv /\ ClaimsInv /\ PathInv /\ ExactInv /\ SplitSlot => ExactInv'
<1> SUFFICES ASSUME RowsInv, ClaimsInv, PathInv, ExactInv, SplitSlot PROVE ExactInv'
  OBVIOUS
<1>1. /\ phase = "partition" /\ todo = {} /\ slot \in DOMAIN level /\ chosen[slot] # NoSplit
      /\ next' = next \o Children(slot, Len(next) + 1) /\ slot' = slot + 1
      /\ UNCHANGED << inputs, level, depth, phase, work, parents, chosen >>
  BY DEF SplitSlot
<1>2. /\ slot \in Nat /\ slot # 0 /\ DOMAIN level \subseteq Nat
      /\ IsSequence(next) /\ Len(next) \in Nat /\ DOMAIN next = 1..Len(next)
  BY SequenceDomain DEF RowsInv, Shape
<1>3. PICK s, c, rows, lrows, rrows, small :
        /\ s = Len(next) /\ c = chosen[slot] /\ rows = level[slot].rows
        /\ lrows = parts[slot][1] /\ rrows = parts[slot][2] /\ small = SmallSide(slot)
  OBVIOUS
<1>4. c \in GoodSplits(rows)
  BY <1>1, <1>3 DEF ExactInv, ChoicesAreGood
<1>5. rows \in SUBSET Row
  BY <1>1, <1>3 DEF ExactInv, NodesAreExact, NodeIsExact
<1>6. /\ lrows = LeftRows(rows, c.feat, c.bin, c.missing_left)
      /\ rrows = rows \ lrows
  <2>1. parts[slot] = PartitionRows(rows, c)
    BY <1>1, <1>3 DEF PathInv, PartsExact
  <2> QED
    BY <1>3, <2>1 DEF PartitionRows, LeftRows
<1>7. /\ lrows # {} /\ rrows # {}
      /\ c.left = NodeSum(gpair, lrows) /\ c.right = NodeSum(gpair, rrows)
  BY <1>4, <1>5, <1>6, GoodSplitSides DEF ExactInv
<1>8. lrows \in SUBSET Row /\ rrows \in SUBSET Row /\ lrows \cup rrows = rows
      /\ lrows \cap rrows = {}
  BY <1>5, <1>6 DEF LeftRows
<1>9. \/ small = 0 /\ Cardinality(lrows) <= Cardinality(rrows)
      \/ small = 1 /\ Cardinality(rrows) <= Cardinality(lrows)
  <2>1. IsFiniteSet(lrows) /\ IsFiniteSet(rrows)
    BY <1>8, BuildParams, FS_Subset
  <2>2. Cardinality(lrows) \in Nat /\ Cardinality(rrows) \in Nat
    BY <2>1, FS_CardinalityType
  <2> QED
    BY <1>3, <2>2 DEF SmallSide
<1>10. PICK x, y :
         /\ Children(slot, s + 1) = << x, y >>
         /\ x.rows = lrows /\ x.sum = c.left /\ y.rows = rrows /\ y.sum = c.right
         /\ x.from = IF small = 0 THEN Accumulate ELSE Subtract(slot, s + 1 + small)
         /\ y.from = IF small = 1 THEN Accumulate ELSE Subtract(slot, s + 1 + small)
  BY <1>3, ChildrenAre DEF LevelNode
<1>11. /\ IsSequence(next') /\ DOMAIN next' = 1..(s + 2)
       /\ \A i \in 1..s : next'[i] = next[i]
       /\ next'[s + 1] = x /\ next'[s + 2] = y
  <2>1. next' = next \o << x, y >>
    BY <1>1, <1>3, <1>10
  <2> QED
    BY <1>2, <1>3, <2>1, AppendTwo
<1>12. \A j \in DOMAIN next' : \/ j \in 1..s /\ j \in DOMAIN next /\ next'[j] = next[j]
                               \/ j = s + 1 /\ next'[j] = x
                               \/ j = s + 2 /\ next'[j] = y
  BY <1>2, <1>3, <1>11
<1>13. /\ Inputs' /\ Plan' = Plan /\ gpair' = gpair
       /\ \A r : GoodSplits(r)' = GoodSplits(r)
       /\ \A hist, b, r : HistsOf(hist, b, r)' <=> HistsOf(hist, b, r)
       /\ \A b, v : WorkerIsExact(b, v)' <=> WorkerIsExact(b, v)
  BY <1>1, SameInputs, SameWorker DEF ExactInv
<1>14. NodesAreExact'
  <2>1. NodeIsExact(x) /\ NodeIsExact(y)
    BY <1>7, <1>8, <1>10 DEF NodeIsExact
  <2>2. \A n : NodeIsExact(n)' <=> NodeIsExact(n)
    BY <1>13 DEF NodeIsExact
  <2>3. \A j \in DOMAIN next' : NodeIsExact(next'[j])
    BY <1>12, <2>1 DEF ExactInv, NodesAreExact
  <2>4. \A i \in DOMAIN level : NodeIsExact(level[i])
    BY DEF ExactInv, NodesAreExact
  <2> QED
    BY <1>1, <1>13, <2>3, <2>4 DEF NodesAreExact, NodeIsExact
<1>15. WorkIsExact' /\ ParentsAreExact' /\ ChoicesAreGood'
  BY <1>1, <1>13 DEF ExactInv, WorkIsExact, ParentsAreExact, ChoicesAreGood
<1>16. \A p, q : Subtract(p, q).parent = p /\ Subtract(p, q).sibling = q
  BY DEF Subtract
<1>17. NextIsPlanned'
  <2>1. ASSUME NEW j \in DOMAIN next', next'[j].from # Accumulate
        PROVE  /\ next'[j].from.sibling \in DOMAIN next'
               /\ next'[next'[j].from.sibling].from = Accumulate
               /\ next'[j].from.parent \in DOMAIN level
               /\ level[next'[j].from.parent].rows =
                    next'[j].rows \cup next'[next'[j].from.sibling].rows
    <3>1. CASE j \in 1..s
      <4>1. j \in DOMAIN next /\ next'[j] = next[j]
        BY <1>2, <1>3, <1>11, <3>1
      <4>2. PICK q : q = next[j].from.sibling
        OBVIOUS
      <4>3. /\ q \in DOMAIN next /\ next[q].from = Accumulate
            /\ next[j].from.parent \in DOMAIN level
            /\ level[next[j].from.parent].rows = next[j].rows \cup next[q].rows
        BY <2>1, <4>1, <4>2 DEF ExactInv, NextIsPlanned
      <4>4. q \in DOMAIN next' /\ next'[q] = next[q]
        BY <1>2, <1>3, <1>11, <4>3
      <4> QED
        BY <4>1, <4>2, <4>3, <4>4
    <3>2. CASE j = s + 1
      <4>1. small = 1 /\ next'[j] = x /\ x.from = Subtract(slot, s + 1 + small)
        BY <1>9, <1>10, <1>11, <2>1, <3>2
      <4>2. x.from.parent = slot /\ x.from.sibling = s + 2 /\ y.from = Accumulate
        BY <1>2, <1>3, <1>10, <1>16, <4>1
      <4>3. s + 2 \in DOMAIN next' /\ next'[s + 2] = y
        BY <1>2, <1>3, <1>11
      <4>4. slot \in DOMAIN level /\ level[slot].rows = x.rows \cup y.rows
        BY <1>1, <1>3, <1>8, <1>10
      <4> QED
        BY <4>1, <4>2, <4>3, <4>4
    <3>3. CASE j = s + 2
      <4>1. small = 0 /\ next'[j] = y /\ y.from = Subtract(slot, s + 1 + small)
        BY <1>9, <1>10, <1>11, <2>1, <3>3
      <4>2. y.from.parent = slot /\ y.from.sibling = s + 1 /\ x.from = Accumulate
        BY <1>2, <1>3, <1>10, <1>16, <4>1
      <4>3. s + 1 \in DOMAIN next' /\ next'[s + 1] = x
        BY <1>2, <1>3, <1>11
      <4>4. slot \in DOMAIN level /\ level[slot].rows = y.rows \cup x.rows
        BY <1>1, <1>3, <1>8, <1>10
      <4> QED
        BY <4>1, <4>2, <4>3, <4>4
    <3> QED
      BY <1>12, <3>1, <3>2, <3>3
  <2> QED
    BY <1>1, <2>1 DEF NextIsPlanned
<1>18. Halved(next')
  <2>1. PICK A, B : A = AccumulatedRows(next) /\ B = SubtractedRows(next)
    OBVIOUS
  <2>2. A \in SUBSET Row /\ B \in SUBSET Row
    BY <2>1 DEF ExactInv, NodesAreExact, NodeIsExact, AccumulatedRows, SubtractedRows
  <2>3. rows \cap A = {} /\ rows \cap B = {}
    <3>1. \A j \in DOMAIN next : rows \cap next[j].rows = {}
      BY <1>1, <1>2, <1>3 DEF RowsInv, Disjoint
    <3> QED
      BY <2>1, <3>1 DEF AccumulatedRows, SubtractedRows
  <2>4. /\ IsFiniteSet(A) /\ IsFiniteSet(B) /\ IsFiniteSet(lrows) /\ IsFiniteSet(rrows)
    BY <1>8, <2>2, BuildParams, FS_Subset
  <2>5. Cardinality(A) <= Cardinality(B)
    BY <2>1 DEF ExactInv, Halved
  <2>6. /\ \A i \in 1..s : i \in DOMAIN next /\ i \in DOMAIN next' /\ next'[i] = next[i]
        /\ DOMAIN next = 1..s
        /\ s + 1 \in DOMAIN next' /\ s + 2 \in DOMAIN next'
    BY <1>2, <1>3, <1>11
  <2>7. CASE small = 0
    <3>1. x.from = Accumulate /\ y.from # Accumulate
      BY <1>1, <1>2, <1>10, <2>7, <1>16 DEF Accumulate
    <3>2. AccumulatedRows(next') = A \cup lrows
      BY <1>10, <1>11, <1>12, <2>1, <2>6, <3>1 DEF AccumulatedRows
    <3>3. SubtractedRows(next') = B \cup rrows
      BY <1>10, <1>11, <1>12, <2>1, <2>6, <3>1 DEF SubtractedRows
    <3>4. B \cap rrows = {}
      BY <1>8, <2>3
    <3>5. Cardinality(lrows) <= Cardinality(rrows)
      BY <1>9, <2>7
    <3> QED
      BY <2>4, <2>5, <3>2, <3>3, <3>4, <3>5, SmallerUnion DEF Halved
  <2>8. CASE small = 1
    <3>1. y.from = Accumulate /\ x.from # Accumulate
      BY <1>1, <1>2, <1>10, <2>8, <1>16 DEF Accumulate
    <3>2. AccumulatedRows(next') = A \cup rrows
      BY <1>10, <1>11, <1>12, <2>1, <2>6, <3>1 DEF AccumulatedRows
    <3>3. SubtractedRows(next') = B \cup lrows
      BY <1>10, <1>11, <1>12, <2>1, <2>6, <3>1 DEF SubtractedRows
    <3>4. B \cap lrows = {}
      BY <1>8, <2>3
    <3>5. Cardinality(rrows) <= Cardinality(lrows)
      BY <1>9, <2>8
    <3> QED
      BY <2>4, <2>5, <3>2, <3>3, <3>4, <3>5, SmallerUnion DEF Halved
  <2> QED
    BY <1>9, <2>7, <2>8
<1>19. (depth' > 0 => Halved(level')) /\ depth' \in Nat
  BY <1>1 DEF ExactInv
<1>20. Halved(next)' /\ (depth > 0 => Halved(level))'
  BY <1>18, <1>19 DEF Halved, AccumulatedRows, SubtractedRows
<1> QED
  BY <1>13, <1>14, <1>15, <1>17, <1>19, <1>20 DEF ExactInv

LEMMA ExactInvFinishLevel == RowsInv /\ ClaimsInv /\ ExactInv /\ FinishLevel => ExactInv'
<1> SUFFICES ASSUME RowsInv, ClaimsInv, ExactInv, FinishLevel PROVE ExactInv'
  OBVIOUS
<1>1. /\ phase = "partition"
      /\ parents' = [b \in Plan |-> work[b].hists] /\ work' = [b \in Plan |-> Idle]
      /\ level' = next /\ next' = << >> /\ depth' = depth + 1
      /\ phase' \in {"blocks", "leaves"} /\ UNCHANGED inputs
  BY DEF FinishLevel, EnterLevel
<1>2. DOMAIN next' = {}
  BY <1>1, EmptyIsSequence, SequenceDomain
<1>3. /\ Inputs' /\ Plan' = Plan /\ gpair' = gpair
      /\ \A hist, b, r : HistsOf(hist, b, r)' <=> HistsOf(hist, b, r)
  BY <1>1, SameInputs DEF ExactInv
<1>4. NodesAreExact'
  BY <1>1, <1>2, <1>3 DEF ExactInv, NodesAreExact, NodeIsExact
<1>5. \A b \in Plan : work'[b].pc = "idle"
  BY <1>1 DEF Idle
<1>6. WorkIsExact'
  BY <1>3, <1>5 DEF WorkIsExact, WorkerIsExact
<1>7. ParentsAreExact'
  <2>1. ASSUME NEW i \in DOMAIN next, next[i].from # Accumulate
        PROVE  /\ next[i].from.sibling \in DOMAIN next
               /\ next[next[i].from.sibling].from = Accumulate
               /\ \A b \in Plan :
                    HistsOf(parents'[b][next[i].from.parent], b,
                            next[i].rows \cup next[next[i].from.sibling].rows)
    <3>1. PICK q, p : q = next[i].from.sibling /\ p = next[i].from.parent
      OBVIOUS
    <3>2. /\ q \in DOMAIN next /\ next[q].from = Accumulate
          /\ p \in DOMAIN level /\ level[p].rows = next[i].rows \cup next[q].rows
      BY <2>1, <3>1 DEF ExactInv, NextIsPlanned
    <3>3. ASSUME NEW b \in Plan
          PROVE  HistsOf(parents'[b][p], b, level[p].rows)
      <4>1. parents'[b] = work[b].hists /\ work[b].pc = "done"
        BY <1>1 DEF ClaimsInv, ClaimsPlanned
      <4> QED
        BY <3>2, <4>1 DEF ExactInv, WorkIsExact, WorkerIsExact
    <3> QED
      BY <3>1, <3>2, <3>3
  <2> QED
    BY <1>1, <1>3, <2>1 DEF ParentsAreExact
<1>8. NextIsPlanned' /\ ChoicesAreGood'
  BY <1>1, <1>2 DEF NextIsPlanned, ChoicesAreGood
<1>9. Halved(next)'
  <2>1. AccumulatedRows(next') = {} /\ SubtractedRows(next') = {}
    BY <1>2 DEF AccumulatedRows, SubtractedRows
  <2>2. Halved(next')
    BY <2>1, FS_EmptySet DEF Halved
  <2> QED
    BY <2>2 DEF Halved, AccumulatedRows, SubtractedRows
<1>10. Halved(level)' /\ depth' \in Nat
  BY <1>1 DEF ExactInv, Halved, AccumulatedRows, SubtractedRows
<1> QED
  BY <1>3, <1>4, <1>6, <1>7, <1>8, <1>9, <1>10 DEF ExactInv

LEMMA ExactInvNext ==
  RowsInv /\ ClaimsInv /\ PathInv /\ ExactInv /\ [Next]_vars => ExactInv'
<1> SUFFICES ASSUME RowsInv, ClaimsInv, PathInv, ExactInv, [Next]_vars PROVE ExactInv'
  OBVIOUS
<1>1. ASSUME NEW b \in Plan, Work(b) \/ FailBlock(b)
      PROVE  ExactInv'
  BY <1>1, ExactInvAccumulateBlock, ExactInvSubtractBlock, ExactInvEnumerateBlock,
     ExactInvFailBlock DEF Work
<1>2. CASE Reduce
  BY <1>2, ExactInvReduce
<1>3. CASE SplitSlot
  BY <1>3, ExactInvSplitSlot
<1>4. CASE FinishLevel
  BY <1>4, ExactInvFinishLevel
<1>5. CASE \/ PartitionFeature \/ SettleSlot \/ ApplyLeaf \/ Finish
           \/ AbortLevel \/ FailColumn \/ Terminated \/ UNCHANGED vars
  BY <1>5, ExactInvOther
<1> QED
  BY <1>1, <1>2, <1>3, <1>4, <1>5 DEF Next, Main, Failure

LEMMA ExactInvImplies == RowsInv /\ ExactInv => NodesExact
<1> SUFFICES ASSUME RowsInv, ExactInv PROVE NodesExact
  OBVIOUS
<1>1. SumsExact /\ NoEmptyNode
  BY DEF ExactInv, NodesAreExact, NodeIsExact, SumsExact, NoEmptyNode
<1>2. HistogramsExact
  BY DEF ExactInv, WorkIsExact, WorkerIsExact, HistsOf, HistogramsExact
<1>3. ScanAtMostHalf
  <2> SUFFICES ASSUME depth > 0
               PROVE  2 * Cardinality(UNION {level[i].rows : i \in DOMAIN level \ Subtracted})
                        <= Cardinality(Row)
    BY DEF ScanAtMostHalf
  <2>1. PICK A, B : A = AccumulatedRows(level) /\ B = SubtractedRows(level)
    OBVIOUS
  <2>2. A \in SUBSET Row /\ B \in SUBSET Row
    BY <2>1 DEF ExactInv, NodesAreExact, NodeIsExact, AccumulatedRows, SubtractedRows
  <2>3. A \cap B = {}
    BY <2>1 DEF RowsInv, Disjoint, AccumulatedRows, SubtractedRows
  <2>4. Cardinality(A) <= Cardinality(B)
    BY <2>1 DEF ExactInv, Halved
  <2>5. IsFiniteSet(A) /\ IsFiniteSet(B) /\ IsFiniteSet(Row) /\ A \cup B \in SUBSET Row
    BY <2>2, BuildParams, FS_Subset
  <2>6. /\ Cardinality(A) \in Nat /\ Cardinality(B) \in Nat /\ Cardinality(Row) \in Nat
    BY <2>5, FS_CardinalityType
  <2>7. Cardinality(A \cup B) = Cardinality(A) + Cardinality(B)
    <3>1. Cardinality(A \cap B) = 0
      BY <2>3, FS_EmptySet
    <3>2. Cardinality(A \cup B) = Cardinality(A) + Cardinality(B) - Cardinality(A \cap B)
      BY <2>5, FS_Union
    <3> QED
      BY <2>6, <3>1, <3>2
  <2>8. Cardinality(A \cup B) <= Cardinality(Row)
    BY <2>5, FS_Subset
  <2>9. UNION {level[i].rows : i \in DOMAIN level \ Subtracted} = A
    BY <2>1 DEF AccumulatedRows, Subtracted, Accumulated
  <2> QED
    BY <2>4, <2>6, <2>7, <2>8, <2>9
<1> QED
  BY <1>1, <1>2, <1>3 DEF NodesExact

\* The splits chosen are at bins of their features: the scans find no others.
LEMMA ExactInvFits == ExactInv => RowsQuantized /\ ChosenFit
<1> SUFFICES ASSUME ExactInv PROVE RowsQuantized /\ ChosenFit
  OBVIOUS
<1>1. RowsQuantized /\ sampled \subseteq Feature
  BY DEF ExactInv, Inputs
<1>2. ASSUME phase = "partition", NEW i \in DOMAIN level, chosen[i] # NoSplit
      PROVE  /\ level[i].rows \subseteq Row
             /\ chosen[i].feat \in Feature /\ chosen[i].bin \in 0..NBins[chosen[i].feat]
             /\ chosen[i].missing_left \in BOOLEAN
  <2>1. chosen[i] \in GoodSplits(level[i].rows)
    BY <1>2 DEF ExactInv, ChoicesAreGood
  <2>2. PICK f \in sampled : chosen[i] \in SplitsOf(level[i].rows, f)
    BY <2>1 DEF GoodSplits
  <2>3. NBins[f] \in Nat
    BY <1>1, <2>2, NBinsFit
  <2>4. PICK bin, ml : /\ chosen[i] = RowSplit(level[i].rows, f, bin, ml)
                       /\ \/ ml = FALSE /\ bin \in 1..NBins[f]
                          \/ ml = TRUE /\ bin \in 0..(NBins[f] - 1)
    BY <2>2 DEF SplitsOf
  <2>5. chosen[i].feat = f /\ chosen[i].bin = bin /\ chosen[i].missing_left = ml
    BY <2>4 DEF RowSplit
  <2>6. bin \in 0..NBins[f]
    BY <2>3, <2>4
  <2>8. ml \in BOOLEAN
    BY <2>4
  <2>7. level[i].rows \subseteq Row
    BY <1>2 DEF ExactInv, NodesAreExact, NodeIsExact
  <2> QED
    BY <1>1, <2>2, <2>5, <2>6, <2>7, <2>8
<1> QED
  BY <1>1, <1>2 DEF ChosenFit

\* What training added to a row's prediction is what the finished tree predicts for
\* that row from its raw values, and for any raw row at all the tree gives the same
\* value from the values and from their bins: the thresholds kept in the tree part
\* the values as the bins of the splits parted the rows (split_threshold, split_bin),
\* the f32::MIN and f32::MAX of the splits by "missing or not" included.
THEOREM TrainingMatchesPrediction == Spec => []TrainMatchesPredict
<1>1. Init => RowsInv /\ ClaimsInv /\ PathInv /\ ExactInv
  BY RowsInvInit, ClaimsInvInit, PathInvInit, ExactInvInit
<1>2. (RowsInv /\ ClaimsInv /\ PathInv /\ ExactInv) /\ [Next]_vars
        => (RowsInv /\ ClaimsInv /\ PathInv /\ ExactInv)'
  <2>1. RowsInv => Shape
    BY DEF RowsInv
  <2> QED
    BY <2>1, RowsInvNext, ClaimsInvNext, PathInvNext, ExactInvNext, ExactInvFits
<1>3. RowsInv /\ PathInv /\ ExactInv => TrainMatchesPredict
  BY PathInvImplies, ExactInvFits
<1> QED
  BY <1>1, <1>2, <1>3, PTL DEF Spec

\* Every node's sum is that of its rows, every histogram, accumulated or parent
\* minus sibling, is the histogram of its node's rows, no node is empty, and
\* below the root a level accumulates at most half of the rows, in every block.
THEOREM NodesAreExactAlways == Spec => []NodesExact
<1>1. Init => RowsInv /\ ClaimsInv /\ PathInv /\ ExactInv
  BY RowsInvInit, ClaimsInvInit, PathInvInit, ExactInvInit
<1>2. (RowsInv /\ ClaimsInv /\ PathInv /\ ExactInv) /\ [Next]_vars
        => (RowsInv /\ ClaimsInv /\ PathInv /\ ExactInv)'
  <2>1. RowsInv => Shape
    BY DEF RowsInv
  <2> QED
    BY <2>1, RowsInvNext, ClaimsInvNext, PathInvNext, ExactInvNext, ExactInvFits
<1>3. RowsInv /\ ClaimsInv /\ PathInv /\ ExactInv => NodesExact
  BY ExactInvImplies
<1> QED
  BY <1>1, <1>2, <1>3, PTL DEF Spec

----------------------------------------------------------------------------
(***************************************************************************)
(* The order of splits: each scan meets its candidates in the order that   *)
(* decides ties, and scans follow each other in the order of the features  *)
(***************************************************************************)

\* Sequences that are sorted by a relation, and those that have all of another one.
SortedBy(s, R) == \A j, k \in 1..Len(s) : j < k => << s[j], s[k] >> \in R
Precedes(s, t, R) == \A j \in 1..Len(s), k \in 1..Len(t) : << s[j], t[k] >> \in R
HasElements(s, t) == \A j \in 1..Len(t) : \E i \in 1..Len(s) : s[i] = t[j]

LEMMA ConcatOrdered ==
  ASSUME NEW V, NEW R, NEW s \in Seq(V), NEW t \in Seq(V),
         SortedBy(s, R), SortedBy(t, R), Precedes(s, t, R)
  PROVE  /\ s \o t \in Seq(V) /\ SortedBy(s \o t, R)
         /\ HasElements(s \o t, s) /\ HasElements(s \o t, t)
<1> USE DEF SortedBy, Precedes, HasElements
<1>1. /\ s \o t \in Seq(V) /\ Len(s) \in Nat /\ Len(t) \in Nat
      /\ Len(s \o t) = Len(s) + Len(t)
      /\ \A i \in 1..Len(s \o t) : (s \o t)[i] = IF i <= Len(s) THEN s[i] ELSE t[i - Len(s)]
  OBVIOUS
<1>2. PICK u : u = s \o t
  OBVIOUS
<1>3. ASSUME NEW j \in 1..Len(u), NEW k \in 1..Len(u), j < k
      PROVE  << u[j], u[k] >> \in R
  <2>1. CASE k <= Len(s)
    <3>1. j \in 1..Len(s) /\ k \in 1..Len(s) /\ u[j] = s[j] /\ u[k] = s[k]
      BY <1>1, <1>2, <1>3, <2>1
    <3>2. << s[j], s[k] >> \in R
      BY <1>3, <3>1
    <3> QED
      BY <3>1, <3>2
  <2>2. CASE j <= Len(s) /\ k > Len(s)
    <3>1. /\ j \in 1..Len(s) /\ k - Len(s) \in 1..Len(t)
          /\ u[j] = s[j] /\ u[k] = t[k - Len(s)]
      BY <1>1, <1>2, <1>3, <2>2
    <3> QED
      BY <3>1
  <2>3. CASE j > Len(s)
    <3>1. /\ j - Len(s) \in 1..Len(t) /\ k - Len(s) \in 1..Len(t) /\ j - Len(s) < k - Len(s)
          /\ u[j] = t[j - Len(s)] /\ u[k] = t[k - Len(s)]
      BY <1>1, <1>2, <1>3, <2>3
    <3> QED
      BY <3>1
  <2>4. k <= Len(s) \/ (j <= Len(s) /\ k > Len(s)) \/ j > Len(s)
    BY <1>1, <1>2
  <2> QED
    BY <2>1, <2>2, <2>3, <2>4
<1>4. ASSUME NEW j \in 1..Len(s) PROVE j \in 1..Len(u) /\ u[j] = s[j]
  BY <1>1, <1>2
<1>5. ASSUME NEW j \in 1..Len(t)
      PROVE  Len(s) + j \in 1..Len(u) /\ u[Len(s) + j] = t[j]
  <2>1. Len(s) + j \in 1..Len(u) /\ ~(Len(s) + j <= Len(s)) /\ (Len(s) + j) - Len(s) = j
    BY <1>1, <1>2
  <2> QED
    BY <1>1, <1>2, <2>1
<1> QED
  BY <1>1, <1>2, <1>3, <1>4, <1>5

\* One split is better than another one: more gain, or the same and found earlier.
Better(c, d) == c.gain > d.gain \/ (c.gain = d.gain /\ Greedy!Earlier(c, d))

\* b is the best of the splits A, or there is none.
BestAmong(A, b) ==
  \/ b = NoSplit /\ A = {}
  \/ b \in A /\ \A d \in A : b = d \/ Better(b, d)

\* What the order of splits compares.
Comparable(c) ==
  /\ c.gain \in Int /\ c.feat \in Int /\ c.bin \in Int /\ c.missing_left \in BOOLEAN

LEMMA BetterIsOrder ==
  ASSUME NEW b, NEW c, NEW d, Comparable(b), Comparable(c), Comparable(d)
  PROVE  /\ Better(b, c) /\ Better(c, d) => Better(b, d)
         /\ ~(Better(b, c) /\ Better(c, b))
<1>1. PICK g1, g2, g3 : g1 = b.gain /\ g2 = c.gain /\ g3 = d.gain
  OBVIOUS
<1>2. g1 \in Int /\ g2 \in Int /\ g3 \in Int
  BY <1>1 DEF Comparable
<1>3. /\ Greedy!Earlier(b, c) /\ Greedy!Earlier(c, d) => Greedy!Earlier(b, d)
      /\ ~(Greedy!Earlier(b, c) /\ Greedy!Earlier(c, b))
  BY DEF Greedy!Earlier, Comparable
<1> QED
  BY <1>1, <1>2, <1>3 DEF Better

LEMMA SplitIsComparable ==
  ASSUME Inputs, NEW rows \in SUBSET Row, NEW f \in Feature, NEW c \in SplitsOf(rows, f)
  PROVE  Comparable(c) /\ c.feat = f
<1>1. PICK b, ml : /\ c = RowSplit(rows, f, b, ml)
                   /\ \/ ml = FALSE /\ b \in 1..NBins[f]
                      \/ ml = TRUE /\ b \in 0..(NBins[f] - 1)
  BY DEF SplitsOf
<1>2. c.bin = b /\ c.missing_left = ml
  BY <1>1 DEF RowSplit
<1>3. f \in Int /\ b \in Int /\ ml \in BOOLEAN
  <2>1. f \in Int /\ NBins[f] \in Nat
    BY NBinsFit, BinsFit
  <2>2. b \in Int
    BY <1>1, <2>1
  <2>3. ml \in BOOLEAN
    BY <1>1
  <2> QED
    BY <2>1, <2>2, <2>3
<1>4. c.gain \in Int /\ c.feat = f
  BY SplitSides
<1> QED
  BY <1>2, <1>3, <1>4 DEF Comparable

\* The pairs of splits that are in the right order.
InOrder(V) == {p \in V \X V : Greedy!Earlier(p[1], p[2])}

\* s has splits of V only, in the right order.
Ordered(s, V) ==
  /\ s \in Seq(V)
  /\ \A j, k \in 1..Len(s) : j < k => Greedy!Earlier(s[j], s[k])

LEMMA OrderedIn ==
  ASSUME NEW U, NEW V, U \subseteq V, NEW s, Ordered(s, U)
  PROVE  Ordered(s, V) /\ s \in Seq(V) /\ \A i \in 1..Len(s) : s[i] \in U
BY DEF Ordered

\* Every element of V is in s.
HasEach(s, V) == \A c \in V : \E j \in 1..Len(s) : s[j] = c

\* At most one split for each of n bins, in the order of one scan.
IsScan(seqs, n, V, f, ml) ==
  /\ IsSequence(seqs) /\ Len(seqs) = n
  /\ \A i \in 1..n : seqs[i] = << >> \/ \E c \in V :
       /\ seqs[i] = << c >>
       /\ c.feat = f /\ c.missing_left = ml /\ c.bin = IF ml THEN n - i ELSE i

\* Every split there is appears in s.
HasAll(s, seqs, n) ==
  \A i \in 1..n : \A c : seqs[i] = << c >> => \E j \in 1..Len(s) : s[j] = c

LEMMA OneScan ==
  ASSUME NEW n \in Nat, NEW V, NEW f \in Int, NEW ml \in BOOLEAN, NEW seqs,
         IsScan(seqs, n, V, f, ml)
  PROVE  Ordered(FlattenSeq(seqs), V) /\ HasAll(FlattenSeq(seqs), seqs, n)
<1> DEFINE R == InOrder(V)
<1>1. IsSequence(seqs) /\ Len(seqs) = n
  BY DEF IsScan
<1>2. ASSUME NEW i \in 1..n
      PROVE  /\ seqs[i] \in Seq(V) /\ Len(seqs[i]) \in {0, 1}
             /\ Len(seqs[i]) = 1 =>
                  /\ seqs[i][1] \in V
                  /\ seqs[i][1].feat = f /\ seqs[i][1].missing_left = ml
                  /\ seqs[i][1].bin = IF ml THEN n - i ELSE i
  <2>1. CASE seqs[i] = << >>
    <3>1. << >> \in Seq(V) /\ Len(<< >>) = 0
      OBVIOUS
    <3> QED
      BY <2>1, <3>1
  <2>2. ASSUME NEW c \in V, seqs[i] = << c >>,
               c.feat = f /\ c.missing_left = ml /\ c.bin = IF ml THEN n - i ELSE i
        PROVE  /\ seqs[i] \in Seq(V) /\ Len(seqs[i]) = 1 /\ seqs[i][1] = c
    <3>1. << c >> \in Seq(V) /\ Len(<< c >>) = 1 /\ << c >>[1] = c
      OBVIOUS
    <3> QED
      BY <2>2, <3>1
  <2> QED
    BY <2>1, <2>2 DEF IsScan
<1>3. ASSUME NEW i \in 1..n, NEW j \in 1..Len(seqs[i]), NEW k \in 1..Len(seqs[i]), j < k
      PROVE  << seqs[i][j], seqs[i][k] >> \in R
  <2>1. Len(seqs[i]) = 0 \/ Len(seqs[i]) = 1
    BY <1>2
  <2> QED
    BY <1>3, <2>1
<1>4. ASSUME NEW i \in 1..n, NEW j \in 1..n, i < j,
             NEW k \in 1..Len(seqs[i]), NEW l \in 1..Len(seqs[j])
      PROVE  << seqs[i][k], seqs[j][l] >> \in R
  <2>1. Len(seqs[i]) = 1 /\ Len(seqs[j]) = 1 /\ k = 1 /\ l = 1
    <3>1. PICK m, o : m = Len(seqs[i]) /\ o = Len(seqs[j])
      OBVIOUS
    <3>2. (m = 0 \/ m = 1) /\ (o = 0 \/ o = 1) /\ k \in 1..m /\ l \in 1..o
      BY <1>2, <3>1
    <3>3. m = 1 /\ o = 1 /\ k = 1 /\ l = 1
      BY <3>2
    <3> QED
      BY <3>1, <3>3
  <2>2. PICK c, d : c = seqs[i][1] /\ d = seqs[j][1]
    OBVIOUS
  <2>3. /\ c \in V /\ c.feat = f /\ c.missing_left = ml /\ c.bin = IF ml THEN n - i ELSE i
        /\ d \in V /\ d.feat = f /\ d.missing_left = ml /\ d.bin = IF ml THEN n - j ELSE j
    BY <1>2, <2>1, <2>2
  <2>4. Greedy!Earlier(c, d)
    BY <1>4, <2>3 DEF Greedy!Earlier
  <2> QED
    BY <2>1, <2>2, <2>3, <2>4 DEF InOrder
<1>5. \A i \in 1..n : seqs[i] \in Seq(V)
  BY <1>2
<1> HIDE DEF R
<1>6. FlattenSeq(seqs) \in Seq(V)
  BY <1>1, <1>5, FlattenIn
<1>7. \A j, k \in 1..Len(FlattenSeq(seqs)) :
        j < k => << FlattenSeq(seqs)[j], FlattenSeq(seqs)[k] >> \in R
  <2>1. \A i \in 1..Len(seqs) : \A j, k \in 1..Len(seqs[i]) :
           j < k => << seqs[i][j], seqs[i][k] >> \in R
    BY <1>1, <1>3
  <2>2. \A i, j \in 1..Len(seqs) : i < j =>
           \A k \in 1..Len(seqs[i]) : \A l \in 1..Len(seqs[j]) :
             << seqs[i][k], seqs[j][l] >> \in R
    BY <1>1, <1>4
  <2> QED
    BY <1>1, <1>5, <2>1, <2>2, FlattenOrdered
<1>8. ASSUME NEW i \in 1..n, NEW c, seqs[i] = << c >>
      PROVE  \E j \in 1..Len(FlattenSeq(seqs)) : FlattenSeq(seqs)[j] = c
  <2>1. PICK k : k \in 1..Len(seqs[i]) /\ seqs[i][k] = c
    BY <1>8
  <2>2. /\ IsSequence(seqs) /\ i \in 1..Len(seqs)
        /\ \A m \in 1..Len(seqs) : seqs[m] \in Seq(V)
    BY <1>1, <1>5
  <2>3. \E j \in 1..Len(FlattenSeq(seqs)) : FlattenSeq(seqs)[j] = seqs[i][k]
    BY <2>1, <2>2, FlattenHas
  <2> QED
    BY <2>1, <2>3
<1>9. \A j, k \in 1..Len(FlattenSeq(seqs)) :
        j < k => Greedy!Earlier(FlattenSeq(seqs)[j], FlattenSeq(seqs)[k])
  BY <1>7 DEF R, InOrder
<1> QED
  BY <1>6, <1>8, <1>9 DEF Ordered, HasAll

\* What is left of the splits of a feature when missing values all go one way.
SplitsTo(rows, f, ml) == {c \in SplitsOf(rows, f) : c.missing_left = ml}

LEMMA SplitsToAre ==
  ASSUME NEW rows, NEW f \in Feature, NEW ml \in BOOLEAN, NEW c
  PROVE  c \in SplitsTo(rows, f, ml) <=>
           \E b \in Int : /\ IF ml THEN b \in 0..(NBins[f] - 1) ELSE b \in 1..NBins[f]
                          /\ c = RowSplit(rows, f, b, ml) /\ HeavyEnough(c.left, c.right)
<1>1. \A b, m : RowSplit(rows, f, b, m).missing_left = m
  BY DEF RowSplit
<1>2. NBins[f] \in Nat
  BY NBinsFit
<1>3. ASSUME c \in SplitsTo(rows, f, ml)
      PROVE  \E b \in Int : /\ IF ml THEN b \in 0..(NBins[f] - 1) ELSE b \in 1..NBins[f]
                            /\ c = RowSplit(rows, f, b, ml) /\ HeavyEnough(c.left, c.right)
  <2>1. PICK b, m : /\ c = RowSplit(rows, f, b, m)
                    /\ \/ m = FALSE /\ b \in 1..NBins[f]
                       \/ m = TRUE /\ b \in 0..(NBins[f] - 1)
                    /\ HeavyEnough(c.left, c.right) /\ c.missing_left = ml
    BY <1>3 DEF SplitsTo, SplitsOf
  <2>2. m = ml
    BY <1>1, <2>1
  <2>3. b \in Int
    BY <1>2, <2>1
  <2> QED
    BY <2>1, <2>2, <2>3
<1>4. ASSUME NEW b \in Int, IF ml THEN b \in 0..(NBins[f] - 1) ELSE b \in 1..NBins[f],
             c = RowSplit(rows, f, b, ml), HeavyEnough(c.left, c.right)
      PROVE  c \in SplitsTo(rows, f, ml)
  <2>1. c.missing_left = ml
    BY <1>1, <1>4
  <2>2. c \in {RowSplit(rows, f, k, FALSE) : k \in 1..NBins[f]} \cup
             {RowSplit(rows, f, k, TRUE) : k \in 0..(NBins[f] - 1)}
    BY <1>4
  <2> QED
    BY <1>4, <2>1, <2>2 DEF SplitsTo, SplitsOf
<1> QED
  BY <1>3, <1>4

\* The candidates of one direction: all of them, in order.
IsScanOf(seqs, rows, f, ml) ==
  seqs = IF ml THEN ReverseSplits(rows, f) ELSE ForwardSplits(rows, f)

LEMMA ScanOrder ==
  ASSUME NEW rows, NEW f \in Feature, NEW ml \in BOOLEAN, NEW seqs,
         IsScanOf(seqs, rows, f, ml)
  PROVE  /\ Ordered(FlattenSeq(seqs), SplitsTo(rows, f, ml))
         /\ HasEach(FlattenSeq(seqs), SplitsTo(rows, f, ml))
<1> DEFINE n == NBins[f]
           bin(i) == IF ml THEN n - i ELSE i
           V == SplitsTo(rows, f, ml)
<1>1. n \in Nat /\ n >= 1 /\ f \in Int
  BY NBinsFit, BinsFit
<1>2. seqs = [i \in 1..n |-> HeavySplit(rows, f, bin(i), ml)]
  BY DEF IsScanOf, ForwardSplits, ReverseSplits
<1>3. ASSUME NEW i \in 1..n
      PROVE  seqs[i] = << >> \/ \E c \in V :
               /\ seqs[i] = << c >>
               /\ c.feat = f /\ c.missing_left = ml /\ c.bin = bin(i)
  <2>1. PICK c : c = RowSplit(rows, f, bin(i), ml)
    OBVIOUS
  <2>2. c.feat = f /\ c.missing_left = ml /\ c.bin = bin(i)
    BY <2>1 DEF RowSplit
  <2>3. seqs[i] = IF HeavyEnough(c.left, c.right) THEN << c >> ELSE << >>
    <3>1. seqs[i] = HeavySplit(rows, f, bin(i), ml)
      BY <1>2
    <3> QED
      BY <2>1, <3>1 DEF HeavySplit
  <2>4. bin(i) \in Int /\ IF ml THEN bin(i) \in 0..(n - 1) ELSE bin(i) \in 1..n
    BY <1>1
  <2>5. HeavyEnough(c.left, c.right) => c \in V
    BY <2>1, <2>4, SplitsToAre
  <2> QED
    BY <2>2, <2>3, <2>5
<1>4. IsSequence(seqs) /\ Len(seqs) = n
  <2>1. seqs \in [1..n -> {seqs[i] : i \in 1..n}]
    BY <1>2
  <2> HIDE DEF n
  <2> QED
    BY <1>1, <2>1, SequenceOf
<1> HIDE DEF V, n
<1>5. IsScan(seqs, n, V, f, ml)
  BY <1>3, <1>4 DEF IsScan
<1>6. Ordered(FlattenSeq(seqs), V) /\ HasAll(FlattenSeq(seqs), seqs, n)
  BY <1>1, <1>5, OneScan
<1>7. ASSUME NEW c \in V
      PROVE  \E i \in 1..n : seqs[i] = << c >>
  <2>1. PICK b \in Int : /\ IF ml THEN b \in 0..(n - 1) ELSE b \in 1..n
                         /\ c = RowSplit(rows, f, b, ml) /\ HeavyEnough(c.left, c.right)
    BY <1>7, SplitsToAre DEF V, n
  <2>2. PICK i \in 1..n : bin(i) = b
    <3>1. (IF ml THEN n - b ELSE b) \in 1..n /\ bin(IF ml THEN n - b ELSE b) = b
      BY <1>1, <2>1
    <3> QED
      BY <3>1
  <2>3. seqs[i] = HeavySplit(rows, f, b, ml)
    BY <1>2, <2>2
  <2>4. seqs[i] = << c >>
    BY <2>1, <2>3 DEF HeavySplit
  <2> QED
    BY <2>4
<1> QED
  BY <1>6, <1>7 DEF V, HasAll, HasEach

\* Every split of A is in s, or a better one is.
Covers(s, A) ==
  \A c \in A : \E i \in 1..Len(s) : s[i] = c \/ Better(s[i], c)

\* When no gradient is missing, sending the missing rows left changes no side.
LEMMA MissingAreZero ==
  ASSUME Inputs, NEW rows \in SUBSET Row, NEW f \in Feature, NEW b \in 0..(NBins[f] - 1),
         NodeSum(gpair, LeftRows(rows, f, NBins[f], FALSE)) = NodeSum(gpair, rows)
  PROVE  /\ NodeSum(gpair, LeftRows(rows, f, b, TRUE)) =
              NodeSum(gpair, LeftRows(rows, f, b, FALSE))
         /\ NodeSum(gpair, rows \ LeftRows(rows, f, b, TRUE)) =
              NodeSum(gpair, rows \ LeftRows(rows, f, b, FALSE))
         /\ b = 0 => NodeSum(gpair, LeftRows(rows, f, b, FALSE)) = Zero
<1> DEFINE n == NBins[f]
<1>1. n \in Nat /\ n >= 1 /\ n <= 255
  BY NBinsFit
<1>2. IsFiniteSet(rows) /\ IsGrads(gpair, rows)
  BY RowsHaveSums
<1>3. \A r \in rows : bins[r][f] \in 0..(n - 1) \/ bins[r][f] = 255
  BY DEF Inputs, BinsOf, MISSING_BIN
<1>4. PICK L, T, F, M : /\ L = LeftRows(rows, f, n, FALSE)
                        /\ T = LeftRows(rows, f, b, TRUE)
                        /\ F = LeftRows(rows, f, b, FALSE)
                        /\ M = {r \in rows : bins[r][f] = 255}
  OBVIOUS
<1>5. /\ L \in SUBSET rows /\ T \in SUBSET rows /\ F \in SUBSET rows /\ M \in SUBSET rows
      /\ rows \ L = M /\ T = F \cup M /\ F \cap M = {}
  BY <1>1, <1>3, <1>4 DEF LeftRows, GoesLeft, MISSING_BIN
<1>6. b = 0 => F = {}
  BY <1>1, <1>3, <1>4 DEF LeftRows, GoesLeft, MISSING_BIN
<1>7. NodeSum(gpair, M) = Zero
  <2>1. /\ NodeSum(gpair, L) \in GradPairFixed /\ NodeSum(gpair, rows \ L) \in GradPairFixed
        /\ NodeSum(gpair, rows) = Plus(NodeSum(gpair, L), NodeSum(gpair, rows \ L))
    BY <1>2, <1>5, SumRest
  <2>2. PICK p, q : p = NodeSum(gpair, L) /\ q = NodeSum(gpair, rows \ L)
    OBVIOUS
  <2>3. p \in GradPairFixed /\ q \in GradPairFixed /\ p = Plus(p, q)
    BY <1>4, <2>1, <2>2
  <2>4. p.grad \in Int /\ p.hess \in Int /\ q.grad \in Int /\ q.hess \in Int
        /\ q = [grad |-> q.grad, hess |-> q.hess]
        /\ p.grad = p.grad + q.grad /\ p.hess = p.hess + q.hess
    BY <2>3 DEF GradPairFixed, Plus
  <2>5. q.grad = 0 /\ q.hess = 0
    BY <2>4
  <2> QED
    BY <1>5, <2>2, <2>4, <2>5 DEF Zero
<1>8. NodeSum(gpair, T) = Plus(NodeSum(gpair, F), NodeSum(gpair, M))
  BY <1>2, <1>5, SumUnion
<1>9. NodeSum(gpair, F) \in GradPairFixed
  BY <1>2, <1>5, SumRest
<1>10. Plus(NodeSum(gpair, F), Zero) = NodeSum(gpair, F)
  <2>1. PICK p : p = NodeSum(gpair, F)
    OBVIOUS
  <2>2. p \in GradPairFixed
    BY <1>9, <2>1
  <2>3. Plus(p, Zero) = p
    BY <2>2 DEF Plus, Zero, GradPairFixed
  <2> QED
    BY <2>1, <2>3
<1>11. NodeSum(gpair, T) = NodeSum(gpair, F)
  BY <1>7, <1>8, <1>10
<1>12. /\ Minus(NodeSum(gpair, rows), NodeSum(gpair, T)) = NodeSum(gpair, rows \ T)
       /\ Minus(NodeSum(gpair, rows), NodeSum(gpair, F)) = NodeSum(gpair, rows \ F)
  BY <1>2, <1>5, SumRest
<1>13. b = 0 => NodeSum(gpair, F) = Zero
  BY <1>6, SumEmpty
<1> QED
  BY <1>4, <1>11, <1>12, <1>13

\* A split that gains nothing over not splitting.
LEMMA EmptySideGainsNothing ==
  ASSUME NEW total \in GradPairFixed, total.hess >= 0
  PROVE  ~(SplitGain(Gain(total), Zero, total) > 0)
<1>1. Gain(total) \in Int
  BY GainIsInt
<1>2. Gain(Zero) = 0
  <2>1. Zero.grad = 0 /\ Zero.hess = 0
    BY DEF Zero
  <2>2. Lambda \in Int /\ Lambda > 0 /\ Scale \in Int
    BY ScanParams
  <2>3. Zero.grad * Zero.grad * Scale = 0 /\ Zero.hess + Lambda = Lambda
    BY <2>1, <2>2
  <2>4. \A m \in Int : m > 0 => 0 \div m = 0
    OBVIOUS
  <2> QED
    BY <2>2, <2>3, <2>4 DEF Gain
<1>3. PICK g : g = Gain(total)
  OBVIOUS
<1>4. Gamma \in Int /\ Gamma >= 0
  BY ScanParams
<1>5. SplitGain(g, Zero, total) = 0 + g - g - Gamma
  BY <1>2, <1>3 DEF SplitGain
<1>6. 0 + g - g - Gamma <= 0
  BY <1>1, <1>3, <1>4
<1> QED
  BY <1>1, <1>3, <1>4, <1>5, <1>6

\* So the reverse scan that is skipped would have found nothing better.
LEMMA ReverseIsIdle ==
  ASSUME Inputs, NEW rows \in SUBSET Row, NEW f \in Feature,
         NodeSum(gpair, LeftRows(rows, f, NBins[f], FALSE)) = NodeSum(gpair, rows),
         NEW c \in SplitsTo(rows, f, TRUE), c.gain > 0
  PROVE  \E d \in SplitsTo(rows, f, FALSE) : Better(d, c)
<1> DEFINE n == NBins[f]
<1>1. PICK b \in 0..(n - 1) : c = RowSplit(rows, f, b, TRUE) /\ HeavyEnough(c.left, c.right)
  <2>1. \E b \in Int : /\ b \in 0..(NBins[f] - 1)
                       /\ c = RowSplit(rows, f, b, TRUE) /\ HeavyEnough(c.left, c.right)
    BY SplitsToAre
  <2> QED
    BY <2>1
<1>2. PICK d : d = RowSplit(rows, f, b, FALSE)
  OBVIOUS
<1>3. PICK total : total = NodeSum(gpair, rows)
  OBVIOUS
<1>4. /\ c.feat = f /\ c.missing_left = TRUE
      /\ c.left = NodeSum(gpair, LeftRows(rows, f, b, TRUE))
      /\ c.right = NodeSum(gpair, rows \ LeftRows(rows, f, b, TRUE))
      /\ c.gain = SplitGain(Gain(total), c.left, c.right)
  BY <1>1, <1>3 DEF RowSplit
<1>5. /\ d.feat = f /\ d.missing_left = FALSE
      /\ d.left = NodeSum(gpair, LeftRows(rows, f, b, FALSE))
      /\ d.right = NodeSum(gpair, rows \ LeftRows(rows, f, b, FALSE))
      /\ d.gain = SplitGain(Gain(total), d.left, d.right)
  BY <1>2, <1>3 DEF RowSplit
<1>6. c.left = d.left /\ c.right = d.right /\ (b = 0 => c.left = Zero)
  BY <1>4, <1>5, MissingAreZero
<1>7. PICK left, right : left = c.left /\ right = c.right
  OBVIOUS
<1>8. /\ left \in GradPairFixed /\ right \in GradPairFixed /\ left.hess >= 0
      /\ right.hess >= 0 /\ total = Plus(left, right)
  <2>1. c \in SplitsOf(rows, f)
    BY DEF SplitsTo
  <2>2. /\ c.left \in GradPairFixed /\ c.right \in GradPairFixed
        /\ c.left.hess >= 0 /\ c.right.hess >= 0
        /\ NodeSum(gpair, rows) = Plus(c.left, c.right)
    BY <2>1, SidesAddUp
  <2> QED
    BY <1>3, <1>7, <2>2
<1>9. b # 0
  <2>1. SUFFICES ASSUME b = 0 PROVE FALSE
    OBVIOUS
  <2>2. left = Zero /\ total = right
    <3>1. left = Zero
      BY <1>6, <1>7, <2>1
    <3>2. Plus(Zero, right) = right
      BY <1>8 DEF Plus, Zero, GradPairFixed
    <3> QED
      BY <1>8, <3>1, <3>2
  <2>3. ~(SplitGain(Gain(total), Zero, total) > 0)
    BY <1>8, <2>2, EmptySideGainsNothing
  <2>4. c.gain = SplitGain(Gain(total), Zero, total)
    BY <1>4, <1>7, <2>2
  <2> QED
    BY <2>3, <2>4
<1>10. b \in 1..n /\ b \in Int
  BY <1>9, NBinsFit
<1>11. d \in SplitsTo(rows, f, FALSE)
  <2>1. HeavyEnough(d.left, d.right)
    BY <1>1, <1>6
  <2> QED
    BY <1>2, <1>10, <2>1, SplitsToAre
<1>12. Better(d, c)
  <2>1. d.gain = c.gain /\ d.feat = c.feat /\ ~d.missing_left /\ c.missing_left
    BY <1>4, <1>5, <1>6
  <2> QED
    BY <2>1 DEF Better, Greedy!Earlier
<1> QED
  BY <1>11, <1>12

\* The scan of a feature: splits in order, and of every good one it has it or a better one.
LEMMA ScanIsOrdered ==
  ASSUME Inputs, NEW rows \in SUBSET Row, NEW f \in Feature, NEW h,
         IsHistOf(h, gpair, bins, rows, f, NBins[f])
  PROVE  /\ Ordered(ScanFeature(f, h, NodeSum(gpair, rows)), SplitsOf(rows, f))
         /\ Covers(ScanFeature(f, h, NodeSum(gpair, rows)),
                   {c \in SplitsOf(rows, f) : c.gain > 0})
<1> DEFINE V == SplitsOf(rows, f)
           A == {c \in V : c.gain > 0}
<1>1. PICK s, t, u, w :
        /\ s = FlattenSeq(ForwardSplits(rows, f)) /\ t = FlattenSeq(ReverseSplits(rows, f))
        /\ u = NodeSum(gpair, LeftRows(rows, f, NBins[f], FALSE))
        /\ w = ScanFeature(f, h, NodeSum(gpair, rows))
  OBVIOUS
<1>2. w = s \o (IF u = NodeSum(gpair, rows) THEN << >> ELSE t)
  BY <1>1, ScanFromRows
<1>3. PICK F, T : F = SplitsTo(rows, f, FALSE) /\ T = SplitsTo(rows, f, TRUE)
  OBVIOUS
<1>4. /\ Ordered(s, F) /\ Ordered(t, T) /\ HasEach(s, F) /\ HasEach(t, T)
  <2>1. PICK v, x : v = ForwardSplits(rows, f) /\ x = ReverseSplits(rows, f)
    OBVIOUS
  <2>2. IsScanOf(v, rows, f, FALSE) /\ IsScanOf(x, rows, f, TRUE)
    BY <2>1 DEF IsScanOf
  <2>3. s = FlattenSeq(v) /\ t = FlattenSeq(x)
    BY <1>1, <2>1
  <2>4. Ordered(FlattenSeq(v), F) /\ HasEach(FlattenSeq(v), F)
    BY <1>3, <2>2, ScanOrder
  <2>5. Ordered(FlattenSeq(x), T) /\ HasEach(FlattenSeq(x), T)
    BY <1>3, <2>2, ScanOrder
  <2> QED
    BY <2>3, <2>4, <2>5
<1>5. /\ F \subseteq V /\ T \subseteq V /\ V \subseteq F \cup T
      /\ \A c \in F : c.feat = f /\ ~c.missing_left
      /\ \A c \in T : c.feat = f /\ c.missing_left
  <2>1. \A c \in V : c.missing_left \in BOOLEAN /\ c.feat = f
    BY SplitIsComparable DEF Comparable
  <2> QED
    BY <1>3, <2>1 DEF SplitsTo
<1>6. /\ Ordered(s, V) /\ s \in Seq(V) /\ \A i \in 1..Len(s) : s[i] \in F
      /\ Ordered(t, V) /\ t \in Seq(V) /\ \A i \in 1..Len(t) : t[i] \in T
  <2> HIDE DEF V
  <2> QED
    BY <1>4, <1>5, OrderedIn
<1> SUFFICES Ordered(w, V) /\ Covers(w, A)
  BY <1>1
<1>7. CASE u = NodeSum(gpair, rows)
  <2>1. w = s
    <3>1. w = s \o << >>
      BY <1>2, <1>7
    <3> HIDE DEF V
    <3> QED
      BY <1>6, <3>1
  <2>2. ASSUME NEW c \in A PROVE \E i \in 1..Len(s) : s[i] = c \/ Better(s[i], c)
    <3>1. CASE c \in F
      BY <1>4, <3>1 DEF HasEach
    <3>2. CASE c \in T
      <4>1. c.gain > 0
        OBVIOUS
      <4>2. PICK d \in F : Better(d, c)
        BY <1>1, <1>3, <1>7, <3>2, <4>1, ReverseIsIdle
      <4> QED
        BY <1>4, <4>2 DEF HasEach
    <3> QED
      BY <1>5, <3>1, <3>2
  <2> HIDE DEF A, V
  <2> QED
    BY <1>6, <2>1, <2>2 DEF Covers
<1>8. CASE u # NodeSum(gpair, rows)
  <2>1. w = s \o t
    BY <1>2, <1>8
  <2> HIDE DEF V
  <2>2. PICK R : R = InOrder(V)
    OBVIOUS
  <2>3. Precedes(s, t, R)
    <3> SUFFICES ASSUME NEW j \in 1..Len(s), NEW k \in 1..Len(t)
                 PROVE  << s[j], t[k] >> \in R
      BY DEF Precedes
    <3>1. PICK c, d : c = s[j] /\ d = t[k]
      OBVIOUS
    <3>2. c \in F /\ d \in T
      BY <1>6, <3>1
    <3>3. Greedy!Earlier(c, d)
      BY <1>5, <3>2 DEF Greedy!Earlier
    <3>4. << c, d >> \in R
      BY <1>5, <2>2, <3>2, <3>3 DEF InOrder
    <3> QED
      BY <3>1, <3>4
  <2>4. SortedBy(s, R) /\ SortedBy(t, R)
    BY <1>6, <2>2 DEF Ordered, InOrder, SortedBy
  <2>5. /\ s \o t \in Seq(V) /\ SortedBy(s \o t, R)
        /\ HasElements(s \o t, s) /\ HasElements(s \o t, t)
    BY <1>6, <2>3, <2>4, ConcatOrdered
  <2>6. w \in Seq(V) /\ SortedBy(w, R) /\ HasElements(w, s) /\ HasElements(w, t)
    BY <2>1, <2>5
  <2>7. Ordered(w, V)
    BY <2>2, <2>6 DEF Ordered, SortedBy, InOrder
  <2>8. HasEach(w, V)
    <3> SUFFICES ASSUME NEW c \in V PROVE \E i \in 1..Len(w) : w[i] = c
      BY DEF HasEach
    <3>1. CASE c \in F
      BY <1>4, <2>6, <3>1 DEF HasEach, HasElements
    <3>2. CASE c \in T
      BY <1>4, <2>6, <3>2 DEF HasEach, HasElements
    <3> QED
      BY <1>5, <3>1, <3>2
  <2>9. Covers(w, A)
    BY <2>8 DEF Covers, HasEach
  <2> QED
    BY <2>7, <2>9
<1> QED
  BY <1>7, <1>8


----------------------------------------------------------------------------
(***************************************************************************)
(* The best split of a node: what the workers and the reduction find       *)
(***************************************************************************)

\* The first of the best candidates is the best of the splits the candidates cover.
LEMMA FirstIsBest ==
  ASSUME NEW V, \A c \in V : Comparable(c), NEW s, Ordered(s, V),
         NEW A \in SUBSET V, \A c \in A : c.gain > 0, Covers(s, A),
         \A i \in 1..Len(s) : s[i].gain > 0 => s[i] \in A,
         NEW b, FirstBest(s, Len(s), b)
  PROVE  BestAmong(A, b)
<1>1. /\ Len(s) \in Nat /\ \A i \in 1..Len(s) : s[i] \in V
      /\ \A j, k \in 1..Len(s) : j < k => Greedy!Earlier(s[j], s[k])
  BY DEF Ordered
<1>2. CASE b = NoSplit /\ \A i \in 1..Len(s) : s[i].gain <= 0
  <2>1. ASSUME NEW c \in A PROVE FALSE
    <3>1. PICK i \in 1..Len(s) : s[i] = c \/ Better(s[i], c)
      BY DEF Covers
    <3>2. PICK g, h : g = s[i].gain /\ h = c.gain
      OBVIOUS
    <3>3. g \in Int /\ h \in Int /\ h > 0 /\ g <= 0
      BY <1>1, <1>2, <3>2 DEF Comparable
    <3>4. g >= h
      BY <3>1, <3>2, <3>3 DEF Better
    <3> QED
      BY <3>3, <3>4
  <2> QED
    BY <1>2, <2>1 DEF BestAmong
<1>3. ASSUME NEW i \in 1..Len(s), b = s[i], s[i].gain > 0,
             \A j \in 1..Len(s) : s[j].gain <= s[i].gain,
             \A j \in 1..(i - 1) : s[j].gain < s[i].gain
      PROVE  BestAmong(A, b)
  <2>1. b \in A /\ b \in V
    BY <1>1, <1>3
  <2>2. ASSUME NEW j \in 1..Len(s) PROVE s[j] = b \/ Better(b, s[j])
    <3>1. PICK g, h : g = s[j].gain /\ h = b.gain
      OBVIOUS
    <3>2. g \in Int /\ h \in Int /\ g <= h /\ (j < i => g < h)
      <4>1. g \in Int /\ h \in Int /\ g <= h
        BY <1>1, <1>3, <3>1 DEF Comparable
      <4>2. j < i => j \in 1..(i - 1)
        BY <1>1
      <4> QED
        BY <1>3, <3>1, <4>1, <4>2
    <3>3. CASE j < i
      BY <3>1, <3>2, <3>3 DEF Better
    <3>4. CASE j = i
      BY <1>3, <3>4
    <3>5. CASE i < j
      <4>1. Greedy!Earlier(s[i], s[j])
        BY <1>1, <3>5
      <4>2. h > g \/ h = g
        BY <3>2
      <4> QED
        BY <1>3, <3>1, <4>1, <4>2 DEF Better
    <3>6. j < i \/ j = i \/ i < j
      BY <1>1
    <3> QED
      BY <3>3, <3>4, <3>5, <3>6
  <2>3. ASSUME NEW d \in A PROVE b = d \/ Better(b, d)
    <3>1. PICK j \in 1..Len(s) : s[j] = d \/ Better(s[j], d)
      BY DEF Covers
    <3>2. s[j] = b \/ Better(b, s[j])
      BY <2>2
    <3>3. Comparable(b) /\ Comparable(s[j]) /\ Comparable(d)
      BY <1>1, <2>1
    <3>4. PICK c : c = s[j]
      OBVIOUS
    <3>5. Better(b, c) /\ Better(c, d) => Better(b, d)
      BY <3>3, <3>4, BetterIsOrder
    <3> QED
      BY <3>1, <3>2, <3>4, <3>5
  <2> QED
    BY <2>1, <2>3 DEF BestAmong
<1> QED
  BY <1>2, <1>3 DEF FirstBest

\* The features of the blocks ascend, within a block and from block to block, and
\* every drawn one is in a block.
PlansAscend ==
  /\ \A b \in Plan : \A j, k \in 1..Len(plans[b]) : j < k => plans[b][j] < plans[b][k]
  /\ \A b, c \in Plan : b < c => \A f \in FeaturesOf(b), g \in FeaturesOf(c) : f < g
  /\ \A f \in sampled : \E b \in Plan : f \in FeaturesOf(b)

LEMMA GoodSplitsAre ==
  ASSUME Inputs, NEW rows \in SUBSET Row, NEW c \in GoodSplits(rows)
  PROVE  /\ Comparable(c) /\ c.feat \in sampled /\ c.feat \in Feature
         /\ c \in SplitsOf(rows, c.feat) /\ c.gain > 0
<1>1. PICK f \in sampled : c \in SplitsOf(rows, f) /\ c.gain > 0
  BY DEF GoodSplits
<1>2. f \in Feature
  BY DEF Inputs
<1>3. Comparable(c) /\ c.feat = f
  BY <1>1, <1>2, SplitIsComparable
<1> QED
  BY <1>1, <1>2, <1>3

\* The good splits of a block's features.
BlockSplits(rows, b) == {c \in GoodSplits(rows) : c.feat \in FeaturesOf(b)}

\* A worker finds the best one of its block.
LEMMA BlockFindsBest ==
  ASSUME Inputs, PlansAscend, NEW rows \in SUBSET Row, NEW b \in Plan, NEW hist,
         HistsOf(hist, b, rows)
  PROVE  BestAmong(BlockSplits(rows, b),
                   BestSplitInBlock(hist, plans[b], NodeSum(gpair, rows), sampled))
<1> DEFINE fs == plans[b]
           total == NodeSum(gpair, rows)
           V == {c \in UNION {SplitsOf(rows, f) : f \in sampled} : c.feat \in FeaturesOf(b)}
           A == BlockSplits(rows, b)
           seqs == [k \in 1..Len(fs) |-> IF fs[k] \in sampled
                                         THEN ScanFeature(fs[k], hist[fs[k]], total)
                                         ELSE << >>]
           s == FlattenSeq(seqs)
           r == BestSplitInBlock(hist, plans[b], total, sampled)
<1>1. r = FoldLeft(UpdateBest, NoSplit, s)
  BY DEF BestSplitInBlock
<1>2. /\ fs \in Seq(Feature) /\ Len(fs) \in Nat
      /\ \A k \in 1..Len(fs) : fs[k] \in Feature /\ fs[k] \in FeaturesOf(b)
      /\ \A f \in FeaturesOf(b) : \E k \in 1..Len(fs) : fs[k] = f
  <2>1. fs \in Seq(Feature) /\ Len(fs) \in Nat /\ DOMAIN fs = 1..Len(fs)
    BY DEF Inputs
  <2> QED
    BY <2>1 DEF FeaturesOf
<1>3. ASSUME NEW f \in sampled, f \in Feature, f \in FeaturesOf(b)
      PROVE  /\ Ordered(ScanFeature(f, hist[f], total), SplitsOf(rows, f))
             /\ Covers(ScanFeature(f, hist[f], total), {c \in SplitsOf(rows, f) : c.gain > 0})
             /\ SplitsOf(rows, f) \subseteq V
             /\ \A c \in SplitsOf(rows, f) : c.feat = f
  <2>1. IsHistOf(hist[f], gpair, bins, rows, f, NBins[f])
    BY <1>3, HistIs
  <2>2. \A c \in SplitsOf(rows, f) : c.feat = f
    BY <1>3, SplitIsComparable
  <2> QED
    BY <1>3, <2>1, <2>2, ScanIsOrdered
<1>4. /\ A = {c \in V : c.gain > 0}
      /\ \A c \in V : Comparable(c)
      /\ \A c \in V : c.feat \in sampled /\ c.feat \in Feature /\ c.feat \in FeaturesOf(b)
                      /\ c \in SplitsOf(rows, c.feat)
  <2>1. A = {c \in V : c.gain > 0}
    BY DEF BlockSplits, GoodSplits
  <2>2. ASSUME NEW c \in V
        PROVE  Comparable(c) /\ c.feat \in sampled /\ c.feat \in Feature /\ c.feat \in FeaturesOf(b)
               /\ c \in SplitsOf(rows, c.feat)
    <3>1. PICK f \in sampled : c \in SplitsOf(rows, f)
      OBVIOUS
    <3>2. f \in Feature
      BY DEF Inputs
    <3>3. Comparable(c) /\ c.feat = f
      BY <3>1, <3>2, SplitIsComparable
    <3> QED
      BY <3>1, <3>2, <3>3
  <2> QED
    BY <2>1, <2>2
<1> HIDE DEF V, A
<1>5. ASSUME NEW k \in 1..Len(fs), fs[k] \in sampled
      PROVE  /\ Ordered(seqs[k], V) /\ seqs[k] \in Seq(V)
             /\ Covers(seqs[k], {c \in SplitsOf(rows, fs[k]) : c.gain > 0})
             /\ \A i \in 1..Len(seqs[k]) : seqs[k][i].feat = fs[k]
  <2>1. PICK f : f = fs[k]
    OBVIOUS
  <2>2. f \in sampled /\ f \in Feature /\ f \in FeaturesOf(b)
    BY <1>2, <1>5, <2>1
  <2>3. PICK q, U : q = seqs[k] /\ U = SplitsOf(rows, f)
    OBVIOUS
  <2>4. q = ScanFeature(f, hist[f], total)
    BY <1>5, <2>1, <2>3
  <2>5. /\ Ordered(q, U) /\ Covers(q, {c \in U : c.gain > 0}) /\ U \subseteq V
        /\ \A c \in U : c.feat = f
    BY <1>3, <2>2, <2>3, <2>4
  <2>6. Ordered(q, V) /\ q \in Seq(V) /\ \A i \in 1..Len(q) : q[i] \in U
    BY <2>5, OrderedIn
  <2> QED
    BY <2>1, <2>3, <2>5, <2>6
<1>6. ASSUME NEW k \in 1..Len(fs), fs[k] \notin sampled
      PROVE  seqs[k] = << >> /\ seqs[k] \in Seq(V) /\ Len(seqs[k]) = 0
  BY <1>6
<1>7. IsSequence(seqs) /\ Len(seqs) = Len(fs) /\ \A k \in 1..Len(seqs) : seqs[k] \in Seq(V)
  <2>1. seqs \in [1..Len(fs) -> Seq(V)]
    BY <1>5, <1>6
  <2> HIDE DEF seqs
  <2>2. seqs \in Seq(Seq(V)) /\ Len(seqs) = Len(fs) /\ IsSequence(seqs)
    BY <1>2, <2>1, SequenceOf
  <2> QED
    BY <2>1, <2>2
<1> HIDE DEF seqs
<1>8. PICK R : R = InOrder(V)
  OBVIOUS
<1>9. ASSUME NEW k \in 1..Len(seqs), NEW i \in 1..Len(seqs[k]), NEW j \in 1..Len(seqs[k]), i < j
      PROVE  << seqs[k][i], seqs[k][j] >> \in R
  <2>1. k \in 1..Len(fs)
    BY <1>7
  <2>2. fs[k] \in sampled
    BY <1>6, <2>1
  <2>3. Ordered(seqs[k], V)
    BY <1>5, <2>1, <2>2
  <2> QED
    BY <1>8, <1>9, <2>3 DEF Ordered, InOrder
<1>10. ASSUME NEW k \in 1..Len(seqs), NEW l \in 1..Len(seqs), k < l,
              NEW i \in 1..Len(seqs[k]), NEW j \in 1..Len(seqs[l])
       PROVE  << seqs[k][i], seqs[l][j] >> \in R
  <2>1. k \in 1..Len(fs) /\ l \in 1..Len(fs)
    BY <1>7
  <2>2. fs[k] \in sampled /\ fs[l] \in sampled
    BY <1>6, <2>1
  <2>3. PICK c, d : c = seqs[k][i] /\ d = seqs[l][j]
    OBVIOUS
  <2>4. c \in V /\ d \in V /\ c.feat = fs[k] /\ d.feat = fs[l]
    <3>1. Ordered(seqs[k], V) /\ Ordered(seqs[l], V)
      BY <1>5, <2>1, <2>2
    <3>2. c.feat = fs[k] /\ d.feat = fs[l]
      BY <1>5, <2>1, <2>2, <2>3
    <3> QED
      BY <2>3, <3>1, <3>2 DEF Ordered
  <2>5. fs[k] < fs[l]
    BY <1>10, <2>1 DEF PlansAscend
  <2>6. Greedy!Earlier(c, d)
    BY <2>4, <2>5 DEF Greedy!Earlier
  <2>7. << c, d >> \in R
    BY <1>8, <2>4, <2>6 DEF InOrder
  <2> QED
    BY <2>3, <2>7
<1>11. s \in Seq(V)
  <2>1. IsSequence(seqs) /\ \A k \in 1..Len(seqs) : seqs[k] \in Seq(V)
    BY <1>7
  <2> QED
    BY <2>1, FlattenIn
<1>12. Ordered(s, V)
  <2>1. /\ IsSequence(seqs) /\ \A k \in 1..Len(seqs) : seqs[k] \in Seq(V)
        /\ \A i \in 1..Len(seqs) : \A j, k \in 1..Len(seqs[i]) :
             j < k => << seqs[i][j], seqs[i][k] >> \in R
        /\ \A i, j \in 1..Len(seqs) : i < j =>
             \A k \in 1..Len(seqs[i]) : \A l \in 1..Len(seqs[j]) :
               << seqs[i][k], seqs[j][l] >> \in R
    BY <1>7, <1>9, <1>10
  <2>2. \A j, k \in 1..Len(s) : j < k => << s[j], s[k] >> \in R
    BY <2>1, FlattenOrdered
  <2> HIDE DEF s
  <2>3. \A j, k \in 1..Len(s) : j < k => Greedy!Earlier(s[j], s[k])
    BY <1>8, <2>2 DEF InOrder
  <2> QED
    BY <1>11, <2>3 DEF Ordered
<1>13. Covers(s, A)
  <2> SUFFICES ASSUME NEW c \in A PROVE \E i \in 1..Len(s) : s[i] = c \/ Better(s[i], c)
    BY DEF Covers
  <2>1. /\ c.feat \in sampled /\ c.feat \in FeaturesOf(b) /\ c.gain > 0
        /\ c \in SplitsOf(rows, c.feat)
    BY <1>4
  <2>2. PICK k \in 1..Len(fs) : fs[k] = c.feat
    BY <1>2, <2>1
  <2>3. Covers(seqs[k], {d \in SplitsOf(rows, fs[k]) : d.gain > 0})
    BY <1>5, <2>1, <2>2
  <2>4. PICK j \in 1..Len(seqs[k]) : seqs[k][j] = c \/ Better(seqs[k][j], c)
    BY <2>1, <2>2, <2>3 DEF Covers
  <2>5. /\ IsSequence(seqs) /\ k \in 1..Len(seqs)
        /\ \A m \in 1..Len(seqs) : seqs[m] \in Seq(V)
    BY <1>7
  <2>6. PICK i \in 1..Len(s) : s[i] = seqs[k][j]
    BY <2>4, <2>5, FlattenHas
  <2> HIDE DEF s
  <2> QED
    BY <2>4, <2>6
<1> HIDE DEF s
<1>14. IsSequence(s) /\ \A i \in 1..Len(s) : s[i] \in V
  BY <1>11, SeqIsSequence
<1>15. FirstBest(s, Len(s), r)
  <2>1. \A i \in 1..Len(s) : s[i].gain \in Int
    BY <1>4, <1>14 DEF Comparable
  <2>2. FirstBest(s, Len(s), FoldLeft(UpdateBest, NoSplit, s))
    BY <1>14, <2>1, FoldIsFirstBest
  <2> HIDE DEF r
  <2> QED
    BY <1>1, <2>2
<1> HIDE DEF r
<1>16. BestAmong(A, r)
  <2>1. /\ A \in SUBSET V /\ \A c \in A : c.gain > 0
        /\ \A i \in 1..Len(s) : s[i].gain > 0 => s[i] \in A
    BY <1>4, <1>14
  <2> QED
    BY <1>4, <1>12, <1>13, <1>15, <2>1, FirstIsBest
<1> QED
  BY <1>16 DEF A, r

\* The reduction in block order finds the best of all.
LEMMA ReduceFindsBest ==
  ASSUME Inputs, PlansAscend, NEW rows \in SUBSET Row, NEW cands, IsSequence(cands),
         Len(cands) = Len(plans),
         \A b \in 1..Len(cands) : BestAmong(BlockSplits(rows, b), cands[b])
  PROVE  BestAmong(GoodSplits(rows), ReduceBest(cands))
<1> DEFINE n == Len(cands)
           G == GoodSplits(rows)
           r == ReduceBest(cands)
<1>1. n \in Nat /\ Plan = 1..n
  BY SequenceDomain DEF Plan, Inputs
<1>2. /\ \A b \in 1..n : BlockSplits(rows, b) \subseteq G
      /\ \A c \in G : \E b \in 1..n : c \in BlockSplits(rows, b)
      /\ \A c \in G : Comparable(c) /\ c.gain > 0
  <2>1. \A c \in G : Comparable(c) /\ c.feat \in sampled /\ c.gain > 0
    BY GoodSplitsAre
  <2>2. \A c \in G : \E b \in 1..n : c.feat \in FeaturesOf(b)
    BY <1>1, <2>1 DEF PlansAscend
  <2> QED
    BY <2>1, <2>2 DEF BlockSplits
<1>3. ASSUME NEW b \in 1..n
      PROVE  \/ cands[b] = NoSplit /\ BlockSplits(rows, b) = {}
             \/ /\ cands[b] \in BlockSplits(rows, b) /\ cands[b] \in G
                /\ \A d \in BlockSplits(rows, b) : cands[b] = d \/ Better(cands[b], d)
  BY <1>2 DEF BestAmong
<1> HIDE DEF G
<1>4. NoSplit.gain = 0
  BY DEF NoSplit
<1>5. \A b \in 1..n : cands[b].gain \in Int
  BY <1>2, <1>3, <1>4 DEF Comparable
<1>6. FirstBest(cands, n, r)
  BY <1>5, FoldIsFirstBest DEF ReduceBest
<1> HIDE DEF r
<1>7. ASSUME r = NoSplit, \A b \in 1..n : cands[b].gain <= 0
      PROVE  BestAmong(G, r)
  <2>1. ASSUME NEW c \in G PROVE FALSE
    <3>1. PICK b \in 1..n : c \in BlockSplits(rows, b)
      BY <1>2
    <3>2. cands[b] \in G
      BY <1>3, <3>1
    <3>3. PICK g : g = cands[b].gain
      OBVIOUS
    <3>4. g > 0 /\ g <= 0 /\ g \in Int
      BY <1>2, <1>5, <1>7, <3>2, <3>3
    <3> QED
      BY <3>4
  <2> QED
    BY <1>7, <2>1 DEF BestAmong
<1>8. ASSUME NEW i \in 1..n, r = cands[i], cands[i].gain > 0,
             \A j \in 1..n : cands[j].gain <= cands[i].gain,
             \A j \in 1..(i - 1) : cands[j].gain < cands[i].gain
      PROVE  BestAmong(G, r)
  <2>1. r \in G /\ r \in BlockSplits(rows, i)
    BY <1>3, <1>4, <1>8
  <2>2. ASSUME NEW d \in G PROVE r = d \/ Better(r, d)
    <3>1. PICK j \in 1..n : d \in BlockSplits(rows, j)
      BY <1>2
    <3>2. PICK c : c = cands[j]
      OBVIOUS
    <3>3. c \in G /\ c \in BlockSplits(rows, j) /\ (c = d \/ Better(c, d))
      BY <1>3, <3>1, <3>2
    <3>4. r = c \/ Better(r, c)
      <4>1. PICK g, h : g = c.gain /\ h = r.gain
        OBVIOUS
      <4>2. g \in Int /\ h \in Int /\ g <= h /\ (j < i => g < h)
        <5>1. g \in Int /\ h \in Int /\ g <= h
          BY <1>2, <1>8, <2>1, <3>2, <3>3, <4>1 DEF Comparable
        <5>2. j < i => j \in 1..(i - 1)
          BY <1>1
        <5> QED
          BY <1>8, <3>2, <4>1, <5>1, <5>2
      <4>3. CASE j < i
        BY <4>1, <4>2, <4>3 DEF Better
      <4>4. CASE j = i
        BY <1>8, <3>2, <4>4
      <4>5. CASE i < j
        <5>1. r.feat < c.feat
          BY <1>1, <2>1, <3>3, <4>5 DEF PlansAscend, BlockSplits
        <5>2. Greedy!Earlier(r, c)
          BY <5>1 DEF Greedy!Earlier
        <5>3. h > g \/ h = g
          BY <4>2
        <5> QED
          BY <4>1, <5>2, <5>3 DEF Better
      <4>6. j < i \/ j = i \/ i < j
        BY <1>1
      <4> QED
        BY <4>3, <4>4, <4>5, <4>6
    <3>5. Comparable(r) /\ Comparable(c) /\ Comparable(d)
      BY <1>2, <2>1, <3>3
    <3>6. Better(r, c) /\ Better(c, d) => Better(r, d)
      BY <3>5, BetterIsOrder
    <3> QED
      BY <3>3, <3>4, <3>6
  <2> QED
    BY <2>1, <2>2 DEF BestAmong
<1>9. BestAmong(G, r)
  <2>1. \/ r = NoSplit /\ \A b \in 1..n : cands[b].gain <= 0
        \/ \E i \in 1..n :
             /\ r = cands[i] /\ cands[i].gain > 0
             /\ \A j \in 1..n : cands[j].gain <= cands[i].gain
             /\ \A j \in 1..(i - 1) : cands[j].gain < cands[i].gain
    BY <1>6 DEF FirstBest
  <2> HIDE DEF n
  <2> QED
    BY <1>7, <1>8, <2>1
<1> QED
  BY <1>9 DEF G, r

\* The specification's splits are those computed from the rows here.
LEMMA CandidateIsRowSplit ==
  \A rows, f, bin, ml : Greedy!CandidateOf(rows, f, bin, ml) = RowSplit(rows, f, bin, ml)
<1>1. \A rows : Greedy!NodeSum(gpair, rows) = NodeSum(gpair, rows)
  BY DEF Greedy!NodeSum, NodeSum, Greedy!FoldFunctionOnSet, FoldFunctionOnSet, Greedy!Plus, Plus,
     Greedy!Zero, Zero, Greedy!MapThenFoldSet, MapThenFoldSet
<1>2. \A p : Greedy!Gain(p) = Gain(p)
  BY DEF Greedy!Gain, Gain
<1>3. \A g, l, r : Greedy!SplitGain(g, l, r) = SplitGain(g, l, r)
  BY <1>2 DEF Greedy!SplitGain, SplitGain
<1>4. \A b, c, d : Greedy!GoesLeft(b, c, d) = GoesLeft(b, c, d)
  BY DEF Greedy!GoesLeft, GoesLeft, Greedy!MISSING_BIN, MISSING_BIN
<1> SUFFICES ASSUME NEW rows, NEW f, NEW bin, NEW ml
             PROVE  Greedy!CandidateOf(rows, f, bin, ml) = RowSplit(rows, f, bin, ml)
  OBVIOUS
<1>5. {r \in rows : Greedy!GoesLeft(bins[r][f], bin, ml)} = LeftRows(rows, f, bin, ml)
  BY <1>4 DEF LeftRows
<1> QED
  BY <1>1, <1>2, <1>3, <1>5 DEF Greedy!CandidateOf, RowSplit

LEMMA AdmissibleAreGood ==
  \A rows : Greedy!Admissible(rows) = GoodSplits(rows)
<1>1. \A l, r : Greedy!HeavyEnough(l, r) <=> HeavyEnough(l, r)
  BY DEF Greedy!HeavyEnough, HeavyEnough
<1> SUFFICES ASSUME NEW rows, NEW c
             PROVE  c \in Greedy!Admissible(rows) <=> c \in GoodSplits(rows)
  BY DEF Greedy!Admissible, GoodSplits
<1> DEFINE Of(f) == {Greedy!CandidateOf(rows, f, b, FALSE) : b \in 1..NBins[f]} \cup
                    {Greedy!CandidateOf(rows, f, b, TRUE) : b \in 0..(NBins[f] - 1)}
<1>7. Greedy!NBins = NBins
  BY DEF Greedy!NBins, NBins
<1>2. \A f : Of(f) = {RowSplit(rows, f, b, FALSE) : b \in 1..NBins[f]} \cup
                    {RowSplit(rows, f, b, TRUE) : b \in 0..(NBins[f] - 1)}
  BY CandidateIsRowSplit
<1>3. Greedy!Admissible(rows) =
        {d \in UNION {Of(f) : f \in sampled} : Greedy!HeavyEnough(d.left, d.right) /\ d.gain > 0}
  BY <1>7 DEF Greedy!Admissible
<1>4. \A f : SplitsOf(rows, f) = {d \in Of(f) : HeavyEnough(d.left, d.right)}
  BY <1>2 DEF SplitsOf
<1> HIDE DEF Of
<1>5. c \in Greedy!Admissible(rows) <=>
        (\E f \in sampled : c \in Of(f)) /\ Greedy!HeavyEnough(c.left, c.right) /\ c.gain > 0
  BY <1>3
<1>6. c \in GoodSplits(rows) <=> (\E f \in sampled : c \in SplitsOf(rows, f)) /\ c.gain > 0
  BY DEF GoodSplits
<1> QED
  BY <1>1, <1>4, <1>5, <1>6

LEMMA NoSplitIsNone == Greedy!NoSplit = NoSplit
BY DEF Greedy!NoSplit, NoSplit, Greedy!Zero, Zero

\* The best of the good splits is the one the specification chooses.
LEMMA BestIsChosen ==
  ASSUME Inputs, NEW rows \in SUBSET Row, NEW b, BestAmong(GoodSplits(rows), b)
  PROVE  b = Greedy!BestSplit(rows)
<1> DEFINE G == GoodSplits(rows)
           P(c) == \A d \in G : c = d \/ c.gain > d.gain \/ (c.gain = d.gain /\ Greedy!Earlier(c, d))
<1>1. Greedy!BestSplit(rows) = IF G = {} THEN NoSplit ELSE CHOOSE c \in G : P(c)
  <2>1. Greedy!Admissible(rows) = G /\ Greedy!NoSplit = NoSplit
    BY AdmissibleAreGood, NoSplitIsNone
  <2>2. Greedy!BestSplit(rows) =
          IF Greedy!Admissible(rows) = {} THEN Greedy!NoSplit
          ELSE CHOOSE c \in Greedy!Admissible(rows) : \A d \in Greedy!Admissible(rows) :
                 c = d \/ c.gain > d.gain \/ (c.gain = d.gain /\ Greedy!Earlier(c, d))
    BY DEF Greedy!BestSplit
  <2> HIDE DEF G
  <2> QED
    BY <2>1, <2>2, Zenon
<1>2. CASE G = {}
  BY <1>1, <1>2 DEF BestAmong
<1>3. CASE G # {}
  <2>1. b \in G /\ \A d \in G : b = d \/ Better(b, d)
    BY <1>3 DEF BestAmong
  <2>2. P(b)
    BY <2>1 DEF Better
  <2>3. PICK x : x = (CHOOSE c \in G : P(c))
    OBVIOUS
  <2>4. x \in G /\ P(x)
    BY <2>1, <2>2, <2>3
  <2>5. x = b \/ (Better(x, b) /\ Better(b, x))
    BY <2>1, <2>4 DEF Better
  <2>6. Comparable(b) /\ Comparable(x)
    BY <2>1, <2>4, GoodSplitsAre
  <2>7. ~(Better(x, b) /\ Better(b, x))
    BY <2>6, BetterIsOrder
  <2> QED
    BY <1>1, <1>3, <2>3, <2>5, <2>7
<1> QED
  BY <1>2, <1>3


----------------------------------------------------------------------------
(***************************************************************************)
(* Blocks ascend                                                           *)
(***************************************************************************)

Ascends(s) == \A j, k \in 1..Len(s) : j < k => s[j] < s[k]

\* The part t of a block s: drawn features are not lost.
PartOf(t, s, drawn) ==
  /\ t \in Seq(Feature) /\ Ascends(t)
  /\ \A j \in 1..Len(t) : \E k \in 1..Len(s) : t[j] = s[k]
  /\ \A k \in 1..Len(s) : s[k] \in drawn => \E j \in 1..Len(t) : t[j] = s[k]

LEMMA DrawnArePart ==
  ASSUME NEW fs \in Seq(Feature), Ascends(fs), NEW drawn
  PROVE  PartOf(DrawnOf(fs, drawn), fs, drawn)
<1> DEFINE n == Len(fs)
           V == {fs[k] : k \in 1..n}
           R == {p \in V \X V : p[1] < p[2]}
           seqs == [k \in 1..n |-> IF fs[k] \in drawn THEN << fs[k] >> ELSE << >>]
           d == DrawnOf(fs, drawn)
<1>1. n \in Nat /\ \A k \in 1..n : fs[k] \in Feature /\ fs[k] \in V
  OBVIOUS
<1>2. d = FlattenSeq(seqs)
  BY DEF DrawnOf
<1>3. ASSUME NEW k \in 1..n
      PROVE  /\ seqs[k] \in Seq(V) /\ (Len(seqs[k]) = 0 \/ Len(seqs[k]) = 1)
             /\ Len(seqs[k]) = 1 => seqs[k][1] = fs[k]
             /\ fs[k] \in drawn => Len(seqs[k]) = 1
  <2>1. PICK f : f = fs[k]
    OBVIOUS
  <2>2. f \in V
    BY <2>1
  <2> HIDE DEF V
  <2>3. << f >> \in Seq(V) /\ Len(<< f >>) = 1 /\ << f >>[1] = f
    BY <2>2
  <2>4. << >> \in Seq(V) /\ Len(<< >>) = 0
    OBVIOUS
  <2>5. seqs[k] = IF f \in drawn THEN << f >> ELSE << >>
    BY <2>1
  <2> HIDE DEF seqs
  <2> QED
    BY <2>1, <2>3, <2>4, <2>5
<1> HIDE DEF V
<1>4. IsSequence(seqs) /\ Len(seqs) = n /\ \A k \in 1..Len(seqs) : seqs[k] \in Seq(V)
  <2>1. seqs \in [1..n -> Seq(V)]
    BY <1>3
  <2> HIDE DEF seqs
  <2>2. seqs \in Seq(Seq(V)) /\ Len(seqs) = n /\ IsSequence(seqs)
    BY <1>1, <2>1, SequenceOf
  <2> QED
    BY <2>1, <2>2
<1> HIDE DEF seqs
<1>5. ASSUME NEW i \in 1..Len(seqs), NEW j \in 1..Len(seqs[i]), NEW k \in 1..Len(seqs[i]), j < k
      PROVE  << seqs[i][j], seqs[i][k] >> \in R
  <2>1. PICK m : m = Len(seqs[i])
    OBVIOUS
  <2>2. m = 0 \/ m = 1
    BY <1>3, <1>4, <2>1
  <2> QED
    BY <1>5, <2>1, <2>2
<1>6. ASSUME NEW i \in 1..Len(seqs), NEW j \in 1..Len(seqs), i < j,
             NEW k \in 1..Len(seqs[i]), NEW l \in 1..Len(seqs[j])
      PROVE  << seqs[i][k], seqs[j][l] >> \in R
  <2>1. PICK m, o : m = Len(seqs[i]) /\ o = Len(seqs[j])
    OBVIOUS
  <2>2. i \in 1..n /\ j \in 1..n /\ k \in 1..m /\ l \in 1..o
    BY <1>4, <2>1
  <2>3. (m = 0 \/ m = 1) /\ (o = 0 \/ o = 1)
    BY <1>3, <2>1, <2>2
  <2>4. m = 1 /\ o = 1 /\ k = 1 /\ l = 1
    BY <2>2, <2>3
  <2>5. seqs[i][k] = fs[i] /\ seqs[j][l] = fs[j]
    BY <1>3, <2>1, <2>2, <2>4
  <2>6. PICK f, g : f = fs[i] /\ g = fs[j]
    OBVIOUS
  <2>7. f \in V /\ g \in V /\ f < g
    BY <1>1, <1>6, <2>2, <2>6 DEF Ascends
  <2>8. << f, g >> \in R
    BY <2>7
  <2> QED
    BY <2>5, <2>6, <2>8
<1>7. FlattenSeq(seqs) \in Seq(V)
  BY <1>4, FlattenIn
<1>8. \A j, k \in 1..Len(FlattenSeq(seqs)) :
        j < k => << FlattenSeq(seqs)[j], FlattenSeq(seqs)[k] >> \in R
  <2>1. PICK Q : Q = R
    OBVIOUS
  <2>2. /\ IsSequence(seqs) /\ \A k \in 1..Len(seqs) : seqs[k] \in Seq(V)
        /\ \A i \in 1..Len(seqs) : \A j, k \in 1..Len(seqs[i]) :
             j < k => << seqs[i][j], seqs[i][k] >> \in Q
        /\ \A i, j \in 1..Len(seqs) : i < j =>
             \A k \in 1..Len(seqs[i]) : \A l \in 1..Len(seqs[j]) :
               << seqs[i][k], seqs[j][l] >> \in Q
    BY <1>4, <1>5, <1>6, <2>1
  <2>3. \A j, k \in 1..Len(FlattenSeq(seqs)) :
           j < k => << FlattenSeq(seqs)[j], FlattenSeq(seqs)[k] >> \in Q
    BY <2>2, FlattenOrdered
  <2> QED
    BY <2>1, <2>3
<1>9. ASSUME NEW k \in 1..n, fs[k] \in drawn
      PROVE  \E j \in 1..Len(d) : d[j] = fs[k]
  <2>1. PICK i : i = 1
    OBVIOUS
  <2>2. i \in 1..Len(seqs[k]) /\ seqs[k][i] = fs[k]
    BY <1>3, <1>9, <2>1
  <2>3. /\ IsSequence(seqs) /\ k \in 1..Len(seqs)
        /\ \A m \in 1..Len(seqs) : seqs[m] \in Seq(V)
    BY <1>4
  <2>4. \E j \in 1..Len(FlattenSeq(seqs)) : FlattenSeq(seqs)[j] = seqs[k][i]
    BY <2>2, <2>3, FlattenHas
  <2> QED
    BY <1>2, <2>2, <2>4
<1> HIDE DEF d
<1>10. d \in Seq(V) /\ \A j \in 1..Len(d) : d[j] \in V
  BY <1>2, <1>7
<1>11. V \subseteq Feature /\ \A v \in V : \E k \in 1..n : v = fs[k]
  BY <1>1 DEF V
<1>12. d \in Seq(Feature)
  BY <1>10, <1>11
<1>13. Ascends(d)
  BY <1>2, <1>8 DEF Ascends
<1>14. \A j \in 1..Len(d) : \E k \in 1..n : d[j] = fs[k]
  BY <1>10, <1>11
<1>15. PartOf(d, fs, drawn)
  BY <1>9, <1>12, <1>13, <1>14 DEF PartOf
<1> QED
  BY <1>15 DEF d

LEMMA PlansAscendInit == Init => PlansAscend
<1> SUFFICES ASSUME Init PROVE PlansAscend
  OBVIOUS
<1>1. sampled \subseteq Feature
  BY BuildParams DEF Init
<1>2. PICK cr : plans = PlansFor(sampled, cr)
  BY DEF Init
<1> DEFINE n == Len(Blocks)
           plan(p) == IF cr THEN DrawnOf(Blocks[p], sampled) ELSE Blocks[p]
           V == {plan(p) : p \in 1..n}
           R == {q \in V \X V : \A j \in 1..Len(q[1]), k \in 1..Len(q[2]) : q[1][j] < q[2][k]}
           seqs == [p \in 1..n |->
                      IF \A k \in 1..Len(Blocks[p]) : Blocks[p][k] \notin sampled
                      THEN << >> ELSE << plan(p) >>]
<1>3. /\ n \in Nat /\ DOMAIN Blocks = 1..n
      /\ \A p \in 1..n : Blocks[p] \in Seq(Feature) /\ DOMAIN Blocks[p] = 1..Len(Blocks[p])
  <2>1. Blocks \in Seq(Seq(Feature))
    BY BuildParams
  <2>2. n \in Nat /\ DOMAIN Blocks = 1..n /\ \A p \in 1..n : Blocks[p] \in Seq(Feature)
    BY <2>1
  <2>3. \A s \in Seq(Feature) : DOMAIN s = 1..Len(s)
    OBVIOUS
  <2> QED
    BY <2>2, <2>3
<1>4. ASSUME NEW p \in 1..n PROVE PartOf(plan(p), Blocks[p], sampled)
  <2>1. PICK s : s = Blocks[p]
    OBVIOUS
  <2>2. s \in Seq(Feature) /\ Ascends(s)
    <3>1. s \in Seq(Feature) /\ p \in DOMAIN Blocks /\ DOMAIN s = 1..Len(s)
      BY <1>3, <2>1
    <3>2. \A j, k \in DOMAIN s : j < k => s[j] < s[k]
      BY <2>1, <3>1, BlocksAscend
    <3> QED
      BY <3>1, <3>2 DEF Ascends
  <2>3. PartOf(DrawnOf(s, sampled), s, sampled)
    BY <2>2, DrawnArePart
  <2>4. PartOf(s, s, sampled)
    BY <2>2 DEF PartOf
  <2> QED
    BY <2>1, <2>3, <2>4
<1>5. plans = FlattenSeq(seqs)
  BY <1>2 DEF PlansFor
<1> HIDE DEF plan
<1>6. ASSUME NEW p \in 1..n
      PROVE  /\ seqs[p] \in Seq(V) /\ (Len(seqs[p]) = 0 \/ Len(seqs[p]) = 1)
             /\ Len(seqs[p]) = 1 => seqs[p][1] = plan(p)
             /\ \A k \in 1..Len(Blocks[p]) : Blocks[p][k] \in sampled => Len(seqs[p]) = 1
  <2>1. PICK s : s = plan(p)
    OBVIOUS
  <2>2. s \in V
    BY <2>1
  <2> HIDE DEF V
  <2>3. << s >> \in Seq(V) /\ Len(<< s >>) = 1 /\ << s >>[1] = s
    BY <2>2
  <2>4. << >> \in Seq(V) /\ Len(<< >>) = 0
    OBVIOUS
  <2>5. seqs[p] = IF \A k \in 1..Len(Blocks[p]) : Blocks[p][k] \notin sampled
                  THEN << >> ELSE << s >>
    BY <2>1
  <2> HIDE DEF seqs
  <2> QED
    BY <2>1, <2>3, <2>4, <2>5
<1>7. ASSUME NEW s \in V PROVE \E p \in 1..n : s = plan(p)
  OBVIOUS
<1> HIDE DEF V
<1>8. IsSequence(seqs) /\ Len(seqs) = n /\ \A k \in 1..Len(seqs) : seqs[k] \in Seq(V)
  <2>1. seqs \in [1..n -> Seq(V)]
    BY <1>6
  <2> HIDE DEF seqs
  <2>2. seqs \in Seq(Seq(V)) /\ Len(seqs) = n /\ IsSequence(seqs)
    BY <1>3, <2>1, SequenceOf
  <2> QED
    BY <2>1, <2>2
<1> HIDE DEF seqs
<1>9. ASSUME NEW i \in 1..Len(seqs), NEW j \in 1..Len(seqs[i]), NEW k \in 1..Len(seqs[i]), j < k
      PROVE  << seqs[i][j], seqs[i][k] >> \in R
  <2>1. PICK m : m = Len(seqs[i])
    OBVIOUS
  <2>2. m = 0 \/ m = 1
    BY <1>6, <1>8, <2>1
  <2> QED
    BY <1>9, <2>1, <2>2
<1>10. ASSUME NEW p \in 1..n, NEW q \in 1..n, p < q,
              NEW j \in 1..Len(plan(p)), NEW k \in 1..Len(plan(q))
       PROVE  plan(p)[j] < plan(q)[k]
  <2>1. PICK l \in 1..Len(Blocks[p]) : plan(p)[j] = Blocks[p][l]
    BY <1>4 DEF PartOf
  <2>2. PICK m \in 1..Len(Blocks[q]) : plan(q)[k] = Blocks[q][m]
    BY <1>4 DEF PartOf
  <2>3. Blocks[p][l] < Blocks[q][m]
    BY <1>3, <1>10, BlocksAscend
  <2> QED
    BY <2>1, <2>2, <2>3
<1>11. ASSUME NEW i \in 1..Len(seqs), NEW j \in 1..Len(seqs), i < j,
              NEW k \in 1..Len(seqs[i]), NEW l \in 1..Len(seqs[j])
       PROVE  << seqs[i][k], seqs[j][l] >> \in R
  <2>1. PICK m, o : m = Len(seqs[i]) /\ o = Len(seqs[j])
    OBVIOUS
  <2>2. i \in 1..n /\ j \in 1..n /\ k \in 1..m /\ l \in 1..o
    BY <1>8, <2>1
  <2>3. (m = 0 \/ m = 1) /\ (o = 0 \/ o = 1)
    BY <1>6, <2>1, <2>2
  <2>4. m = 1 /\ o = 1 /\ k = 1 /\ l = 1
    BY <2>2, <2>3
  <2>5. PICK s, t : s = plan(i) /\ t = plan(j)
    OBVIOUS
  <2>6. seqs[i][k] = s /\ seqs[j][l] = t
    BY <1>6, <2>1, <2>2, <2>4, <2>5
  <2>7. s \in V /\ t \in V
    BY <2>2, <2>5 DEF V
  <2>8. \A x \in 1..Len(s), y \in 1..Len(t) : s[x] < t[y]
    BY <1>10, <1>11, <2>2, <2>5
  <2>9. << s, t >> \in R
    BY <2>7, <2>8
  <2> QED
    BY <2>6, <2>9
<1>12. plans \in Seq(V)
  BY <1>5, <1>8, FlattenIn
<1>13. PICK Q : Q = R
  OBVIOUS
<1> HIDE DEF R
<1>14. \A j, k \in 1..Len(plans) : j < k => << plans[j], plans[k] >> \in Q
  <2>1. /\ IsSequence(seqs) /\ \A k \in 1..Len(seqs) : seqs[k] \in Seq(V)
        /\ \A i \in 1..Len(seqs) : \A j, k \in 1..Len(seqs[i]) :
             j < k => << seqs[i][j], seqs[i][k] >> \in Q
        /\ \A i, j \in 1..Len(seqs) : i < j =>
             \A k \in 1..Len(seqs[i]) : \A l \in 1..Len(seqs[j]) :
               << seqs[i][k], seqs[j][l] >> \in Q
    BY <1>8, <1>9, <1>11, <1>13
  <2>2. \A j, k \in 1..Len(FlattenSeq(seqs)) :
           j < k => << FlattenSeq(seqs)[j], FlattenSeq(seqs)[k] >> \in Q
    BY <2>1, FlattenOrdered
  <2> QED
    BY <1>5, <2>2
<1>15. Plan = 1..Len(plans) /\ \A b \in Plan : plans[b] \in V
  BY <1>12 DEF Plan
<1>16. ASSUME NEW b \in Plan
       PROVE  /\ plans[b] \in Seq(Feature) /\ Ascends(plans[b])
              /\ DOMAIN plans[b] = 1..Len(plans[b])
              /\ \A f : f \in FeaturesOf(b) <=> \E k \in 1..Len(plans[b]) : f = plans[b][k]
  <2>1. PICK s : s = plans[b]
    OBVIOUS
  <2>2. s \in Seq(Feature) /\ Ascends(s)
    BY <1>4, <1>7, <1>15, <2>1 DEF PartOf
  <2>3. DOMAIN s = 1..Len(s)
    BY <2>2
  <2>4. FeaturesOf(b) = {s[k] : k \in 1..Len(s)}
    BY <2>1, <2>3 DEF FeaturesOf
  <2> QED
    BY <2>1, <2>2, <2>3, <2>4
<1>17. ASSUME NEW b \in Plan, NEW c \in Plan, b < c,
              NEW f \in FeaturesOf(b), NEW g \in FeaturesOf(c)
       PROVE  f < g
  <2>1. PICK j \in 1..Len(plans[b]) : f = plans[b][j]
    BY <1>16
  <2>2. PICK k \in 1..Len(plans[c]) : g = plans[c][k]
    BY <1>16
  <2>3. << plans[b], plans[c] >> \in R
    BY <1>13, <1>14, <1>15, <1>17
  <2>4. PICK s, t : s = plans[b] /\ t = plans[c]
    OBVIOUS
  <2>5. \A x \in 1..Len(s), y \in 1..Len(t) : s[x] < t[y]
    BY <2>3, <2>4 DEF R
  <2> QED
    BY <2>1, <2>2, <2>4, <2>5
<1>18. ASSUME NEW f \in sampled PROVE \E b \in Plan : f \in FeaturesOf(b)
  <2>1. PICK p \in 1..n : \E k \in 1..Len(Blocks[p]) : Blocks[p][k] = f
    BY <1>1, <1>3, BlocksAscend
  <2>2. PICK s : s = plan(p)
    OBVIOUS
  <2>3. \E j \in 1..Len(s) : s[j] = f
    <3>1. PartOf(s, Blocks[p], sampled)
      BY <1>4, <2>2
    <3>2. PICK k \in 1..Len(Blocks[p]) : Blocks[p][k] = f
      BY <2>1
    <3> QED
      BY <3>1, <3>2 DEF PartOf
  <2>4. PICK i : i = 1
    OBVIOUS
  <2>5. i \in 1..Len(seqs[p]) /\ seqs[p][i] = s
    BY <1>6, <2>1, <2>2, <2>4
  <2>6. /\ IsSequence(seqs) /\ p \in 1..Len(seqs) /\ i \in 1..Len(seqs[p])
        /\ \A m \in 1..Len(seqs) : seqs[m] \in Seq(V)
    BY <1>8, <2>5
  <2>7. \E j \in 1..Len(FlattenSeq(seqs)) : FlattenSeq(seqs)[j] = seqs[p][i]
    BY <2>6, FlattenHas
  <2>8. PICK b \in Plan : plans[b] = s
    BY <1>5, <1>15, <2>5, <2>7
  <2> QED
    BY <1>16, <2>3, <2>8
<1> QED
  BY <1>16, <1>17, <1>18 DEF PlansAscend, Ascends


----------------------------------------------------------------------------
(***************************************************************************)
(* The build implements the greedy growth                                  *)
(***************************************************************************)

\* What a worker that is through has found for every node of the level.
WorkerIsBest(b, w) ==
  w.pc = "done" =>
    \A i \in DOMAIN level : BestAmong(BlockSplits(level[i].rows, b), w.cands[i])

ChoicesAreBest ==
  phase = "partition" =>
    \A i \in DOMAIN level : BestAmong(GoodSplits(level[i].rows), chosen[i])

\* Splits are searched above the greatest depth only, and leaves are applied there.
DepthFits ==
  /\ phase \in {"blocks", "partition"} => depth < MaxDepth
  /\ phase = "leaves" => depth = MaxDepth \/ DOMAIN level = {}

\* The inductive invariant behind the refinement, on top of ExactInv.
BestInv ==
  /\ PlansAscend
  /\ \A b \in Plan : WorkerIsBest(b, work[b])
  /\ ChoicesAreBest
  /\ DepthFits

LEMMA BestInvInit == Init => BestInv
<1> SUFFICES ASSUME Init PROVE BestInv
  OBVIOUS
<1>1. /\ depth = 0 /\ work = [b \in Plan |-> Idle] /\ phase = EnterLevel(0, level)
      /\ level = << LevelNode(1, Row, NodeSum(gpair, Row), Accumulate) >>
  BY DEF Init
<1>2. PlansAscend
  BY PlansAscendInit
<1>3. \A b \in Plan : WorkerIsBest(b, work[b])
  BY <1>1 DEF WorkerIsBest, Idle
<1>4. level # << >>
  BY <1>1, SingletonIsSequence, EmptyIsSequence
<1>5. DepthFits
  BY <1>1, <1>4, BuildParams DEF EnterLevel, DepthFits
<1>6. ChoicesAreBest
  BY <1>1 DEF EnterLevel, ChoicesAreBest
<1> QED
  BY <1>2, <1>3, <1>5, <1>6 DEF BestInv

\* The inputs stay, and so do the splits and their order.
LEMMA SameSplits ==
  ASSUME UNCHANGED inputs
  PROVE  /\ Plan' = Plan
         /\ PlansAscend => PlansAscend'
         /\ \A rows : GoodSplits(rows)' = GoodSplits(rows)
         /\ \A rows, b : BlockSplits(rows, b)' = BlockSplits(rows, b)
<1>1. UNCHANGED << bins, gpair, sampled, plans >>
  BY DEF inputs
<1>2. Plan' = Plan /\ \A b : FeaturesOf(b)' = FeaturesOf(b)
  BY <1>1 DEF Plan, FeaturesOf
<1>3. \A rows : GoodSplits(rows)' = GoodSplits(rows)
  BY SameInputs
<1>4. \A rows, b : BlockSplits(rows, b)' = BlockSplits(rows, b)
  BY <1>2, <1>3 DEF BlockSplits
<1>5. PlansAscend => PlansAscend'
  BY <1>1, <1>2 DEF PlansAscend
<1> QED
  BY <1>2, <1>3, <1>4, <1>5

\* A step of one worker.
LEMMA BestInvWorker ==
  ASSUME BestInv, UNCHANGED << inputs, level, depth >>, NEW b \in Plan,
         phase = "blocks", phase' = phase,
         \A c \in Plan \ {b} : work'[c] = work[c], WorkerIsBest(b, work'[b])
  PROVE  BestInv'
<1>1. /\ Plan' = Plan /\ PlansAscend'
      /\ \A rows, c : BlockSplits(rows, c)' = BlockSplits(rows, c)
  BY SameSplits DEF BestInv
<1>2. \A c, w : WorkerIsBest(c, w)' <=> WorkerIsBest(c, w)
  BY <1>1 DEF WorkerIsBest
<1>3. \A c \in Plan : WorkerIsBest(c, work'[c])
  BY DEF BestInv
<1>4. (\A c \in Plan : WorkerIsBest(c, work[c]))'
  BY <1>1, <1>2, <1>3
<1>5. ChoicesAreBest' /\ DepthFits'
  BY DEF BestInv, ChoicesAreBest, DepthFits
<1> QED
  BY <1>1, <1>4, <1>5 DEF BestInv

LEMMA BestInvEnumerateBlock ==
  ASSUME ClaimsInv, ExactInv, BestInv, NEW b \in Plan, EnumerateBlock(b)
  PROVE  BestInv'
<1> DEFINE cands == [i \in DOMAIN level |->
                       BestSplitInBlock(work[b].hists[i], plans[b], level[i].sum, sampled)]
<1>1. /\ phase = "blocks" /\ work[b].pc = "subtracted"
      /\ work' = [work EXCEPT ![b].pc = "done", ![b].cands = cands]
      /\ UNCHANGED << inputs, level, depth, phase >>
  BY DEF EnumerateBlock
<1>2. ASSUME NEW i \in DOMAIN level
      PROVE  BestAmong(BlockSplits(level[i].rows, b), cands[i])
  <2>1. PICK hist, rows : hist = work[b].hists[i] /\ rows = level[i].rows
    OBVIOUS
  <2>2. HistsOf(hist, b, rows)
    BY <1>1, <2>1 DEF ExactInv, WorkIsExact, WorkerIsExact
  <2>3. rows \in SUBSET Row /\ level[i].sum = NodeSum(gpair, rows)
    BY <2>1 DEF ExactInv, NodesAreExact, NodeIsExact
  <2>4. BestAmong(BlockSplits(rows, b),
                  BestSplitInBlock(hist, plans[b], NodeSum(gpair, rows), sampled))
    BY <2>2, <2>3, BlockFindsBest DEF ExactInv, BestInv
  <2> QED
    BY <2>1, <2>3, <2>4
<1> HIDE DEF cands
<1>3. /\ work'[b] = [pc |-> "done", hists |-> work[b].hists, cands |-> cands]
      /\ \A c \in Plan \ {b} : work'[c] = work[c]
  <2>1. DOMAIN work = Plan
    BY DEF ClaimsInv, WorkShape
  <2>2. \A c \in Plan \ {b} : work'[c] = work[c]
    BY <1>1, <2>1
  <2>3. work'[b] = [work[b] EXCEPT !.pc = "done", !.cands = cands]
    BY <1>1, <2>1
  <2>4. work[b] = [pc |-> work[b].pc, hists |-> work[b].hists, cands |-> work[b].cands]
    BY DEF ClaimsInv, WorkShape, IsWork
  <2>5. work'[b] = [pc |-> "done", hists |-> work[b].hists, cands |-> cands]
    BY <2>3, <2>4
  <2> QED
    BY <2>2, <2>5
<1>4. WorkerIsBest(b, work'[b])
  BY <1>2, <1>3 DEF WorkerIsBest
<1> QED
  BY <1>1, <1>3, <1>4, BestInvWorker

LEMMA BestInvOtherWork ==
  ASSUME ClaimsInv, BestInv, NEW b \in Plan,
         AccumulateBlock(b) \/ SubtractBlock(b) \/ FailBlock(b)
  PROVE  BestInv'
<1>1. /\ DOMAIN work = Plan
      /\ work[b] = [pc |-> work[b].pc, hists |-> work[b].hists, cands |-> work[b].cands]
  BY DEF ClaimsInv, WorkShape, IsWork
<1>2. CASE AccumulateBlock(b)
  <2>1. PICK h : work' = [work EXCEPT ![b] = [pc |-> "accumulated", hists |-> h, cands |-> << >>]]
    BY <1>2 DEF AccumulateBlock
  <2>2. work'[b].pc = "accumulated" /\ \A c \in Plan \ {b} : work'[c] = work[c]
    BY <1>1, <2>1
  <2>3. WorkerIsBest(b, work'[b])
    BY <2>2 DEF WorkerIsBest
  <2> QED
    BY <1>2, <2>2, <2>3, BestInvWorker DEF AccumulateBlock
<1>3. CASE SubtractBlock(b)
  <2>1. ClaimsValid(b)
    BY <1>3 DEF ClaimsInv, ClaimsPending, SubtractBlock
  <2>2. PICK h : work' = [work EXCEPT ![b].pc = "subtracted", ![b].hists = h]
    BY <1>3, <2>1 DEF SubtractBlock
  <2>3. /\ work'[b] = [work[b] EXCEPT !.pc = "subtracted", !.hists = h]
        /\ \A c \in Plan \ {b} : work'[c] = work[c]
    BY <1>1, <2>2
  <2>4. work'[b].pc = "subtracted"
    BY <1>1, <2>3
  <2>5. WorkerIsBest(b, work'[b])
    BY <2>4 DEF WorkerIsBest
  <2>6. phase = "blocks" /\ phase' = phase /\ UNCHANGED << inputs, level, depth >>
    BY <1>3, <2>1 DEF SubtractBlock
  <2> QED
    BY <2>3, <2>5, <2>6, BestInvWorker
<1>4. CASE FailBlock(b)
  <2>1. work' = [work EXCEPT ![b].pc = "failed"]
    BY <1>4 DEF FailBlock
  <2>2. /\ work'[b] = [work[b] EXCEPT !.pc = "failed"]
        /\ \A c \in Plan \ {b} : work'[c] = work[c]
    BY <1>1, <2>1
  <2>3. work'[b].pc = "failed"
    BY <1>1, <2>2
  <2>4. WorkerIsBest(b, work'[b])
    BY <2>3 DEF WorkerIsBest
  <2>5. phase = "blocks" /\ phase' = phase /\ UNCHANGED << inputs, level, depth >>
    BY <1>4 DEF FailBlock
  <2> QED
    BY <2>2, <2>4, <2>5, BestInvWorker
<1> QED
  BY <1>2, <1>3, <1>4

LEMMA BestInvReduce == ExactInv /\ BestInv /\ Reduce => BestInv'
<1> SUFFICES ASSUME ExactInv, BestInv, Reduce PROVE BestInv'
  OBVIOUS
<1>1. /\ chosen' = [i \in DOMAIN level |-> BestOfBlocks(i)]
      /\ \A b \in Plan : work[b].pc = "done"
      /\ phase = "blocks" /\ phase' = "partition"
      /\ UNCHANGED << inputs, level, depth, work >>
  BY DEF Reduce
<1>2. ASSUME NEW i \in DOMAIN level
      PROVE  BestAmong(GoodSplits(level[i].rows), BestOfBlocks(i))
  <2> DEFINE cands == [b \in Plan |-> work[b].cands[i]]
  <2>1. Plan = 1..Len(plans) /\ Len(plans) \in Nat
    BY SequenceDomain DEF ExactInv, Inputs, Plan
  <2>2. PICK rows : rows = level[i].rows
    OBVIOUS
  <2>3. \A b \in Plan : BestAmong(BlockSplits(rows, b), cands[b])
    BY <1>1, <2>2 DEF BestInv, WorkerIsBest
  <2>4. BestOfBlocks(i) = ReduceBest(cands)
    BY DEF BestOfBlocks
  <2>5. cands \in [1..Len(plans) -> {cands[b] : b \in Plan}]
    BY <2>1
  <2> HIDE DEF cands
  <2>6. IsSequence(cands) /\ Len(cands) = Len(plans)
    BY <2>1, <2>5, SequenceOf
  <2>7. \A b \in 1..Len(cands) : BestAmong(BlockSplits(rows, b), cands[b])
    BY <2>1, <2>3, <2>6
  <2>8. rows \in SUBSET Row
    BY <2>2 DEF ExactInv, NodesAreExact, NodeIsExact
  <2>9. BestAmong(GoodSplits(rows), ReduceBest(cands))
    BY <2>6, <2>7, <2>8, ReduceFindsBest DEF ExactInv, BestInv
  <2> QED
    BY <2>2, <2>4, <2>9
<1>3. /\ Plan' = Plan /\ PlansAscend'
      /\ \A rows : GoodSplits(rows)' = GoodSplits(rows)
      /\ \A rows, c : BlockSplits(rows, c)' = BlockSplits(rows, c)
  BY <1>1, SameSplits DEF BestInv
<1>4. (\A c \in Plan : WorkerIsBest(c, work[c]))'
  BY <1>1, <1>3 DEF BestInv, WorkerIsBest
<1>5. ChoicesAreBest'
  BY <1>1, <1>2, <1>3 DEF ChoicesAreBest
<1>6. DepthFits'
  BY <1>1 DEF BestInv, DepthFits
<1> QED
  BY <1>3, <1>4, <1>5, <1>6 DEF BestInv

LEMMA BestInvFinishLevel == RowsInv /\ ExactInv /\ BestInv /\ FinishLevel => BestInv'
<1> SUFFICES ASSUME RowsInv, ExactInv, BestInv, FinishLevel PROVE BestInv'
  OBVIOUS
<1>1. /\ phase = "partition" /\ work' = [b \in Plan |-> Idle]
      /\ level' = next /\ depth' = depth + 1
      /\ phase' = EnterLevel(depth + 1, next) /\ UNCHANGED inputs
  BY DEF FinishLevel
<1>2. Plan' = Plan /\ PlansAscend'
  BY <1>1, SameSplits DEF BestInv
<1>3. \A b \in Plan : work'[b].pc = "idle"
  BY <1>1 DEF Idle
<1>4. (\A b \in Plan : WorkerIsBest(b, work[b]))'
  BY <1>2, <1>3 DEF WorkerIsBest
<1>5. ChoicesAreBest'
  BY <1>1 DEF ChoicesAreBest, EnterLevel
<1>6. next # << >> \/ DOMAIN next = {}
  BY EmptyIsSequence, SequenceDomain
<1>7. depth < MaxDepth /\ depth \in Nat /\ MaxDepth \in Nat
  BY <1>1, BuildParams DEF BestInv, DepthFits, ExactInv
<1>8. DepthFits'
  BY <1>1, <1>6, <1>7 DEF DepthFits, EnterLevel
<1> QED
  BY <1>2, <1>4, <1>5, <1>8 DEF BestInv

LEMMA BestInvOther ==
  ASSUME BestInv,
         \/ PartitionFeature \/ SettleSlot \/ SplitSlot \/ ApplyLeaf \/ Finish
         \/ AbortLevel \/ FailColumn \/ Terminated \/ UNCHANGED vars
  PROVE  BestInv'
<1>1. /\ UNCHANGED << inputs, level, depth, work, chosen >>
      /\ phase' = phase \/ phase' \in {"done", "failed"}
  BY DEF PartitionFeature, SettleSlot, SplitSlot, ApplyLeaf, Finish, AbortLevel, FailColumn,
         Terminated, vars, inputs
<1>2. /\ Plan' = Plan /\ PlansAscend'
      /\ \A rows : GoodSplits(rows)' = GoodSplits(rows)
      /\ \A rows, c : BlockSplits(rows, c)' = BlockSplits(rows, c)
  BY <1>1, SameSplits DEF BestInv
<1>3. (\A c \in Plan : WorkerIsBest(c, work[c]))'
  BY <1>1, <1>2 DEF BestInv, WorkerIsBest
<1>4. ChoicesAreBest'
  BY <1>1, <1>2 DEF BestInv, ChoicesAreBest
<1>5. DepthFits'
  BY <1>1 DEF BestInv, DepthFits
<1> QED
  BY <1>2, <1>3, <1>4, <1>5 DEF BestInv

LEMMA BestInvNext ==
  RowsInv /\ ClaimsInv /\ ExactInv /\ BestInv /\ [Next]_vars => BestInv'
<1> SUFFICES ASSUME RowsInv, ClaimsInv, ExactInv, BestInv, [Next]_vars PROVE BestInv'
  OBVIOUS
<1>1. ASSUME NEW b \in Plan, Work(b) \/ FailBlock(b)
      PROVE  BestInv'
  BY <1>1, BestInvEnumerateBlock, BestInvOtherWork DEF Work
<1>2. CASE Reduce
  BY <1>2, BestInvReduce
<1>3. CASE FinishLevel
  BY <1>3, BestInvFinishLevel
<1>4. CASE \/ PartitionFeature \/ SettleSlot \/ SplitSlot \/ ApplyLeaf \/ Finish
           \/ AbortLevel \/ FailColumn \/ Terminated \/ UNCHANGED vars
  BY <1>4, BestInvOther
<1> QED
  BY <1>1, <1>2, <1>3, <1>4 DEF Next, Main, Failure

\* A node of a level as the specification keeps it.
OpenNode(n, d) == [node |-> n.node, rows |-> n.rows, depth |-> d]

LEMMA OpenNodeFields ==
  \A n, d : /\ OpenNode(n, d).node = n.node /\ OpenNode(n, d).rows = n.rows
            /\ OpenNode(n, d).depth = d
BY DEF OpenNode

LEMMA OpenNodesAre ==
  \A n : n \in OpenNodes <=>
    \/ \E i \in DOMAIN level : i >= slot /\ n = OpenNode(level[i], depth)
    \/ \E j \in DOMAIN next : n = OpenNode(next[j], depth + 1)
BY DEF OpenNodes, OpenNode

LEMMA OpenNodesNext ==
  \A n : n \in OpenNodes' <=>
    \/ \E i \in DOMAIN level' : i >= slot' /\ n = OpenNode(level'[i], depth')
    \/ \E j \in DOMAIN next' : n = OpenNode(next'[j], depth' + 1)
BY DEF OpenNodes, OpenNode

\* A step that no node and no row sees.
LEMMA QuietStutters ==
  ASSUME UNCHANGED << inputs, tree, level, next, depth, slot, pred >>, Outcome' = Outcome
  PROVE  UNCHANGED Greedy!vars
<1>1. OpenNodes' = OpenNodes
  BY DEF OpenNodes
<1>2. UNCHANGED << bins, gpair, sampled, tree, pred >>
  BY DEF inputs
<1> QED
  BY <1>1, <1>2 DEF Greedy!vars

\* The next level starts with the nodes that were collected for it.
LEMMA FinishLevelStutters == RowsInv /\ FinishLevel => UNCHANGED Greedy!vars
<1> SUFFICES ASSUME RowsInv, FinishLevel PROVE UNCHANGED Greedy!vars
  OBVIOUS
<1>1. /\ phase = "partition" /\ slot = Len(level) + 1 /\ slot' = 1
      /\ level' = next /\ next' = << >> /\ depth' = depth + 1
      /\ phase' \in {"blocks", "leaves"} /\ UNCHANGED << inputs, tree, pred >>
  BY DEF FinishLevel, EnterLevel
<1>2. /\ DOMAIN level = 1..Len(level) /\ Len(level) \in Nat
      /\ DOMAIN next = 1..Len(next) /\ Len(next) \in Nat
  BY SequenceDomain DEF RowsInv, Shape
<1>3. DOMAIN next' = {}
  BY <1>1, EmptyIsSequence, SequenceDomain
<1>4. ASSUME NEW n PROVE n \in OpenNodes' <=> n \in OpenNodes
  <2>1. n \in OpenNodes' <=> \E i \in DOMAIN next : n = OpenNode(next[i], depth + 1)
    <3>1. \A i \in DOMAIN next : i >= 1
      BY <1>2
    <3> QED
      BY <1>1, <1>3, <3>1, OpenNodesNext
  <2>2. \A i \in DOMAIN level : ~(i >= slot)
    BY <1>1, <1>2
  <2> QED
    BY <2>1, <2>2, OpenNodesAre
<1>5. OpenNodes' = OpenNodes
  BY <1>4
<1>6. Outcome' = Outcome
  BY <1>1 DEF Outcome
<1> QED
  BY <1>1, <1>5, <1>6 DEF Greedy!vars, inputs

\* The main thread moves on from the node at the cursor: this node is closed.
LEMMA CursorCloses ==
  ASSUME RowsInv, PathInv, slot \in DOMAIN level, NEW n, n = OpenNode(level[slot], depth)
  PROVE  /\ n \in OpenNodes
         /\ \A m : m \in OpenNodes \ {n} <=>
              \/ \E i \in DOMAIN level : i >= slot + 1 /\ m = OpenNode(level[i], depth)
              \/ \E j \in DOMAIN next : m = OpenNode(next[j], depth + 1)
<1>1. DOMAIN level \subseteq Nat /\ slot \in Nat
  BY SequenceDomain DEF RowsInv, Shape
<1>2. n \in OpenNodes
  <2>1. slot >= slot
    BY <1>1
  <2> QED
    BY <2>1, OpenNodesAre
<1>3. ASSUME NEW i \in DOMAIN level, i >= slot + 1
      PROVE  i >= slot /\ OpenNode(level[i], depth) # n
  <2>1. i >= slot /\ i # slot
    BY <1>1, <1>3
  <2>2. level[i].node # level[slot].node
    BY <2>1 DEF PathInv, OpenLeaves
  <2> QED
    BY <2>1, <2>2, OpenNodeFields
<1>4. ASSUME NEW j \in DOMAIN next
      PROVE  OpenNode(next[j], depth + 1) # n
  <2>1. slot >= slot
    BY <1>1
  <2>2. level[slot].node # next[j].node
    BY <2>1 DEF PathInv, OpenLeaves
  <2> QED
    BY <2>2, OpenNodeFields
<1>5. ASSUME NEW i \in DOMAIN level, i >= slot, OpenNode(level[i], depth) # n
      PROVE  i >= slot + 1
  <2>1. i # slot
    BY <1>5
  <2> QED
    BY <1>1, <1>5, <2>1
<1>6. ASSUME NEW m
      PROVE  m \in OpenNodes \ {n} <=>
              \/ \E i \in DOMAIN level : i >= slot + 1 /\ m = OpenNode(level[i], depth)
              \/ \E j \in DOMAIN next : m = OpenNode(next[j], depth + 1)
  BY <1>3, <1>4, <1>5, OpenNodesAre
<1> QED
  BY <1>2, <1>6

\* A node becomes a leaf for good when it has no split or cannot be deeper.
LEMMA LeafSettles ==
  ASSUME RowsInv, PathInv, phase \in {"partition", "leaves"}, phase' = phase,
         slot \in DOMAIN level, slot' = slot + 1, AddLeafValue(level[slot]),
         UNCHANGED << inputs, tree, level, next, depth >>,
         depth = MaxDepth \/ Greedy!BestSplit(level[slot].rows) = NoSplit
  PROVE  Greedy!Next
<1>1. PICK n : n = OpenNode(level[slot], depth)
  OBVIOUS
<1>2. n.node = level[slot].node /\ n.rows = level[slot].rows /\ n.depth = depth
  BY <1>1, OpenNodeFields
<1>3. n \in OpenNodes
  BY <1>1, CursorCloses
<1>4. OpenNodes' = OpenNodes \ {n}
  <2>1. ASSUME NEW m PROVE m \in OpenNodes' <=> m \in OpenNodes \ {n}
    <3>1. m \in OpenNodes' <=>
            \/ \E i \in DOMAIN level : i >= slot + 1 /\ m = OpenNode(level[i], depth)
            \/ \E j \in DOMAIN next : m = OpenNode(next[j], depth + 1)
      BY OpenNodesNext
    <3> QED
      BY <1>1, <3>1, CursorCloses
  <2> QED
    BY <2>1
<1>5. Outcome = "running" /\ Outcome' = Outcome
  BY DEF Outcome
<1>6. pred' = [r \in Row |-> IF r \in n.rows
                             THEN Append(pred[r], tree[n.node].leaf_value)
                             ELSE pred[r]]
  BY <1>2 DEF AddLeafValue
<1>7. n.depth = MaxDepth \/ Greedy!BestSplit(n.rows) = Greedy!NoSplit
  BY <1>2, NoSplitIsNone
<1>8. UNCHANGED << bins, gpair, sampled, tree >>
  BY DEF inputs
<1>9. Greedy!Settle(n)
  BY <1>4, <1>5, <1>6, <1>7, <1>8 DEF Greedy!Settle
<1> QED
  BY <1>3, <1>9 DEF Greedy!Next

\* What the main thread has chosen is the best split of the node's rows.
LEMMA ChosenIsBest ==
  ASSUME ExactInv, BestInv, phase = "partition", NEW i \in DOMAIN level
  PROVE  chosen[i] = Greedy!BestSplit(level[i].rows)
<1>1. PICK rows, b : rows = level[i].rows /\ b = chosen[i]
  OBVIOUS
<1>2. rows \in SUBSET Row
  BY <1>1 DEF ExactInv, NodesAreExact, NodeIsExact
<1>3. BestAmong(GoodSplits(rows), b)
  BY <1>1 DEF BestInv, ChoicesAreBest
<1>4. b = Greedy!BestSplit(rows)
  BY <1>2, <1>3, BestIsChosen DEF ExactInv
<1> QED
  BY <1>1, <1>4

LEMMA SettleSlotSettles ==
  RowsInv /\ PathInv /\ ExactInv /\ BestInv /\ SettleSlot => Greedy!Next
<1> SUFFICES ASSUME RowsInv, PathInv, ExactInv, BestInv, SettleSlot PROVE Greedy!Next
  OBVIOUS
<1>1. /\ phase = "partition" /\ slot \in DOMAIN level /\ chosen[slot] = NoSplit
      /\ AddLeafValue(level[slot]) /\ slot' = slot + 1
      /\ UNCHANGED << inputs, tree, level, next, depth, phase >>
  BY DEF SettleSlot
<1>2. Greedy!BestSplit(level[slot].rows) = NoSplit
  BY <1>1, ChosenIsBest
<1> QED
  BY <1>1, <1>2, LeafSettles

LEMMA ApplyLeafSettles == RowsInv /\ PathInv /\ BestInv /\ ApplyLeaf => Greedy!Next
<1> SUFFICES ASSUME RowsInv, PathInv, BestInv, ApplyLeaf PROVE Greedy!Next
  OBVIOUS
<1>1. /\ phase = "leaves" /\ slot \in DOMAIN level
      /\ AddLeafValue(level[slot]) /\ slot' = slot + 1
      /\ UNCHANGED << inputs, tree, level, next, depth, phase >>
  BY DEF ApplyLeaf
<1>2. depth = MaxDepth
  BY <1>1 DEF BestInv, DepthFits
<1> QED
  BY <1>1, <1>2, LeafSettles

\* The operators on trees mean the same in the specification.
LEMMA SameTrees ==
  /\ \A nodes, n, f, c, d, l, r :
       Greedy!SplitLeaf(nodes, n, f, c, d, l, r) = SplitLeaf(nodes, n, f, c, d, l, r)
  /\ \A s : Greedy!LeafOf(s) = LeafOf(s)
  /\ \A b, c, d : Greedy!GoesLeft(b, c, d) = GoesLeft(b, c, d)
<1>1. \A v : Greedy!Leaf(v) = Leaf(v)
  BY DEF Greedy!Leaf, Leaf, Greedy!NO_CHILD, NO_CHILD
<1>2. \A nodes, v : Greedy!PushLeaf(nodes, v) = PushLeaf(nodes, v)
  BY <1>1 DEF Greedy!PushLeaf, PushLeaf
<1>3. \A nodes, n, f, c, d, l, r :
        Greedy!SplitLeaf(nodes, n, f, c, d, l, r) = SplitLeaf(nodes, n, f, c, d, l, r)
  BY <1>2 DEF Greedy!SplitLeaf, SplitLeaf
<1>4. \A s : Greedy!LeafOf(s) = LeafOf(s)
  BY DEF Greedy!LeafOf, LeafOf
<1>5. \A b, c, d : Greedy!GoesLeft(b, c, d) = GoesLeft(b, c, d)
  BY DEF Greedy!GoesLeft, GoesLeft, Greedy!MISSING_BIN, MISSING_BIN
<1> QED
  BY <1>3, <1>4, <1>5

LEMMA SplitSlotSplits ==
  RowsInv /\ PathInv /\ ExactInv /\ BestInv /\ SplitSlot => Greedy!Next
<1> SUFFICES ASSUME RowsInv, PathInv, ExactInv, BestInv, SplitSlot PROVE Greedy!Next
  OBVIOUS
<1>1. /\ phase = "partition" /\ todo = {} /\ slot \in DOMAIN level /\ chosen[slot] # NoSplit
      /\ tree' = SplitLeaf(tree, level[slot].node, chosen[slot].feat,
                           SplitThreshold(chosen[slot].feat, chosen[slot].bin),
                           chosen[slot].missing_left, LeafOf(chosen[slot].left),
                           LeafOf(chosen[slot].right))
      /\ next' = next \o Children(slot, Len(next) + 1) /\ slot' = slot + 1
      /\ UNCHANGED << inputs, level, depth, phase, pred >>
  BY DEF SplitSlot
<1>2. /\ IsSequence(next) /\ Len(next) \in Nat /\ DOMAIN next = 1..Len(next)
      /\ IsSequence(tree) /\ Len(tree) \in Nat /\ depth \in Nat
  BY SequenceDomain DEF RowsInv, Shape, PathInv, Grown, ExactInv
<1>3. PICK n, c, m, s : /\ n = OpenNode(level[slot], depth) /\ c = chosen[slot]
                        /\ m = Len(tree) /\ s = Len(next)
  OBVIOUS
<1>4. n.node = level[slot].node /\ n.rows = level[slot].rows /\ n.depth = depth
  BY <1>3, OpenNodeFields
<1>5. c = Greedy!BestSplit(n.rows) /\ c # NoSplit
  BY <1>1, <1>3, <1>4, ChosenIsBest
<1>6. PICK lrows, rrows :
        /\ lrows = {r \in n.rows : GoesLeft(bins[r][c.feat], c.bin, c.missing_left)}
        /\ rrows = n.rows \ lrows
  OBVIOUS
<1>7. parts[slot][1] = lrows /\ parts[slot][2] = rrows
  <2>1. parts[slot] = PartitionRows(level[slot].rows, chosen[slot])
    BY <1>1 DEF PathInv, PartsExact
  <2>2. PartitionRows(n.rows, c) = << lrows, rrows >>
    BY <1>6 DEF PartitionRows
  <2> QED
    BY <1>3, <1>4, <2>1, <2>2
<1>8. PICK x, y : /\ Children(slot, s + 1) = << x, y >>
                  /\ x.rows = lrows /\ x.node = m + 1 /\ y.rows = rrows /\ y.node = m + 2
  <2>1. m + 1 + 1 = m + 2
    BY <1>2, <1>3
  <2> QED
    BY <1>3, <1>7, <2>1, ChildrenAre DEF LevelNode
<1>9. /\ IsSequence(next') /\ DOMAIN next' = 1..(s + 2)
      /\ \A i \in 1..s : next'[i] = next[i]
      /\ next'[s + 1] = x /\ next'[s + 2] = y
  <2>1. next' = next \o << x, y >>
    BY <1>1, <1>3, <1>8
  <2> QED
    BY <1>2, <1>3, <2>1, AppendTwo
<1>10. PICK a, b : /\ a = [node |-> m + 1, rows |-> lrows, depth |-> n.depth + 1]
                   /\ b = [node |-> m + 2, rows |-> n.rows \ lrows, depth |-> n.depth + 1]
  OBVIOUS
<1>11. a = OpenNode(x, depth + 1) /\ b = OpenNode(y, depth + 1)
  BY <1>4, <1>6, <1>8, <1>10 DEF OpenNode
<1>12. ASSUME NEW k
       PROVE  (\E j \in DOMAIN next' : k = OpenNode(next'[j], depth + 1)) <=>
                (\E j \in DOMAIN next : k = OpenNode(next[j], depth + 1)) \/ k \in {a, b}
  <2>1. /\ \A j \in DOMAIN next : j \in DOMAIN next' /\ next'[j] = next[j]
        /\ s + 1 \in DOMAIN next' /\ s + 2 \in DOMAIN next'
        /\ \A j \in DOMAIN next' : j \in DOMAIN next \/ j = s + 1 \/ j = s + 2
    BY <1>2, <1>3, <1>9
  <2> QED
    BY <1>9, <1>11, <2>1
<1>13. OpenNodes' = (OpenNodes \ {n}) \cup {a, b}
  <2>1. ASSUME NEW k PROVE k \in OpenNodes' <=> k \in (OpenNodes \ {n}) \cup {a, b}
    <3>1. k \in OpenNodes' <=>
            \/ \E i \in DOMAIN level : i >= slot + 1 /\ k = OpenNode(level[i], depth)
            \/ \E j \in DOMAIN next' : k = OpenNode(next'[j], depth + 1)
      BY <1>1, OpenNodesNext
    <3>2. k \in OpenNodes \ {n} <=>
            \/ \E i \in DOMAIN level : i >= slot + 1 /\ k = OpenNode(level[i], depth)
            \/ \E j \in DOMAIN next : k = OpenNode(next[j], depth + 1)
      BY <1>1, <1>3, CursorCloses
    <3> QED
      BY <1>12, <3>1, <3>2
  <2> QED
    BY <2>1
<1>14. n \in OpenNodes
  BY <1>1, <1>3, CursorCloses
<1>15. Outcome = "running" /\ Outcome' = Outcome
  BY <1>1 DEF Outcome
<1>16. n.depth < MaxDepth
  BY <1>1, <1>4 DEF BestInv, DepthFits
<1>17. tree' = Greedy!SplitLeaf(tree, n.node, c.feat, Greedy!SplitThreshold(c.feat, c.bin),
                                c.missing_left, Greedy!LeafOf(c.left), Greedy!LeafOf(c.right))
  <2>1. tree' = SplitLeaf(tree, n.node, c.feat, SplitThreshold(c.feat, c.bin),
                          c.missing_left, LeafOf(c.left), LeafOf(c.right))
    BY <1>1, <1>3, <1>4
  <2>2. PICK cond : cond = SplitThreshold(c.feat, c.bin)
    OBVIOUS
  <2>3. Greedy!SplitThreshold(c.feat, c.bin) = cond
    BY <2>2 DEF Greedy!SplitThreshold, SplitThreshold, Greedy!F32_MIN, F32_MIN
  <2> QED
    BY <2>1, <2>2, <2>3, SameTrees
<1>18. {r \in n.rows : Greedy!GoesLeft(bins[r][c.feat], c.bin, c.missing_left)} = lrows
  BY <1>6, SameTrees
<1>19. UNCHANGED << bins, gpair, sampled, pred >>
  BY <1>1 DEF inputs
<1>20. c # Greedy!NoSplit
  BY <1>5, NoSplitIsNone
<1>21. OpenNodes' = (OpenNodes \ {n}) \cup
         {[node |-> Len(tree) + 1, rows |-> lrows, depth |-> n.depth + 1],
          [node |-> Len(tree) + 2, rows |-> n.rows \ lrows, depth |-> n.depth + 1]}
  BY <1>3, <1>10, <1>13
<1>22. Greedy!Split(n)
  BY <1>5, <1>15, <1>16, <1>17, <1>18, <1>19, <1>20, <1>21 DEF Greedy!Split
<1> QED
  BY <1>14, <1>22 DEF Greedy!Next

LEMMA FinishFinishes == RowsInv /\ PathInv /\ Finish => Greedy!Next
<1> SUFFICES ASSUME RowsInv, PathInv, Finish PROVE Greedy!Next
  OBVIOUS
<1>1. /\ phase = "leaves" /\ slot = Len(level) + 1 /\ phase' = "done"
      /\ UNCHANGED << inputs, tree, level, next, depth, slot, pred >>
  BY DEF Finish
<1>2. DOMAIN next = {}
  BY <1>1, EmptyIsSequence, SequenceDomain DEF PathInv, LevelsEnd
<1>3. \A i \in DOMAIN level : ~(i >= slot)
  BY <1>1, SequenceDomain DEF RowsInv, Shape
<1>4. OpenNodes = {}
  BY <1>2, <1>3, OpenNodesAre
<1>5. OpenNodes' = OpenNodes
  BY <1>1 DEF OpenNodes
<1>6. Outcome = "running" /\ Outcome' = "done"
  BY <1>1 DEF Outcome
<1>7. Greedy!Finish
  BY <1>1, <1>4, <1>5, <1>6 DEF Greedy!Finish, inputs
<1> QED
  BY <1>7 DEF Greedy!Next

LEMMA FailureFails == AbortLevel \/ FailColumn => Greedy!Next
<1> SUFFICES ASSUME AbortLevel \/ FailColumn PROVE Greedy!Next
  OBVIOUS
<1>1. /\ phase \in {"blocks", "partition"} /\ phase' = "failed"
      /\ UNCHANGED << inputs, tree, level, next, depth, slot, pred >>
  BY DEF AbortLevel, FailColumn
<1>2. OpenNodes' = OpenNodes
  BY <1>1 DEF OpenNodes
<1>3. Outcome = "running" /\ Outcome' = "failed"
  BY <1>1 DEF Outcome
<1>4. Greedy!Fail
  BY <1>1, <1>2, <1>3 DEF Greedy!Fail, inputs
<1> QED
  BY <1>4 DEF Greedy!Next

\* Every step of the build is a step of the specification or none.
LEMMA BuildStepSimulated ==
  RowsInv /\ ClaimsInv /\ PathInv /\ ExactInv /\ BestInv /\ [Next]_vars
    => [Greedy!Next]_(Greedy!vars)
<1> SUFFICES ASSUME RowsInv, ClaimsInv, PathInv, ExactInv, BestInv, [Next]_vars
             PROVE  Greedy!Next \/ UNCHANGED Greedy!vars
  OBVIOUS
<1>1. ASSUME NEW b \in Plan, Work(b) \/ FailBlock(b)
      PROVE  UNCHANGED Greedy!vars
  <2>1. CASE AccumulateBlock(b) \/ EnumerateBlock(b) \/ FailBlock(b)
    <3>1. UNCHANGED << inputs, tree, level, next, depth, slot, pred, phase >>
      BY <2>1 DEF AccumulateBlock, EnumerateBlock, FailBlock
    <3> QED
      BY <3>1, QuietStutters DEF Outcome
  <2>2. CASE SubtractBlock(b)
    <3>1. UNCHANGED << inputs, tree, level, next, depth, slot, pred, phase >>
      BY <2>2 DEF SubtractBlock, ClaimsInv, ClaimsPending
    <3> QED
      BY <3>1, QuietStutters DEF Outcome
  <2> QED
    BY <1>1, <2>1, <2>2 DEF Work
<1>2. CASE Reduce
  <2>1. /\ UNCHANGED << inputs, tree, level, next, depth, slot, pred >>
        /\ phase = "blocks" /\ phase' = "partition"
    BY <1>2 DEF Reduce
  <2>2. Outcome' = Outcome
    BY <2>1 DEF Outcome
  <2> QED
    BY <2>1, <2>2, QuietStutters
<1>3. CASE PartitionFeature \/ Terminated \/ UNCHANGED vars
  <2>1. UNCHANGED << inputs, tree, level, next, depth, slot, pred, phase >>
    BY <1>3 DEF PartitionFeature, Terminated, vars
  <2> QED
    BY <2>1, QuietStutters DEF Outcome
<1>4. CASE SettleSlot
  BY <1>4, SettleSlotSettles
<1>5. CASE SplitSlot
  BY <1>5, SplitSlotSplits
<1>6. CASE FinishLevel
  BY <1>6, FinishLevelStutters
<1>7. CASE ApplyLeaf
  BY <1>7, ApplyLeafSettles
<1>8. CASE Finish
  BY <1>8, FinishFinishes
<1>9. CASE AbortLevel \/ FailColumn
  BY <1>9, FailureFails
<1> QED
  BY <1>1, <1>2, <1>3, <1>4, <1>5, <1>6, <1>7, <1>8, <1>9 DEF Next, Main, Failure

LEMMA BuildStartsThere == Init => Greedy!Init
<1> SUFFICES ASSUME Init PROVE Greedy!Init
  OBVIOUS
<1> DEFINE root == LevelNode(1, Row, NodeSum(gpair, Row), Accumulate)
<1>1. /\ tree = PushLeaf(<< >>, LeafOf(NodeSum(gpair, Row)))
      /\ level = << root >> /\ next = << >> /\ depth = 0 /\ slot = 1
      /\ phase \in {"blocks", "leaves"} /\ pred = [r \in Row |-> << >>]
  BY DEF Init, EnterLevel
<1>2. root.node = 1 /\ root.rows = Row
  BY DEF LevelNode
<1> HIDE DEF root
<1>3. DOMAIN level = {1} /\ DOMAIN next = {} /\ level[1] = root
  BY <1>1, EmptyIsSequence, SequenceDomain, SingletonIsSequence
<1>4. OpenNode(root, 0) = [node |-> 1, rows |-> Row, depth |-> 0]
  BY <1>2 DEF OpenNode
<1>5. \A n : n \in OpenNodes <=> n = OpenNode(root, 0)
  BY <1>1, <1>3, OpenNodesAre
<1>6. OpenNodes = {[node |-> 1, rows |-> Row, depth |-> 0]}
  BY <1>4, <1>5
<1>7. tree = << Greedy!Leaf(Greedy!LeafOf(Greedy!NodeSum(gpair, Row))) >>
  <2>1. \A rows : Greedy!NodeSum(gpair, rows) = NodeSum(gpair, rows)
    BY DEF Greedy!NodeSum, NodeSum, Greedy!FoldFunctionOnSet, FoldFunctionOnSet, Greedy!Plus, Plus,
       Greedy!Zero, Zero, Greedy!MapThenFoldSet, MapThenFoldSet
  <2>2. \A v : Greedy!Leaf(v) = Leaf(v)
    BY DEF Greedy!Leaf, Leaf, Greedy!NO_CHILD, NO_CHILD
  <2>3. PICK v : v = LeafOf(NodeSum(gpair, Row))
    OBVIOUS
  <2>4. Greedy!LeafOf(Greedy!NodeSum(gpair, Row)) = v
    BY <2>1, <2>3, SameTrees
  <2>5. \A e : Append(<< >>, e) = << e >>
    OBVIOUS
  <2>6. tree = << Leaf(v) >>
    BY <1>1, <2>3, <2>5 DEF PushLeaf
  <2> QED
    BY <2>2, <2>4, <2>6
<1>8. Outcome = "running"
  BY <1>1 DEF Outcome
<1> QED
  BY <1>1, <1>6, <1>7, <1>8 DEF Greedy!Init

\* The level-wise, block-wise, threaded build with histogram subtraction grows the
\* tree, and pays the rows, as the row-based greedy growth does: each node is split by
\* the best split of its own rows, whatever the blocks and the order of the workers.
THEOREM BuildImplementsGreedy == Spec => ImplementsGreedy
<1> DEFINE Inv == RowsInv /\ ClaimsInv /\ PathInv /\ ExactInv /\ BestInv
<1>1. Init => Inv
  BY RowsInvInit, ClaimsInvInit, PathInvInit, ExactInvInit, BestInvInit
<1>2. Inv /\ [Next]_vars => Inv'
  <2>1. RowsInv => Shape
    BY DEF RowsInv
  <2> QED
    BY <2>1, RowsInvNext, ClaimsInvNext, PathInvNext, ExactInvNext, ExactInvFits,
       BestInvNext
<1>3. Init => Greedy!Init
  BY BuildStartsThere
<1>4. Inv /\ [Next]_vars => [Greedy!Next]_(Greedy!vars)
  BY BuildStepSimulated
<1> HIDE DEF Inv
<1> QED
  BY <1>1, <1>2, <1>3, <1>4, PTL DEF Spec, ImplementsGreedy, Greedy!Spec
=============================================================================
