---------------------------- MODULE StableSplits -----------------------------
(***************************************************************************)
(* What keeping the rows of tree nodes promises: an open node owns a       *)
(* sequence of rows; it is either split, and then its children own its     *)
(* rows in their order, or it pays its rows and is closed.  RowArena, which *)
(* keeps all rows in device arrays and only remembers offsets, implements  *)
(* this.                                                                   *)
(***************************************************************************)
EXTENDS Integers, Sequences

CONSTANTS Row, RootRows, Feature

VARIABLES
  left,   \* left[f]: the rows that feature f's split sends left
  open,   \* the open nodes: [id, rows]
  ids,    \* the number of node ids given out
  value   \* value[r]: the leaf that has paid row r, 0 if none has

vars == << left, open, ids, value >>

Root == [id |-> 1, rows |-> RootRows]

Init == open = {Root} /\ ids = 1 /\ value = [r \in Row |-> 0]

\* The members of s that are in S, in their order.
Kept(s, S) ==
  LET kept[i \in 0..Len(s)] ==
        IF i = 0 THEN << >>
        ELSE IF s[i] \in S THEN Append(kept[i - 1], s[i]) ELSE kept[i - 1]
  IN  kept[Len(s)]

Split(n, f) ==
  /\ open' = (open \ {n}) \cup
       {[id |-> ids + 1, rows |-> Kept(n.rows, left[f])],
        [id |-> ids + 2, rows |-> Kept(n.rows, Row \ left[f])]}
  /\ ids' = ids + 2
  /\ UNCHANGED << left, value >>

Settle(n) ==
  /\ value' = [r \in Row |-> IF \E k \in DOMAIN n.rows : n.rows[k] = r
                             THEN n.id ELSE value[r]]
  /\ open' = open \ {n}
  /\ UNCHANGED << left, ids >>

NextTree ==
  /\ open = {}
  /\ open' = {Root} /\ ids' = 1 /\ value' = [r \in Row |-> 0]
  /\ UNCHANGED left

Next == NextTree \/ \E n \in open : Settle(n) \/ \E f \in Feature : Split(n, f)

Spec == Init /\ [][Next]_vars
=============================================================================
