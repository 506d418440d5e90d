---------------------------- MODULE RoundBoosting ----------------------------
(***************************************************************************)
(* What multiclass boosting promises: every round grows one tree per class *)
(* in the order of the classes, each on the gradients of the margins that  *)
(* all classes had when the round began, and on the rows drawn for that    *)
(* very tree.                                                              *)
(***************************************************************************)
EXTENDS Naturals, Sequences

CONSTANTS Row, NClasses, NRounds

Class == 0..NClasses - 1

VARIABLES
  kept,    \* kept[r][c]: the rows drawn for the tree of round r and class c
  round, class,   \* the tree to be grown next
  trees,   \* trees grown: [class, basis]
  ended

vars == << kept, round, class, trees, ended >>

\* After n rounds a margin is the sum of the trees of rounds 1..n of its class.
Margin(n) == [k \in 1..n |-> k]

Init == round = 1 /\ class = 0 /\ trees = << >> /\ ended = FALSE

Grow ==
  /\ ~ended /\ round <= NRounds
  /\ trees' = Append(trees, [class |-> class,
       basis |-> [r \in kept[round][class] |-> [c \in Class |-> Margin(round - 1)]]])
  /\ IF class + 1 < NClasses THEN class' = class + 1 /\ round' = round
     ELSE class' = 0 /\ round' = round + 1
  /\ UNCHANGED << kept, ended >>

End == ended' = TRUE /\ ~ended /\ UNCHANGED << kept, round, class, trees >>

Next == Grow \/ End

Spec == Init /\ [][Next]_vars
=============================================================================
