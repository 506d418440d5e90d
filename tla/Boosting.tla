------------------------------ MODULE Boosting ------------------------------
(***************************************************************************)
(* What gradient boosting promises: tree k is built on the gradients of    *)
(* the predictions that trees 1..k-1 make, for the rows drawn for round k; *)
(* every other row contributes nothing to the tree.  There is no backend,  *)
(* no deferred update and no quantization here.                            *)
(***************************************************************************)
EXTENDS Naturals, Sequences

CONSTANTS
  Row,        \* the training rows
  NRounds     \* params.n_rounds

VARIABLES
  kept,       \* kept[k]: the rows drawn for tree k
  trees,      \* trees[k]: what tree k was built on, per row
  outcome     \* "running", "done" or "failed"

\* The gradient of a row whose prediction is the sum of the trees in `p`, and
\* the zero pair of a row left out by row sampling.
GradientOf(p) == [masked |-> FALSE, of |-> p]
Masked == [masked |-> TRUE, of |-> << >>]

\* A prediction to which the first k trees have been added, in order.
Sum(k) == [i \in 1..k |-> i]

Init ==
  /\ trees = << >>
  /\ outcome = "running"

Round ==
  /\ outcome = "running"
  /\ Len(trees) < NRounds
  /\ trees' = Append(trees,
       [r \in Row |-> IF r \in kept[Len(trees) + 1]
                      THEN GradientOf(Sum(Len(trees)))
                      ELSE Masked])
  /\ UNCHANGED << kept, outcome >>

\* Early stopping may end the training after any round.
Stop ==
  /\ outcome = "running"
  /\ Len(trees) = NRounds \/ trees # << >>
  /\ outcome' = "done"
  /\ UNCHANGED << kept, trees >>

Fail ==
  /\ outcome = "running"
  /\ outcome' = "failed"
  /\ UNCHANGED << kept, trees >>

Next == Round \/ Stop \/ Fail

Spec == Init /\ [][Next]_<< kept, trees, outcome >>
=============================================================================
