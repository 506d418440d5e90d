---------------------------- MODULE MCTreeBuild -----------------------------
(***************************************************************************)
(* An instance of TreeBuild for TLC.                                       *)
(***************************************************************************)
EXTENDS TreeBuild

\* Four rows; a block of a feature of three bins and one of a single bin, and in a
\* block of its own a feature whose one cut is f32::MIN, the number of the lower
\* sentinel, and also the value of its rows.  Columns of the first feature meet
\* three patterns of missing values in the others: ties within and across
\* blocks, "missing or not" splits of either kind and three levels of subtraction
\* all occur.
MCRow == 1..4
MCCuts == << << -1, 0 >>, << >>, << -2 >> >>
MCBlocks == << << 1, 2 >>, << 3 >> >>
MCMissing == {<< {4}, {} >>, << {3, 4}, {4} >>, << {}, {2, 4} >>}

Cell(r, missing, value) == IF r \in missing THEN NaN ELSE value
MCValues ==
  {[r \in MCRow |-> << col[r], Cell(r, miss[1], 1), Cell(r, miss[2], -2) >>] :
     col \in {c \in [MCRow -> {-2, -1, 1, NaN}] : c[1] = -2}, miss \in MCMissing}

Pair(g, h) == [grad |-> g, hess |-> h]

\* Gradients with which both halves of a split are worth splitting again, and
\* a vector whose last row subsampling has zeroed.
MCGrads == {<< Pair(-4, 1), Pair(-1, 1), Pair(3, 1), Pair(0, 1) >>,
            << Pair(-2, 1), Pair(-1, 2), Pair(3, 1), Pair(0, 0) >>}

\* Draws of colsample that leave out nothing, one feature, or the second block.
MCSampled == {{1, 2, 3}, {1, 3}, {1, 2}}
=============================================================================
