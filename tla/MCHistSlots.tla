----------------------------- MODULE MCHistSlots -----------------------------
(***************************************************************************)
(* HistSlots for TLC, in three sizes: one worker with every block and      *)
(* selection, two with every block, three with one streaming block.        *)
(***************************************************************************)
EXTENDS HistSlots

CONSTANTS Second, Third, Other   \* two workers and a streaming block

VARIABLE size

Sized ==
  /\ size = "alone" => pc[Second] = "idle"
  /\ size \in {"alone", "pair"} => pc[Third] = "idle"
  /\ size \in {"pair", "crowd"} => \A w \in Worker : selected[w] = All
  /\ size = "crowd" => \A w \in Worker : block[w] # Other

SlotsInit == Init /\ size \in {"alone", "pair", "crowd"}

SlotsSpec ==
  /\ SlotsInit
  /\ [][Next /\ UNCHANGED size /\ Sized']_<< vars, size >>
  \* HistSlots!FairSpec
  /\ \A w \in Worker : SF_vars(Step(w)) /\ SF_vars(Finishes(w))
=============================================================================
