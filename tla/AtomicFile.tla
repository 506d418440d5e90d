----------------------------- MODULE AtomicFile -----------------------------
(***************************************************************************)
(* What saving and loading a model promise: the file holds one complete    *)
(* version or none, a save replaces it in one step or not at all, and a    *)
(* load returns a version the file held at a moment during the load.       *)
(***************************************************************************)
EXTENDS Naturals

CONSTANTS Loader, Versions, Nothing

VARIABLES
  value,    \* the version in the file
  loading,  \* per loader: the version it will return, or Nothing
  loaded    \* per loader: the last version returned, or Nothing

Init ==
  /\ value = Nothing
  /\ loading = [l \in Loader |-> Nothing] /\ loaded = [l \in Loader |-> Nothing]

Replace == value' \in Versions /\ UNCHANGED << loading, loaded >>

Snapshot(l) ==
  /\ loading[l] = Nothing /\ value # Nothing
  /\ loading' = [loading EXCEPT ![l] = value]
  /\ loaded' = [loaded EXCEPT ![l] = Nothing]
  /\ UNCHANGED value

\* A load may also fail.
Finish(l) ==
  /\ loading[l] # Nothing
  /\ loading' = [loading EXCEPT ![l] = Nothing]
  /\ loaded' \in {loaded, [loaded EXCEPT ![l] = loading[l]]}
  /\ UNCHANGED value

Next == Replace \/ \E l \in Loader : Snapshot(l) \/ Finish(l)

Spec == Init /\ [][Next]_<< value, loading, loaded >>
=============================================================================
