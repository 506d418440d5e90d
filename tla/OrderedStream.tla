--------------------------- MODULE OrderedStream ----------------------------
(***************************************************************************)
(* What reading several files in parallel promises its consumer: the       *)
(* batches of the files one after the other, in file and row order, each   *)
(* file ending at its first error.  The consumer may give up at any time.  *)
(***************************************************************************)
EXTENDS Naturals, Sequences, SequencesExt

VARIABLES
  files,      \* the files, as ParallelReader describes them
  out,        \* the batches delivered
  consumer    \* "reading", "finished" or "dropped"

\* A file that cannot be opened delivers its error, as batch 0.
Contents(f) ==
  LET bad == {k \in DOMAIN files[f].batches : files[f].batches[k] = "err"}
      last == IF bad = {} THEN Len(files[f].batches)
              ELSE CHOOSE k \in bad : \A j \in bad : k <= j
  IN  IF files[f].opens THEN [k \in 1..last |-> << f, k >>] ELSE << << f, 0 >> >>

Expected == FlattenSeq([f \in DOMAIN files |-> Contents(f)])

Init ==
  /\ out = << >>
  /\ consumer = "reading"

Deliver ==
  /\ consumer = "reading"
  /\ Len(out) < Len(Expected)
  /\ out' = Append(out, Expected[Len(out) + 1])
  /\ UNCHANGED << files, consumer >>

\* The end is reported once, when nothing is missing.
End ==
  /\ consumer = "reading"
  /\ out = Expected
  /\ consumer' = "finished"
  /\ UNCHANGED << files, out >>

Drop ==
  /\ consumer = "reading"
  /\ consumer' = "dropped"
  /\ UNCHANGED << files, out >>

Next == Deliver \/ End \/ Drop

Spec == Init /\ [][Next]_<< files, out, consumer >>
=============================================================================
