-------------------------- MODULE StablePartition ---------------------------
(***************************************************************************)
(* split_rows_by_prefix of train.rs: the rows of a node are sent left and  *)
(* right by several threads, and come out as if one had done it.           *)
(*                                                                         *)
(* The directions are bits, packed into bytes of ByteRows rows.  The input *)
(* is cut into segments of whole bytes; every segment is counted, prefix   *)
(* sums give each the slices of the two outputs it fills, and all are      *)
(* written at once.  A row is the number of its place in the input.        *)
(***************************************************************************)
EXTENDS Integers, Sequences, FiniteSets, Functions

CONSTANTS
  MaxRows,      \* how many rows a node may have
  ByteRows,     \* rows to a byte; 8 in the code
  MinRows,      \* PARTITION_MIN_ROWS_PER_SEGMENT
  MaxThreads    \* rayon's pool may have 1..MaxThreads threads

ASSUME PartitionParams ==
  /\ MaxRows \in Nat
  /\ {ByteRows, MinRows, MaxThreads} \subseteq Nat \ {0}

VARIABLES
  goes,         \* goes[r]: row r goes left
  threads,
  stage,        \* "count", "write" or "done"
  counts,       \* the segments counted so far, and their left counts
  at,           \* at[s] = [byte, li, ri]: where segment s's writer is
  left, right   \* the outputs; 0 where nothing has been written

partition_vars == << goes, threads, stage, counts, at, left, right >>

n_rows == Len(goes)

CeilDiv(a, b) == (a + b - 1) \div b

NBytes == CeilDiv(n_rows, ByteRows)

Least(a, b) == IF a < b THEN a ELSE b

\* As many segments as rows and threads make worthwhile, at least one.
NSegments ==
  LET wanted == CeilDiv(n_rows, MinRows)
  IN  Least(IF wanted < 1 THEN 1 ELSE wanted, Least(threads, NBytes))

BytesPerSegment == CeilDiv(NBytes, NSegments)

\* The segments: [first, end) in bytes.  Rounding may leave fewer of them.
Segments ==
  [s \in 1..(IF n_rows = 0 THEN 0 ELSE CeilDiv(NBytes, BytesPerSegment)) |->
     [first |-> (s - 1) * BytesPerSegment,
      end   |-> Least(s * BytesPerSegment, NBytes)]]

\* The rows of the bytes first .. end - 1; the last byte may be short.
RowsOfBytes(first, end) == (first * ByteRows + 1)..Least(end * ByteRows, n_rows)

RowsOfSegment(s) == RowsOfBytes(Segments[s].first, Segments[s].end)

\* Those of a set of rows that go to one side.
OnSide(rows, to_left) == {r \in rows : goes[r] = to_left}

LeftCount(s) == Cardinality(OnSide(RowsOfSegment(s), TRUE))

RightCount(s) == Cardinality(RowsOfSegment(s)) - counts[s]

\* How many rows of one side lie before segment s, given the counts of that side.
Prefix(count, s) == FoldFunctionOnSet(+, 0, count, 1..(s - 1))

LeftOffset(s)  == Prefix(counts, s)
RightOffset(s) == Prefix([i \in DOMAIN counts |-> RightCount(i)], s)

PartitionInit ==
  /\ goes \in UNION {[1..m -> BOOLEAN] : m \in 0..MaxRows}
  /\ threads \in 1..MaxThreads
  /\ stage = "count"
  /\ counts = << >> /\ at = << >>
  /\ left = << >> /\ right = << >>

CountSegment(s) ==
  /\ stage = "count" /\ s \notin DOMAIN counts
  /\ counts' = [i \in DOMAIN counts \cup {s} |-> IF i = s THEN LeftCount(s) ELSE counts[i]]
  /\ UNCHANGED << goes, threads, stage, at, left, right >>

\* All are counted: the outputs are made and cut into slices.
CutOutputs ==
  /\ stage = "count" /\ DOMAIN counts = DOMAIN Segments
  /\ LET last == Len(Segments) + 1
     IN  /\ left'  = [i \in 1..LeftOffset(last) |-> 0]
         /\ right' = [i \in 1..RightOffset(last) |-> 0]
  /\ at' = [s \in DOMAIN Segments |-> [byte |-> Segments[s].first, li |-> 0, ri |-> 0]]
  /\ stage' = "write"
  /\ UNCHANGED << goes, threads, counts >>

\* A row sequence written into an output from place `start` on.
Overlay(output, start, written) ==
  [i \in DOMAIN output |->
     IF i \in (start + 1)..(start + Len(written)) THEN written[i - start] ELSE output[i]]

\* The elements of a set of rows, the lowest first.
InOrder(rows) ==
  [i \in 1..Cardinality(rows) |->
     CHOOSE r \in rows : Cardinality({q \in rows : q <= r}) = i]

\* Mutant: the left rows of a byte are written in the opposite order.
SideReversed(byte, to_left) ==
  LET side == InOrder(OnSide(RowsOfBytes(byte, byte + 1), to_left))
  IN  IF to_left THEN [i \in DOMAIN side |-> side[Len(side) + 1 - i]] ELSE side

\* partition_orders, and the loop for a short byte: the rows of a byte that go
\* to one side, in order.
Side(byte, to_left) == InOrder(OnSide(RowsOfBytes(byte, byte + 1), to_left))

\* A writer copies one byte's rows into its two slices.
WriteByte(s) ==
  /\ stage = "write" /\ at[s].byte < Segments[s].end
  /\ LET l == Side(at[s].byte, TRUE)
         r == Side(at[s].byte, FALSE)
     IN  /\ left'  = Overlay(left, LeftOffset(s) + at[s].li, l)
         /\ right' = Overlay(right, RightOffset(s) + at[s].ri, r)
         /\ at' = [at EXCEPT ![s] = [byte |-> @.byte + 1, li |-> @.li + Len(l),
                                     ri |-> @.ri + Len(r)]]
  /\ UNCHANGED << goes, threads, stage, counts >>

Join ==
  /\ stage = "write" /\ \A s \in DOMAIN Segments : at[s].byte = Segments[s].end
  /\ stage' = "done"
  /\ UNCHANGED << goes, threads, counts, at, left, right >>

Worker(s) == CountSegment(s) \/ WriteByte(s)

PartitionNext == (\E s \in DOMAIN Segments : Worker(s)) \/ CutOutputs \/ Join

PartitionSpec == PartitionInit /\ [][PartitionNext]_partition_vars
-----------------------------------------------------------------------------
PartitionTypeOK ==
  /\ n_rows \in 0..MaxRows /\ threads \in 1..MaxThreads
  /\ stage \in {"count", "write", "done"}
  /\ DOMAIN counts \subseteq DOMAIN Segments
  /\ \A s \in DOMAIN counts : counts[s] \in 0..n_rows
  /\ Len(left) + Len(right) = (IF stage = "count" THEN 0 ELSE n_rows)

\* The segments cover every byte once, and there are no more than threads to
\* work on them.
SegmentsCover ==
  /\ Len(Segments) <= threads
  /\ \A b \in 0..(NBytes - 1) :
       Cardinality({s \in DOMAIN Segments : Segments[s].first <= b /\ b < Segments[s].end}) = 1

\* A writer stays in the slices it was given; outside them the code would
\* panic, or, were the slices wrong, overwrite another segment's rows.
WritersStayInSlices ==
  stage = "write" => \A s \in DOMAIN Segments :
                       at[s].li <= counts[s] /\ at[s].ri <= RightCount(s)

\* What a serial stable partition sends to one side.
Serial(to_left) == InOrder(OnSide(1..n_rows, to_left))

\* "the same, byte for byte, as a serial stable partition": at every moment of
\* every interleaving what has been written is what belongs there, and in the
\* end nothing is missing.
OutputsAreSerial ==
  /\ \A i \in DOMAIN left  : left[i] # 0  => left[i] = Serial(TRUE)[i]
  /\ \A i \in DOMAIN right : right[i] # 0 => right[i] = Serial(FALSE)[i]
  /\ stage = "done" => left = Serial(TRUE) /\ right = Serial(FALSE)

\* The segments' writers, in any order, leave what a serial stable partition leaves.
SameAsSerial == OutputsAreSerial /\ WritersStayInSlices /\ SegmentsCover
=============================================================================
