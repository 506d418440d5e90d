------------------------------ MODULE HistSlots ------------------------------
(***************************************************************************)
(* The histogram slots of GpuTrainCtx (train_ctx.rs).  A slot is a set of  *)
(* device buffers with a stream, behind a mutex.  A resident block has a   *)
(* slot of its own and is uploaded once; the other blocks share a few      *)
(* streaming slots, leased from a pool with a condition variable.  Block   *)
(* workers open sessions concurrently; every upload may fail.  Commands of *)
(* a slot run in the order of its stream, so they are modelled by their    *)
(* effect.                                                                 *)
(***************************************************************************)
EXTENDS Integers, FiniteSets, TLAPS

CONSTANTS
  Worker,      \* threads that open sessions
  Stream,      \* the streaming slots
  Resident,    \* the resident blocks; each is the name of its slot
  Streaming,   \* the blocks that are uploaded for every session
  Selection,   \* column selections other than All
  All,         \* no selection
  Nothing,     \* nobody, no block, no metadata
  Junk,        \* a buffer after an upload that failed half way
  NSessions    \* how many sessions are opened in all

Slot == Stream \cup Resident
Block == Resident \cup Streaming

ASSUME SlotParams ==
  /\ Stream \cap Resident = {} /\ Resident \cap Streaming = {}
  /\ All \notin Selection /\ All # Junk /\ All # Nothing
  /\ Nothing \notin Worker \cup Slot \cup Block \cup Selection
  /\ Junk \notin Worker \cup Slot \cup Block \cup Selection
  /\ Junk # Nothing
  /\ NSessions \in Nat

VARIABLES
  available,    \* HistSlotPool.available
  lease,        \* the streaming slot each worker has leased
  holder,       \* who holds the mutex of each slot
  core,         \* who holds the mutex of GpuBuffers
  pc, block, selected, payload,       \* the session each worker opens
  bins,         \* the block in each slot's bin buffer
  resident_block, metadata_shape,     \* what the host knows of the slot
  offsets, offsets_host,              \* feat_offsets on the device, on the host
  feature_select, selected_host,      \* the selection on the device, on the host
  opened        \* sessions opened so far

metadata == << metadata_shape, offsets, offsets_host, feature_select, selected_host >>
contents == << bins, resident_block, metadata >>
session == << block, selected, payload >>
vars == << available, lease, holder, core, pc, session, contents, opened >>

Init ==
  /\ available = Stream
  /\ lease = [w \in Worker |-> Nothing]
  /\ holder = [s \in Slot |-> Nothing]
  /\ core = Nothing
  /\ pc = [w \in Worker |-> "idle"]
  /\ block = [w \in Worker |-> Nothing]
  /\ selected = [w \in Worker |-> All]
  /\ payload = [w \in Worker |-> FALSE]
  /\ bins = [s \in Slot |-> Nothing]
  /\ resident_block = [s \in Slot |-> Nothing]
  /\ metadata_shape = [s \in Slot |-> Nothing]
  /\ offsets = [s \in Slot |-> Nothing] /\ offsets_host = [s \in Slot |-> Nothing]
  /\ feature_select = [s \in Slot |-> All] /\ selected_host = [s \in Slot |-> All]
  /\ opened = 0

SlotOf(w) == IF block[w] \in Resident THEN block[w] ELSE lease[w]
\* The offsets of a session depend on its block and on its selection.
OffsetsOf(w) == << block[w], selected[w] >>

Goto(w, l) == pc' = [pc EXCEPT ![w] = l]

----------------------------------------------------------------------------
\* A worker opens a session: a resident block without its payload, another
\* block with it.  Shapes are validated before anything is taken.
Open(w) ==
  /\ pc[w] = "idle" /\ opened < NSessions
  /\ \E b \in Block, s \in Selection \cup {All} :
       /\ block' = [block EXCEPT ![w] = b]
       /\ selected' = [selected EXCEPT ![w] = s]
       /\ payload' = [payload EXCEPT ![w] = b \notin Resident]
       /\ Goto(w, IF b \in Resident THEN "lock" ELSE "acquire")
  /\ opened' = opened + 1
  /\ UNCHANGED << available, lease, holder, core, contents >>

Refuse(w) ==
  /\ pc[w] = "idle" /\ opened < NSessions
  /\ opened' = opened + 1
  /\ UNCHANGED << available, lease, holder, core, pc, session, contents >>

\* HistSlotPool::acquire: the check and the wait are one critical section.
Acquire(w) ==
  /\ pc[w] = "acquire"
  /\ IF available # {}
     THEN \E s \in available : /\ available' = available \ {s}
                               /\ lease' = [lease EXCEPT ![w] = s]
                               /\ Goto(w, "lock")
     ELSE Goto(w, "wait") /\ UNCHANGED << available, lease >>
  /\ UNCHANGED << holder, core, session, contents, opened >>

\* Mutant: a hit is told by the metadata, which a failed upload clears.
LockSlotByShape(w) ==
  /\ pc[w] = "lock" /\ holder[SlotOf(w)] = Nothing
  /\ LET s == SlotOf(w)
         hit == block[w] \in Resident /\ metadata_shape[s] = block[w]
     IN  IF ~hit /\ ~payload[w]
         THEN payload' = [payload EXCEPT ![w] = TRUE] /\ UNCHANGED << holder, pc >>
         ELSE /\ holder' = [holder EXCEPT ![s] = w]
              /\ Goto(w, IF hit THEN "metadata" ELSE "upload")
              /\ UNCHANGED payload
  /\ UNCHANGED << available, lease, core, block, selected, contents, opened >>

\* The slot's mutex, and then what the slot holds: a hit, a miss that must come
\* back with a payload, or a block to upload.
LockSlot(w) ==
  /\ pc[w] = "lock" /\ holder[SlotOf(w)] = Nothing
  /\ LET s == SlotOf(w)
         hit == resident_block[s] = block[w]
     IN  IF ~hit /\ ~payload[w]
         THEN /\ \/ payload' = [payload EXCEPT ![w] = TRUE] /\ UNCHANGED pc
                 \/ Goto(w, "idle") /\ UNCHANGED payload     \* the source failed
              /\ UNCHANGED holder
         ELSE /\ holder' = [holder EXCEPT ![s] = w]
              /\ Goto(w, IF hit THEN "metadata" ELSE "upload")
              /\ UNCHANGED payload
  /\ UNCHANGED << available, lease, core, block, selected, contents, opened >>

\* The upload of the bins; only a complete one makes the slot resident.
UploadBlock(w) ==
  /\ pc[w] = "upload"
  /\ LET s == SlotOf(w) IN
     \/ /\ bins' = [bins EXCEPT ![s] = block[w]]
        /\ resident_block' =
             IF block[w] \in Resident THEN [resident_block EXCEPT ![s] = block[w]]
             ELSE resident_block
        /\ Goto(w, "metadata")
     \/ /\ bins' = [bins EXCEPT ![s] = Junk]
        /\ UNCHANGED resident_block
        /\ Goto(w, "unlock")
  /\ UNCHANGED << available, lease, holder, core, session, metadata, opened >>

SameShape(w) == metadata_shape[SlotOf(w)] = block[w]
UploadsOffsets(w) == ~SameShape(w) \/ offsets_host[SlotOf(w)] # OffsetsOf(w)
UploadsSelection(w) ==
  selected[w] # All /\ (~SameShape(w) \/ selected_host[SlotOf(w)] # selected[w])

\* Mutant: the shape stays valid while its data is replaced.
UploadMetadataKeepsShape(w) ==
  /\ pc[w] = "metadata"
  /\ LET s == SlotOf(w) IN
     \/ /\ offsets' = IF UploadsOffsets(w) THEN [offsets EXCEPT ![s] = OffsetsOf(w)] ELSE offsets
        /\ feature_select' = IF UploadsSelection(w)
                             THEN [feature_select EXCEPT ![s] = selected[w]] ELSE feature_select
        /\ offsets_host' = [offsets_host EXCEPT ![s] = OffsetsOf(w)]
        /\ selected_host' = [selected_host EXCEPT ![s] = selected[w]]
        /\ metadata_shape' = [metadata_shape EXCEPT ![s] = block[w]]
        /\ Goto(w, "run")
     \/ /\ UploadsOffsets(w)
        /\ offsets' = [offsets EXCEPT ![s] = Junk]
        /\ UNCHANGED << metadata_shape, feature_select, offsets_host, selected_host >>
        /\ Goto(w, "unlock")
  /\ UNCHANGED << available, lease, holder, core, session, bins, resident_block, opened >>

\* Mutant: a failed upload starts the session over.
UploadMetadataRetries(w) ==
  /\ pc[w] = "metadata"
  /\ LET s == SlotOf(w) IN
     \/ /\ offsets' = [offsets EXCEPT ![s] = OffsetsOf(w)]
        /\ metadata_shape' = [metadata_shape EXCEPT ![s] = block[w]]
        /\ Goto(w, "run")
     \/ Goto(w, "upload") /\ UNCHANGED << offsets, metadata_shape >>
  /\ UNCHANGED << available, lease, holder, core, session, bins, resident_block,
                  feature_select, offsets_host, selected_host, opened >>

\* The shape is forgotten before its data is replaced and comes back after the
\* last upload: the offsets, or the selection behind them, may fail.
UploadMetadata(w) ==
  /\ pc[w] = "metadata"
  /\ LET s == SlotOf(w) IN
     \/ /\ offsets' = IF UploadsOffsets(w) THEN [offsets EXCEPT ![s] = OffsetsOf(w)] ELSE offsets
        /\ feature_select' = IF UploadsSelection(w)
                             THEN [feature_select EXCEPT ![s] = selected[w]] ELSE feature_select
        /\ offsets_host' = [offsets_host EXCEPT ![s] = OffsetsOf(w)]
        /\ selected_host' = [selected_host EXCEPT ![s] = selected[w]]
        /\ metadata_shape' = [metadata_shape EXCEPT ![s] = block[w]]
        /\ Goto(w, "run")
     \/ /\ UploadsOffsets(w)
        /\ offsets' = [offsets EXCEPT ![s] = Junk]
        /\ metadata_shape' = [metadata_shape EXCEPT ![s] = Nothing]
        /\ UNCHANGED << feature_select, offsets_host, selected_host >>
        /\ Goto(w, "unlock")
     \/ /\ UploadsSelection(w)
        /\ offsets' = IF UploadsOffsets(w) THEN [offsets EXCEPT ![s] = OffsetsOf(w)] ELSE offsets
        /\ feature_select' = [feature_select EXCEPT ![s] = Junk]
        /\ metadata_shape' = [metadata_shape EXCEPT ![s] = Nothing]
        /\ UNCHANGED << offsets_host, selected_host >>
        /\ Goto(w, "unlock")
  /\ UNCHANGED << available, lease, holder, core, session, bins, resident_block, opened >>

\* A kernel of the session reads gradients and rows under the core mutex.
LockCore(w) ==
  /\ pc[w] = "run" /\ core = Nothing
  /\ core' = w
  /\ Goto(w, "kernel")
  /\ UNCHANGED << available, lease, holder, session, contents, opened >>

Kernel(w) ==
  /\ pc[w] = "kernel"
  /\ core' = Nothing
  /\ \E more \in BOOLEAN : Goto(w, IF more THEN "run" ELSE "unlock")
  /\ UNCHANGED << available, lease, holder, session, contents, opened >>

\* Dropping a session releases the mutex first and the lease second; so does an
\* error, whose locals are dropped in the same order.
Unlock(w) ==
  /\ pc[w] = "unlock"
  /\ holder' = [holder EXCEPT ![SlotOf(w)] = Nothing]
  /\ Goto(w, IF block[w] \in Resident THEN "idle" ELSE "release")
  /\ UNCHANGED << available, lease, core, session, contents, opened >>

\* Mutant: the slot is back in the pool while the worker still uses its number.
ReleaseFirst(w) ==
  /\ pc[w] = "release"
  /\ available' = available \cup {lease[w]}
  /\ Goto(w, "idle")
  /\ UNCHANGED << lease, holder, core, session, contents, opened >>

\* HistSlotLease::drop: push and notify_one.
Release(w) ==
  /\ pc[w] = "release"
  /\ available' = available \cup {lease[w]}
  /\ lease' = [lease EXCEPT ![w] = Nothing]
  /\ LET waiting == {v \in Worker : pc[v] = "wait"}
     IN  IF waiting = {} THEN Goto(w, "idle")
         ELSE \E v \in waiting : pc' = [pc EXCEPT ![w] = "idle", ![v] = "acquire"]
  /\ UNCHANGED << holder, core, session, contents, opened >>

\* partition_session_resident: a hit borrows the slot and then the core.
LockPartition(w) ==
  /\ pc[w] = "idle" /\ opened < NSessions
  /\ \E b \in Resident :
       /\ holder[b] = Nothing /\ resident_block[b] = b
       /\ holder' = [holder EXCEPT ![b] = w]
       /\ block' = [block EXCEPT ![w] = b]
  /\ Goto(w, "part_core")
  /\ opened' = opened + 1
  /\ UNCHANGED << available, lease, core, selected, payload, contents >>

\* A column session needs the core only.
LockColumn(w) ==
  /\ pc[w] = "idle" /\ opened < NSessions /\ core = Nothing
  /\ core' = w
  /\ Goto(w, "column")
  /\ opened' = opened + 1
  /\ UNCHANGED << available, lease, holder, session, contents >>

LockPartitionCore(w) ==
  /\ pc[w] = "part_core" /\ core = Nothing
  /\ core' = w
  /\ Goto(w, "partition")
  /\ UNCHANGED << available, lease, holder, session, contents, opened >>

DropPartition(w) ==
  /\ pc[w] \in {"partition", "column"}
  /\ core' = Nothing
  /\ holder' = IF pc[w] = "partition" THEN [holder EXCEPT ![block[w]] = Nothing] ELSE holder
  /\ Goto(w, "idle")
  /\ UNCHANGED << available, lease, session, contents, opened >>

Step(w) ==
  \/ Acquire(w) \/ LockSlot(w) \/ UploadBlock(w) \/ UploadMetadata(w)
  \/ LockCore(w) \/ Kernel(w) \/ Unlock(w) \/ Release(w)
  \/ LockPartitionCore(w) \/ DropPartition(w)

Begin(w) == Open(w) \/ Refuse(w) \/ LockPartition(w) \/ LockColumn(w)

Terminated == /\ \A w \in Worker : pc[w] = "idle"
              /\ opened = NSessions
              /\ UNCHANGED vars

Next == Terminated \/ \E w \in Worker : Begin(w) \/ Step(w)

Spec == Init /\ [][Next]_vars

\* A thread inside a session goes on: the mutexes and the condition variable are
\* fair, and a session launches finitely many kernels.
Finishes(w) == pc[w] = "kernel" /\ Kernel(w) /\ pc'[w] = "unlock"
FairSpec == /\ Spec
            /\ \A w \in Worker : SF_vars(Step(w)) /\ SF_vars(Finishes(w))

----------------------------------------------------------------------------
\* Properties

Pcs == {"idle", "acquire", "wait", "lock", "upload", "metadata", "run", "kernel",
        "unlock", "release", "part_core", "partition", "column"}

Buffers == Block \cup {Nothing, Junk}
Choices == Selection \cup {All, Junk}
Shapes == (Block \X (Selection \cup {All})) \cup {Nothing, Junk}

TypeOK ==
  /\ available \in SUBSET Stream
  /\ lease \in [Worker -> Stream \cup {Nothing}]
  /\ holder \in [Slot -> Worker \cup {Nothing}]
  /\ core \in Worker \cup {Nothing}
  /\ pc \in [Worker -> Pcs]
  /\ block \in [Worker -> Block \cup {Nothing}]
  /\ selected \in [Worker -> Selection \cup {All}]
  /\ payload \in [Worker -> BOOLEAN]
  /\ bins \in [Slot -> Buffers]
  /\ resident_block \in [Slot -> Block \cup {Nothing}]
  /\ metadata_shape \in [Slot -> Block \cup {Nothing}]
  /\ offsets \in [Slot -> Shapes] /\ offsets_host \in [Slot -> Shapes]
  /\ feature_select \in [Slot -> Choices] /\ selected_host \in [Slot -> Choices]
  /\ opened \in 0..NSessions

\* Every streaming slot is in the pool or leased to one worker, never both and
\* never lost, on every error path.
LeasesConserved ==
  /\ \A w \in Worker : lease[w] # Nothing => lease[w] \notin available
  /\ \A v, w \in Worker : v # w /\ lease[v] # Nothing => lease[v] # lease[w]
  /\ \A s \in Stream : s \in available \/ \E w \in Worker : lease[w] = s

\* Whoever runs a kernel holds the slot alone, and the device has exactly its
\* block, the offsets of its columns and, if it uses one, its selection,
\* whatever was uploaded or has failed in that slot before.
SessionSeesItsBlock ==
  \A w \in Worker : pc[w] \in {"run", "kernel"} =>
    /\ holder[SlotOf(w)] = w
    /\ bins[SlotOf(w)] = block[w]
    /\ offsets[SlotOf(w)] = OffsetsOf(w)
    /\ selected[w] # All => feature_select[SlotOf(w)] = selected[w]

\* A slot marked resident holds its block for good: no later session, not even
\* one that fails, overwrites it.
ResidentIsFinal ==
  [][\A s \in Slot : resident_block[s] # Nothing =>
       resident_block'[s] = resident_block[s] /\ bins'[s] = bins[s]]_vars

\* No session waits for ever for a slot, a mutex or a signal.
SessionsEnd == \A w \in Worker : pc[w] # "idle" ~> pc[w] = "idle"

----------------------------------------------------------------------------
(***************************************************************************)
(* Proofs, for any number of workers, slots, blocks, column selections and *)
(* sessions: no streaming slot is lost or leased twice, a session computes *)
(* on exactly its own block, offsets and selection, and a resident block   *)
(* is never overwritten, whatever uploads failed before.                   *)
(***************************************************************************)

(***************************************************************************)
(* Types and leases                                                        *)
(***************************************************************************)

\* The places of a session from the moment its slot is known.
AtSlot == {"lock", "upload", "metadata", "run", "kernel", "unlock"}

\* A worker has a lease exactly while it is on its way through a streaming slot.
Leasing(w) == pc[w] = "release" \/ (pc[w] \in AtSlot /\ block[w] \notin Resident)

LeaseInv ==
  \A w \in Worker :
    /\ pc[w] \in AtSlot => block[w] \in Block
    /\ pc[w] \in {"acquire", "wait", "release"} => block[w] \in Streaming
    /\ pc[w] \in {"part_core", "partition"} => block[w] \in Resident
    /\ Leasing(w) <=> lease[w] # Nothing
    /\ pc[w] \in {"acquire", "wait", "lock"} /\ block[w] \notin Resident => payload[w]

Inv1 == TypeOK /\ LeaseInv /\ LeasesConserved

LEMMA InitInv1 == Init => Inv1
BY SlotParams DEF Init, Inv1, TypeOK, LeaseInv, LeasesConserved, Leasing, AtSlot, Pcs,
   Buffers, Choices, Shapes, Slot

LEMMA NextInv1 == Inv1 /\ [Next]_vars => Inv1'
<1> SUFFICES ASSUME Inv1, [Next]_vars PROVE Inv1'
  OBVIOUS
<1> USE SlotParams DEF Inv1, TypeOK, Goto, Slot, Block, Pcs, contents, metadata, session
<1>1. ASSUME NEW w \in Worker, Open(w) PROVE Inv1'
  <2>1. PICK b \in Block, s \in Selection \cup {All} :
          /\ block' = [block EXCEPT ![w] = b]
          /\ selected' = [selected EXCEPT ![w] = s]
          /\ payload' = [payload EXCEPT ![w] = b \notin Resident]
          /\ pc' = [pc EXCEPT ![w] = IF b \in Resident THEN "lock" ELSE "acquire"]
    BY <1>1 DEF Open
  <2>2. /\ pc[w] = "idle" /\ opened < NSessions /\ opened' = opened + 1
        /\ UNCHANGED << available, lease, holder, core, contents >>
    BY <1>1 DEF Open
  <2>3. TypeOK'
    BY <2>1, <2>2
  <2>4. ASSUME NEW v \in Worker PROVE LeaseInv!(v)'
    <3>1. CASE v # w
      BY <2>1, <2>2, <3>1 DEF LeaseInv, Leasing, AtSlot
    <3>2. CASE v = w
      <4>1. block'[w] = b /\ (b \notin Resident => payload'[w])
        BY <2>1
      <4>2. pc'[w] = (IF b \in Resident THEN "lock" ELSE "acquire") /\ lease'[w] = Nothing
        BY <2>1, <2>2 DEF LeaseInv, Leasing, AtSlot
      <4> QED
        BY <3>2, <4>1, <4>2 DEF Leasing, AtSlot
    <3> QED
      BY <3>1, <3>2
  <2> QED
    BY <2>2, <2>3, <2>4 DEF LeaseInv, LeasesConserved
<1>2. ASSUME NEW w \in Worker, Refuse(w) PROVE Inv1'
  BY <1>2 DEF Refuse, LeaseInv, LeasesConserved, Leasing, AtSlot
<1>3. ASSUME NEW w \in Worker, Acquire(w) PROVE Inv1'
  <2>1. CASE available = {}
    BY <1>3, <2>1 DEF Acquire, LeaseInv, LeasesConserved, Leasing, AtSlot
  <2>2. CASE available # {}
    <3>1. PICK s \in available :
            /\ available' = available \ {s}
            /\ lease' = [lease EXCEPT ![w] = s]
            /\ pc' = [pc EXCEPT ![w] = "lock"]
      BY <1>3, <2>2 DEF Acquire
    <3>2. pc[w] = "acquire" /\ UNCHANGED << holder, core, session, contents, opened >>
      BY <1>3 DEF Acquire
    <3>3. s \in Stream /\ s # Nothing /\ lease[w] = Nothing
      BY <3>2 DEF LeaseInv, Leasing, AtSlot
    <3>4. TypeOK'
      BY <3>1, <3>2, <3>3
    <3>5. LeaseInv'
      <4> SUFFICES ASSUME NEW v \in Worker PROVE LeaseInv!(v)'
        BY DEF LeaseInv
      <4>1. CASE v = w
        <5>1. pc'[w] = "lock" /\ lease'[w] = s /\ block' = block /\ payload' = payload
          BY <3>1, <3>2
        <5>2. block[w] \in Streaming /\ payload[w]
          BY <3>2 DEF LeaseInv
        <5> QED
          BY <3>3, <4>1, <5>1, <5>2 DEF Leasing, AtSlot
      <4>2. CASE v # w
        BY <3>1, <3>2, <4>2 DEF LeaseInv, Leasing, AtSlot
      <4> QED
        BY <4>1, <4>2
    <3>6. LeasesConserved'
      BY <3>1, <3>2, <3>3 DEF LeasesConserved
    <3> QED
      BY <3>4, <3>5, <3>6
  <2> QED
    BY <2>1, <2>2
<1>4. ASSUME NEW w \in Worker, LockSlot(w) PROVE Inv1'
  <2>1. SlotOf(w) \in Slot /\ pc[w] = "lock"
    BY <1>4 DEF LockSlot, SlotOf, LeaseInv, Leasing, AtSlot
  <2>2. UNCHANGED << available, lease, core, block, selected, contents, opened >>
    BY <1>4 DEF LockSlot
  <2>3. CASE payload' = [payload EXCEPT ![w] = TRUE] /\ UNCHANGED << pc, holder >>
    BY <2>2, <2>3 DEF LeaseInv, LeasesConserved, Leasing
  <2>4. CASE ~payload[w] /\ pc' = [pc EXCEPT ![w] = "idle"] /\ UNCHANGED << payload, holder >>
    BY <2>1, <2>2, <2>4 DEF LeaseInv, LeasesConserved, Leasing, AtSlot
  <2>5. CASE /\ holder' = [holder EXCEPT ![SlotOf(w)] = w] /\ UNCHANGED payload
             /\ \E l \in {"metadata", "upload"} : pc' = [pc EXCEPT ![w] = l]
    BY <2>1, <2>2, <2>5 DEF LeaseInv, LeasesConserved, Leasing, AtSlot
  <2> QED
    BY <1>4, <2>3, <2>4, <2>5 DEF LockSlot
<1>5. ASSUME NEW w \in Worker, UploadBlock(w) PROVE Inv1'
  <2>1. TypeOK'
    BY <1>5 DEF UploadBlock, LeaseInv, AtSlot, Buffers
  <2>2. LeaseInv'
    BY <1>5 DEF UploadBlock, LeaseInv, Leasing, AtSlot
  <2>3. LeasesConserved'
    BY <1>5 DEF UploadBlock, LeasesConserved
  <2> QED
    BY <2>1, <2>2, <2>3
<1>6. ASSUME NEW w \in Worker, UploadMetadata(w) PROVE Inv1'
  <2>1. TypeOK'
    <3>1. block[w] \in Block /\ OffsetsOf(w) \in Shapes /\ selected[w] \in Choices
      BY <1>6 DEF UploadMetadata, LeaseInv, AtSlot, OffsetsOf, Shapes, Choices
    <3>2. Junk \in Shapes /\ Junk \in Choices
      BY DEF Shapes, Choices
    <3> QED
      BY <1>6, <3>1, <3>2 DEF UploadMetadata
  <2>2. LeaseInv'
    BY <1>6 DEF UploadMetadata, LeaseInv, Leasing, AtSlot
  <2>3. LeasesConserved'
    BY <1>6 DEF UploadMetadata, LeasesConserved
  <2> QED
    BY <2>1, <2>2, <2>3
<1>7. ASSUME NEW w \in Worker, LockCore(w) \/ Kernel(w) PROVE Inv1'
  BY <1>7 DEF LockCore, Kernel, LeaseInv, LeasesConserved, Leasing, AtSlot
<1>8. ASSUME NEW w \in Worker, Unlock(w) PROVE Inv1'
  BY <1>8 DEF Unlock, SlotOf, LeaseInv, LeasesConserved, Leasing, AtSlot
<1>9. ASSUME NEW w \in Worker, Release(w) PROVE Inv1'
  BY <1>9 DEF Release, LeaseInv, LeasesConserved, Leasing, AtSlot
<1>10. ASSUME NEW w \in Worker, LockPartition(w) PROVE Inv1'
  BY <1>10 DEF LockPartition, LeaseInv, LeasesConserved, Leasing, AtSlot
<1>11. ASSUME NEW w \in Worker, LockColumn(w) \/ LockPartitionCore(w) PROVE Inv1'
  BY <1>11 DEF LockColumn, LockPartitionCore, LeaseInv, LeasesConserved, Leasing, AtSlot
<1>12. ASSUME NEW w \in Worker, DropPartition(w) PROVE Inv1'
  BY <1>12 DEF DropPartition, LeaseInv, LeasesConserved, Leasing, AtSlot
<1>13. CASE UNCHANGED vars
  BY <1>13 DEF vars, LeaseInv, LeasesConserved, Leasing
<1> QED
  BY <1>1, <1>2, <1>3, <1>4, <1>5, <1>6, <1>7, <1>8, <1>9, <1>10, <1>11, <1>12, <1>13
  DEF Next, Begin, Step, Terminated

\* The slots, blocks and sessions of the context are well typed at all times.
THEOREM TypeCorrect == Spec => []TypeOK
BY InitInv1, NextInv1, PTL DEF Spec, Inv1

\* No slot is lost or leased twice, on any error path (HistSlotPool).
THEOREM LeasesAreConserved == Spec => []LeasesConserved
BY InitInv1, NextInv1, PTL DEF Spec, Inv1

----------------------------------------------------------------------------
(***************************************************************************)
(* Mutexes                                                                 *)
(***************************************************************************)

\* The places at which a worker holds the mutex of its slot.
Holding == {"upload", "metadata", "run", "kernel", "unlock", "part_core", "partition"}

HolderInv == \A w \in Worker : pc[w] \in Holding => holder[SlotOf(w)] = w

LEMMA SlotOfType ==
  ASSUME Inv1, NEW w \in Worker, pc[w] \in AtSlot \cup Holding
  PROVE  SlotOf(w) \in Slot
BY SlotParams DEF Inv1, TypeOK, LeaseInv, Leasing, SlotOf, AtSlot, Holding, Slot

LEMMA NextHolderInv == Inv1 /\ HolderInv /\ [Next]_vars => HolderInv'
<1> SUFFICES ASSUME Inv1, HolderInv, [Next]_vars, NEW v \in Worker, pc'[v] \in Holding
             PROVE  holder'[SlotOf(v)'] = v
  BY DEF HolderInv
<1> USE SlotParams DEF Goto, session
<1>t. /\ pc \in [Worker -> Pcs] /\ holder \in [Slot -> Worker \cup {Nothing}]
      /\ block \in [Worker -> Block \cup {Nothing}]
      /\ lease \in [Worker -> Stream \cup {Nothing}]
  BY DEF Inv1, TypeOK
<1>1. ASSUME NEW w \in Worker, Begin(w) PROVE holder'[SlotOf(v)'] = v
  <2>1. CASE v # w
    <3>1. /\ pc'[v] = pc[v] /\ block'[v] = block[v] /\ lease' = lease
          /\ holder' = holder \/ \E b \in Resident : /\ holder[b] = Nothing
                                                    /\ holder' = [holder EXCEPT ![b] = w]
      BY <1>t, <1>1, <2>1 DEF Begin, Open, Refuse, LockPartition, LockColumn
    <3>2. holder[SlotOf(v)] = v /\ SlotOf(v)' = SlotOf(v) /\ SlotOf(v) \in Slot
      BY <3>1, SlotOfType DEF HolderInv, SlotOf
    <3> QED
      BY <1>t, <3>1, <3>2 DEF Slot
  <2>2. CASE v = w
    <3>1. pc[w] = "idle" /\ LockPartition(w)
      BY <1>t, <1>1, <2>2 DEF Begin, Open, Refuse, LockPartition, LockColumn, Holding
    <3>2. PICK b \in Resident : /\ holder' = [holder EXCEPT ![b] = w]
                               /\ block' = [block EXCEPT ![w] = b]
      BY <3>1 DEF LockPartition
    <3> QED
      BY <1>t, <2>2, <3>2 DEF SlotOf, Slot
  <2> QED
    BY <2>1, <2>2
<1>2. ASSUME NEW w \in Worker, Acquire(w) \/ Release(w) PROVE holder'[SlotOf(v)'] = v
  <2>1. pc[v] \in Holding /\ v # w /\ UNCHANGED << holder, block >>
    BY <1>t, <1>2 DEF Acquire, Release, Holding
  <2>2. lease'[v] = lease[v]
    BY <1>t, <1>2, <2>1 DEF Acquire, Release
  <2> QED
    BY <2>1, <2>2 DEF HolderInv, SlotOf
<1>3. ASSUME NEW w \in Worker, LockSlot(w) PROVE holder'[SlotOf(v)'] = v
  <2>1. /\ pc[w] = "lock" /\ holder[SlotOf(w)] = Nothing /\ UNCHANGED << block, lease >>
        /\ SlotOf(v)' = SlotOf(v)
    BY <1>3 DEF LockSlot, SlotOf
  <2>2. CASE holder' = [holder EXCEPT ![SlotOf(w)] = w]
    BY <1>t, <1>3, <2>1, <2>2, SlotOfType DEF LockSlot, HolderInv, Holding, AtSlot
  <2>3. CASE holder' = holder
    BY <1>t, <1>3, <2>1, <2>3, SlotOfType DEF LockSlot, HolderInv, Holding, AtSlot
  <2> QED
    BY <1>3, <2>2, <2>3 DEF LockSlot
<1>4. ASSUME NEW w \in Worker, Unlock(w) \/ DropPartition(w) PROVE holder'[SlotOf(v)'] = v
  <2>1. v # w /\ pc[v] \in Holding /\ UNCHANGED << block, lease >>
    BY <1>t, <1>4 DEF Unlock, DropPartition, Holding
  <2>2. pc[w] \in Holding \/ pc[w] = "column"
    BY <1>4 DEF Unlock, DropPartition, Holding
  <2>3. holder' = holder \/ (pc[w] \in Holding /\ holder' = [holder EXCEPT ![SlotOf(w)] = Nothing])
    BY <1>4, <2>2 DEF Unlock, DropPartition, SlotOf, Inv1, LeaseInv, Holding
  <2> QED
    <3>1. holder[SlotOf(v)] = v /\ SlotOf(v)' = SlotOf(v) /\ SlotOf(v) \in Slot
      BY <2>1, SlotOfType DEF HolderInv, SlotOf
    <3>2. pc[w] \in Holding => holder[SlotOf(w)] = w
      BY DEF HolderInv
    <3> QED
      BY <1>t, <2>1, <2>3, <3>1, <3>2
<1>5. ASSUME NEW w \in Worker,
             UploadBlock(w) \/ UploadMetadata(w) \/ LockCore(w) \/ Kernel(w)
               \/ LockPartitionCore(w)
      PROVE holder'[SlotOf(v)'] = v
  <2>1. pc[w] \in Holding /\ UNCHANGED << block, lease, holder >>
    BY <1>5 DEF UploadBlock, UploadMetadata, LockCore, Kernel, LockPartitionCore, Holding
  <2>2. \E l : pc' = [pc EXCEPT ![w] = l]
    BY <1>5 DEF UploadBlock, UploadMetadata, LockCore, Kernel, LockPartitionCore
  <2>3. pc[v] \in Holding
    BY <1>t, <2>1, <2>2
  <2> QED
    BY <2>1, <2>3 DEF HolderInv, SlotOf
<1>6. CASE UNCHANGED vars
  BY <1>6 DEF vars, HolderInv, SlotOf
<1> QED
  BY <1>1, <1>2, <1>3, <1>4, <1>5, <1>6 DEF Next, Step, Terminated

----------------------------------------------------------------------------
(***************************************************************************)
(* What the buffers hold                                                   *)
(***************************************************************************)

\* A slot that is marked resident holds its own block.
ResidentInv ==
  \A s \in Slot : resident_block[s] # Nothing =>
    s \in Resident /\ resident_block[s] = s /\ bins[s] = s

\* While a shape is valid, the device has what the host remembers of it.
MetadataInv ==
  \A s \in Slot : metadata_shape[s] # Nothing =>
    /\ offsets[s] = offsets_host[s]
    /\ selected_host[s] # All => feature_select[s] = selected_host[s]

\* A session uploads only into a slot that is not resident, and finds its block
\* and then its metadata in the slot's buffers.
SessionInv ==
  \A w \in Worker :
    /\ pc[w] = "upload" => resident_block[SlotOf(w)] = Nothing
    /\ pc[w] \in {"metadata", "run", "kernel"} => bins[SlotOf(w)] = block[w]
    /\ pc[w] \in {"run", "kernel"} =>
         /\ offsets[SlotOf(w)] = OffsetsOf(w)
         /\ selected[w] # All => feature_select[SlotOf(w)] = selected[w]

ContentsInv == ResidentInv /\ MetadataInv /\ SessionInv

Inv == Inv1 /\ HolderInv /\ ContentsInv

LEMMA SlotsApart ==
  ASSUME Inv1, HolderInv, NEW v \in Worker, NEW w \in Worker, v # w,
         pc[v] \in Holding, pc[w] \in Holding
  PROVE  SlotOf(v) # SlotOf(w)
BY DEF HolderInv

LEMMA NextContentsInv == Inv /\ [Next]_vars => ContentsInv'
<1> SUFFICES ASSUME Inv, [Next]_vars PROVE ContentsInv'
  OBVIOUS
<1> USE SlotParams DEF Goto, session
<1>t. TypeOK
  BY DEF Inv, Inv1
<1>1. ASSUME NEW w \in Worker, LockSlot(w) PROVE ContentsInv'
  <2>1. /\ pc[w] = "lock" /\ UNCHANGED << contents, block, lease, selected >>
        /\ \A v \in Worker : v # w => pc'[v] = pc[v]
    BY <1>t, <1>1 DEF LockSlot, TypeOK
  <2>2. CASE pc'[w] \in {"lock", "idle"}
    BY <2>1, <2>2 DEF Inv, ContentsInv, ResidentInv, MetadataInv, SessionInv, contents, metadata,
       SlotOf, OffsetsOf
  <2>3. CASE pc'[w] = "metadata" /\ resident_block[SlotOf(w)] = block[w]
    <3>1. SlotOf(w) \in Slot /\ block[w] \in Block
      BY <2>1, SlotOfType DEF Inv, Inv1, LeaseInv, AtSlot
    <3>2. bins[SlotOf(w)] = block[w]
      BY <2>3, <3>1 DEF Inv, ContentsInv, ResidentInv, Block
    <3> QED
      BY <2>1, <2>3, <3>2 DEF Inv, ContentsInv, ResidentInv, MetadataInv, SessionInv, contents,
         metadata, SlotOf, OffsetsOf
  <2>4. CASE pc'[w] = "upload" /\ resident_block[SlotOf(w)] # block[w]
    <3>1. SlotOf(w) \in Slot /\ (block[w] \in Resident => SlotOf(w) = block[w])
          /\ (block[w] \notin Resident => SlotOf(w) \in Stream)
      BY <1>t, <2>1, SlotOfType DEF Inv, Inv1, LeaseInv, Leasing, AtSlot, SlotOf, TypeOK
    <3>2. resident_block[SlotOf(w)] = Nothing
      BY <2>4, <3>1 DEF Inv, ContentsInv, ResidentInv
    <3> QED
      BY <2>1, <2>4, <3>2 DEF Inv, ContentsInv, ResidentInv, MetadataInv, SessionInv, contents,
         metadata, SlotOf, OffsetsOf
  <2> QED
    BY <1>t, <1>1, <2>1, <2>2, <2>3, <2>4 DEF LockSlot, TypeOK
<1>2. ASSUME NEW w \in Worker, UploadBlock(w) PROVE ContentsInv'
  <2> DEFINE s == SlotOf(w)
  <2>1. /\ pc[w] = "upload" /\ s \in Slot /\ resident_block[s] = Nothing
        /\ UNCHANGED << block, lease, selected, metadata >>
        /\ \A v \in Worker : v # w => pc'[v] = pc[v]
        /\ block[w] \in Resident => s = block[w]
    BY <1>t, <1>2, SlotOfType DEF UploadBlock, TypeOK, Inv, ContentsInv, SessionInv, Holding, SlotOf
  <2>2. /\ \A t \in Slot : t # s => bins'[t] = bins[t] /\ resident_block'[t] = resident_block[t]
        /\ \/ bins'[s] = block[w] /\ pc'[w] = "metadata"
              /\ resident_block'[s] = IF block[w] \in Resident THEN block[w] ELSE Nothing
           \/ resident_block'[s] = Nothing /\ pc'[w] = "unlock"
    BY <1>t, <1>2, <2>1 DEF UploadBlock, TypeOK
  <2>3. ResidentInv'
    BY <2>1, <2>2 DEF Inv, ContentsInv, ResidentInv
  <2>4. MetadataInv'
    BY <2>1 DEF Inv, ContentsInv, MetadataInv, metadata
  <2>5. SessionInv'
    <3> SUFFICES ASSUME NEW v \in Worker PROVE SessionInv!(v)'
      BY DEF SessionInv
    <3>1. CASE v = w
      BY <2>1, <2>2, <3>1 DEF SlotOf
    <3>2. CASE v # w
      <4>1. pc[v] \in Holding => SlotOf(v) \in Slot /\ SlotOf(v) # s
        BY <2>1, <3>2, SlotsApart, SlotOfType DEF Inv, Holding
      <4> QED
        BY <2>1, <2>2, <3>2, <4>1 DEF Inv, ContentsInv, SessionInv, SlotOf, OffsetsOf, Holding,
           metadata
    <3> QED
      BY <3>1, <3>2
  <2> QED
    BY <2>3, <2>4, <2>5 DEF ContentsInv
<1>3. ASSUME NEW w \in Worker, UploadMetadata(w) PROVE ContentsInv'
  <2> DEFINE s == SlotOf(w)
  <2>1. /\ pc[w] = "metadata" /\ s \in Slot /\ bins[s] = block[w] /\ block[w] \in Block
        /\ UNCHANGED << block, lease, selected, bins, resident_block >>
        /\ \A v \in Worker : v # w => pc'[v] = pc[v]
    BY <1>t, <1>3, SlotOfType
    DEF UploadMetadata, TypeOK, Inv, Inv1, LeaseInv, ContentsInv, SessionInv, Holding, AtSlot
  <2>2. \A t \in Slot : t # s =>
          /\ metadata_shape'[t] = metadata_shape[t]
          /\ offsets'[t] = offsets[t] /\ offsets_host'[t] = offsets_host[t]
          /\ feature_select'[t] = feature_select[t] /\ selected_host'[t] = selected_host[t]
    BY <1>t, <1>3, <2>1 DEF UploadMetadata, TypeOK
  <2>3. \/ /\ pc'[w] = "run"
           /\ offsets'[s] = OffsetsOf(w) /\ offsets_host'[s] = OffsetsOf(w)
           /\ selected_host'[s] = selected[w]
           /\ selected[w] # All => feature_select'[s] = selected[w]
        \/ pc'[w] = "unlock" /\ metadata_shape'[s] = Nothing
    <3>1. CASE pc'[w] = "unlock"
      BY <1>t, <1>3, <2>1, <3>1 DEF UploadMetadata, TypeOK
    <3>2. CASE pc'[w] # "unlock"
      <4>1. /\ pc'[w] = "run"
            /\ offsets' =
                 IF UploadsOffsets(w) THEN [offsets EXCEPT ![s] = OffsetsOf(w)] ELSE offsets
            /\ feature_select' = IF UploadsSelection(w)
                 THEN [feature_select EXCEPT ![s] = selected[w]] ELSE feature_select
            /\ offsets_host'[s] = OffsetsOf(w) /\ selected_host'[s] = selected[w]
        BY <1>t, <1>3, <2>1, <3>2 DEF UploadMetadata, TypeOK
      <4>2. offsets'[s] = OffsetsOf(w)
        BY <1>t, <2>1, <4>1 DEF UploadsOffsets, SameShape, Inv, ContentsInv, MetadataInv, TypeOK,
           Block
      <4>3. selected[w] # All => feature_select'[s] = selected[w]
        BY <1>t, <2>1, <4>1 DEF UploadsSelection, SameShape, Inv, ContentsInv, MetadataInv,
           TypeOK, Block
      <4> QED
        BY <4>1, <4>2, <4>3
    <3> QED
      BY <3>1, <3>2
  <2>4. ResidentInv'
    BY <2>1 DEF Inv, ContentsInv, ResidentInv
  <2>5. MetadataInv'
    BY <2>2, <2>3 DEF Inv, ContentsInv, MetadataInv
  <2>6. SessionInv'
    <3> SUFFICES ASSUME NEW v \in Worker PROVE SessionInv!(v)'
      BY DEF SessionInv
    <3>1. CASE v = w
      BY <2>1, <2>3, <3>1 DEF SlotOf, OffsetsOf
    <3>2. CASE v # w
      <4>1. pc[v] \in Holding => SlotOf(v) \in Slot /\ SlotOf(v) # s
        BY <2>1, <3>2, SlotsApart, SlotOfType DEF Inv, Holding
      <4> QED
        BY <2>1, <2>2, <3>2, <4>1 DEF Inv, ContentsInv, SessionInv, SlotOf, OffsetsOf, Holding
    <3> QED
      BY <3>1, <3>2
  <2> QED
    BY <2>4, <2>5, <2>6 DEF ContentsInv
<1>4. ASSUME NEW w \in Worker, Begin(w) \/ Acquire(w) PROVE ContentsInv'
  <2>1. /\ pc[w] \in {"idle", "acquire"} /\ pc'[w] \notin {"upload", "metadata", "run", "kernel"}
        /\ UNCHANGED contents
        /\ \A v \in Worker : v # w => /\ pc'[v] = pc[v] /\ block'[v] = block[v]
                                      /\ selected'[v] = selected[v] /\ lease'[v] = lease[v]
    BY <1>t, <1>4 DEF Begin, Open, Refuse, LockPartition, LockColumn, Acquire, TypeOK
  <2> QED
    BY <2>1 DEF Inv, ContentsInv, ResidentInv, MetadataInv, SessionInv, contents, metadata, SlotOf,
       OffsetsOf
<1>5. ASSUME NEW w \in Worker, Release(w) PROVE ContentsInv'
  <2>1. /\ pc[w] = "release" /\ pc'[w] = "idle" /\ UNCHANGED << contents, block, selected >>
        /\ \A v \in Worker : v # w => lease'[v] = lease[v] /\ pc'[v] \in {pc[v], "acquire"}
    BY <1>t, <1>5 DEF Release, TypeOK
  <2> QED
    BY <2>1 DEF Inv, ContentsInv, ResidentInv, MetadataInv, SessionInv, contents, metadata, SlotOf,
       OffsetsOf
<1>6. ASSUME NEW w \in Worker,
             LockCore(w) \/ Kernel(w) \/ Unlock(w) \/ LockPartitionCore(w) \/ DropPartition(w)
      PROVE ContentsInv'
  <2>1. /\ UNCHANGED << contents, block, selected, lease >>
        /\ \A v \in Worker : v # w => pc'[v] = pc[v]
        /\ \/ pc'[w] \notin {"upload", "metadata", "run", "kernel"}
           \/ pc[w] \in {"run", "kernel"} /\ pc'[w] \in {"run", "kernel"}
    BY <1>t, <1>6 DEF LockCore, Kernel, Unlock, LockPartitionCore, DropPartition, TypeOK
  <2> QED
    BY <2>1 DEF Inv, ContentsInv, ResidentInv, MetadataInv, SessionInv, contents, metadata, SlotOf,
       OffsetsOf
<1>7. CASE UNCHANGED vars
  BY <1>7 DEF vars, Inv, ContentsInv, ResidentInv, MetadataInv, SessionInv, contents, metadata,
     SlotOf, OffsetsOf
<1> QED
  BY <1>1, <1>2, <1>3, <1>4, <1>5, <1>6, <1>7 DEF Next, Step, Terminated

LEMMA Invariance == Spec => []Inv
<1>1. Init => Inv
  BY InitInv1 DEF Init, Inv, HolderInv, Holding, ContentsInv, ResidentInv, MetadataInv, SessionInv,
     contents, metadata, session
<1>2. Inv /\ [Next]_vars => Inv'
  BY NextInv1, NextHolderInv, NextContentsInv DEF Inv
<1> QED
  BY <1>1, <1>2, PTL DEF Spec

\* Whoever runs a kernel holds the slot alone and sees its own block, offsets
\* and selection (SessionSeesItsBlock), whatever failed there before.
THEOREM SessionsSeeTheirBlock == Spec => []SessionSeesItsBlock
<1>1. Inv => SessionSeesItsBlock
  BY DEF Inv, HolderInv, Holding, ContentsInv, SessionInv, SessionSeesItsBlock
<1> QED
  BY <1>1, Invariance, PTL

\* A resident block stays what it is for good (ResidentIsFinal).
THEOREM ResidentBlocksAreFinal == Spec => ResidentIsFinal
<1>1. ASSUME Inv, [Next]_vars, NEW s \in Slot, resident_block[s] # Nothing
      PROVE  resident_block'[s] = resident_block[s] /\ bins'[s] = bins[s]
  <2>1. ASSUME NEW w \in Worker, UploadBlock(w)
        PROVE  resident_block'[s] = resident_block[s] /\ bins'[s] = bins[s]
    <3>1. SlotOf(w) # s
      BY <1>1, <2>1 DEF UploadBlock, Inv, ContentsInv, SessionInv
    <3> QED
      BY <1>1, <2>1, <3>1 DEF UploadBlock, Inv, Inv1, TypeOK
  <2>2. CASE UNCHANGED << resident_block, bins >>
    BY <2>2
  <2> QED
    BY <1>1, <2>1, <2>2
    DEF Next, Begin, Step, Terminated, vars, contents, Open, Refuse, Acquire, LockSlot,
        UploadMetadata, LockCore, Kernel, Unlock, Release, LockPartition, LockColumn,
        LockPartitionCore, DropPartition
<1>2. Inv /\ [Next]_vars =>
        [\A s \in Slot : resident_block[s] # Nothing =>
           resident_block'[s] = resident_block[s] /\ bins'[s] = bins[s]]_vars
  BY <1>1
<1> QED
  BY <1>2, Invariance, PTL DEF Spec, ResidentIsFinal
=============================================================================
