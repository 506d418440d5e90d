------------------------------ MODULE ModelFile ------------------------------
(***************************************************************************)
(* Saving and loading a model file (model_io.rs, python.rs).  A save       *)
(* writes a temporary file next to the destination, several workers each   *)
(* a range of it, and renames it over the destination; a load opens the    *)
(* destination once and several workers read ranges of it.  Saves and      *)
(* loads of several processes interleave byte by byte, any step may fail,  *)
(* and a process may be killed, to come back under the same process id.    *)
(*                                                                         *)
(* A file on disk is named by the save that created it, its inode; a byte  *)
(* is there or is not.                                                     *)
(***************************************************************************)
EXTENDS Integers, Sequences, FiniteSets

CONSTANTS
  Saver,      \* processes that save; each has a process id of its own
  Loader,     \* processes that load
  Size,       \* Size[v]: length of the v-th version saved
  Requested,  \* the requested number of workers
  IoChunk,    \* MODEL_IO_CHUNK
  MaxSerial,  \* bound on the serial numbers of temporary names
  Nothing

Version == DOMAIN Size

FileParams ==
  /\ Size \in Seq(Nat \ {0})
  /\ Requested \in Nat \ {0} /\ IoChunk \in Nat \ {0} /\ MaxSerial \in Nat
  /\ Nothing \notin Version /\ Saver \cap Loader = {}

VARIABLES
  model,      \* the file at the destination
  temps,      \* the file at each temporary name
  unremoved,  \* the temporary names whose file could not be removed
  bytes,      \* per file: the bytes written
  serial,     \* per process: NEXT_TEMP
  saver,      \* per process: its place, its file, its temporary name
  pos,        \* per process and worker: the next byte, of the save or the load
  loader,     \* per loader: its place and the file it has open
  got,        \* per loader and byte: the file it came from
  loaded,     \* per loader: the files the last result is made of
  saves       \* versions saved so far

disk == << model, temps, unremoved, bytes >>
vars == << disk, serial, saver, pos, loader, got, loaded, saves >>

Least(S) == CHOOSE x \in S : \A y \in S : x <= y

DivCeil(a, b) == (a + b - 1) \div b

\* resolved_model_io_workers: no more workers than chunks.
Workers(size) == Least({Requested, DivCeil(size, IoChunk)})

ChunkSize(size) == DivCeil(size, Workers(size))

Ranges(size) == 1..DivCeil(size, ChunkSize(size))

\* bytes.chunks(chunk_size): worker w has the bytes Base .. Limit - 1.
Base(size, w) == (w - 1) * ChunkSize(size)
Limit(size, w) == Least({size, w * ChunkSize(size)})

\* A write or a read reaches at most to the end of its part of the range.
PartEnd(size, w, at) ==
  Least({Limit(size, w), Base(size, w) + IoChunk * ((at - Base(size, w)) \div IoChunk + 1)})

Name == Saver \X (0..MaxSerial)
Start(size) == [w \in Ranges(size) |-> Base(size, w)]
Complete(size, at) == \A w \in Ranges(size) : at[w] = Limit(size, w)

Idle == [at |-> "idle", file |-> Nothing, name |-> Nothing]

Init ==
  /\ model = Nothing
  /\ temps = [n \in Name |-> Nothing]
  /\ unremoved = {}
  /\ bytes = [v \in Version |-> {}]
  /\ serial = [s \in Saver |-> 0]
  /\ saver = [s \in Saver |-> Idle]
  /\ pos = [p \in Saver \cup Loader |-> << >>]
  /\ loader = [l \in Loader |-> [at |-> "idle", file |-> Nothing]]
  /\ got = [l \in Loader |-> << >>]
  /\ loaded = [l \in Loader |-> {}]
  /\ saves = 0

----------------------------------------------------------------------------
\* atomic_write

\* create_new under the next serial; a name in use is passed over.
Create(s) ==
  /\ saver[s].at = "idle" /\ saves + 1 \in Version
  /\ serial[s] <= MaxSerial
  /\ serial' = [serial EXCEPT ![s] = @ + 1]
  /\ LET name == << s, serial[s] >> IN
     IF temps[name] = Nothing
     THEN /\ saves' = saves + 1
          /\ temps' = [temps EXCEPT ![name] = saves']
          /\ saver' = [saver EXCEPT ![s] = [at |-> "write", file |-> saves', name |-> name]]
          /\ pos' = [pos EXCEPT ![s] = Start(Size[saves'])]
     ELSE UNCHANGED << saves, temps, saver, pos >>
  /\ UNCHANGED << model, unremoved, bytes, loader, got, loaded >>

\* write_all_at: one write_at, which may be short.
Write(s, w) ==
  /\ saver[s].at = "write"
  /\ LET v == saver[s].file
         at == pos[s][w] IN
     /\ w \in Ranges(Size[v]) /\ at < Limit(Size[v], w)
     /\ \E end \in (at + 1)..PartEnd(Size[v], w, at) :
          /\ bytes' = [bytes EXCEPT ![v] = @ \cup at..(end - 1)]
          /\ pos' = [pos EXCEPT ![s][w] = end]
  /\ UNCHANGED << model, temps, unremoved, serial, saver, loader, got, loaded, saves >>

\* Every worker is joined; then permissions, sync_all and close.
Join(s) ==
  /\ saver[s].at = "write"
  /\ Complete(Size[saver[s].file], pos[s])
  /\ saver' = [saver EXCEPT ![s].at = "rename"]
  /\ UNCHANGED << disk, serial, pos, loader, got, loaded, saves >>

Rename(s) ==
  /\ saver[s].at = "rename"
  /\ model' = temps[saver[s].name]
  /\ temps' = [temps EXCEPT ![saver[s].name] = Nothing]
  /\ saver' = [saver EXCEPT ![s].at = "drop"]
  /\ UNCHANGED << unremoved, bytes, serial, pos, loader, got, loaded, saves >>

\* PendingFile is dropped at the end of every save, successful or not; that its
\* file cannot be removed is ignored.
Drop(s) ==
  /\ saver[s].at = "drop"
  /\ \/ temps' = [temps EXCEPT ![saver[s].name] = Nothing] /\ UNCHANGED unremoved
     \/ /\ temps[saver[s].name] # Nothing
        /\ unremoved' = unremoved \cup {saver[s].name} /\ UNCHANGED temps
  /\ saver' = [saver EXCEPT ![s] = Idle] /\ pos' = [pos EXCEPT ![s] = << >>]
  /\ UNCHANGED << model, bytes, serial, loader, got, loaded, saves >>

\* An error of any step; the workers have been joined by then.
FailSave(s) ==
  /\ saver[s].at \in {"write", "rename"}
  /\ saver' = [saver EXCEPT ![s].at = "drop"]
  /\ UNCHANGED << disk, serial, pos, loader, got, loaded, saves >>

\* The temporary file of a killed process stays; its successor may have the
\* same process id and starts to count from 0.
Kill(s) ==
  /\ saver[s].at # "idle"
  /\ saver' = [saver EXCEPT ![s] = Idle] /\ pos' = [pos EXCEPT ![s] = << >>]
  /\ serial' = [serial EXCEPT ![s] = 0]
  /\ UNCHANGED << disk, loader, got, loaded, saves >>

----------------------------------------------------------------------------
\* parallel_model_read

Open(l) ==
  /\ loader[l].at = "idle" /\ model # Nothing
  /\ loader' = [loader EXCEPT ![l] = [at |-> "read", file |-> model]]
  /\ got' = [got EXCEPT ![l] = [b \in 0..(Size[model] - 1) |-> Nothing]]
  /\ pos' = [pos EXCEPT ![l] = Start(Size[model])]
  /\ loaded' = [loaded EXCEPT ![l] = {}]
  /\ UNCHANGED << disk, serial, saver, saves >>

\* Mutant: every worker opens the path for itself.
SourceReopened(l) == model

\* try_clone: every worker reads the file that was opened.
Source(l) == loader[l].file

\* read_exact_at: one read_at, which may be short; behind the end it fails.
Read(l, w) ==
  /\ loader[l].at = "read"
  /\ LET size == Cardinality(DOMAIN got[l])
         at == pos[l][w] IN
     /\ w \in Ranges(size) /\ at < Limit(size, w)
     /\ \E end \in (at + 1)..PartEnd(size, w, at) :
          /\ (at..(end - 1)) \subseteq bytes[Source(l)]
          /\ got' = [got EXCEPT ![l] =
                       [b \in DOMAIN @ |-> IF b \in at..(end - 1) THEN Source(l) ELSE @[b]]]
          /\ pos' = [pos EXCEPT ![l][w] = end]
  /\ UNCHANGED << disk, serial, saver, loader, loaded, saves >>

\* The workers are joined and the bytes returned, or an error is.
EndLoad(l) ==
  /\ loader[l].at = "read"
  /\ \/ /\ Complete(Cardinality(DOMAIN got[l]), pos[l])
        /\ loaded' = [loaded EXCEPT ![l] = {got[l][b] : b \in DOMAIN got[l]}]
     \/ UNCHANGED loaded
  /\ loader' = [loader EXCEPT ![l] = [at |-> "idle", file |-> Nothing]]
  /\ got' = [got EXCEPT ![l] = << >>] /\ pos' = [pos EXCEPT ![l] = << >>]
  /\ UNCHANGED << disk, serial, saver, saves >>

----------------------------------------------------------------------------
Next ==
  \/ \E s \in Saver : \/ Create(s) \/ Join(s) \/ Rename(s) \/ Drop(s)
                      \/ FailSave(s) \/ Kill(s)
                      \/ \E w \in DOMAIN pos[s] : Write(s, w)
  \/ \E l \in Loader : \/ Open(l) \/ EndLoad(l)
                       \/ \E w \in DOMAIN pos[l] : Read(l, w)

Spec == Init /\ [][Next]_vars

----------------------------------------------------------------------------
\* The file as an AtomicFile: a load is decided when it opens the file, and a
\* result made of several files would be no version at all.
Abstract == INSTANCE AtomicFile WITH
  Versions <- Version,
  value <- model,
  loading <- [l \in Loader |-> loader[l].file],
  loaded <- [l \in Loader |->
               IF loaded[l] = {} THEN Nothing
               ELSE IF Cardinality(loaded[l]) = 1 THEN CHOOSE v \in loaded[l] : TRUE
               ELSE 0]
----------------------------------------------------------------------------
\* Properties

\* The file at the destination is complete from the moment it is there, and
\* nobody is writing to it any more: a reader can never meet half a model.
DestinationComplete ==
  model # Nothing =>
    /\ bytes[model] = 0..(Size[model] - 1)
    /\ \A s \in Saver : saver[s].at = "write" => saver[s].file # model

\* Unless a process was killed, or a file could not be removed after a save that
\* failed, no temporary file outlives its save.
NoLitter ==
  [][\A n \in Name :
       temps[n] # Nothing /\ temps'[n] # Nothing /\ saver[n[1]].at # "idle" /\ saver'[n[1]].at = "idle"
         /\ saver[n[1]].name = n => serial'[n[1]] = 0 \/ n \in unremoved']_vars

\* Saves and loads implement the atomic file.
ImplementsAtomicFile == Abstract!Spec

\* Saves and loads, with kills and errors at every step, implement a file that is
\* replaced at once: the destination is complete as soon as it is there, and only a
\* killed process, or a removal that fails, leaves a temporary file.
SavesAreAtomic == ImplementsAtomicFile /\ NoLitter /\ []DestinationComplete
=============================================================================
