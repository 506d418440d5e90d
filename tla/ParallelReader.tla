--------------------------- MODULE ParallelReader ---------------------------
(***************************************************************************)
(* ordered_parallel_batches (source/parallel_reader.rs): worker threads    *)
(* claim the files one by one, decode them and send the batches over one   *)
(* channel per file with room for one message; the consumer drains the     *)
(* channels in file order.                                                 *)
(*                                                                         *)
(* Every step of a thread between two accesses to shared state is an       *)
(* action.  A batch is the pair of its file and its position there; the    *)
(* error of opening a file travels as batch 0.                             *)
(***************************************************************************)
EXTENDS Integers, Sequences, FiniteSets

CONSTANTS
  Threads,      \* the `threads` argument
  FileLists,    \* the lists of files considered
  MayPanic      \* whether a decoder may panic

FileContents == [opens : BOOLEAN, batches : Seq({"ok", "err"})]

ASSUME ReaderParams ==
  /\ Threads \in Nat
  /\ MayPanic \in BOOLEAN
  /\ \A list \in FileLists : list \in Seq(FileContents)

VARIABLES
  files,      \* the list of files
  nextFile,   \* next_file, the counter the workers claim from
  worker,     \* per worker: its place, its file and the batch it holds
  queue,      \* per file: the messages in its channel
  current,    \* the channel the consumer drains
  out,        \* the batches delivered
  consumer    \* "reading", "finished" (None was returned) or "dropped"

vars == << files, nextFile, worker, queue, current, out, consumer >>

NFiles == Len(files)

AtLeastOne(n) == IF n < 1 THEN 1 ELSE n

\* threads.max(1).min(n_files.max(1)) threads are started.
Worker == 1..(IF AtLeastOne(Threads) <= AtLeastOne(NFiles)
              THEN AtLeastOne(Threads) ELSE AtLeastOne(NFiles))

Batch(f, k) == [kind |-> "batch", batch |-> << f, k >>]
Done == [kind |-> "done"]

Capacity == 1

Init ==
  /\ files \in FileLists
  /\ nextFile = 1
  /\ worker = [w \in Worker |-> [at |-> "claim", file |-> 0, k |-> 0]]
  /\ queue = [f \in 1..NFiles |-> << >>]
  /\ current = 1
  /\ out = << >>
  /\ consumer = "reading"

----------------------------------------------------------------------------
\* The workers

Move(w, at, k) == worker' = [worker EXCEPT ![w].at = at, ![w].k = k]

\* Mutant: claiming loads and stores the counter, and loses a racing update.
ClaimRaces(w) ==
  /\ worker[w].at = "claim"
  /\ nextFile' = IF \E v \in DOMAIN worker : v # w /\ worker[v].at = "claim"
                 THEN nextFile ELSE nextFile + 1
  /\ worker' = [worker EXCEPT ![w] =
       [at |-> IF nextFile > NFiles THEN "exit" ELSE "open",
        file |-> nextFile, k |-> 0]]
  /\ UNCHANGED << files, queue, current, out, consumer >>

\* fetch_add; a worker that finds no file left ends.
Claim(w) ==
  /\ worker[w].at = "claim"
  /\ nextFile' = nextFile + 1
  /\ worker' = [worker EXCEPT ![w] =
       [at |-> IF nextFile > NFiles THEN "exit" ELSE "open",
        file |-> nextFile, k |-> 0]]
  /\ UNCHANGED << files, queue, current, out, consumer >>

\* Mutant: a file that cannot be opened is skipped.
OpenSkips(w) ==
  /\ worker[w].at = "open"
  /\ Move(w, IF files[worker[w].file].opens THEN "decode" ELSE "claim", 0)
  /\ UNCHANGED << files, nextFile, queue, current, out, consumer >>

\* The error of opening a file is sent as a batch.
Open(w) ==
  /\ worker[w].at = "open"
  /\ Move(w, IF files[worker[w].file].opens THEN "decode" ELSE "send", 0)
  /\ UNCHANGED << files, nextFile, queue, current, out, consumer >>

\* The next batch of the file's iterator, or its end.
Decode(w) ==
  /\ worker[w].at = "decode"
  /\ IF worker[w].k < Len(files[worker[w].file].batches)
     THEN Move(w, "send", worker[w].k + 1)
     ELSE Move(w, "finish", worker[w].k)
  /\ UNCHANGED << files, nextFile, queue, current, out, consumer >>

\* Mutant: decoding goes on after an error.
LastBatchIgnoresErrors(w) == worker[w].k = 0

\* Whether the file is over after the batch the worker holds: an error is
\* the last thing read from it.
LastBatch(w) ==
  worker[w].k = 0 \/ files[worker[w].file].batches[worker[w].k] = "err"

Accepts(f) == consumer = "reading" /\ Len(queue[f]) < Capacity

\* A send blocks while the channel is full.
Send(w) ==
  /\ worker[w].at = "send"
  /\ LET f == worker[w].file
     IN  /\ Accepts(f)
         /\ queue' = [queue EXCEPT ![f] = Append(@, Batch(f, worker[w].k))]
  /\ Move(w, IF LastBatch(w) THEN "finish" ELSE "decode", worker[w].k)
  /\ UNCHANGED << files, nextFile, current, out, consumer >>

\* Mutant: a failed send is tried again.
SendFailsRetries(w) ==
  /\ worker[w].at = "send" /\ consumer # "reading"
  /\ Move(w, "send", worker[w].k)
  /\ UNCHANGED << files, nextFile, queue, current, out, consumer >>

\* A send fails once the receivers are gone, and the file is left.
SendFails(w) ==
  /\ worker[w].at = "send" /\ consumer # "reading"
  /\ Move(w, "finish", worker[w].k)
  /\ UNCHANGED << files, nextFile, queue, current, out, consumer >>

\* Mutant: the end of the file is announced only if there is room for it.
FinishTries(w) ==
  /\ worker[w].at = "finish"
  /\ LET f == worker[w].file
     IN  queue' = IF Accepts(f) THEN [queue EXCEPT ![f] = Append(@, Done)] ELSE queue
  /\ Move(w, "claim", 0)
  /\ UNCHANGED << files, nextFile, current, out, consumer >>

\* The end of the file is announced, however it came about; that the receivers
\* may be gone is ignored.
Finish(w) ==
  /\ worker[w].at = "finish"
  /\ LET f == worker[w].file
     IN  \/ Accepts(f) /\ queue' = [queue EXCEPT ![f] = Append(@, Done)]
         \/ consumer # "reading" /\ queue' = queue
  /\ Move(w, "claim", 0)
  /\ UNCHANGED << files, nextFile, current, out, consumer >>

\* A panic while opening or decoding ends the thread and nothing else.
Panic(w) ==
  /\ MayPanic
  /\ worker[w].at \in {"open", "decode"}
  /\ Move(w, "exit", 0)
  /\ UNCHANGED << files, nextFile, queue, current, out, consumer >>

----------------------------------------------------------------------------
\* The consumer

\* next() over a batch.
Receive ==
  /\ consumer = "reading" /\ current <= NFiles
  /\ queue[current] # << >> /\ Head(queue[current]).kind = "batch"
  /\ out' = Append(out, Head(queue[current]).batch)
  /\ queue' = [queue EXCEPT ![current] = Tail(@)]
  /\ UNCHANGED << files, nextFile, worker, current, consumer >>

\* The senders are shared by all the workers, so a channel is disconnected
\* only when the last worker has ended.
Disconnected(f) == queue[f] = << >> /\ \A w \in DOMAIN worker : worker[w].at = "exit"

\* next() over the end of a file.
NextFile ==
  /\ consumer = "reading" /\ current <= NFiles
  /\ \/ /\ queue[current] # << >> /\ Head(queue[current]).kind = "done"
        /\ queue' = [queue EXCEPT ![current] = Tail(@)]
     \/ /\ Disconnected(current)
        /\ queue' = queue
  /\ current' = current + 1
  /\ UNCHANGED << files, nextFile, worker, out, consumer >>

\* Dropping the receivers drops what is in their channels.
NoReceivers(how) ==
  /\ consumer' = how
  /\ queue' = [f \in DOMAIN queue |-> << >>]
  /\ UNCHANGED << files, nextFile, worker, current, out >>

\* next() returns None, and the consumer lets the iterator go.
End ==
  /\ consumer = "reading" /\ current > NFiles
  /\ NoReceivers("finished")

\* The consumer gives up early, on an error or a batch it cannot use.
Drop ==
  /\ consumer = "reading"
  /\ NoReceivers("dropped")

Terminated ==
  /\ consumer # "reading"
  /\ \A w \in DOMAIN worker : worker[w].at = "exit"
  /\ UNCHANGED vars

WorkerStep(w) ==
  Claim(w) \/ Open(w) \/ Decode(w) \/ Send(w) \/ SendFails(w) \/ Finish(w)

ConsumerStep == Receive \/ NextFile \/ End

Next ==
  \/ \E w \in DOMAIN worker : WorkerStep(w) \/ Panic(w)
  \/ ConsumerStep \/ Drop
  \/ Terminated

Spec == Init /\ [][Next]_vars

\* Threads are scheduled fairly, and the consumer keeps asking for the next
\* batch until it drops the iterator.
FairSpec ==
  /\ Spec
  /\ \A w \in 1..AtLeastOne(Threads) : WF_vars(w \in DOMAIN worker /\ WorkerStep(w))
  /\ WF_vars(ConsumerStep)

----------------------------------------------------------------------------
\* Properties

Places == {"claim", "open", "decode", "send", "finish", "exit"}

\* The type invariant of the reader.
TypeOK ==
  /\ files \in FileLists
  /\ nextFile \in 1..(NFiles + Cardinality(Worker) + 1)
  /\ DOMAIN worker = Worker
  /\ \A w \in Worker : worker[w].at \in Places
  /\ DOMAIN queue = 1..NFiles
  /\ \A f \in 1..NFiles : Len(queue[f]) <= Capacity
  /\ current \in 1..(NFiles + 1)
  /\ consumer \in {"reading", "finished", "dropped"}

Busy(w) == worker[w].at \in Places \ {"claim", "exit"}

\* The module's promise about memory: a decoded batch waits in a channel only
\* while a worker is still on that file, so that every active reader accounts
\* for at most one queued batch and the one it holds.
QueuedBatchesOwned ==
  \A f \in 1..NFiles :
    queue[f] # << >> /\ Head(queue[f]).kind = "batch" =>
      \E w \in Worker : Busy(w) /\ worker[w].file = f

\* A file is decoded by one worker: two of them never interleave their batches
\* in one channel.
OneReaderPerFile ==
  \A v, w \in Worker : Busy(v) /\ Busy(w) /\ v # w => worker[v].file # worker[w].file

\* The consumer can never wait for nothing: the file it waits for has a message
\* queued, or a worker on it, or is the next to be claimed by a worker that is
\* not waiting for the consumer.  Blocked workers on later files cannot starve
\* it, because files are claimed in the order they are drained.
ConsumerServed ==
  consumer = "reading" /\ current <= NFiles =>
    \/ queue[current] # << >>
    \/ \E w \in Worker : Busy(w) /\ worker[w].file = current
    \/ current = nextFile /\ \E w \in Worker : worker[w].at = "claim"

\* Batches arrive in file and row order and never twice, whatever the workers
\* do, a decoder that panics included.
DeliveredInOrder ==
  \A i, j \in DOMAIN out : i < j =>
    \/ out[i][1] < out[j][1]
    \/ out[i][1] = out[j][1] /\ out[i][2] < out[j][2]

Abstract == INSTANCE OrderedStream

\* The consumer sees exactly the files' batches in order, each file up to its
\* first error, and is told of the end only when nothing is missing.
ImplementsOrderedStream == Abstract!Spec

\* A consumer that keeps asking gets to the end: the reader never hangs.  And no
\* thread outlives its purpose: once the consumer has finished or given up, every
\* worker ends, also one that was blocked on a full channel.
FilesEnd == <>(consumer # "reading")
WorkersEnd == consumer # "reading" ~> \A w \in DOMAIN worker : worker[w].at = "exit"
=============================================================================
