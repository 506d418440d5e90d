------------------------ MODULE ParallelReaderProofs ------------------------
(***************************************************************************)
(* Proofs about the two parallel readers, for any files and any number of  *)
(* threads.  ParallelReader (several files): its types, that a file has    *)
(* one reader and that batches arrive in order, with and without panics;   *)
(* and, when decoders do not panic, who owns a queued batch, that the      *)
(* consumer never waits for nothing and that what it is given is the       *)
(* contents of the files, one after the other.  CsvChunks (one CSV file in *)
(* chunks): its types, and that the chunks arrive in order, whole, and are *)
(* never cut short in silence.                                             *)
(***************************************************************************)
EXTENDS ParallelReader, CsvChunks, TLAPS, FiniteSetTheorems, WellFoundedInduction

----------------------------------------------------------------------------
(***************************************************************************)
(* Types and claims                                                        *)
(***************************************************************************)

\* What a channel may hold: nothing, the end of its file, or one batch of it.
QueueOK(f) ==
  \/ queue[f] = << >>
  \/ queue[f] = << Done >>
  \/ \E k \in Nat : queue[f] = << Batch(f, k) >>

Shape ==
  /\ files \in FileLists
  /\ nextFile \in Nat \ {0}
  /\ worker \in [Worker -> [at : Places, file : Nat, k : Nat]]
  /\ DOMAIN queue = 1..NFiles
  /\ \A f \in 1..NFiles : QueueOK(f)
  /\ current \in 1..(NFiles + 1)
  /\ consumer \in {"reading", "finished", "dropped"}

\* A busy worker is on a file that has been claimed, and no other worker is.
Claimed ==
  /\ \A w \in Worker : Busy(w) =>
       worker[w].file \in 1..NFiles /\ worker[w].file < nextFile
  /\ OneReaderPerFile

Exited == {w \in Worker : worker[w].at = "exit"}

\* The counter runs past the last file once per worker that ends.
CounterBound == nextFile <= NFiles + 1 + Cardinality(Exited)

TypeInv == Shape /\ Claimed /\ CounterBound

LEMMA Singleton ==
  ASSUME NEW x
  PROVE  /\ Len(<< x >>) = 1 /\ Head(<< x >>) = x /\ Tail(<< x >>) = << >>
         /\ << x >> # << >> /\ Append(<< >>, x) = << x >>
OBVIOUS

LEMMA QueueLength ==
  ASSUME NEW f, QueueOK(f)
  PROVE  /\ Len(queue[f]) \in 0..1
         /\ queue[f] = << >> <=> Len(queue[f]) = 0
         /\ queue[f] # << >> => Tail(queue[f]) = << >>
<1>1. CASE queue[f] = << >>
  BY <1>1
<1>2. CASE \E x : queue[f] = << x >>
  BY <1>2, Singleton
<1> QED
  BY <1>1, <1>2 DEF QueueOK

LEMMA NFilesType == Shape => NFiles \in Nat /\ files \in Seq(FileContents)
BY ReaderParams DEF Shape, NFiles

LEMMA WorkersFinite ==
  ASSUME Shape
  PROVE  /\ IsFiniteSet(Worker) /\ IsFiniteSet(Exited)
         /\ Cardinality(Exited) \in Nat /\ Cardinality(Worker) \in Nat
         /\ Cardinality(Exited) <= Cardinality(Worker)
         /\ 1 \in Worker
<1>1. IsFiniteSet(Worker) /\ 1 \in Worker
  <2> DEFINE n == IF AtLeastOne(Threads) <= AtLeastOne(NFiles)
                  THEN AtLeastOne(Threads) ELSE AtLeastOne(NFiles)
  <2>1. n \in Nat /\ n >= 1
    <3>1. \A m \in Nat : AtLeastOne(m) \in Nat /\ AtLeastOne(m) >= 1
      BY DEF AtLeastOne
    <3> QED
      BY <3>1, NFilesType, ReaderParams
  <2>2. Worker = 1..n
    BY DEF Worker
  <2> HIDE DEF n
  <2> QED
    BY <2>1, <2>2, FS_Interval
<1>2. Exited \subseteq Worker
  BY DEF Exited
<1> QED
  BY <1>1, <1>2, FS_Subset, FS_CardinalityType

LEMMA TypeInvInit == Init => TypeInv
<1> SUFFICES ASSUME Init PROVE TypeInv
  OBVIOUS
<1>1. NFiles \in Nat
  BY ReaderParams DEF Init, NFiles
<1>2. Shape
  BY <1>1 DEF Init, Shape, QueueOK, Places
<1>3. Claimed
  BY DEF Init, Claimed, OneReaderPerFile, Busy
<1>4. CounterBound
  BY <1>1, <1>2, WorkersFinite DEF Init, CounterBound
<1> QED
  BY <1>2, <1>3, <1>4 DEF TypeInv

\* The worker set and the number of files never change.
LEMMA SameFiles ==
  [Next]_vars => files' = files /\ NFiles' = NFiles /\ Worker' = Worker
BY DEF Next, WorkerStep, ConsumerStep, Claim, Open, Decode, Send, SendFails, Finish,
   Panic, Receive, NextFile, End, Drop, NoReceivers, Terminated, vars, Worker, NFiles

LEMMA TypeInvClaim ==
  ASSUME TypeInv, NEW w \in Worker, Claim(w), NFiles' = NFiles, Worker' = Worker
  PROVE  TypeInv'
<1> USE DEF TypeInv
<1>1. NFiles \in Nat /\ nextFile \in Nat \ {0} /\ w \in DOMAIN worker
  BY NFilesType DEF Shape
<1>2. /\ worker[w].at = "claim" /\ nextFile' = nextFile + 1
      /\ UNCHANGED << files, queue, current, consumer >>
      /\ worker' = [worker EXCEPT ![w] =
           [at |-> IF nextFile > NFiles THEN "exit" ELSE "open",
            file |-> nextFile, k |-> 0]]
  BY DEF Claim
<1>3. Shape'
  BY <1>1, <1>2 DEF Shape, QueueOK, Places
<1>4. \A v \in Worker : v # w => worker'[v] = worker[v]
  BY <1>2 DEF Shape
<1>5. worker'[w] = [at |-> IF nextFile > NFiles THEN "exit" ELSE "open",
                    file |-> nextFile, k |-> 0]
  BY <1>1, <1>2
<1>6. Claimed'
  <2>1. \A v \in Worker : Busy(v)' => 
          worker'[v].file \in 1..NFiles /\ worker'[v].file < nextFile'
    <3> TAKE v \in Worker
    <3>1. CASE v = w
      BY <1>1, <1>2, <1>5, <3>1 DEF Busy
    <3>2. CASE v # w
      BY <1>1, <1>2, <1>4, <3>2 DEF Busy, Claimed, Shape
    <3> QED
      BY <3>1, <3>2
  <2>2. OneReaderPerFile'
    <3> SUFFICES ASSUME NEW u \in Worker, NEW v \in Worker, Busy(u)', Busy(v)', u # v
                 PROVE  worker'[u].file # worker'[v].file
      BY DEF OneReaderPerFile
    <3>1. CASE u # w /\ v # w
      BY <1>4, <3>1 DEF Busy, Claimed, OneReaderPerFile
    <3>2. CASE u = w
      BY <1>1, <1>4, <1>5, <3>2 DEF Busy, Claimed, Shape
    <3>3. CASE v = w
      BY <1>1, <1>4, <1>5, <3>3 DEF Busy, Claimed, Shape
    <3> QED
      BY <3>1, <3>2, <3>3
  <2> QED
    BY <2>1, <2>2 DEF Claimed
<1>7. CounterBound'
  <2>1. CASE nextFile > NFiles
    <3>1. Exited' = Exited \cup {w} /\ w \notin Exited
      BY <1>2, <1>4, <1>5, <2>1 DEF Exited
    <3>2. Cardinality(Exited') = Cardinality(Exited) + 1
      BY <3>1, WorkersFinite, FS_AddElement
    <3> QED
      BY <1>1, <1>2, <3>2, WorkersFinite DEF CounterBound
  <2>2. CASE ~(nextFile > NFiles)
    <3>1. Exited' = Exited
      BY <1>2, <1>4, <1>5, <2>2 DEF Exited
    <3> QED
      BY <1>1, <1>2, <2>2, <3>1, WorkersFinite DEF CounterBound
  <2> QED
    BY <2>1, <2>2
<1> QED
  BY <1>3, <1>6, <1>7

LEMMA MoveEffect ==
  ASSUME Shape, NEW w \in Worker, NEW at \in Places, NEW k \in Nat, Move(w, at, k)
  PROVE  /\ worker' \in [Worker -> [at : Places, file : Nat, k : Nat]]
         /\ worker'[w] = [at |-> at, file |-> worker[w].file, k |-> k]
         /\ \A v \in Worker : v # w => worker'[v] = worker[v]
<1>1. worker[w] \in [at : Places, file : Nat, k : Nat]
  BY DEF Shape
<1>2. worker' = [worker EXCEPT ![w] = [[worker[w] EXCEPT !.at = at] EXCEPT !.k = k]]
  BY DEF Move, Shape
<1>3. [[worker[w] EXCEPT !.at = at] EXCEPT !.k = k]
        = [at |-> at, file |-> worker[w].file, k |-> k]
  <2>1. worker[w] = [at |-> worker[w].at, file |-> worker[w].file, k |-> worker[w].k]
    BY <1>1
  <2>2. ASSUME NEW a, NEW f, NEW c
        PROVE  [[[at |-> a, file |-> f, k |-> c] EXCEPT !.at = at] EXCEPT !.k = k]
                 = [at |-> at, file |-> f, k |-> k]
    <3>1. [[at |-> a, file |-> f, k |-> c] EXCEPT !.at = at]
            = [at |-> at, file |-> f, k |-> c]
      OBVIOUS
    <3>2. [[at |-> at, file |-> f, k |-> c] EXCEPT !.k = k]
            = [at |-> at, file |-> f, k |-> k]
      OBVIOUS
    <3> QED
      BY <3>1, <3>2
  <2> QED
    BY <2>1, <2>2
<1> QED
  BY <1>1, <1>2, <1>3 DEF Shape

\* Every other worker step keeps the worker on its file or takes it off.
LEMMA TypeInvMove ==
  ASSUME TypeInv, NEW w \in Worker, NEW at \in Places, NEW k \in Nat, Move(w, at, k),
         Shape', Busy(w), NFiles' = NFiles, Worker' = Worker, nextFile' = nextFile
  PROVE  TypeInv'
<1> USE DEF TypeInv
<1>1. /\ worker'[w] = [at |-> at, file |-> worker[w].file, k |-> k]
      /\ \A v \in Worker : v # w => worker'[v] = worker[v]
  BY MoveEffect
<1>2. \A v \in Worker : worker'[v].file = worker[v].file /\ (Busy(v)' => Busy(v))
  BY <1>1 DEF Busy
<1>3. Claimed'
  BY <1>2 DEF Claimed, OneReaderPerFile
<1>4. CASE at # "exit"
  <2>1. Exited' = Exited
    BY <1>1, <1>4 DEF Exited, Busy
  <2> QED
    BY <1>3, <2>1 DEF CounterBound
<1>5. CASE at = "exit"
  <2>1. Exited' = Exited \cup {w} /\ w \notin Exited
    BY <1>1, <1>5 DEF Exited, Busy
  <2>2. Cardinality(Exited') = Cardinality(Exited) + 1
    BY <2>1, WorkersFinite, FS_AddElement
  <2>3. nextFile <= NFiles + 1 + Cardinality(Exited) /\ nextFile \in Nat
    BY DEF CounterBound, Shape
  <2>4. CounterBound'
    BY <2>2, <2>3, WorkersFinite, NFilesType DEF CounterBound
  <2> QED
    BY <1>3, <2>4
<1> QED
  BY <1>4, <1>5

LEMMA TypeInvWorker ==
  ASSUME TypeInv, NFiles' = NFiles, Worker' = Worker, NEW w \in Worker,
         Open(w) \/ Decode(w) \/ Send(w) \/ SendFails(w) \/ Finish(w) \/ Panic(w)
  PROVE  TypeInv'
<1> USE DEF TypeInv
<1>1. worker[w].k \in Nat /\ worker[w].k + 1 \in Nat /\ 0 \in Nat
  BY DEF Shape
<1>2. Busy(w)
  BY DEF Open, Decode, Send, SendFails, Finish, Panic, Busy, Places
<1>3. PICK f \in 1..NFiles : f = worker[w].file
  BY <1>2 DEF Claimed
<1>4. PICK at \in Places, k \in Nat : Move(w, at, k)
  <2>1. "decode" \in Places /\ "send" \in Places /\ "finish" \in Places
        /\ "claim" \in Places /\ "exit" \in Places
    BY DEF Places
  <2> QED
    BY <1>1, <2>1 DEF Open, Decode, Send, SendFails, Finish, Panic
<1>5. /\ UNCHANGED << files, nextFile, current, consumer >>
      /\ DOMAIN queue' = 1..NFiles
      /\ \A g \in 1..NFiles : g # f => queue'[g] = queue[g]
  BY <1>3 DEF Open, Decode, Send, SendFails, Finish, Panic, Shape
<1>6. QueueOK(f)'
  <2>1. CASE queue' = queue
    BY <2>1 DEF Shape, QueueOK
  <2>2. CASE queue' # queue
    <3>1. /\ Accepts(f)
          /\ \/ queue'[f] = Append(queue[f], Batch(f, worker[w].k))
             \/ queue'[f] = Append(queue[f], Done)
      BY <1>3, <2>2 DEF Open, Decode, Send, SendFails, Finish, Panic, Shape
    <3>2. queue[f] = << >>
      <4>1. QueueOK(f)
        BY DEF Shape
      <4> QED
        BY <3>1, <4>1, QueueLength DEF Accepts, Capacity
    <3>3. queue'[f] = << Batch(f, worker[w].k) >> \/ queue'[f] = << Done >>
      BY <3>1, <3>2
    <3> QED
      BY <1>1, <3>3 DEF QueueOK
  <2> QED
    BY <2>1, <2>2
<1>7. \A g \in 1..NFiles : QueueOK(g)'
  BY <1>5, <1>6 DEF Shape, QueueOK
<1>8. Shape'
  BY <1>4, <1>5, <1>7, MoveEffect DEF Shape
<1> QED
  BY <1>2, <1>4, <1>5, <1>8, TypeInvMove

LEMMA TypeInvConsumer ==
  ASSUME TypeInv, NFiles' = NFiles, Worker' = Worker,
         Receive \/ NextFile \/ End \/ Drop \/ Terminated \/ UNCHANGED vars
  PROVE  TypeInv'
<1> USE DEF TypeInv
<1>1. UNCHANGED << files, nextFile, worker >>
  BY DEF Receive, NextFile, End, Drop, NoReceivers, Terminated, vars
<1>2. Claimed' /\ CounterBound'
  BY <1>1 DEF Claimed, OneReaderPerFile, CounterBound, Exited, Busy
<1>3. /\ DOMAIN queue' = 1..NFiles
      /\ \A f \in 1..NFiles : queue'[f] = queue[f] \/ queue'[f] = << >>
  <2>1. CASE UNCHANGED queue
    BY <2>1 DEF Shape
  <2>2. CASE End \/ Drop
    BY <2>2 DEF End, Drop, NoReceivers, Shape
  <2>3. CASE queue' = [queue EXCEPT ![current] = Tail(@)] /\ current \in 1..NFiles
             /\ queue[current] # << >>
    <3>1. Tail(queue[current]) = << >>
      BY <2>3, QueueLength DEF Shape
    <3> QED
      BY <2>3, <3>1 DEF Shape
  <2> QED
    BY <2>1, <2>2, <2>3, NFilesType DEF Receive, NextFile, Terminated, vars, Shape
<1>4. \A f \in 1..NFiles : QueueOK(f)'
  BY <1>3 DEF Shape, QueueOK
<1>5. current' \in 1..(NFiles + 1) /\ consumer' \in {"reading", "finished", "dropped"}
  BY NFilesType DEF Receive, NextFile, End, Drop, NoReceivers, Terminated, vars, Shape
<1> QED
  BY <1>1, <1>2, <1>3, <1>4, <1>5 DEF Shape

LEMMA TypeInvNext == TypeInv /\ [Next]_vars => TypeInv'
<1> SUFFICES ASSUME TypeInv, [Next]_vars PROVE TypeInv'
  OBVIOUS
<1>1. NFiles' = NFiles /\ Worker' = Worker
  BY SameFiles
<1>2. DOMAIN worker = Worker
  BY DEF TypeInv, Shape
<1> QED
  BY <1>1, <1>2, TypeInvClaim, TypeInvWorker, TypeInvConsumer
     DEF Next, WorkerStep, ConsumerStep

LEMMA SpecTypeInv == Spec => []TypeInv
BY TypeInvInit, TypeInvNext, PTL DEF Spec

\* The reader's state is well typed: the counter passes the number of files at
\* most once per worker, and no channel holds more than one message.
THEOREM TypeCorrect == Spec => []TypeOK
<1>1. TypeInv => TypeOK
  <2> SUFFICES ASSUME TypeInv PROVE TypeOK
    OBVIOUS
  <2>1. nextFile \in 1..(NFiles + Cardinality(Worker) + 1)
    BY WorkersFinite, NFilesType DEF TypeInv, Shape, CounterBound
  <2>2. \A f \in 1..NFiles : Len(queue[f]) <= Capacity
    BY QueueLength DEF TypeInv, Shape, Capacity
  <2> QED
    BY <2>1, <2>2 DEF TypeInv, Shape, TypeOK
<1> QED
  BY <1>1, SpecTypeInv, PTL

\* No two workers decode the same file, panics or not.
THEOREM OneWorkerPerFile == Spec => []OneReaderPerFile
<1>1. TypeInv => OneReaderPerFile
  BY DEF TypeInv, Claimed
<1> QED
  BY <1>1, SpecTypeInv, PTL

----------------------------------------------------------------------------
(***************************************************************************)
(* Without panics: nothing is left without an owner                        *)
(***************************************************************************)

OnFile(f) == \E w \in Worker : Busy(w) /\ worker[w].file = f

\* A channel holds a batch only while its file is worked on, and the end of the
\* file only when it no longer is; unclaimed files have sent nothing.
ChannelInv ==
  \A f \in 1..NFiles :
    /\ queue[f] # << >> /\ queue[f] # << Done >> => OnFile(f)
    /\ queue[f] = << Done >> => ~OnFile(f)
    /\ queue[f] # << >> => f < nextFile

\* From the consumer's file on, every claimed file is worked on or has sent
\* something; none before it is worked on any more.
AheadInv ==
  IF consumer = "reading"
  THEN /\ current <= nextFile
       /\ \A w \in Worker : Busy(w) => worker[w].file >= current
       /\ \A f \in 1..NFiles :
            current <= f /\ f < nextFile => queue[f] # << >> \/ OnFile(f)
  ELSE \A f \in 1..NFiles : queue[f] = << >>

\* Workers end only when every file has been claimed.
ExitInv == \A w \in Worker : worker[w].at = "exit" => nextFile > NFiles

ServedInv == ChannelInv /\ AheadInv /\ ExitInv

LEMMA ServedInvInit == Init => ServedInv
<1> SUFFICES ASSUME Init PROVE ServedInv
  OBVIOUS
<1>1. NFiles \in Nat
  BY ReaderParams DEF Init, NFiles
<1>2. \A w \in Worker : ~Busy(w) /\ worker[w].at # "exit"
  BY DEF Init, Busy
<1>3. \A f \in 1..NFiles : queue[f] = << >>
  BY DEF Init
<1>4. << >> # << Done >>
  BY Singleton
<1> QED
  BY <1>1, <1>2, <1>3, <1>4
     DEF Init, ServedInv, ChannelInv, AheadInv, ExitInv, OnFile

LEMMA ServedInvClaim ==
  ASSUME TypeInv, ServedInv, NEW w \in Worker, Claim(w), NFiles' = NFiles,
         Worker' = Worker
  PROVE  ServedInv'
<1> USE DEF TypeInv, ServedInv
<1>1. NFiles \in Nat /\ nextFile \in Nat \ {0} /\ current \in 1..(NFiles + 1)
  BY NFilesType DEF Shape
<1>2. /\ worker[w].at = "claim" /\ nextFile' = nextFile + 1
      /\ UNCHANGED << queue, current, consumer >>
      /\ worker'[w] = [at |-> IF nextFile > NFiles THEN "exit" ELSE "open",
                       file |-> nextFile, k |-> 0]
      /\ \A v \in Worker : v # w => worker'[v] = worker[v]
  BY DEF Claim, Shape
<1>3. \A v \in Worker : v # w => (Busy(v)' <=> Busy(v))
  BY <1>2 DEF Busy
<1>4. ~Busy(w) /\ (Busy(w)' <=> nextFile <= NFiles)
  BY <1>1, <1>2 DEF Busy, Places
<1>5. \A f \in 1..NFiles : OnFile(f) => OnFile(f)'
  BY <1>2, <1>3, <1>4 DEF OnFile
<1>6. \A f \in 1..NFiles : OnFile(f)' => OnFile(f) \/ f = nextFile
  BY <1>2, <1>3, <1>4 DEF OnFile
<1>7. \A f \in 1..NFiles : f = nextFile => OnFile(f)'
  BY <1>1, <1>2, <1>4 DEF OnFile
<1>8. ChannelInv'
  BY <1>1, <1>2, <1>5, <1>6 DEF ChannelInv
<1>9. AheadInv'
  <2>1. CASE consumer = "reading"
    <3>1. current' <= nextFile'
      BY <1>1, <1>2, <2>1 DEF AheadInv
    <3>2. \A v \in Worker : Busy(v)' => worker'[v].file >= current'
      BY <1>1, <1>2, <1>3, <1>4, <2>1 DEF AheadInv
    <3>3. \A f \in 1..NFiles :
            current' <= f /\ f < nextFile' => queue'[f] # << >> \/ OnFile(f)'
      BY <1>1, <1>2, <1>5, <1>7, <2>1 DEF AheadInv
    <3> QED
      BY <1>2, <2>1, <3>1, <3>2, <3>3 DEF AheadInv
  <2>2. CASE consumer # "reading"
    BY <1>2, <2>2 DEF AheadInv
  <2> QED
    BY <2>1, <2>2
<1>10. ExitInv'
  BY <1>1, <1>2 DEF ExitInv
<1> QED
  BY <1>8, <1>9, <1>10

\* A step after which the worker is still on its file.
LEMMA StaysBusy ==
  ASSUME Shape, NEW w \in Worker, NEW at \in {"decode", "send", "finish"},
         NEW k \in Nat, Move(w, at, k), Busy(w), Worker' = Worker
  PROVE  /\ \A v \in Worker : /\ Busy(v)' <=> Busy(v)
                              /\ worker'[v].file = worker[v].file
                              /\ worker'[v].at = "exit" <=> worker[v].at = "exit"
         /\ \A f : OnFile(f)' <=> OnFile(f)
<1>1. at \in Places
  BY DEF Places
<1>2. \A v \in Worker : /\ Busy(v)' <=> Busy(v)
                        /\ worker'[v].file = worker[v].file
                        /\ worker'[v].at = "exit" <=> worker[v].at = "exit"
  <2>1. /\ worker'[w] = [at |-> at, file |-> worker[w].file, k |-> k]
        /\ \A v \in Worker : v # w => worker'[v] = worker[v]
    BY <1>1, MoveEffect
  <2> QED
    BY <2>1 DEF Busy, Places
<1> QED
  BY <1>2 DEF OnFile

LEMMA ServedInvQuietWorker ==
  ASSUME TypeInv, ServedInv, NEW w \in Worker, Open(w) \/ Decode(w) \/ SendFails(w),
         NFiles' = NFiles, Worker' = Worker
  PROVE  ServedInv'
<1> USE DEF TypeInv, ServedInv
<1>1. UNCHANGED << queue, current, consumer, nextFile >> /\ Busy(w)
  BY DEF Open, Decode, SendFails, Busy, Places
<1>2. PICK at \in {"decode", "send", "finish"}, k \in Nat : Move(w, at, k)
  BY DEF Open, Decode, SendFails, Shape
<1>3. /\ \A v \in Worker : /\ Busy(v)' <=> Busy(v)
                           /\ worker'[v].file = worker[v].file
                           /\ worker'[v].at = "exit" <=> worker[v].at = "exit"
      /\ \A f : OnFile(f)' <=> OnFile(f)
  BY <1>1, <1>2, StaysBusy
<1> QED
  BY <1>1, <1>3 DEF ChannelInv, AheadInv, ExitInv

LEMMA ServedInvSend ==
  ASSUME TypeInv, ServedInv, NEW w \in Worker, Send(w), NFiles' = NFiles,
         Worker' = Worker
  PROVE  ServedInv'
<1> USE DEF TypeInv, ServedInv
<1>1. /\ UNCHANGED << current, consumer, nextFile >> /\ Busy(w)
      /\ consumer = "reading"
  BY DEF Send, Accepts, Busy, Places
<1>2. PICK f \in 1..NFiles : f = worker[w].file /\ f < nextFile
  BY <1>1 DEF Claimed
<1>3. PICK at \in {"decode", "send", "finish"}, k \in Nat : Move(w, at, k)
  BY DEF Send, Shape
<1>4. /\ \A v \in Worker : /\ Busy(v)' <=> Busy(v)
                           /\ worker'[v].file = worker[v].file
                           /\ worker'[v].at = "exit" <=> worker[v].at = "exit"
      /\ \A g : OnFile(g)' <=> OnFile(g)
  BY <1>1, <1>3, StaysBusy
<1>5. OnFile(f)
  BY <1>1, <1>2 DEF OnFile
<1>6. \A g \in 1..NFiles : g # f => queue'[g] = queue[g]
  BY <1>2 DEF Send, Shape
<1>7. queue'[f] # << >> /\ queue'[f] # << Done >>
  <2>1. queue'[f] = Append(queue[f], Batch(f, worker[w].k)) /\ Accepts(f)
    BY <1>2 DEF Send, Shape
  <2>2. queue[f] = << >>
    BY <2>1, QueueLength DEF Shape, Accepts, Capacity
  <2>3. queue'[f] = << Batch(f, worker[w].k) >>
    BY <2>1, <2>2
  <2>4. Batch(f, worker[w].k) # Done
    <3>1. Batch(f, worker[w].k).kind = "batch" /\ Done.kind = "done"
      BY DEF Batch, Done
    <3> QED
      BY <3>1
  <2>5. Head(queue'[f]) # Done
    BY <2>3, <2>4, Singleton
  <2> QED
    BY <2>3, <2>5, Singleton
<1>8. ChannelInv'
  BY <1>1, <1>2, <1>4, <1>5, <1>6, <1>7 DEF ChannelInv
<1>9. AheadInv' /\ ExitInv'
  BY <1>1, <1>4, <1>6, <1>7 DEF AheadInv, ExitInv
<1> QED
  BY <1>8, <1>9

LEMMA ServedInvFinish ==
  ASSUME TypeInv, ServedInv, NEW w \in Worker, Finish(w), NFiles' = NFiles,
         Worker' = Worker
  PROVE  ServedInv'
<1> USE DEF TypeInv, ServedInv
<1>1. /\ UNCHANGED << current, consumer, nextFile >> /\ Busy(w)
      /\ Move(w, "claim", 0)
  BY DEF Finish, Busy, Places
<1>2. PICK f \in 1..NFiles : f = worker[w].file /\ f < nextFile
  BY <1>1 DEF Claimed
<1>3. /\ worker'[w].at = "claim"
      /\ \A v \in Worker : v # w => worker'[v] = worker[v]
  <2>1. "claim" \in Places /\ 0 \in Nat
    BY DEF Places
  <2>2. /\ worker'[w] = [at |-> "claim", file |-> worker[w].file, k |-> 0]
        /\ \A v \in Worker : v # w => worker'[v] = worker[v]
    BY <1>1, <2>1, MoveEffect
  <2> QED
    BY <2>2
<1>4. \A v \in Worker : /\ Busy(v)' => Busy(v) /\ v # w
                        /\ Busy(v) /\ v # w => Busy(v)'
                        /\ Busy(v)' => worker'[v].file = worker[v].file
  BY <1>3 DEF Busy
<1>5. ~OnFile(f)'
  BY <1>1, <1>2, <1>4 DEF OnFile, Claimed, OneReaderPerFile
<1>6. \A g \in 1..NFiles : g # f => (OnFile(g)' <=> OnFile(g))
  BY <1>2, <1>3, <1>4 DEF OnFile
<1>7. ExitInv'
  BY <1>1, <1>3 DEF ExitInv
<1>8. CASE consumer # "reading"
  <2>1. queue' = queue
    BY <1>8 DEF Finish, Accepts
  <2>2. \A g \in 1..NFiles : queue[g] = << >>
    BY <1>8 DEF AheadInv
  <2>3. << >> # << Done >>
    BY Singleton
  <2> QED
    BY <1>1, <1>7, <1>8, <2>1, <2>2, <2>3 DEF ChannelInv, AheadInv
<1>9. CASE consumer = "reading"
  <2>1. /\ Accepts(f) /\ queue'[f] = Append(queue[f], Done)
        /\ \A g \in 1..NFiles : g # f => queue'[g] = queue[g]
    BY <1>2, <1>9 DEF Finish, Shape
  <2>2. queue[f] = << >>
    BY <2>1, QueueLength DEF Shape, Accepts, Capacity
  <2>3. queue'[f] = << Done >> /\ queue'[f] # << >>
    BY <2>1, <2>2, Singleton
  <2>4. ChannelInv'
    BY <1>1, <1>2, <1>5, <1>6, <2>1, <2>3 DEF ChannelInv
  <2>5. AheadInv'
    BY <1>1, <1>4, <1>6, <1>9, <2>1, <2>3 DEF AheadInv
  <2> QED
    BY <1>7, <2>4, <2>5
<1> QED
  BY <1>8, <1>9

LEMMA ServedInvReceive ==
  ASSUME TypeInv, ServedInv, Receive, NFiles' = NFiles, Worker' = Worker
  PROVE  ServedInv'
<1> USE DEF TypeInv, ServedInv
<1>1. /\ UNCHANGED << worker, current, consumer, nextFile >>
      /\ current \in 1..NFiles /\ consumer = "reading"
      /\ queue[current] # << >> /\ Head(queue[current]).kind = "batch"
      /\ queue' = [queue EXCEPT ![current] = Tail(@)]
  BY NFilesType DEF Receive, Shape
<1>2. queue[current] # << Done >>
  <2>1. Head(<< Done >>).kind = "done"
    BY Singleton DEF Done
  <2> QED
    BY <1>1, <2>1
<1>3. OnFile(current)
  BY <1>1, <1>2 DEF ChannelInv
<1>4. /\ queue'[current] = << >>
      /\ \A g \in 1..NFiles : g # current => queue'[g] = queue[g]
  BY <1>1, QueueLength DEF Shape
<1>5. \A g : OnFile(g)' <=> OnFile(g)
  BY <1>1 DEF OnFile, Busy
<1>6. << >> # << Done >>
  BY Singleton
<1>7. ChannelInv'
  BY <1>1, <1>4, <1>5, <1>6 DEF ChannelInv
<1>8. AheadInv' /\ ExitInv'
  BY <1>1, <1>3, <1>4, <1>5 DEF AheadInv, ExitInv, Busy
<1> QED
  BY <1>7, <1>8

\* The consumer leaves a file only when no worker is on it.
LEMMA FileIsOver ==
  ASSUME TypeInv, ServedInv, NextFile
  PROVE  /\ \A g \in 1..NFiles : g # current => queue'[g] = queue[g]
         /\ queue[current] \in {<< >>, << Done >>} /\ queue'[current] = << >>
         /\ current < nextFile /\ ~OnFile(current)
<1> USE DEF TypeInv, ServedInv
<1>1. current \in 1..NFiles /\ NFiles \in Nat /\ nextFile \in Nat
  BY NFilesType DEF NextFile, Shape
<1>2. CASE /\ queue[current] # << >> /\ Head(queue[current]).kind = "done"
           /\ queue' = [queue EXCEPT ![current] = Tail(@)]
  <2>1. queue[current] = << Done >>
    <3>1. \A f, k : Head(<< Batch(f, k) >>).kind = "batch"
      BY Singleton DEF Batch
    <3>2. QueueOK(current)
      BY <1>1 DEF Shape
    <3> QED
      BY <1>2, <3>1, <3>2 DEF QueueOK
  <2>2. Tail(queue[current]) = << >>
    BY <2>1, Singleton
  <2> QED
    BY <1>1, <1>2, <2>1, <2>2 DEF ChannelInv, Shape
<1>3. CASE Disconnected(current) /\ queue' = queue
  <2>1. \A w \in Worker : worker[w].at = "exit"
    BY <1>3 DEF Disconnected, Shape
  <2>2. nextFile > NFiles /\ ~OnFile(current)
    BY <2>1, WorkersFinite DEF ExitInv, OnFile, Busy
  <2> QED
    BY <1>1, <1>3, <2>2 DEF Disconnected
<1> QED
  BY <1>2, <1>3 DEF NextFile

LEMMA ServedInvNextFile ==
  ASSUME TypeInv, ServedInv, NextFile, NFiles' = NFiles, Worker' = Worker
  PROVE  ServedInv'
<1> USE DEF TypeInv, ServedInv
<1>1. /\ UNCHANGED << worker, consumer, nextFile >> /\ current' = current + 1
      /\ current \in 1..NFiles /\ consumer = "reading"
      /\ NFiles \in Nat /\ nextFile \in Nat
  BY NFilesType DEF NextFile, Shape
<1>2. \A g : OnFile(g)' <=> OnFile(g)
  BY <1>1 DEF OnFile, Busy
<1>3. << >> # << Done >>
  BY Singleton
<1>4. /\ \A g \in 1..NFiles : g # current => queue'[g] = queue[g]
      /\ queue'[current] = << >> /\ current < nextFile /\ ~OnFile(current)
  BY FileIsOver
<1>5. ChannelInv'
  BY <1>1, <1>2, <1>3, <1>4 DEF ChannelInv
<1>6. \A w \in Worker : Busy(w) => worker[w].file >= current + 1
  <2> SUFFICES ASSUME NEW w \in Worker, Busy(w) PROVE worker[w].file >= current + 1
    OBVIOUS
  <2>1. worker[w].file >= current /\ worker[w].file # current
    BY <1>1, <1>4 DEF AheadInv, OnFile
  <2>2. worker[w].file \in Nat
    BY DEF Shape
  <2> QED
    BY <1>1, <2>1, <2>2
<1>7. \A f \in 1..NFiles : current + 1 <= f /\ f < nextFile => queue'[f] # << >> \/ OnFile(f)'
  BY <1>1, <1>2, <1>4 DEF AheadInv
<1>8. AheadInv' /\ ExitInv'
  BY <1>1, <1>4, <1>6, <1>7 DEF AheadInv, ExitInv, Busy
<1> QED
  BY <1>5, <1>8

LEMMA ServedInvOther ==
  ASSUME TypeInv, ServedInv, End \/ Drop \/ Terminated \/ UNCHANGED vars,
         NFiles' = NFiles, Worker' = Worker
  PROVE  ServedInv'
<1> USE DEF TypeInv, ServedInv
<1>1. UNCHANGED << worker, nextFile >>
  BY DEF End, Drop, NoReceivers, Terminated, vars
<1>2. \A g : OnFile(g)' <=> OnFile(g)
  BY <1>1 DEF OnFile, Busy
<1>3. CASE End \/ Drop
  <2>1. consumer' # "reading" /\ \A f \in 1..NFiles : queue'[f] = << >>
    BY <1>3 DEF End, Drop, NoReceivers, Shape
  <2>2. << >> # << Done >>
    BY Singleton
  <2> QED
    BY <1>1, <2>1, <2>2 DEF ChannelInv, AheadInv, ExitInv
<1>4. CASE Terminated \/ UNCHANGED vars
  BY <1>1, <1>2, <1>4 DEF Terminated, vars, ChannelInv, AheadInv, ExitInv, Busy
<1> QED
  BY <1>3, <1>4

LEMMA ServedInvNext ==
  ASSUME ~MayPanic
  PROVE  TypeInv /\ ServedInv /\ [Next]_vars => ServedInv'
<1> SUFFICES ASSUME TypeInv, ServedInv, [Next]_vars PROVE ServedInv'
  OBVIOUS
<1>1. NFiles' = NFiles /\ Worker' = Worker
  BY SameFiles
<1>2. DOMAIN worker = Worker
  BY DEF TypeInv, Shape
<1>3. \A w : ~Panic(w)
  BY DEF Panic
<1> QED
  BY <1>1, <1>2, <1>3, ServedInvClaim, ServedInvQuietWorker, ServedInvSend,
     ServedInvFinish, ServedInvReceive, ServedInvNextFile, ServedInvOther
     DEF Next, WorkerStep, ConsumerStep

LEMMA SpecServedInv ==
  ASSUME ~MayPanic
  PROVE  Spec => [](TypeInv /\ ServedInv)
BY TypeInvInit, TypeInvNext, ServedInvInit, ServedInvNext, PTL DEF Spec

\* The memory bound: a decoded batch waits in a channel only while a worker is
\* still on its file.
THEOREM QueuedBatchesHaveOwner ==
  ASSUME ~MayPanic
  PROVE  Spec => []QueuedBatchesOwned
<1>1. ServedInv => QueuedBatchesOwned
  <2> SUFFICES ASSUME ServedInv, NEW f \in 1..NFiles, queue[f] # << >>,
                      Head(queue[f]).kind = "batch"
               PROVE  OnFile(f)
    BY DEF QueuedBatchesOwned, OnFile
  <2>1. Head(<< Done >>).kind = "done"
    BY Singleton DEF Done
  <2> QED
    BY <2>1 DEF ServedInv, ChannelInv
<1> QED
  BY <1>1, SpecServedInv, PTL

\* The consumer never waits for a file that nobody will deliver: workers that
\* are blocked on later files cannot starve it.
THEOREM ConsumerIsServed ==
  ASSUME ~MayPanic
  PROVE  Spec => []ConsumerServed
<1>1. TypeInv /\ ServedInv => ConsumerServed
  <2> SUFFICES ASSUME TypeInv, ServedInv, consumer = "reading", current <= NFiles,
                      queue[current] = << >>, ~OnFile(current)
               PROVE  current = nextFile /\ \E w \in Worker : worker[w].at = "claim"
    BY DEF ConsumerServed, OnFile
  <2>1. /\ current \in 1..NFiles /\ current <= nextFile
        /\ NFiles \in Nat /\ nextFile \in Nat
    BY NFilesType DEF TypeInv, Shape, ServedInv, AheadInv
  <2>2. current = nextFile
    BY <2>1 DEF ServedInv, AheadInv
  <2>3. 1 \in Worker /\ worker[1] \in [at : Places, file : Nat, k : Nat]
    BY WorkersFinite DEF TypeInv, Shape
  <2>4. worker[1].at # "exit"
    BY <2>1, <2>2, <2>3 DEF ServedInv, ExitInv
  <2>5. ~Busy(1)
    BY <2>1, <2>2, <2>3 DEF ServedInv, AheadInv, TypeInv, Claimed
  <2>6. worker[1].at = "claim"
    BY <2>3, <2>4, <2>5 DEF Busy
  <2> QED
    BY <2>2, <2>3, <2>6
<1> QED
  BY <1>1, SpecServedInv, PTL
----------------------------------------------------------------------------
(***************************************************************************)
(* The order of what is delivered, panics or not                           *)
(***************************************************************************)

\* What was delivered of file f lies before its batch k, and so does what waits in its
\* channel.
Below(f, k) == \A i \in DOMAIN out : out[i][1] = f => out[i][2] < k
Queued(f, k) == \A j \in Nat : queue[f] = << Batch(f, j) >> => j < k
Fresh(f, k) == Below(f, k) /\ Queued(f, k)

\* The next batch a worker will send, if it gets to it.
Due(w) ==
  IF worker[w].at = "open" THEN 0
  ELSE IF worker[w].at = "decode" THEN worker[w].k + 1 ELSE worker[w].k

Sending == {"open", "decode", "send"}

ChannelOrder ==
  \A f \in 1..NFiles : \A k \in Nat : queue[f] = << Batch(f, k) >> => Below(f, k)
WorkerOrder ==
  \A w \in Worker : worker[w].at \in Sending => Fresh(worker[w].file, Due(w))
Untouched == \A f \in 1..NFiles : f >= nextFile => Fresh(f, 0)

OrderInv ==
  /\ out \in Seq(Nat \X Nat)
  /\ DeliveredInOrder
  /\ \A i \in DOMAIN out : out[i][1] <= current
  /\ ChannelOrder /\ WorkerOrder /\ Untouched

\* What is before a batch is before all later ones.
LEMMA FreshGrows ==
  ASSUME OrderInv, NEW f \in Nat, NEW j \in Nat, NEW k \in Nat, j <= k, Fresh(f, j)
  PROVE  Fresh(f, k)
<1>1. \A i \in DOMAIN out : out[i][2] \in Nat
  BY DEF OrderInv
<1> QED
  BY <1>1 DEF Fresh, Below, Queued

LEMMA PairAppended ==
  ASSUME NEW s \in Seq(Nat \X Nat), NEW f \in Nat, NEW k \in Nat
  PROVE  /\ Append(s, << f, k >>) \in Seq(Nat \X Nat)
         /\ Len(s) \in Nat /\ DOMAIN s = 1..Len(s)
         /\ DOMAIN Append(s, << f, k >>) = 1..(Len(s) + 1)
         /\ Append(s, << f, k >>)[Len(s) + 1][1] = f
         /\ Append(s, << f, k >>)[Len(s) + 1][2] = k
         /\ \A i \in 1..Len(s) : /\ s[i][1] \in Nat /\ s[i][2] \in Nat
                                 /\ Append(s, << f, k >>)[i] = s[i]
<1>1. << f, k >> \in Nat \X Nat /\ << f, k >>[1] = f /\ << f, k >>[2] = k
  OBVIOUS
<1>2. \A i \in 1..Len(s) : s[i] \in Nat \X Nat
  OBVIOUS
<1>3. \A x \in Nat \X Nat : x[1] \in Nat /\ x[2] \in Nat
  OBVIOUS
<1> DEFINE pair == << f, k >>
<1> HIDE DEF pair
<1>4. pair \in Nat \X Nat /\ pair[1] = f /\ pair[2] = k
  BY <1>1 DEF pair
<1>5. /\ Append(s, pair) \in Seq(Nat \X Nat)
      /\ Len(s) \in Nat /\ DOMAIN s = 1..Len(s)
      /\ DOMAIN Append(s, pair) = 1..(Len(s) + 1)
      /\ Append(s, pair)[Len(s) + 1] = pair
      /\ \A i \in 1..Len(s) : Append(s, pair)[i] = s[i]
  BY <1>4
<1> QED
  BY <1>2, <1>3, <1>4, <1>5 DEF pair

LEMMA OrderInvInit == Init => OrderInv
<1> SUFFICES ASSUME Init PROVE OrderInv
  OBVIOUS
<1>1. out = << >> /\ DOMAIN out = {}
  BY DEF Init
<1>2. \A f \in 1..NFiles : \A k \in Nat : queue[f] # << Batch(f, k) >>
  BY Singleton DEF Init
<1>3. \A w \in Worker : worker[w].at = "claim"
  BY DEF Init
<1>4. \A f \in 1..NFiles : Fresh(f, 0)
  BY <1>1, <1>2 DEF Fresh, Below, Queued
<1> QED
  BY <1>1, <1>2, <1>3, <1>4
  DEF OrderInv, DeliveredInOrder, ChannelOrder, WorkerOrder, Untouched, Sending

\* A step that leaves channels and deliveries alone only has to say what its worker is about
\* to send.
LEMMA OrderInvQuiet ==
  ASSUME TypeInv, OrderInv, NFiles' = NFiles, Worker' = Worker, NEW w \in Worker,
         UNCHANGED << queue, out, current >>,
         nextFile' \in Nat, nextFile' >= nextFile,
         \A v \in Worker : v # w => worker'[v] = worker[v],
         (worker[w].at \in Sending => Fresh(worker[w].file, Due(w)))'
  PROVE  OrderInv'
<1>1. \A f, k : Fresh(f, k)' <=> Fresh(f, k)
  BY DEF Fresh, Below, Queued
<1>2. ChannelOrder' /\ DeliveredInOrder'
  BY DEF OrderInv, ChannelOrder, Below, DeliveredInOrder
<1>3. WorkerOrder'
  <2> SUFFICES ASSUME NEW v \in Worker, worker'[v].at \in Sending, v # w
               PROVE  Fresh(worker[v].file, Due(v))'
    BY DEF WorkerOrder
  <2>1. worker'[v] = worker[v] /\ Due(v)' = Due(v)
    BY DEF Due
  <2> QED
    BY <1>1, <2>1 DEF OrderInv, WorkerOrder
<1>4. Untouched'
  BY <1>1 DEF OrderInv, Untouched, TypeInv, Shape
<1> QED
  BY <1>2, <1>3, <1>4 DEF OrderInv

LEMMA OrderInvClaim ==
  ASSUME TypeInv, OrderInv, NFiles' = NFiles, Worker' = Worker, NEW w \in Worker, Claim(w)
  PROVE  OrderInv'
<1>1. NFiles \in Nat /\ nextFile \in Nat \ {0} /\ w \in DOMAIN worker
  BY NFilesType DEF TypeInv, Shape
<1>2. /\ UNCHANGED << queue, out, current >> /\ nextFile' = nextFile + 1
      /\ worker' = [worker EXCEPT ![w] =
           [at |-> IF nextFile > NFiles THEN "exit" ELSE "open",
            file |-> nextFile, k |-> 0]]
  BY DEF Claim
<1>3. /\ worker'[w] = [at |-> IF nextFile > NFiles THEN "exit" ELSE "open",
                       file |-> nextFile, k |-> 0]
      /\ \A v \in Worker : v # w => worker'[v] = worker[v]
  BY <1>1, <1>2 DEF TypeInv, Shape
<1>4. ASSUME worker'[w].at \in Sending PROVE Fresh(worker[w].file, Due(w))'
  <2>1. nextFile \in 1..NFiles /\ worker'[w].at = "open"
    BY <1>1, <1>3, <1>4 DEF Sending
  <2>2. Fresh(nextFile, 0)
    BY <1>1, <2>1 DEF OrderInv, Untouched
  <2>3. worker'[w].file = nextFile /\ Due(w)' = 0
    BY <1>3, <2>1 DEF Due
  <2> QED
    BY <1>2, <2>2, <2>3 DEF Fresh, Below, Queued
<1> QED
  BY <1>1, <1>2, <1>3, <1>4, OrderInvQuiet

LEMMA OrderInvWorker ==
  ASSUME TypeInv, OrderInv, NFiles' = NFiles, Worker' = Worker, NEW w \in Worker,
         Open(w) \/ Decode(w) \/ SendFails(w) \/ Panic(w)
  PROVE  OrderInv'
<1>1. Busy(w) /\ worker[w].k \in Nat /\ worker[w].k + 1 \in Nat
  BY DEF Open, Decode, SendFails, Panic, Busy, Places, TypeInv, Shape
<1>2. worker[w].file \in 1..NFiles /\ worker[w].file \in Nat
  BY <1>1, NFilesType DEF TypeInv, Claimed, Shape
<1>3. /\ UNCHANGED << queue, out, current, nextFile >>
      /\ nextFile \in Nat
  BY DEF Open, Decode, SendFails, Panic, TypeInv, Shape
<1>4. \A f, k : Fresh(f, k)' <=> Fresh(f, k)
  BY <1>3 DEF Fresh, Below, Queued
<1>5. PICK at \in Places, k \in Nat :
        /\ Move(w, at, k)
        /\ at \in Sending => /\ worker[w].at \in Sending
                             /\ (IF at = "decode" THEN k + 1 ELSE k) >= Due(w)
                             /\ at # "open"
  <2>1. CASE Open(w)
    <3>1. Move(w, "decode", 0) \/ Move(w, "send", 0)
      BY <2>1 DEF Open
    <3>2. worker[w].at = "open" /\ Due(w) = 0
      BY <2>1 DEF Open, Due
    <3> QED
      BY <3>1, <3>2 DEF Places, Sending
  <2>2. CASE Decode(w)
    <3>1. Move(w, "send", worker[w].k + 1) \/ Move(w, "finish", worker[w].k)
      BY <2>2 DEF Decode
    <3>2. worker[w].at = "decode" /\ Due(w) = worker[w].k + 1
      BY <2>2 DEF Decode, Due
    <3> QED
      BY <1>1, <3>1, <3>2 DEF Places, Sending
  <2>3. CASE SendFails(w)
    BY <1>1, <2>3 DEF SendFails, Places, Sending
  <2>4. CASE Panic(w)
    BY <2>4 DEF Panic, Places, Sending
  <2> QED
    BY <2>1, <2>2, <2>3, <2>4
<1>6. /\ worker'[w] = [at |-> at, file |-> worker[w].file, k |-> k]
      /\ \A v \in Worker : v # w => worker'[v] = worker[v]
  BY <1>5, MoveEffect DEF TypeInv
<1>7. ASSUME worker'[w].at \in Sending PROVE Fresh(worker[w].file, Due(w))'
  <2>1. at \in Sending /\ Fresh(worker[w].file, Due(w))
    BY <1>5, <1>6, <1>7 DEF OrderInv, WorkerOrder
  <2> DEFINE n == IF at = "decode" THEN k + 1 ELSE k
  <2>2. Due(w)' = n
    BY <1>5, <1>6, <2>1 DEF Due
  <2>3. Due(w) \in Nat /\ n \in Nat /\ n >= Due(w)
    BY <1>1, <1>5, <2>1 DEF Due
  <2> HIDE DEF n
  <2>4. Fresh(worker[w].file, n)
    BY <1>2, <2>1, <2>3, FreshGrows
  <2>5. Fresh(worker[w].file, n)'
    BY <1>3, <1>6, <2>4 DEF Fresh, Below, Queued
  <2> QED
    BY <2>2, <2>5
<1> QED
  BY <1>3, <1>6, <1>7, OrderInvQuiet

\* Only a worker appends to a channel, and only to that of its own file.
LEMMA OrderInvAppend ==
  ASSUME TypeInv, OrderInv, NFiles' = NFiles, Worker' = Worker, NEW w \in Worker,
         Send(w) \/ Finish(w)
  PROVE  OrderInv'
<1>1. Busy(w) /\ worker[w].k \in Nat
  BY DEF Send, Finish, Busy, Places, TypeInv, Shape
<1>2. PICK f \in 1..NFiles, n \in Nat :
        /\ worker[w].file = f /\ worker[w].k = n
        /\ f \in Nat /\ f < nextFile /\ nextFile \in Nat
  BY <1>1, NFilesType DEF TypeInv, Claimed, Shape
<1>3. UNCHANGED << out, current, nextFile >>
  BY DEF Send, Finish
<1>4. DOMAIN queue' = 1..NFiles /\ \A g \in 1..NFiles : g # f => queue'[g] = queue[g]
  BY <1>2 DEF Send, Finish, TypeInv, Shape
<1>5. \A g, k : Below(g, k)' <=> Below(g, k)
  BY <1>3 DEF Below
<1>6. \A g \in 1..NFiles : \A k : g # f => (Fresh(g, k)' <=> Fresh(g, k))
  BY <1>4, <1>5 DEF Fresh, Queued
<1>7. PICK at \in Places, moved \in Nat : Move(w, at, moved)
  BY <1>2 DEF Send, Finish, Places
<1>8. \A v \in Worker : v # w => worker'[v] = worker[v]
  BY <1>1, <1>7, MoveEffect DEF TypeInv
<1>9. ASSUME NEW v \in Worker, v # w, worker'[v].at \in Sending
      PROVE  Fresh(worker[v].file, Due(v))'
  <2>1. worker'[v] = worker[v] /\ Due(v)' = Due(v) /\ worker[v].at \in Sending
    BY <1>8, <1>9 DEF Due
  <2>2. worker[v].file # f /\ worker[v].file \in 1..NFiles
    BY <1>1, <1>2, <1>9, <2>1 DEF Busy, Sending, Places, TypeInv, Claimed, OneReaderPerFile
  <2>3. Fresh(worker[v].file, Due(v))
    BY <2>1 DEF OrderInv, WorkerOrder
  <2> QED
    BY <1>6, <2>1, <2>2, <2>3
<1>10. Untouched'
  BY <1>2, <1>3, <1>6 DEF OrderInv, Untouched
<1>11. DeliveredInOrder' /\ (out \in Seq(Nat \X Nat))'
       /\ (\A i \in DOMAIN out : out[i][1] <= current)'
  BY <1>3 DEF OrderInv, DeliveredInOrder
<1>12. CASE Send(w)
  <2>1. queue[f] = << >> /\ Accepts(f)
    BY <1>2, <1>12, QueueLength DEF Send, Accepts, Capacity, TypeInv, Shape
  <2>2. queue'[f] = << Batch(f, n) >>
    BY <1>2, <1>12, <2>1, Singleton DEF Send, TypeInv, Shape
  <2>3. \A k \in Nat : queue'[f] = << Batch(f, k) >> => k = n
    <3> SUFFICES ASSUME NEW k \in Nat, << Batch(f, k) >> = << Batch(f, n) >>
                 PROVE  k = n
      BY <2>2
    <3>1. Batch(f, k) = Batch(f, n)
      BY Singleton
    <3>2. Batch(f, k).batch = << f, k >> /\ Batch(f, n).batch = << f, n >>
      BY DEF Batch
    <3> QED
      BY <3>1, <3>2
  <2>4. Fresh(f, n)
    BY <1>2, <1>12 DEF Send, OrderInv, WorkerOrder, Sending, Due
  <2>5. ChannelOrder'
    <3> SUFFICES ASSUME NEW g \in 1..NFiles, NEW k \in Nat, queue'[g] = << Batch(g, k) >>
                 PROVE  Below(g, k)
      BY <1>5 DEF ChannelOrder
    <3>1. CASE g = f
      BY <2>3, <2>4, <3>1 DEF Fresh
    <3>2. CASE g # f
      BY <1>4, <3>2 DEF OrderInv, ChannelOrder
    <3> QED
      BY <3>1, <3>2
  <2>6. ASSUME worker'[w].at \in Sending PROVE Fresh(worker[w].file, Due(w))'
    <3>1. Move(w, "finish", n) \/ Move(w, "decode", n)
      BY <1>2, <1>12 DEF Send
    <3>2. worker'[w] = [at |-> "decode", file |-> f, k |-> n]
      <4>1. "finish" \in Places /\ "decode" \in Places /\ "finish" \notin Sending
        BY DEF Places, Sending
      <4>2. CASE Move(w, "finish", n)
        <5>1. worker'[w] = [at |-> "finish", file |-> f, k |-> n]
          BY <1>2, <4>1, <4>2, MoveEffect DEF TypeInv
        <5> QED
          BY <2>6, <4>1, <5>1
      <4>3. CASE Move(w, "decode", n)
        BY <1>2, <4>1, <4>3, MoveEffect DEF TypeInv
      <4> QED
        BY <3>1, <4>2, <4>3
    <3>3. Due(w)' = n + 1 /\ worker'[w].file = f
      BY <3>2 DEF Due
    <3>4. Fresh(f, n + 1)
      BY <1>2, <2>4, FreshGrows
    <3>5. Queued(f, n + 1)'
      BY <1>2, <2>3 DEF Queued
    <3> QED
      BY <1>5, <3>3, <3>4, <3>5 DEF Fresh
  <2> QED
    BY <1>9, <1>10, <1>11, <2>5, <2>6 DEF OrderInv, WorkerOrder
<1>13. CASE Finish(w)
  <2>1. queue'[f] = << Done >> \/ queue'[f] = queue[f]
    <3>1. CASE Accepts(f) /\ queue' = [queue EXCEPT ![f] = Append(@, Done)]
      <4>1. queue[f] = << >>
        BY <1>2, <3>1, QueueLength DEF Accepts, Capacity, TypeInv, Shape
      <4> QED
        BY <1>2, <3>1, <4>1, Singleton DEF TypeInv, Shape
    <3>2. CASE queue' = queue
      BY <3>2
    <3> QED
      BY <1>2, <1>13, <3>1, <3>2 DEF Finish
  <2>2. \A k \in Nat : << Done >> # << Batch(f, k) >>
    <3> SUFFICES ASSUME NEW k \in Nat, << Done >> = << Batch(f, k) >> PROVE FALSE
      OBVIOUS
    <3>1. Done = Batch(f, k)
      BY Singleton
    <3>2. Done.kind = "done" /\ Batch(f, k).kind = "batch"
      BY DEF Done, Batch
    <3> QED
      BY <3>1, <3>2
  <2>3. ChannelOrder'
    BY <1>4, <1>5, <2>1, <2>2 DEF OrderInv, ChannelOrder
  <2>4. Move(w, "claim", 0) /\ "claim" \in Places /\ 0 \in Nat
    BY <1>13 DEF Finish, Places
  <2>5. worker'[w].at \notin Sending
    <3>1. worker'[w] = [at |-> "claim", file |-> f, k |-> 0]
      BY <1>2, <2>4, MoveEffect DEF TypeInv
    <3> QED
      BY <3>1 DEF Sending
  <2> QED
    BY <1>9, <1>10, <1>11, <2>3, <2>5 DEF OrderInv, WorkerOrder
<1> QED
  BY <1>12, <1>13

LEMMA OrderInvReceive ==
  ASSUME TypeInv, OrderInv, NFiles' = NFiles, Worker' = Worker, Receive
  PROVE  OrderInv'
<1>1. current \in 1..NFiles /\ current \in Nat /\ UNCHANGED << nextFile, worker, current >>
  BY NFilesType DEF Receive, TypeInv, Shape
<1>2. PICK k \in Nat : queue[current] = << Batch(current, k) >>
  <2>1. QueueOK(current) /\ queue[current] # << >> /\ Head(queue[current]).kind = "batch"
    BY <1>1 DEF Receive, TypeInv, Shape
  <2>2. queue[current] # << Done >>
    <3>1. Head(<< Done >>).kind = "done"
      BY Singleton DEF Done
    <3> QED
      BY <2>1, <3>1
  <2> QED
    BY <2>1, <2>2 DEF QueueOK
<1>3. out' = Append(out, << current, k >>)
  <2>1. Head(<< Batch(current, k) >>).batch = << current, k >>
    BY Singleton DEF Batch
  <2> QED
    BY <1>2, <2>1 DEF Receive
<1>4. queue'[current] = << >> /\ \A g \in 1..NFiles : g # current => queue'[g] = queue[g]
  <2>1. queue' = [queue EXCEPT ![current] = Tail(@)]
    BY DEF Receive
  <2>2. Tail(queue[current]) = << >>
    BY <1>2, Singleton
  <2> QED
    BY <1>1, <2>1, <2>2 DEF TypeInv, Shape
<1>5. out \in Seq(Nat \X Nat) /\ Below(current, k)
  BY <1>1, <1>2 DEF OrderInv, ChannelOrder
<1> DEFINE last == Len(out)
<1>6. /\ last \in Nat /\ DOMAIN out = 1..last
      /\ out' \in Seq(Nat \X Nat) /\ DOMAIN out' = 1..(last + 1)
      /\ out'[last + 1][1] = current /\ out'[last + 1][2] = k
      /\ \A i \in 1..last : out[i][1] \in Nat /\ out[i][2] \in Nat /\ out'[i] = out[i]
  BY <1>1, <1>3, <1>5, PairAppended
<1> HIDE DEF last
<1>7. \A i \in 1..last : out[i][1] <= current /\ (out[i][1] = current => out[i][2] < k)
  BY <1>5, <1>6 DEF OrderInv, Below
<1>8. DeliveredInOrder'
  <2> SUFFICES ASSUME NEW i \in 1..(last + 1), NEW j \in 1..(last + 1), i < j
               PROVE  \/ out'[i][1] < out'[j][1]
                      \/ out'[i][1] = out'[j][1] /\ out'[i][2] < out'[j][2]
    BY <1>6 DEF DeliveredInOrder
  <2>1. i \in 1..last
    BY <1>6
  <2>2. CASE j = last + 1
    BY <1>1, <1>6, <1>7, <2>1, <2>2
  <2>3. CASE j \in 1..last
    <3>1. \/ out[i][1] < out[j][1]
          \/ out[i][1] = out[j][1] /\ out[i][2] < out[j][2]
      BY <1>6, <2>1, <2>3 DEF OrderInv, DeliveredInOrder
    <3>2. out'[i] = out[i] /\ out'[j] = out[j]
      BY <1>6, <2>1, <2>3
    <3> QED
      BY <3>1, <3>2
  <2> QED
    BY <1>6, <2>2, <2>3
<1>9. \A i \in DOMAIN out' : out'[i][1] <= current'
  <2> SUFFICES ASSUME NEW i \in 1..(last + 1) PROVE out'[i][1] <= current
    BY <1>1, <1>6
  <2>1. CASE i = last + 1
    BY <1>1, <1>6, <2>1
  <2>2. CASE i \in 1..last
    BY <1>6, <1>7, <2>2
  <2> QED
    BY <1>6, <2>1, <2>2
<1>10. ASSUME NEW f \in 1..NFiles, NEW n \in Nat, Fresh(f, n) PROVE Fresh(f, n)'
  <2>1. CASE f = current
    <3>1. k < n
      BY <1>2, <1>10, <2>1 DEF Fresh, Queued
    <3>2. Below(f, n)'
      BY <1>6, <1>7, <1>10, <2>1, <3>1 DEF Fresh, Below
    <3>3. Queued(f, n)'
      BY <1>4, <2>1, Singleton DEF Queued
    <3> QED
      BY <3>2, <3>3 DEF Fresh
  <2>2. CASE f # current
    <3>1. Below(f, n)'
      BY <1>6, <1>7, <1>10, <2>2 DEF Fresh, Below
    <3>2. Queued(f, n)'
      BY <1>4, <1>10, <2>2 DEF Fresh, Queued
    <3> QED
      BY <3>1, <3>2 DEF Fresh
  <2> QED
    BY <2>1, <2>2
<1>11. ChannelOrder'
  <2> SUFFICES ASSUME NEW f \in 1..NFiles, NEW n \in Nat, queue'[f] = << Batch(f, n) >>
               PROVE  Below(f, n)'
    BY DEF ChannelOrder
  <2>1. f # current
    BY <1>4, Singleton
  <2>2. Below(f, n)
    BY <1>4, <2>1 DEF OrderInv, ChannelOrder
  <2> SUFFICES ASSUME NEW i \in 1..(last + 1), out'[i][1] = f
               PROVE  out'[i][2] < n
    BY <1>6 DEF Below
  <2>3. i \in 1..last
    BY <1>6, <2>1
  <2>4. out'[i] = out[i] /\ i \in DOMAIN out
    BY <1>6, <2>3
  <2> QED
    BY <2>2, <2>4 DEF Below
<1>12. Untouched'
  BY <1>1, <1>10 DEF OrderInv, Untouched
<1>13. WorkerOrder'
  <2> SUFFICES ASSUME NEW w \in Worker, worker[w].at \in Sending
               PROVE  Fresh(worker[w].file, Due(w))'
    BY <1>1 DEF WorkerOrder
  <2>1. worker[w].file \in 1..NFiles /\ Due(w) \in Nat /\ Due(w)' = Due(w)
    BY <1>1 DEF TypeInv, Claimed, Shape, Busy, Sending, Places, Due
  <2>2. Fresh(worker[w].file, Due(w))
    BY DEF OrderInv, WorkerOrder
  <2> QED
    BY <1>1, <1>10, <2>1, <2>2
<1> QED
  BY <1>6, <1>8, <1>9, <1>11, <1>12, <1>13 DEF OrderInv

\* Every other step of the consumer only empties channels.
LEMMA OrderInvOther ==
  ASSUME TypeInv, OrderInv, NFiles' = NFiles, Worker' = Worker,
         NextFile \/ End \/ Drop \/ Terminated \/ UNCHANGED vars
  PROVE  OrderInv'
<1>1. UNCHANGED << out, nextFile, worker >>
  BY DEF NextFile, End, Drop, NoReceivers, Terminated, vars
<1>2. current' \in Nat /\ current \in Nat /\ current' >= current
  BY NFilesType DEF NextFile, End, Drop, NoReceivers, Terminated, vars, TypeInv, Shape
<1>3. \A f \in 1..NFiles : queue'[f] = queue[f] \/ queue'[f] = << >>
  <2>1. CASE UNCHANGED queue
    BY <2>1
  <2>2. CASE End \/ Drop
    BY <2>2 DEF End, Drop, NoReceivers, TypeInv, Shape
  <2>3. CASE queue' = [queue EXCEPT ![current] = Tail(@)] /\ current \in 1..NFiles
             /\ queue[current] # << >>
    <3>1. Tail(queue[current]) = << >>
      BY <2>3, QueueLength DEF TypeInv, Shape
    <3> QED
      BY <2>3, <3>1 DEF TypeInv, Shape
  <2> QED
    BY <2>1, <2>2, <2>3, NFilesType DEF NextFile, Terminated, vars, TypeInv, Shape
<1>4. \A f, n : Below(f, n)' <=> Below(f, n)
  BY <1>1 DEF Below
<1>5. \A f \in 1..NFiles : \A n \in Nat : queue'[f] = << Batch(f, n) >> =>
        queue[f] = << Batch(f, n) >>
  BY <1>3, Singleton
<1>6. \A f \in 1..NFiles : \A n : Fresh(f, n) => Fresh(f, n)'
  BY <1>4, <1>5 DEF Fresh, Queued
<1>7. ChannelOrder'
  BY <1>4, <1>5 DEF OrderInv, ChannelOrder
<1>8. Untouched'
  BY <1>1, <1>6 DEF OrderInv, Untouched
<1>9. WorkerOrder'
  <2> SUFFICES ASSUME NEW w \in Worker, worker[w].at \in Sending
               PROVE  Fresh(worker[w].file, Due(w))'
    BY <1>1 DEF WorkerOrder
  <2>1. worker[w].file \in 1..NFiles /\ Due(w)' = Due(w)
    BY <1>1 DEF TypeInv, Claimed, Busy, Sending, Places, Due
  <2>2. Fresh(worker[w].file, Due(w))
    BY DEF OrderInv, WorkerOrder
  <2> QED
    BY <1>1, <1>6, <2>1, <2>2
<1>10. DeliveredInOrder' /\ (out \in Seq(Nat \X Nat))'
  BY <1>1 DEF OrderInv, DeliveredInOrder
<1>11. (\A i \in DOMAIN out : out[i][1] <= current)'
  <2>1. \A i \in DOMAIN out : out[i][1] \in Nat
    BY DEF OrderInv
  <2> QED
    BY <1>1, <1>2, <2>1 DEF OrderInv
<1> QED
  BY <1>7, <1>8, <1>9, <1>10, <1>11 DEF OrderInv

LEMMA OrderInvNext == TypeInv /\ OrderInv /\ [Next]_vars => OrderInv'
<1> SUFFICES ASSUME TypeInv, OrderInv, [Next]_vars PROVE OrderInv'
  OBVIOUS
<1>1. NFiles' = NFiles /\ Worker' = Worker
  BY SameFiles
<1>2. DOMAIN worker = Worker
  BY DEF TypeInv, Shape
<1> QED
  BY <1>1, <1>2, OrderInvClaim, OrderInvWorker, OrderInvAppend, OrderInvReceive, OrderInvOther
     DEF Next, WorkerStep, ConsumerStep

\* Batches arrive in file and row order and never twice, whatever the schedule of the
\* workers and whichever decoders panic (ordered_parallel_batches).
THEOREM BatchesArriveInOrder == Spec => []DeliveredInOrder
<1>1. OrderInv => DeliveredInOrder
  BY DEF OrderInv
<1> QED
  BY <1>1, SpecTypeInv, OrderInvInit, OrderInvNext, PTL DEF Spec

----------------------------------------------------------------------------
(***************************************************************************)
(* One CSV file in chunks: flattened sequences                             *)
(***************************************************************************)

\* A function on 1..Len(s), whatever its values.
IsSequence(s) == Len(s) \in Nat /\ s = [i \in 1..Len(s) |-> s[i]]

LEMMA SequenceDomain ==
  ASSUME NEW s, IsSequence(s)
  PROVE  Len(s) \in Nat /\ DOMAIN s = 1..Len(s)
BY DEF IsSequence

\* A set of naturals that has 0 and the successor of each of its elements.
LEMMA NatSetInduction ==
  ASSUME NEW S \in SUBSET Nat, 0 \in S, \A n \in S : n + 1 \in S
  PROVE  S = Nat
<1> DEFINE T == Nat \ S
<1> SUFFICES ASSUME T # {} PROVE FALSE
  OBVIOUS
<1>1. PICK x \in T : \A y \in T : ~ (<<y, x>> \in OpToRel(<,Nat))
  BY NatLessThanWellFounded, WFMin
<1>2. \A y \in Nat : y < x => <<y, x>> \in OpToRel(<, Nat)
  BY DEF OpToRel
<1>3. x \in Nat /\ x # 0 /\ x - 1 \in Nat /\ x - 1 < x
  OBVIOUS
<1>4. x - 1 \in S
  BY <1>1, <1>2, <1>3
<1>5. (x - 1) + 1 = x
  BY <1>3
<1> QED
  BY <1>4, <1>5


\* The stages of a flattening.
LEMMA FlattenStages ==
  ASSUME NEW V, NEW seqs, IsSequence(seqs), \A i \in 1..Len(seqs) : seqs[i] \in Seq(V)
  PROVE  \E P \in [0..Len(seqs) -> Seq(V)] :
           /\ P[0] = << >>
           /\ \A i \in 1..Len(seqs) : P[i] = P[i - 1] \o seqs[i]
           /\ FlattenSeq(seqs) = P[Len(seqs)]
<1> DEFINE n == Len(seqs)
           Body(F, i) == IF i = 1 THEN seqs[i] ELSE F[i-1] \o seqs[i]
           IsFlatten(F) == F = [i \in 1..n |-> Body(F, i)]
           K == {k \in Nat : \E F \in [1..n -> Seq(V)] :
                               \A i \in 1..n : i <= k => F[i] = Body(F, i)}
<1>1. n \in Nat
  BY SequenceDomain
<1>2. 0 \in K
  <2> DEFINE F == [i \in 1..n |-> << >>]
  <2>1. F \in [1..n -> Seq(V)]
    OBVIOUS
  <2>2. \A i \in 1..n : ~(i <= 0)
    OBVIOUS
  <2> HIDE DEF F, Body
  <2>3. \E E \in [1..n -> Seq(V)] : \A i \in 1..n : i <= 0 => E[i] = Body(E, i)
    BY <2>1, <2>2
  <2> QED
    BY <2>3
<1>3. ASSUME NEW k \in K PROVE k + 1 \in K
  <2>1. k \in Nat
    OBVIOUS
  <2>2. PICK F \in [1..n -> Seq(V)] : \A i \in 1..n : i <= k => F[i] = Body(F, i)
    OBVIOUS
  <2> DEFINE G == [i \in 1..n |-> IF i <= k THEN F[i] ELSE Body(F, i)]
  <2>3. \A i \in 1..n : Body(F, i) \in Seq(V)
    <3> SUFFICES ASSUME NEW i \in 1..n PROVE Body(F, i) \in Seq(V)
      OBVIOUS
    <3>0. i # 1 => i - 1 \in 1..n
      BY <1>1
    <3>1. seqs[i] \in Seq(V) /\ (i # 1 => F[i-1] \in Seq(V))
      BY <3>0
    <3> QED
      BY <3>1
  <2>4. \A i \in 1..n : i <= k + 1 => Body(G, i) = Body(F, i)
    BY <1>1, <2>1
  <2> HIDE DEF Body
  <2>5. G \in [1..n -> Seq(V)]
    BY <2>3
  <2>6. \A i \in 1..n : i <= k + 1 => G[i] = Body(G, i)
    <3> SUFFICES ASSUME NEW i \in 1..n, i <= k + 1 PROVE G[i] = Body(G, i)
      OBVIOUS
    <3>1. G[i] = Body(F, i)
      BY <2>2
    <3> QED
      BY <2>4, <3>1
  <2> HIDE DEF G
  <2> QED
    BY <2>1, <2>5, <2>6
<1>4. K \in SUBSET Nat
  OBVIOUS
<1> HIDE DEF K
<1>5. n \in K
  BY <1>1, <1>2, <1>3, <1>4, NatSetInduction
<1>6. PICK F \in [1..n -> Seq(V)] : \A i \in 1..n : F[i] = Body(F, i)
  BY <1>1, <1>5 DEF K
<1>7. \E G : IsFlatten(G)
  <2>1. F = [i \in 1..n |-> F[i]]
    BY <1>6
  <2>2. [i \in 1..n |-> F[i]] = [i \in 1..n |-> Body(F, i)]
    BY <1>6
  <2>3. IsFlatten(F)
    BY <2>1, <2>2, Zenon
  <2> QED
    BY <2>3, Zenon
<1> DEFINE G == CHOOSE G : IsFlatten(G)
<1>8. FlattenSeq(seqs) = IF n = 0 THEN seqs ELSE G[n]
  BY DEF FlattenSeq
<1>9. \A i \in 1..n : G[i] = Body(G, i)
  <2>1. IsFlatten(G)
    BY <1>7, Zenon
  <2> QED
    BY <2>1, Zenon
<1> HIDE DEF G, IsFlatten
<1>10. \A i \in 1..n : G[i] = F[i]
  <2> DEFINE L == {k \in Nat : \A i \in 1..n : i <= k => G[i] = F[i]}
  <2>1. 0 \in L
    BY <1>1
  <2>2. ASSUME NEW k \in L PROVE k + 1 \in L
    <3>1. k \in Nat /\ \A i \in 1..n : i <= k => G[i] = F[i]
      OBVIOUS
    <3>2. ASSUME NEW i \in 1..n, i <= k + 1
          PROVE  G[i] = F[i]
      <4>1. CASE i = 1
        BY <1>6, <1>9, <4>1
      <4>2. CASE i # 1
        <5>1. i - 1 \in 1..n /\ i - 1 <= k
          BY <1>1, <3>1, <3>2, <4>2
        <5>2. G[i - 1] = F[i - 1]
          BY <3>1, <5>1
        <5>3. G[i] = G[i - 1] \o seqs[i] /\ F[i] = F[i - 1] \o seqs[i]
          BY <1>6, <1>9, <4>2, Zenon
        <5> QED
          BY <5>2, <5>3
      <4> QED
        BY <4>1, <4>2
    <3> QED
      BY <3>1, <3>2
  <2>3. L \in SUBSET Nat
    OBVIOUS
  <2> HIDE DEF L
  <2>4. n \in L
    BY <1>1, <2>1, <2>2, <2>3, NatSetInduction
  <2> QED
    BY <1>1, <2>4 DEF L
<1> DEFINE P == [i \in 0..n |-> IF i = 0 THEN << >> ELSE F[i]]
<1>11. P \in [0..n -> Seq(V)]
  BY <1>1
<1>12. P[0] = << >>
  BY <1>1
<1>13. \A i \in 1..n : P[i] = P[i - 1] \o seqs[i]
  <2> SUFFICES ASSUME NEW i \in 1..n PROVE P[i] = P[i - 1] \o seqs[i]
    OBVIOUS
  <2>1. P[i] = F[i] /\ seqs[i] \in Seq(V)
    BY <1>1
  <2>2. CASE i = 1
    <3>0. F[i] = seqs[i]
      BY <1>6, <2>2
    <3>1. F[i] = seqs[i] /\ P[i - 1] = << >>
      BY <1>12, <2>2, <3>0
    <3>2. \A s \in Seq(V) : << >> \o s = s
      OBVIOUS
    <3> QED
      BY <2>1, <3>1, <3>2
  <2>3. CASE i # 1
    <3>1. P[i - 1] = F[i - 1]
      BY <1>1, <2>3
    <3> QED
      BY <1>6, <2>1, <2>3, <3>1
  <2> QED
    BY <2>2, <2>3
<1>14. FlattenSeq(seqs) = P[n]
  <2>1. CASE n = 0
    <3>1. seqs = << >>
      BY <2>1 DEF IsSequence
    <3> QED
      BY <1>8, <1>12, <2>1, <3>1
  <2>2. CASE n # 0
    BY <1>1, <1>8, <1>10, <2>2
  <2> QED
    BY <2>1, <2>2
<1> HIDE DEF P
<1> QED
  BY <1>11, <1>12, <1>13, <1>14

\* u is s followed by t.
Joins(u, s, t) ==
  /\ Len(s) \in Nat /\ Len(t) \in Nat /\ Len(u) = Len(s) + Len(t)
  /\ \A j \in 1..Len(s) : j \in 1..Len(u) /\ u[j] = s[j]
  /\ \A k \in 1..Len(t) : Len(s) + k \in 1..Len(u) /\ u[Len(s) + k] = t[k]
  /\ \A j \in 1..Len(u) : j > Len(s) => j - Len(s) \in 1..Len(t) /\ u[j] = t[j - Len(s)]

LEMMA ConcatJoins ==
  ASSUME NEW V, NEW s \in Seq(V), NEW t \in Seq(V), NEW u, u = s \o t
  PROVE  Joins(u, s, t)
BY DEF Joins


\* Flattening one part more appends it.
LEMMA FlattenAppend ==
  ASSUME NEW V, NEW d \in Nat, NEW f, \A c \in 1..d + 1 : f[c] \in Seq(V)
  PROVE  FlattenSeq([c \in 1..d + 1 |-> f[c]]) = FlattenSeq([c \in 1..d |-> f[c]]) \o f[d + 1]
<1> DEFINE s == [c \in 1..d + 1 |-> f[c]]
           t == [c \in 1..d |-> f[c]]
<1>1. /\ IsSequence(s) /\ Len(s) = d + 1 /\ IsSequence(t) /\ Len(t) = d
      /\ \A c \in 1..d + 1 : s[c] = f[c]
      /\ \A c \in 1..d : t[c] = f[c]
  BY DEF IsSequence
<1>2. /\ \A c \in 1..Len(s) : s[c] \in Seq(V)
      /\ \A c \in 1..Len(t) : t[c] \in Seq(V)
  BY <1>1
<1> HIDE DEF s, t
<1>3. PICK P \in [0..Len(s) -> Seq(V)] :
        /\ P[0] = << >>
        /\ \A c \in 1..Len(s) : P[c] = P[c - 1] \o s[c]
        /\ FlattenSeq(s) = P[Len(s)]
  BY <1>1, <1>2, FlattenStages
<1>4. PICK Q \in [0..Len(t) -> Seq(V)] :
        /\ Q[0] = << >>
        /\ \A c \in 1..Len(t) : Q[c] = Q[c - 1] \o t[c]
        /\ FlattenSeq(t) = Q[Len(t)]
  BY <1>1, <1>2, FlattenStages
<1> DEFINE K == {k \in Nat : k <= d => P[k] = Q[k]}
<1>5. 0 \in K
  BY <1>3, <1>4
<1>6. ASSUME NEW k \in K PROVE k + 1 \in K
  <2>1. SUFFICES ASSUME k + 1 <= d PROVE P[k + 1] = Q[k + 1]
    BY <1>6
  <2>2. k \in Nat /\ P[k] = Q[k]
    BY <1>6, <2>1
  <2>3. k + 1 \in 1..d /\ (k + 1) - 1 = k /\ k + 1 \in 1..d + 1
    BY <2>1, <2>2
  <2>4. P[k + 1] = P[k] \o s[k + 1] /\ Q[k + 1] = Q[k] \o t[k + 1]
    BY <1>1, <1>3, <1>4, <2>3
  <2>5. s[k + 1] = t[k + 1]
    BY <1>1, <2>3
  <2> QED
    BY <2>2, <2>4, <2>5
<1>7. K \in SUBSET Nat
  OBVIOUS
<1> HIDE DEF K
<1>8. d \in K
  BY <1>5, <1>6, <1>7, NatSetInduction
<1>9. P[d] = Q[d]
  BY <1>8 DEF K
<1>10. d + 1 \in 1..d + 1 /\ (d + 1) - 1 = d
  OBVIOUS
<1>11. P[d + 1] = P[d] \o s[d + 1] /\ s[d + 1] = f[d + 1]
  BY <1>1, <1>3, <1>10
<1> QED
  BY <1>1, <1>3, <1>4, <1>9, <1>11 DEF s, t

----------------------------------------------------------------------------
(***************************************************************************)
(* What a chunk and the first chunks come as                               *)
(***************************************************************************)

Item == Nat \X Nat

LEMMA FileFacts ==
  ASSUME file \in Inputs
  PROVE  /\ NChunks \in Nat /\ file.fails \in BOOLEAN
         /\ \A c \in 1..NChunks : /\ file.chunks[c].kind \in {"ok", "err", "panic"}
                                  /\ file.chunks[c].n \in Nat
<1>1. file.chunks \in Seq(Outcome) /\ file.fails \in BOOLEAN
  BY ChunkParams DEF ChunkedFile
<1>2. \A c \in 1..NChunks : file.chunks[c] \in Outcome
  BY <1>1 DEF NChunks
<1> QED
  BY <1>1, <1>2 DEF NChunks, Outcome

LEMMA ItemsType ==
  ASSUME file \in Inputs, NEW c \in 1..NChunks
  PROVE  /\ Items(c) \in Seq(Item)
         /\ \A k \in 1..Len(Items(c)) : Items(c)[k][1] = c
         /\ Batches(c) \in Seq(Item) /\ Len(Batches(c)) = file.chunks[c].n
         /\ \A k \in 1..Len(Batches(c)) : Batches(c)[k] = << c, k >>
<1>0. c \in Nat /\ file.chunks[c].n \in Nat
  BY FileFacts
<1>1. /\ Batches(c) \in Seq(Item) /\ Len(Batches(c)) = file.chunks[c].n
      /\ \A k \in 1..Len(Batches(c)) : Batches(c)[k] = << c, k >>
  BY <1>0 DEF Batches, Item
<1>2. ChunkError(c) \in Item /\ ChunkError(c)[1] = c
  BY <1>0 DEF ChunkError, Item
<1> QED
  BY <1>1, <1>2 DEF Items

LEMMA UptoZero == Upto(0) = << >>
<1> DEFINE s == [c \in 1..0 |-> Items(c)]
<1>1. s = << >> /\ Len(s) = 0
  OBVIOUS
<1> HIDE DEF s
<1>2. FlattenSeq(s) = << >>
  BY <1>1 DEF FlattenSeq
<1> QED
  BY <1>2 DEF Upto, s

LEMMA UptoNext ==
  ASSUME file \in Inputs, NEW d \in Nat, d + 1 <= NChunks
  PROVE  Upto(d + 1) = Upto(d) \o Items(d + 1)
<1>1. \A c \in 1..d + 1 : Items(c) \in Seq(Item)
  <2>1. \A c \in 1..d + 1 : c \in 1..NChunks
    BY FileFacts
  <2> QED
    BY <2>1, ItemsType
<1> DEFINE f == [c \in 1..d + 1 |-> Items(c)]
<1>2. \A c \in 1..d + 1 : f[c] \in Seq(Item)
  BY <1>1
<1>3. /\ [c \in 1..d + 1 |-> f[c]] = [c \in 1..d + 1 |-> Items(c)]
      /\ [c \in 1..d |-> f[c]] = [c \in 1..d |-> Items(c)]
      /\ f[d + 1] = Items(d + 1)
  OBVIOUS
<1> HIDE DEF f
<1>4. FlattenSeq([c \in 1..d + 1 |-> f[c]]) = FlattenSeq([c \in 1..d |-> f[c]]) \o f[d + 1]
  BY <1>2, FlattenAppend
<1> QED
  BY <1>3, <1>4 DEF Upto

\* Of the first d chunks there are items of the chunks up to d only.
LEMMA UptoType ==
  ASSUME file \in Inputs, NEW d \in 0..NChunks
  PROVE  Upto(d) \in Seq(Item) /\ \A k \in 1..Len(Upto(d)) : Upto(d)[k][1] \in 1..d
<1> DEFINE Good(e) == Upto(e) \in Seq(Item) /\ \A k \in 1..Len(Upto(e)) : Upto(e)[k][1] \in 1..e
           K == {e \in Nat : e <= NChunks => Good(e)}
<1>1. 0 \in K
  <2>1. << >> \in Seq(Item) /\ Len(<< >>) = 0
    OBVIOUS
  <2>2. Upto(0) \in Seq(Item) /\ Len(Upto(0)) = 0
    BY <2>1, UptoZero
  <2> QED
    BY <2>2
<1>2. ASSUME NEW e \in K PROVE e + 1 \in K
  <2>1. e \in Nat
    BY <1>2
  <2>2. SUFFICES ASSUME e + 1 <= NChunks PROVE Good(e + 1)
    BY <2>1
  <2>3. Upto(e + 1) = Upto(e) \o Items(e + 1)
    BY <2>1, <2>2, UptoNext
  <2>4. Good(e)
    BY <1>2, <2>1, <2>2, FileFacts
  <2>5. /\ e + 1 \in 1..NChunks /\ Items(e + 1) \in Seq(Item)
        /\ \A k \in 1..Len(Items(e + 1)) : Items(e + 1)[k][1] = e + 1
    BY <2>1, <2>2, FileFacts, ItemsType
  <2>6. Joins(Upto(e + 1), Upto(e), Items(e + 1))
    BY <2>3, <2>4, <2>5, ConcatJoins
  <2>7. Upto(e + 1) \in Seq(Item)
    <3> HIDE DEF K
    <3>1. \A s \in Seq(Item), t \in Seq(Item) : s \o t \in Seq(Item)
      OBVIOUS
    <3>2. Upto(e) \in Seq(Item) /\ Items(e + 1) \in Seq(Item)
      BY <2>4, <2>5
    <3> HIDE DEF Good
    <3> QED
      BY <2>3, <3>1, <3>2
  <2>8. ASSUME NEW k \in 1..Len(Upto(e + 1)) PROVE Upto(e + 1)[k][1] \in 1..e + 1
    <3>1. CASE k <= Len(Upto(e))
      <4>1. k \in 1..Len(Upto(e)) /\ Upto(e + 1)[k] = Upto(e)[k]
        BY <2>6, <2>8, <3>1 DEF Joins
      <4> QED
        BY <2>1, <2>4, <4>1
    <3>2. CASE ~(k <= Len(Upto(e)))
      <4>1. /\ k - Len(Upto(e)) \in 1..Len(Items(e + 1))
            /\ Upto(e + 1)[k] = Items(e + 1)[k - Len(Upto(e))]
        BY <2>6, <2>8, <3>2 DEF Joins
      <4> QED
        BY <2>1, <2>5, <4>1
    <3> QED
      BY <3>1, <3>2
  <2> QED
    BY <2>7, <2>8
<1>3. K \in SUBSET Nat
  OBVIOUS
<1> HIDE DEF K
<1>4. d \in K /\ d <= NChunks /\ d \in Nat
  BY <1>1, <1>2, <1>3, NatSetInduction, FileFacts
<1> QED
  BY <1>4 DEF K

LEMMA UptoExtends ==
  ASSUME file \in Inputs, NEW d \in 0..NChunks, NEW e \in d..NChunks
  PROVE  \E s \in Seq(Item) : Upto(e) = Upto(d) \o s
<1> DEFINE Good(i) == \E s \in Seq(Item) : Upto(d + i) = Upto(d) \o s
           K == {i \in Nat : d + i <= NChunks => Good(i)}
<1>0. d \in Nat /\ NChunks \in Nat /\ Upto(d) \in Seq(Item) /\ e - d \in Nat /\ d + (e - d) = e
  BY FileFacts, UptoType
<1>1. 0 \in K
  <2>1. << >> \in Seq(Item) /\ Upto(d) = Upto(d) \o << >> /\ d + 0 = d
    BY <1>0
  <2> QED
    BY <2>1
<1>2. ASSUME NEW i \in K PROVE i + 1 \in K
  <2>1. i \in Nat
    BY <1>2
  <2>2. SUFFICES ASSUME d + (i + 1) <= NChunks PROVE Good(i + 1)
    BY <2>1
  <2>3. d + i \in Nat /\ (d + i) + 1 <= NChunks /\ d + i <= NChunks /\ (d + i) + 1 = d + (i + 1)
    BY <1>0, <2>1, <2>2
  <2>4. PICK s \in Seq(Item) : Upto(d + i) = Upto(d) \o s
    BY <1>2, <2>1, <2>3
  <2>5. Upto((d + i) + 1) = Upto(d + i) \o Items((d + i) + 1)
    BY <2>3, UptoNext
  <2>6. Items((d + i) + 1) \in Seq(Item)
    BY <1>0, <2>3, ItemsType
  <2>7. /\ s \o Items((d + i) + 1) \in Seq(Item)
        /\ (Upto(d) \o s) \o Items((d + i) + 1) = Upto(d) \o (s \o Items((d + i) + 1))
    BY <1>0, <2>4, <2>6
  <2> QED
    BY <2>3, <2>4, <2>5, <2>7
<1>3. K \in SUBSET Nat
  OBVIOUS
<1> HIDE DEF K
<1>4. e - d \in K
  BY <1>0, <1>1, <1>2, <1>3, NatSetInduction
<1> QED
  BY <1>0, <1>4 DEF K

LEMMA Prefixed ==
  ASSUME NEW s \in Seq(Item), NEW t \in Seq(Item)
  PROVE  IsPrefix(s, s \o t)
<1>1. SubSeq(s, 1, Len(s)) = SubSeq(s \o t, 1, Len(s))
  OBVIOUS
<1> QED
  BY <1>1 DEF IsPrefix

\* Every chunk that has something to deliver has its first item among the first d.
LEMMA UptoHas ==
  ASSUME file \in Inputs, NEW d \in 0..NChunks, NEW c \in 1..d, Items(c) # << >>
  PROVE  Contains(Upto(d), Items(c)[1])
<1>0. c \in 1..NChunks /\ c - 1 \in Nat /\ (c - 1) + 1 = c /\ c \in 0..NChunks /\ d \in c..NChunks
      /\ c - 1 \in 0..NChunks
  BY FileFacts
<1>1. Upto(c) = Upto(c - 1) \o Items(c)
  <2>0. c - 1 \in Nat /\ (c - 1) + 1 <= NChunks
    BY <1>0
  <2>1. Upto((c - 1) + 1) = Upto(c - 1) \o Items((c - 1) + 1)
    BY <2>0, UptoNext
  <2> QED
    BY <1>0, <2>1
<1>2. PICK s \in Seq(Item) : Upto(d) = Upto(c) \o s
  BY <1>0, UptoExtends
<1>3. Items(c) \in Seq(Item) /\ Upto(c - 1) \in Seq(Item) /\ Upto(c) \in Seq(Item)
  BY <1>0, ItemsType, UptoType
<1>4. 1 \in 1..Len(Items(c))
  BY <1>3
<1>5. Joins(Upto(c), Upto(c - 1), Items(c)) /\ Joins(Upto(d), Upto(c), s)
  BY <1>1, <1>2, <1>3, ConcatJoins
<1>6. /\ Len(Upto(c - 1)) + 1 \in 1..Len(Upto(c)) 
      /\ Upto(c)[Len(Upto(c - 1)) + 1] = Items(c)[1]
  BY <1>4, <1>5 DEF Joins
<1>7. /\ Len(Upto(c - 1)) + 1 \in 1..Len(Upto(d))
      /\ Upto(d)[Len(Upto(c - 1)) + 1] = Items(c)[1]
  BY <1>5, <1>6 DEF Joins
<1> QED
  BY <1>7 DEF Contains


----------------------------------------------------------------------------
(***************************************************************************)
(* The inductive invariant of the chunked reader                           *)
(***************************************************************************)

Threading == {"lock", "receive", "parse", "exit"}

ChunkTypes ==
  /\ file \in Inputs
  /\ producer \in [at : {"read", "announce", "job", "failed", "done", "exit"}, chunk : 0..NChunks]
  /\ producer.at \in {"announce", "job"} => producer.chunk # 0
  /\ parser \in [Parser -> [at : Threading, chunk : 0..NChunks]]
  /\ \A p \in Parser : parser[p].at = "parse" => parser[p].chunk # 0
  /\ \A p, q \in Parser : parser[p].at = "receive" /\ parser[q].at = "receive" => p = q
  /\ jobs \in Seq(1..NChunks) /\ Len(jobs) <= ParserThreads
  /\ result \in [1..NChunks -> {"pending", "sent", "lost"}]
  /\ messages \in Seq({Chunk(c) : c \in 1..NChunks} \cup {Failed, ChunksDone})
  /\ Len(messages) <= ParserThreads
  /\ waiting \in 0..NChunks
  /\ ready \in Seq(Item) /\ c_out \in Seq(Item)
  /\ c_consumer \in {"reading", "finished", "dropped"}

Panicked == \E c \in 1..NChunks : file.chunks[c].kind = "panic"

\* While the consumer reads, a result is lost and a parser ends early only by a panic.
LossInv ==
  c_consumer = "reading" /\ ~Panicked =>
    /\ \A c \in 1..NChunks : result[c] # "lost"
    /\ \A p \in Parser : parser[p].at = "exit" => producer.at = "exit"

\* A good chunk came as an error only by a panic.
ErrorsEarned ==
  \A c \in 1..NChunks :
    Contains(c_out, ChunkError(c)) /\ file.chunks[c].kind = "ok" => Panicked

Reported == Contains(c_out, ReadError)
Whole == ~file.fails /\ producer.chunk = NChunks

\* The last chunk announced.
Announced == IF producer.at = "announce" THEN producer.chunk - 1 ELSE producer.chunk
Awaited == IF waiting = 0 THEN 0 ELSE 1

\* After its m chunks the channel holds the end, once the reading thread has got to it.
AtTheEnd(m) ==
  /\ producer.at \in {"read", "announce", "job", "failed"} => Len(messages) = m /\ ~Reported
  /\ producer.at = "done" =>
       \/ Len(messages) = m /\ (Reported \/ Whole)
       \/ Len(messages) = m + 1 /\ messages[m + 1] = Failed /\ ~Reported
  /\ producer.at = "exit" =>
       \/ Len(messages) = m + 1 /\ messages[m + 1] = ChunksDone /\ (Reported \/ Whole)
       \/ /\ Len(messages) = m + 2 /\ messages[m + 1] = Failed /\ messages[m + 2] = ChunksDone
          /\ ~Reported

\* What was handed over: the first d chunks, the last batches of the d-th still ready.
Handed(d) ==
  /\ \/ ~Reported /\ c_out \o ready = Upto(d)
     \/ Reported /\ ready = << >> /\ c_out = Append(Upto(d), ReadError)
  /\ \A i \in 1..Len(ready) : ready[i][1] = d /\ ready[i][2] # 0
  /\ \A c \in 1..d : file.chunks[c].kind # "ok" => Contains(c_out, ChunkError(c))

\* The first d chunks were handed over, one may be waited for, and the next m are
\* announced in order.
Handled(d, m) ==
  /\ waiting \in {0, d + 1} /\ (waiting # 0 => ready = << >>)
  /\ Reported => m = 0 /\ waiting = 0
  /\ Announced = d + m + Awaited
  /\ \A i \in 1..m : messages[i] = Chunk(Announced - m + i)
  /\ AtTheEnd(m)
  /\ Handed(d)

StreamInv ==
  c_consumer = "reading" => \E d \in 0..NChunks : \E m \in 0..Len(messages) : Handled(d, m)

InOrder ==
  \/ IsPrefix(c_out, Expected)
  \/ /\ c_out # << >> /\ Last(c_out) = ReadError
     /\ IsPrefix(Front(c_out), Expected)


LEMMA ParsersExist == ParserThreads \in Nat /\ ParserThreads > 0
BY ChunkParams DEF ParserThreads

LEMMA ChunkTypesInit == ChunksInit => ChunkTypes
<1> SUFFICES ASSUME ChunksInit PROVE ChunkTypes
  OBVIOUS
<1>1. file \in Inputs /\ NChunks \in Nat /\ 0 \in 0..NChunks
  BY FileFacts DEF ChunksInit
<1>2. \A S : << >> \in Seq(S) /\ Len(<< >>) = 0
  OBVIOUS
<1> QED
  BY <1>1, <1>2, ParsersExist DEF ChunksInit, ChunkTypes, Threading

LEMMA AppendTyped ==
  ASSUME NEW S, NEW s \in Seq(S), NEW x \in S
  PROVE  /\ Append(s, x) \in Seq(S) /\ Len(Append(s, x)) = Len(s) + 1 /\ Len(s) \in Nat
         /\ Append(s, x)[Len(s) + 1] = x
         /\ \A i \in 1..Len(s) : Append(s, x)[i] = s[i]
OBVIOUS

LEMMA TailTyped ==
  ASSUME NEW S, NEW s \in Seq(S), s # << >>
  PROVE  /\ Tail(s) \in Seq(S) /\ Len(Tail(s)) = Len(s) - 1 /\ Len(s) \in Nat \ {0}
         /\ Head(s) \in S /\ Head(s) = s[1]
         /\ \A i \in 1..Len(s) - 1 : Tail(s)[i] = s[i + 1]
OBVIOUS

Message == {Chunk(c) : c \in 1..NChunks} \cup {Failed, ChunksDone}

LEMMA MessageKinds ==
  /\ \A c : Chunk(c).kind = "chunk" /\ Chunk(c).chunk = c
  /\ Failed.kind = "error" /\ ChunksDone.kind = "done"
BY DEF Chunk, Failed, ChunksDone

LEMMA MessageCases ==
  ASSUME NEW m \in Message
  PROVE  /\ m.kind = "chunk" => m.chunk \in 1..NChunks /\ m = Chunk(m.chunk)
         /\ m.kind = "error" => m = Failed
         /\ m.kind = "done" => m = ChunksDone
<1>1. CASE m \in {Chunk(c) : c \in 1..NChunks}
  <2>1. PICK c \in 1..NChunks : m = Chunk(c)
    BY <1>1
  <2> QED
    BY <2>1, MessageKinds
<1>2. CASE m \in {Failed, ChunksDone}
  BY <1>2, MessageKinds
<1> QED
  BY <1>1, <1>2 DEF Message

LEMMA ChunkTypesRead ==
  ASSUME ChunkTypes, Read
  PROVE  ChunkTypes'
<1>1. file' = file /\ NChunks' = NChunks /\ NChunks \in Nat
  BY FileFacts DEF Read, ReadChunk, Announce, SendJob, ReportError, ReportDone, Report, ChunkTypes, NChunks
<1>2. messages \in Seq(Message)
  BY DEF ChunkTypes, Message
<1> DEFINE PType == [at : {"read", "announce", "job", "failed", "done", "exit"}, chunk : 0..NChunks]
<1>3. /\ producer' \in PType
      /\ producer'.at \in {"announce", "job"} => producer'.chunk # 0
  <2>1. CASE ReadChunk
    BY <1>1, <2>1 DEF ReadChunk, ChunkTypes, AfterLast
  <2>2. CASE Announce
    BY <2>2 DEF Announce, ChunkTypes
  <2>3. CASE SendJob
    BY <2>3 DEF SendJob, ChunkTypes
  <2>4. CASE ReportError \/ ReportDone
    BY <2>4 DEF ReportError, ReportDone, Report, ChunkTypes
  <2> QED
    BY <2>1, <2>2, <2>3, <2>4 DEF Read
<1>4. messages' \in Seq(Message) /\ Len(messages') <= ParserThreads
  <2>1. CASE UNCHANGED messages
    BY <1>2, <2>1 DEF ChunkTypes
  <2>2. CASE \E m \in Message : messages' = Append(messages, m) /\ Len(messages) < ParserThreads
    BY <1>2, <2>2, AppendTyped, ParsersExist
  <2>3. ASSUME Announce PROVE UNCHANGED messages \/
              \E m \in Message : messages' = Append(messages, m) /\ Len(messages) < ParserThreads
    <3>1. producer.at = "announce" => producer.chunk \in 1..NChunks
      BY <1>1 DEF ChunkTypes
    <3>2. producer.at = "announce" => Chunk(producer.chunk) \in Message
      BY <3>1 DEF Message
    <3> QED
      BY <2>3, <3>2 DEF Announce
  <2>4. Failed \in Message /\ ChunksDone \in Message
    BY DEF Message
  <2>5. ASSUME ReportError \/ ReportDone PROVE UNCHANGED messages \/
              \E m \in Message : messages' = Append(messages, m) /\ Len(messages) < ParserThreads
    BY <2>4, <2>5 DEF ReportError, ReportDone, Report
  <2> QED
    BY <2>1, <2>2, <2>3, <2>5 DEF Read, ReadChunk, SendJob
<1>5. /\ jobs' \in Seq(1..NChunks) /\ Len(jobs') <= ParserThreads
      /\ result' \in [1..NChunks -> {"pending", "sent", "lost"}]
  <2>1. CASE SendJob
    <3>1. producer.chunk \in 1..NChunks /\ jobs \in Seq(1..NChunks)
      BY <1>1, <2>1 DEF SendJob, ChunkTypes
    <3>2. Append(jobs, producer.chunk) \in Seq(1..NChunks)
          /\ Len(Append(jobs, producer.chunk)) = Len(jobs) + 1 /\ Len(jobs) \in Nat
      BY <3>1, AppendTyped
    <3>3. CASE jobs' = jobs
      BY <2>1, <3>1, <3>3 DEF SendJob, ChunkTypes
    <3>4. CASE Len(jobs) < ParserThreads /\ jobs' = Append(jobs, producer.chunk)
               /\ result' = result
      BY <3>2, <3>4, ParsersExist DEF ChunkTypes
    <3> QED
      BY <2>1, <3>3, <3>4 DEF SendJob
  <2>2. CASE UNCHANGED << jobs, result >>
    BY <2>2 DEF ChunkTypes
  <2> QED
    BY <2>1, <2>2 DEF Read, ReadChunk, Announce, ReportError, ReportDone, Report
<1>6. UNCHANGED << parser, waiting, ready, c_out, c_consumer >>
  BY DEF Read, ReadChunk, Announce, SendJob, ReportError, ReportDone, Report
<1>7. Message' = Message
  BY <1>1 DEF Message
<1> QED
  BY <1>1, <1>3, <1>4, <1>5, <1>6, <1>7 DEF ChunkTypes, Message

LEMMA DropJobsTyped ==
  ASSUME ChunkTypes, NEW ps, NEW res \in [1..NChunks -> {"pending", "sent", "lost"}],
         DropJobs(ps, res)
  PROVE  /\ jobs' = jobs \/ jobs' = << >>
         /\ result' \in [1..NChunks -> {"pending", "sent", "lost"}]
BY DEF DropJobs

LEMMA ChunkTypesWork ==
  ASSUME ChunkTypes, NEW p \in Parser, Work(p)
  PROVE  ChunkTypes'
<1>1. /\ UNCHANGED << file, producer, messages, ready, waiting, c_out, c_consumer >>
      /\ NChunks' = NChunks /\ NChunks \in Nat
  BY FileFacts DEF Work, Lock, ReceiveJob, Parse, ChunkTypes, NChunks
<1> DEFINE PType == [at : Threading, chunk : 0..NChunks]
<1>2. /\ parser' \in [Parser -> PType]
      /\ \A q \in Parser : parser'[q].at = "parse" => parser'[q].chunk # 0
      /\ \A q, r \in Parser : parser'[q].at = "receive" /\ parser'[r].at = "receive" => q = r
  <2>1. ASSUME NEW x \in PType, parser' = [parser EXCEPT ![p] = x],
               x.at = "parse" => x.chunk # 0,
               x.at = "receive" => \A q \in Parser : parser[q].at # "receive"
        PROVE  <1>2
    BY <2>1 DEF ChunkTypes
  <2>2. ASSUME NEW a \in Threading, a # "parse", parser' = [parser EXCEPT ![p].at = a],
               a = "receive" => \A q \in Parser : parser[q].at # "receive"
        PROVE  <1>2
    <3>1. parser[p] \in PType /\ DOMAIN parser = Parser
      BY DEF ChunkTypes
    <3>2. parser'[p] \in PType /\ parser'[p].at = a
      BY <2>2, <3>1
    <3>3. \A q \in Parser : q # p => parser'[q] = parser[q]
      BY <2>2, <3>1
    <3>4. parser' \in [Parser -> PType]
      BY <2>2, <3>1, <3>2, <3>3 DEF ChunkTypes
    <3> QED
      BY <2>2, <3>2, <3>3, <3>4 DEF ChunkTypes
  <2>3. CASE Lock(p)
    BY <2>2, <2>3 DEF Lock, Threading
  <2>4. CASE ReceiveJob(p)
    <3>1. CASE jobs # << >> /\ parser' = [parser EXCEPT ![p] = [at |-> "parse", chunk |-> Head(jobs)]]
      <4>1. Head(jobs) \in 1..NChunks
        BY <3>1, TailTyped DEF ChunkTypes
      <4>2. PICK x : x = [at |-> "parse", chunk |-> Head(jobs)]
        OBVIOUS
      <4>3. x \in PType /\ x.at = "parse" /\ x.chunk # 0
        BY <1>1, <4>1, <4>2 DEF Threading
      <4> QED
        BY <2>1, <3>1, <4>2, <4>3
    <3>2. CASE parser' = [parser EXCEPT ![p].at = "exit"]
      BY <2>2, <3>2 DEF Threading
    <3> QED
      BY <2>4, <3>1, <3>2 DEF ReceiveJob
  <2>5. CASE Parse(p)
    <3>1. PICK a \in {"exit", "lock"} : parser' = [parser EXCEPT ![p].at = a]
      BY <2>5 DEF Parse
    <3> QED
      BY <2>2, <3>1 DEF Threading
  <2> QED
    BY <2>3, <2>4, <2>5 DEF Work
<1>3. /\ jobs' \in Seq(1..NChunks) /\ Len(jobs') <= ParserThreads
      /\ result' \in [1..NChunks -> {"pending", "sent", "lost"}]
  <2>1. ASSUME result' \in [1..NChunks -> {"pending", "sent", "lost"}],
               jobs' = jobs \/ jobs' = << >> \/ (jobs # << >> /\ jobs' = Tail(jobs))
        PROVE  <1>3
    <3>1. jobs # << >> => Tail(jobs) \in Seq(1..NChunks) /\ Len(Tail(jobs)) <= ParserThreads
      <4>1. ASSUME jobs # << >>
            PROVE  Tail(jobs) \in Seq(1..NChunks) /\ Len(Tail(jobs)) = Len(jobs) - 1 /\ Len(jobs) \in Nat
        BY <4>1, TailTyped DEF ChunkTypes
      <4> QED
        BY <4>1, ParsersExist DEF ChunkTypes
    <3>2. << >> \in Seq(1..NChunks) /\ Len(<< >>) <= ParserThreads
      BY ParsersExist
    <3> QED
      BY <2>1, <3>1, <3>2 DEF ChunkTypes
  <2>2. CASE Lock(p)
    BY <2>1, <2>2 DEF Lock, ChunkTypes
  <2>3. CASE ReceiveJob(p)
    BY <2>1, <2>3, DropJobsTyped DEF ReceiveJob, ChunkTypes
  <2>4. CASE Parse(p)
    <3>1. PICK r \in {"lost", "sent"} : DropJobs(parser', [result EXCEPT ![parser[p].chunk] = r])
      BY <2>4 DEF Parse
    <3>2. [result EXCEPT ![parser[p].chunk] = r] \in [1..NChunks -> {"pending", "sent", "lost"}]
      BY DEF ChunkTypes
    <3> QED
      BY <2>1, <3>1, <3>2, DropJobsTyped
  <2> QED
    BY <2>2, <2>3, <2>4 DEF Work
<1> QED
  BY <1>1, <1>2, <1>3 DEF ChunkTypes

LEMMA ChunkTypesConsume ==
  ASSUME ChunkTypes, Consume \/ DropConsumer
  PROVE  ChunkTypes'
<1>1. /\ UNCHANGED << file, producer, jobs, parser, result >>
      /\ NChunks' = NChunks /\ NChunks \in Nat
  BY FileFacts DEF Consume, NextReady, NextMessage, NextResult, DropConsumer, ChunkTypes, NChunks
<1>2. Message' = Message /\ messages \in Seq(Message)
  BY <1>1 DEF Message, ChunkTypes
<1>3. messages' \in Seq(Message) /\ Len(messages') <= ParserThreads
  <2>1. ASSUME messages # << >>
        PROVE  Tail(messages) \in Seq(Message) /\ Len(Tail(messages)) <= ParserThreads
    <3>1. Tail(messages) \in Seq(Message) /\ Len(Tail(messages)) = Len(messages) - 1 /\ Len(messages) \in Nat
      BY <1>2, <2>1, TailTyped
    <3> QED
      BY <3>1, ParsersExist DEF ChunkTypes
  <2>2. << >> \in Seq(Message) /\ Len(<< >>) <= ParserThreads
    BY ParsersExist
  <2>3. messages' \in {messages, << >>} \/ (messages # << >> /\ messages' = Tail(messages))
    BY DEF Consume, NextReady, NextMessage, NextResult, DropConsumer
  <2> QED
    BY <1>2, <2>1, <2>2, <2>3 DEF ChunkTypes
<1>4. /\ waiting' \in 0..NChunks
      /\ ready' \in Seq(Item) /\ c_out' \in Seq(Item)
      /\ c_consumer' \in {"reading", "finished", "dropped"}
  <2>0. << >> \in Seq(Item) /\ 0 \in 0..NChunks
    BY <1>1
  <2>1. CASE NextReady
    <3>1. Head(ready) \in Item /\ Tail(ready) \in Seq(Item)
      BY <2>1, TailTyped DEF NextReady, ChunkTypes
    <3>2. Append(c_out, Head(ready)) \in Seq(Item)
      BY <3>1, AppendTyped DEF ChunkTypes
    <3> QED
      BY <2>1, <3>1, <3>2 DEF NextReady, Give, ChunkTypes
  <2>2. CASE NextMessage
    <3>1. Head(messages) \in Message /\ (Head(messages).kind = "chunk" => Head(messages).chunk \in 0..NChunks)
      BY <1>1, <1>2, <2>2, TailTyped, MessageCases DEF NextMessage
    <3>2. Append(c_out, ReadError) \in Seq(Item)
      <4>1. ReadError \in Item
        BY DEF ReadError, Item
      <4> QED
        BY <4>1, AppendTyped DEF ChunkTypes
    <3> QED
      BY <2>2, <3>1, <3>2 DEF NextMessage, Give, ChunkTypes
  <2>3. CASE NextResult
    <3>1. waiting \in 1..NChunks
      BY <1>1, <2>3 DEF NextResult, ChunkTypes
    <3>2. Batches(waiting) \in Seq(Item)
      BY <3>1, ItemsType DEF ChunkTypes
    <3>3. ChunkError(waiting) \in Item
      BY <3>1, <1>1 DEF ChunkError, Item
    <3>4. ready \o Batches(waiting) \in Seq(Item) /\ Append(c_out, ChunkError(waiting)) \in Seq(Item)
      BY <3>2, <3>3, AppendTyped DEF ChunkTypes
    <3> QED
      BY <2>0, <2>3, <3>4 DEF NextResult, Give, ChunkTypes
  <2>4. CASE DropConsumer
    BY <2>0, <2>4 DEF DropConsumer, ChunkTypes
  <2> QED
    BY <2>1, <2>2, <2>3, <2>4 DEF Consume
<1> QED
  BY <1>1, <1>2, <1>3, <1>4 DEF ChunkTypes, Message

LEMMA ChunkTypesStay == ChunkTypes /\ UNCHANGED c_vars => ChunkTypes'
<1> SUFFICES ASSUME ChunkTypes, UNCHANGED c_vars PROVE ChunkTypes'
  OBVIOUS
<1>1. UNCHANGED << file, producer, messages, jobs, parser, result, ready, waiting, c_out, c_consumer >>
      /\ NChunks' = NChunks
  BY DEF c_vars, NChunks
<1> QED
  BY <1>1 DEF ChunkTypes

LEMMA ChunkTypesNext == ChunkTypes /\ [ChunksNext]_c_vars => ChunkTypes'
BY ChunkTypesRead, ChunkTypesWork, ChunkTypesConsume, ChunkTypesStay
   DEF ChunksNext, ChunksTerminated

LEMMA SpecChunkTypes == ChunksSpec => []ChunkTypes
BY ChunkTypesInit, ChunkTypesNext, PTL DEF ChunksSpec

\* The chunked reader's state is well typed: chunk numbers stay within the file, neither
\* channel holds more than its bound, and one parser at a time holds the queue's lock.
THEOREM ChunksTypeCorrect == ChunksSpec => []ChunksTypeOK
<1>1. ChunkTypes => ChunksTypeOK
  BY DEF ChunkTypes, ChunksTypeOK, Threading
<1> QED
  BY <1>1, SpecChunkTypes, PTL

----------------------------------------------------------------------------
(***************************************************************************)
(* Chunks: lost results and errors                                         *)
(***************************************************************************)

LEMMA LossInvNext == ChunkTypes /\ LossInv /\ [ChunksNext]_c_vars => LossInv'
<1> SUFFICES ASSUME ChunkTypes, LossInv, [ChunksNext]_c_vars PROVE LossInv'
  OBVIOUS
<1>0. file' = file
  BY DEF ChunksNext, Read, Work, Consume, ReadChunk, Announce, SendJob, ReportError, ReportDone,
         Report, Lock, ReceiveJob, Parse, NextReady, NextMessage, NextResult, DropConsumer,
         ChunksTerminated, c_vars
<1> SUFFICES ASSUME c_consumer' = "reading", ~Panicked'
             PROVE  /\ \A c \in 1..NChunks : result'[c] # "lost"
                    /\ \A p \in Parser : parser'[p].at = "exit" => producer'.at = "exit"
  <2>1. NChunks' = NChunks
    BY <1>0 DEF NChunks
  <2> QED
    BY <2>1 DEF LossInv
<1>1. file' = file /\ c_consumer = "reading"
  BY <1>0 DEF ChunksNext, Read, Work, Consume, ReadChunk, Announce, SendJob, ReportError, ReportDone,
         Report, Lock, ReceiveJob, Parse, NextReady, NextMessage, NextResult, DropConsumer,
         ChunksTerminated, c_vars
<1>2. ~Panicked
  BY <1>1 DEF Panicked, NChunks
<1>3. /\ \A c \in 1..NChunks : result[c] # "lost"
      /\ \A p \in Parser : parser[p].at = "exit" => producer.at = "exit"
  BY <1>1, <1>2 DEF LossInv
<1>4. CASE UNCHANGED << producer, parser, result >>
  BY <1>3, <1>4
<1>5. CASE Read
  <2>1. producer.at # "exit"
    BY <1>5 DEF Read, ReadChunk, Announce, SendJob, ReportError, ReportDone, Report
  <2>2. UNCHANGED parser
    BY <1>5 DEF Read, ReadChunk, Announce, SendJob, ReportError, ReportDone, Report
  <2>3. 1 \in Parser
    BY ParsersExist DEF Parser
  <2>4. ~ParsersGone(parser)
    BY <1>3, <2>1, <2>3 DEF ParsersGone
  <2>5. UNCHANGED result
    BY <1>5, <2>4 DEF Read, ReadChunk, Announce, SendJob, ReportError, ReportDone, Report
  <2> QED
    BY <1>3, <2>1, <2>2, <2>5
<1>6. ASSUME NEW p \in Parser, Work(p)
      PROVE  /\ \A c \in 1..NChunks : result'[c] # "lost"
             /\ \A q \in Parser : parser'[q].at = "exit" => producer'.at = "exit"
  <2>1. DOMAIN parser = Parser /\ parser[p] \in [at : Threading, chunk : 0..NChunks]
    BY DEF ChunkTypes
  <2>2. CASE Lock(p)
    BY <1>3, <2>1, <2>2 DEF Lock
  <2>3. CASE ReceiveJob(p)
    <3>1. CASE jobs # << >> /\ UNCHANGED result
      BY <1>3, <2>1, <2>3, <3>1 DEF ReceiveJob
    <3>2. CASE jobs = << >> /\ producer.at = "exit" /\ DropJobs(parser', result)
      <4>0. DOMAIN jobs = {}
        BY <3>2
      <4>1. \A c \in 1..NChunks : result'[c] = result[c]
        BY <3>2, <4>0 DEF DropJobs, ChunkTypes
      <4> QED
        BY <1>3, <2>3, <3>2, <4>1 DEF ReceiveJob
    <3> QED
      BY <2>3, <3>1, <3>2 DEF ReceiveJob
  <2>4. CASE Parse(p)
    <3>1. parser[p].chunk \in 1..NChunks
      BY <2>1, <2>4 DEF Parse, ChunkTypes
    <3>2. file.chunks[parser[p].chunk].kind # "panic" /\ ~ConsumerGone
      BY <1>1, <1>2, <3>1 DEF Panicked, ConsumerGone
    <3>3. /\ parser' = [parser EXCEPT ![p].at = "lock"] /\ producer' = producer
          /\ DropJobs(parser', [result EXCEPT ![parser[p].chunk] = "sent"])
      BY <2>4, <3>2 DEF Parse
    <3>4. parser'[p].at = "lock" /\ \A q \in Parser : q # p => parser'[q] = parser[q]
      BY <2>1, <3>3
    <3>5. result' = [result EXCEPT ![parser[p].chunk] = "sent"]
      BY <3>3, <3>4 DEF DropJobs, ParsersGone
    <3> QED
      BY <1>3, <3>3, <3>4, <3>5 DEF ChunkTypes
  <2> QED
    BY <1>6, <2>2, <2>3, <2>4 DEF Work
<1>7. CASE Consume \/ DropConsumer \/ ChunksTerminated \/ UNCHANGED c_vars
  BY <1>4, <1>7 DEF Consume, NextReady, NextMessage, NextResult, DropConsumer, ChunksTerminated, c_vars
<1> QED
  BY <1>5, <1>6, <1>7 DEF ChunksNext

LEMMA ContainsAppend ==
  ASSUME NEW S, NEW s \in Seq(S), NEW x \in S
  PROVE  \A y : Contains(Append(s, x), y) <=> Contains(s, y) \/ x = y
<1> SUFFICES ASSUME NEW y PROVE Contains(Append(s, x), y) <=> Contains(s, y) \/ x = y
  OBVIOUS
<1> DEFINE t == Append(s, x)
<1>1. /\ Len(t) = Len(s) + 1 /\ Len(s) \in Nat /\ t[Len(s) + 1] = x
      /\ \A i \in 1..Len(s) : t[i] = s[i]
  BY AppendTyped
<1> HIDE DEF t
<1>2. ASSUME Contains(s, y) \/ x = y PROVE Contains(t, y)
  <2>1. CASE x = y
    <3>1. Len(s) + 1 \in 1..Len(t) /\ t[Len(s) + 1] = y
      BY <1>1, <2>1
    <3> QED
      BY <3>1 DEF Contains
  <2>2. CASE Contains(s, y)
    BY <1>1, <2>2 DEF Contains
  <2> QED
    BY <1>2, <2>1, <2>2
<1>3. ASSUME Contains(t, y), x # y PROVE Contains(s, y)
  BY <1>1, <1>3 DEF Contains
<1> QED
  BY <1>2, <1>3 DEF t

\* Items of a batch are no errors, and errors of chunks and of reading differ.
LEMMA ItemFacts ==
  /\ ReadError \in Item /\ ReadError[1] = 0 /\ ReadError[2] = 0
  /\ \A c \in Nat : ChunkError(c) \in Item /\ ChunkError(c)[1] = c /\ ChunkError(c)[2] = 0
BY DEF ReadError, ChunkError, Item

\* The result waited for.
LEMMA AwaitedResult ==
  ASSUME ChunkTypes, LossInv, NextResult
  PROVE  /\ waiting \in 1..NChunks
         /\ ~(result[waiting] = "sent" /\ file.chunks[waiting].kind = "ok") =>
              (file.chunks[waiting].kind = "ok" => Panicked)
<1>1. waiting \in 1..NChunks
  BY FileFacts DEF NextResult, ChunkTypes
<1>2. result[waiting] \in {"sent", "lost"}
  BY <1>1 DEF NextResult, ChunkTypes
<1> QED
  BY <1>1, <1>2 DEF LossInv, NextResult

LEMMA FrameConsume ==
  ASSUME Consume \/ DropConsumer
  PROVE  /\ UNCHANGED << file, producer, jobs, parser, result >>
         /\ NChunks' = NChunks /\ Panicked' = Panicked
<1>1. UNCHANGED << file, producer, jobs, parser, result >>
  BY DEF Consume, NextReady, NextMessage, NextResult, DropConsumer
<1> QED
  BY <1>1 DEF NChunks, Panicked

LEMMA ErrorsEarnedNext ==
  ASSUME ChunkTypes, LossInv, ErrorsEarned, StreamInv, [ChunksNext]_c_vars
  PROVE  ErrorsEarned'
<1>1. CASE UNCHANGED << file, c_out >>
  <2>1. NChunks' = NChunks /\ Panicked' = Panicked
    BY <1>1 DEF NChunks, Panicked
  <2> QED
    BY <1>1, <2>1 DEF ErrorsEarned, ChunkError
<1>2. ASSUME NEW x \in Item, c_out' = Append(c_out, x), file' = file,
             \A c \in 1..NChunks : x = ChunkError(c) /\ file.chunks[c].kind = "ok" => Panicked
      PROVE  ErrorsEarned'
  <2>1. NChunks' = NChunks /\ Panicked' = Panicked
    BY <1>2 DEF NChunks, Panicked
  <2>2. \A y : Contains(c_out', y) <=> Contains(c_out, y) \/ x = y
    BY <1>2, ContainsAppend DEF ChunkTypes
  <2> QED
    BY <1>2, <2>1, <2>2 DEF ErrorsEarned, ChunkError
<1>3. CASE NextReady
  <2>1. PICK d \in 0..NChunks, m \in 0..Len(messages) : Handled(d, m)
    BY <1>3 DEF NextReady, StreamInv
  <2>2. Head(ready) \in Item /\ Head(ready)[2] # 0
    <3>1. Head(ready) = ready[1] /\ Head(ready) \in Item /\ Len(ready) \in Nat \ {0}
      BY <1>3, TailTyped DEF NextReady, ChunkTypes
    <3> QED
      BY <2>1, <3>1 DEF Handled, Handed
  <2>3. \A c \in 1..NChunks : Head(ready) # ChunkError(c)
    BY <2>2, FileFacts, ItemFacts DEF ChunkTypes
  <2> QED
    BY <1>2, <1>3, <2>2, <2>3 DEF NextReady, Give
<1>4. CASE NextMessage
  <2>1. \A c \in 1..NChunks : ReadError # ChunkError(c)
    BY FileFacts, ItemFacts DEF ChunkTypes
  <2> QED
    BY <1>1, <1>2, <1>4, <2>1, ItemFacts DEF NextMessage, Give
<1>5. CASE NextResult
  <2>1. /\ waiting \in 1..NChunks /\ waiting \in Nat
        /\ ~(result[waiting] = "sent" /\ file.chunks[waiting].kind = "ok") =>
             (file.chunks[waiting].kind = "ok" => Panicked)
    BY <1>5, AwaitedResult, FileFacts DEF ChunkTypes
  <2>2. CASE UNCHANGED c_out
    BY <1>1, <1>5, <2>2 DEF NextResult
  <2>3. CASE c_out' = Append(c_out, ChunkError(waiting))
             /\ ~(result[waiting] = "sent" /\ file.chunks[waiting].kind = "ok")
    <3>1. \A c \in 1..NChunks : ChunkError(waiting) = ChunkError(c) => c = waiting
      BY <2>1, FileFacts, ItemFacts DEF ChunkTypes
    <3>2. ChunkError(waiting) \in Item /\ file' = file
      BY <1>5, <2>1, ItemFacts DEF NextResult
    <3> QED
      BY <1>2, <2>1, <2>3, <3>1, <3>2
  <2> QED
    BY <1>5, <2>2, <2>3 DEF NextResult, Give
<1>6. CASE ~Consume
  BY <1>1, <1>6 DEF ChunksNext, Read, Work, ReadChunk, Announce, SendJob, ReportError, ReportDone,
         Report, Lock, ReceiveJob, Parse, DropConsumer, ChunksTerminated, c_vars
<1> QED
  BY <1>3, <1>4, <1>5, <1>6 DEF Consume

----------------------------------------------------------------------------
(***************************************************************************)
(* Chunks: what was handed over                                            *)
(***************************************************************************)

\* The first chunks come as before if their errors do.
LEMMA SameUpto ==
  ASSUME file' = file, NEW d \in Nat,
         \A c \in 1..d : Contains(c_out', ChunkError(c)) <=> Contains(c_out, ChunkError(c))
  PROVE  Upto(d)' = Upto(d)
<1>1. \A c : ChunkError(c)' = ChunkError(c) /\ Batches(c)' = Batches(c)
  BY DEF ChunkError, Batches
<1>2. \A c \in 1..d : Items(c)' = Items(c)
  BY <1>1 DEF Items
<1>3. [c \in 1..d |-> Items(c)'] = [c \in 1..d |-> Items(c)]
  BY <1>2
<1> QED
  BY <1>3, Zenon DEF Upto

\* What was handed over does not change with the steps of other threads.
LEMMA SameHanded ==
  ASSUME UNCHANGED << file, ready, c_out >>, NEW d \in Nat, Handed(d)
  PROVE  Handed(d)' /\ Reported' = Reported
<1>1. Upto(d)' = Upto(d)
  BY SameUpto
<1>2. Reported' = Reported /\ ReadError' = ReadError
  BY DEF Reported, ReadError
<1> QED
  BY <1>1, <1>2 DEF Handed, ChunkError

LEMMA StreamInvInit == ChunksInit => StreamInv
<1> SUFFICES ASSUME ChunksInit PROVE StreamInv
  OBVIOUS
<1>1. file \in Inputs /\ NChunks \in Nat
  BY FileFacts DEF ChunksInit
<1>2. Len(<< >>) = 0 /\ << >> \o << >> = << >>
  OBVIOUS
<1>3. ~Reported
  BY <1>2 DEF ChunksInit, Reported, Contains
<1>4. Handed(0)
  BY <1>2, <1>3, UptoZero DEF ChunksInit, Handed
<1>5. Announced = 0 /\ Awaited = 0 /\ AtTheEnd(0)
  BY <1>2, <1>3 DEF ChunksInit, Announced, Awaited, AtTheEnd
<1>6. Handled(0, 0)
  BY <1>3, <1>4, <1>5 DEF Handled, ChunksInit
<1>7. 0 \in 0..NChunks /\ 0 \in 0..Len(messages)
  BY <1>1, <1>2 DEF ChunksInit
<1> QED
  BY <1>6, <1>7 DEF StreamInv

\* The reading thread announces chunks in order and then the end.
LEMMA StreamInvRead ==
  ASSUME ChunkTypes, StreamInv, Read
  PROVE  StreamInv'
<1> SUFFICES ASSUME c_consumer' = "reading"
             PROVE  \E d \in 0..NChunks' : \E m \in 0..Len(messages') : Handled(d, m)'
  BY DEF StreamInv
<1>1. /\ UNCHANGED << file, ready, c_out, waiting, c_consumer >>
      /\ NChunks' = NChunks /\ NChunks \in Nat /\ c_consumer = "reading" /\ ~ConsumerGone
  BY FileFacts DEF Read, ReadChunk, Announce, SendJob, ReportError, ReportDone, Report, ChunkTypes,
                   NChunks, ConsumerGone
<1>2. PICK d \in 0..NChunks, m \in 0..Len(messages) : Handled(d, m)
  BY <1>1 DEF StreamInv
<1>3. /\ messages \in Seq(Message) /\ Len(messages) \in Nat
      /\ d \in Nat /\ m \in Nat /\ producer.chunk \in Nat
      /\ producer.at \in {"read", "announce", "job", "failed", "done", "exit"}
  BY <1>1 DEF ChunkTypes, Message
<1>4. Handed(d)' /\ Reported' = Reported /\ Awaited' = Awaited /\ Awaited \in {0, 1}
  BY <1>1, <1>2, <1>3, SameHanded DEF Handled, Awaited
<1>5. ASSUME NEW k \in 0..Len(messages'), Announced' = d + k + Awaited, Reported => k = 0,
             \A i \in 1..k : messages'[i] = Chunk(Announced' - k + i), AtTheEnd(k)'
      PROVE  \E e \in 0..NChunks' : \E n \in 0..Len(messages') : Handled(e, n)'
  <2>1. Handled(d, k)'
    BY <1>1, <1>2, <1>4, <1>5 DEF Handled, Chunk
  <2> QED
    BY <1>1, <1>5, <2>1
<1>6. CASE ReadChunk
  <2>1. messages' = messages /\ Len(messages) = m /\ ~Reported
    BY <1>2, <1>6 DEF ReadChunk, Handled, AtTheEnd
  <2>2. Announced' = Announced
    <3>1. CASE producer.chunk = NChunks
      BY <1>3, <1>6, <3>1 DEF ReadChunk, Announced, AfterLast, ChunkTypes
    <3>2. CASE producer.chunk # NChunks
      <4>1. producer' = [at |-> "announce", chunk |-> producer.chunk + 1]
        BY <1>6, <3>2 DEF ReadChunk
      <4> QED
        BY <1>3, <1>6, <4>1 DEF ReadChunk, Announced
    <3> QED
      BY <3>1, <3>2
  <2>3. AtTheEnd(m)'
    <3>1. CASE producer.chunk = NChunks
      <4>1. producer'.at = AfterLast /\ producer'.chunk = producer.chunk
        BY <1>3, <1>6, <3>1 DEF ReadChunk, ChunkTypes
      <4>2. file.fails \in BOOLEAN
        BY FileFacts DEF ChunkTypes
      <4> QED
        BY <1>1, <1>4, <2>1, <3>1, <4>1, <4>2 DEF AtTheEnd, AfterLast, Whole
    <3>2. CASE producer.chunk # NChunks
      <4>1. producer'.at = "announce"
        BY <1>6, <3>2 DEF ReadChunk
      <4> QED
        BY <1>4, <2>1, <4>1 DEF AtTheEnd
    <3> QED
      BY <3>1, <3>2
  <2> QED
    BY <1>2, <1>5, <2>1, <2>2, <2>3 DEF Handled
<1>7. CASE Announce
  <2>1. /\ messages' = Append(messages, Chunk(producer.chunk))
        /\ producer' = [producer EXCEPT !.at = "job"] /\ producer.at = "announce"
    BY <1>1, <1>7 DEF Announce
  <2>2. Len(messages) = m /\ ~Reported
    BY <1>2, <2>1 DEF Handled, AtTheEnd
  <2>3. producer'.at = "job" /\ producer'.chunk = producer.chunk
    BY <2>1 DEF ChunkTypes
  <2>4. Announced' = producer.chunk /\ Announced = producer.chunk - 1
    BY <2>1, <2>3 DEF Announced
  <2>5. /\ Len(messages') = m + 1 /\ messages'[m + 1] = Chunk(producer.chunk)
        /\ \A i \in 1..m : messages'[i] = messages[i]
    <3>1. Chunk(producer.chunk) \in Message
      <4>1. producer.chunk \in 1..NChunks
        BY <1>1, <2>1 DEF ChunkTypes
      <4> QED
        BY <4>1 DEF Message
    <3> QED
      BY <1>3, <2>1, <2>2, <3>1, AppendTyped
  <2>6. ASSUME NEW i \in 1..m + 1 PROVE messages'[i] = Chunk(Announced' - (m + 1) + i)
    <3>1. CASE i = m + 1
      <4>1. Announced' - (m + 1) + i = producer.chunk
        BY <1>3, <2>4, <3>1
      <4> QED
        BY <2>5, <3>1, <4>1
    <3>2. CASE i # m + 1
      <4>1. i \in 1..m /\ Announced' - (m + 1) + i = Announced - m + i
        BY <1>3, <2>4, <3>2
      <4> QED
        BY <1>2, <2>5, <4>1 DEF Handled
    <3> QED
      BY <3>1, <3>2
  <2>7. AtTheEnd(m + 1)'
    BY <1>4, <2>2, <2>3, <2>5 DEF AtTheEnd
  <2>8. m + 1 \in 0..Len(messages') /\ Announced' = d + (m + 1) + Awaited
    <3>1. Announced = d + m + Awaited
      BY <1>2 DEF Handled
    <3> QED
      BY <1>3, <1>4, <2>4, <2>5, <3>1
  <2> QED
    BY <1>5, <2>2, <2>6, <2>7, <2>8
<1>8. CASE SendJob
  <2>1. /\ messages' = messages /\ producer.at = "job"
        /\ \E a \in {"failed", "read"} : producer' = [producer EXCEPT !.at = a]
    BY <1>8 DEF SendJob
  <2>2. Len(messages) = m /\ ~Reported
    BY <1>2, <2>1 DEF Handled, AtTheEnd
  <2>3. producer'.at \in {"failed", "read"} /\ producer'.chunk = producer.chunk
    BY <2>1 DEF ChunkTypes
  <2>4. Announced' = Announced
    BY <2>1, <2>3 DEF Announced
  <2>5. AtTheEnd(m)'
    BY <1>4, <2>1, <2>2, <2>3 DEF AtTheEnd
  <2> QED
    BY <1>2, <1>5, <2>1, <2>2, <2>4, <2>5 DEF Handled
<1>9. CASE ReportError \/ ReportDone
  <2>1. PICK x \in Message : messages' = Append(messages, x)
               /\ (ReportError => x = Failed) /\ (ReportDone => x = ChunksDone)
    <3>1. Failed \in Message /\ ChunksDone \in Message
      BY DEF Message
    <3>2. ~(ReportError /\ ReportDone)
      BY DEF ReportError, ReportDone, Report
    <3> QED
      BY <1>1, <1>9, <3>1, <3>2 DEF ReportError, ReportDone, Report
  <2>2. /\ Len(messages') = Len(messages) + 1 /\ messages'[Len(messages) + 1] = x
        /\ \A i \in 1..Len(messages) : messages'[i] = messages[i]
    BY <1>3, <2>1, AppendTyped
  <2>3. /\ producer'.chunk = producer.chunk
        /\ ReportError => producer.at = "failed" /\ producer'.at = "done"
        /\ ReportDone => producer.at = "done" /\ producer'.at = "exit"
    <3>1. CASE ReportError
      BY <3>1 DEF ReportError, ReportDone, Report, ChunkTypes
    <3>2. CASE ReportDone
      BY <3>2 DEF ReportError, ReportDone, Report, ChunkTypes
    <3> QED
      BY <1>9, <3>1, <3>2
  <2>4. Announced' = Announced
    BY <1>9, <2>3 DEF Announced
  <2>5. AtTheEnd(m)'
    <3>1. CASE ReportError
      BY <1>2, <1>4, <2>1, <2>2, <2>3, <3>1 DEF AtTheEnd, Handled
    <3>2. CASE ReportDone
      <4>1. Whole' = Whole
        BY <1>1, <2>3 DEF Whole
      <4>2. CASE Len(messages) = m /\ (Reported \/ Whole)
        BY <1>4, <2>1, <2>2, <2>3, <3>2, <4>1, <4>2 DEF AtTheEnd
      <4>3. CASE Len(messages) = m + 1 /\ messages[m + 1] = Failed /\ ~Reported
        <5>1. Len(messages') = m + 2 /\ messages'[m + 1] = Failed /\ messages'[m + 2] = ChunksDone
          BY <1>3, <2>1, <2>2, <3>2, <4>3
        <5>2. Failed' = Failed /\ ChunksDone' = ChunksDone
          BY DEF Failed, ChunksDone
        <5> QED
          BY <1>4, <2>3, <3>2, <4>3, <5>1, <5>2 DEF AtTheEnd
      <4> QED
        BY <1>2, <2>3, <3>2, <4>2, <4>3 DEF AtTheEnd, Handled
    <3> QED
      BY <1>9, <3>1, <3>2
  <2>6. m \in 0..Len(messages') /\ \A i \in 1..m : messages'[i] = messages[i]
    BY <1>3, <2>2
  <2> QED
    BY <1>2, <1>5, <2>4, <2>5, <2>6 DEF Handled
<1> QED
  BY <1>6, <1>7, <1>8, <1>9 DEF Read

UptoGrows ==
  \A d \in Nat : d + 1 <= NChunks => Upto(d + 1) = Upto(d) \o Items(d + 1)

\* As a formula, whose prime is a fact too.
LEMMA UptoAlwaysGrows == file \in Inputs => UptoGrows
BY UptoNext DEF UptoGrows

\* Taking a batch that is ready.
LEMMA StreamInvReady ==
  ASSUME ChunkTypes, StreamInv, NextReady
  PROVE  StreamInv'
<1>1. /\ UNCHANGED << file, producer, messages, waiting, c_consumer >>
      /\ c_consumer = "reading" /\ ready # << >>
      /\ ready' = Tail(ready) /\ c_out' = Append(c_out, Head(ready))
  BY DEF NextReady, Give
<1>2. PICK d \in 0..NChunks, m \in 0..Len(messages) : Handled(d, m)
  BY <1>1 DEF StreamInv
<1>3. /\ Len(ready) \in Nat \ {0} /\ Head(ready) = ready[1] /\ Head(ready) \in Item
      /\ Tail(ready) \in Seq(Item) /\ Len(Tail(ready)) = Len(ready) - 1
      /\ \A i \in 1..Len(ready) - 1 : Tail(ready)[i] = ready[i + 1]
      /\ ready \in Seq(Item) /\ c_out \in Seq(Item)
  BY <1>1, TailTyped DEF ChunkTypes
<1>4. /\ NChunks \in Nat /\ NChunks' = NChunks /\ d \in Nat
      /\ \A c \in 1..d : c \in Nat
  BY <1>1, FileFacts DEF ChunkTypes, NChunks
<1>5. Head(ready)[2] # 0
  BY <1>2, <1>3 DEF Handled, Handed
<1>6. \A y : Contains(c_out', y) <=> Contains(c_out, y) \/ Head(ready) = y
  BY <1>1, <1>3, ContainsAppend
<1>7. /\ Reported' = Reported
      /\ \A c \in 1..d : Contains(c_out', ChunkError(c)) <=> Contains(c_out, ChunkError(c))
  <2>1. Head(ready) # ReadError /\ \A c \in 1..d : Head(ready) # ChunkError(c)
    BY <1>4, <1>5, ItemFacts
  <2>2. Contains(c_out', ReadError) <=> Contains(c_out, ReadError)
    BY <1>6, <2>1
  <2>3. Reported' = Reported
    BY <2>2 DEF Reported, ReadError, Contains
  <2> QED
    BY <1>6, <2>1, <2>3
<1>8. Upto(d)' = Upto(d)
  BY <1>1, <1>4, <1>7, SameUpto
<1>9. ~Reported /\ c_out \o ready = Upto(d)
  BY <1>1, <1>2 DEF Handled, Handed
<1>10. c_out' \o ready' = c_out \o ready
  BY <1>1, <1>3
<1>11. \A i \in 1..Len(ready') : ready'[i][1] = d /\ ready'[i][2] # 0
  <2> SUFFICES ASSUME NEW i \in 1..Len(ready') PROVE ready'[i][1] = d /\ ready'[i][2] # 0
    OBVIOUS
  <2>1. i + 1 \in 1..Len(ready) /\ ready'[i] = ready[i + 1]
    BY <1>1, <1>3
  <2> QED
    BY <1>2, <2>1 DEF Handled, Handed
<1>12. \A c \in 1..d : file'.chunks[c].kind # "ok" => Contains(c_out', ChunkError(c)')
  BY <1>1, <1>2, <1>7 DEF Handled, Handed, ChunkError
<1>13. Handed(d)'
  BY <1>7, <1>8, <1>9, <1>10, <1>11, <1>12 DEF Handed
<1>14. Announced' = Announced /\ Awaited' = Awaited /\ AtTheEnd(m)'
  BY <1>1, <1>2, <1>7 DEF Announced, Awaited, AtTheEnd, Handled, Whole, NChunks, Failed, ChunksDone
<1>15. waiting = 0
  BY <1>1, <1>2 DEF Handled
<1>16. Handled(d, m)'
  BY <1>1, <1>2, <1>7, <1>9, <1>13, <1>14, <1>15 DEF Handled, Chunk
<1> QED
  BY <1>1, <1>2, <1>4, <1>16 DEF StreamInv

\* Taking a message: the next chunk to wait for, an error of reading, or the end.
LEMMA StreamInvMessage ==
  ASSUME ChunkTypes, StreamInv, NextMessage
  PROVE  StreamInv'
<1> SUFFICES ASSUME c_consumer' = "reading"
             PROVE  \E d \in 0..NChunks' : \E m \in 0..Len(messages') : Handled(d, m)'
  BY DEF StreamInv
<1>1. /\ UNCHANGED << file, producer, ready >> /\ c_consumer = "reading"
      /\ ready = << >> /\ waiting = 0 /\ messages # << >> /\ messages' = Tail(messages)
      /\ NChunks \in Nat /\ NChunks' = NChunks
  BY FileFacts DEF NextMessage, ChunkTypes, NChunks
<1>2. PICK d \in 0..NChunks, m \in 0..Len(messages) : Handled(d, m)
  BY <1>1 DEF StreamInv
<1>3. /\ messages \in Seq(Message) /\ Len(messages) \in Nat \ {0} /\ Head(messages) = messages[1]
      /\ Head(messages) \in Message /\ Len(messages') = Len(messages) - 1
      /\ \A i \in 1..Len(messages) - 1 : messages'[i] = messages[i + 1]
      /\ d \in Nat /\ m \in Nat /\ producer.chunk \in Nat
      /\ producer.at \in {"read", "announce", "job", "failed", "done", "exit"}
  BY <1>1, TailTyped DEF ChunkTypes, Message
<1>4. /\ Announced' = Announced /\ Whole' = Whole /\ Announced = d + m /\ Announced \in Int
      /\ Failed' = Failed /\ ChunksDone' = ChunksDone /\ \A c : Chunk(c)' = Chunk(c)
  BY <1>1, <1>2, <1>3 DEF Announced, Whole, Handled, Awaited, Failed, ChunksDone, Chunk, NChunks
<1>5. CASE m # 0
  <2>1. messages[1] = Chunk(d + 1)
    <3>1. 1 \in 1..m /\ Announced - m + 1 = d + 1
      BY <1>3, <1>4, <1>5
    <3> QED
      BY <1>2, <3>1 DEF Handled
  <2>2. waiting' = d + 1 /\ UNCHANGED c_out
    BY <1>3, <2>1, MessageKinds DEF NextMessage
  <2>3. Handed(d)' /\ Reported' = Reported /\ ~Reported
    BY <1>1, <1>2, <1>3, <1>5, <2>2, SameHanded DEF Handled
  <2>4. m - 1 \in 0..Len(messages') /\ m - 1 \in Nat
    BY <1>3, <1>5
  <2>5. ASSUME NEW i \in 1..m - 1 PROVE messages'[i] = Chunk(Announced - (m - 1) + i)
    <3>1. i + 1 \in 1..m /\ i \in 1..Len(messages) - 1
          /\ Announced - m + (i + 1) = Announced - (m - 1) + i
      BY <1>3, <1>4, <1>5
    <3>2. messages[i + 1] = Chunk(Announced - m + (i + 1))
      BY <1>2, <3>1 DEF Handled
    <3> QED
      BY <1>3, <3>1, <3>2
  <2>6. AtTheEnd(m - 1)'
    <3>1. AtTheEnd(m)
      BY <1>2 DEF Handled
    <3>2. /\ m + 1 <= Len(messages) => messages'[(m - 1) + 1] = messages[m + 1]
          /\ m + 2 <= Len(messages) => messages'[(m - 1) + 2] = messages[m + 2]
      <4>1. /\ m + 1 <= Len(messages) => m \in 1..Len(messages) - 1 /\ (m - 1) + 1 = m
            /\ m + 2 <= Len(messages) =>
                 m + 1 \in 1..Len(messages) - 1 /\ (m - 1) + 2 = m + 1 /\ (m + 1) + 1 = m + 2
        BY <1>3, <1>5
      <4> QED
        BY <1>3, <4>1
    <3>3. \A n \in Nat : Len(messages) = m + n => Len(messages') = (m - 1) + n
      BY <1>3, <1>5
    <3>4. UNCHANGED << producer, Reported, Whole >>
      BY <1>1, <1>4, <2>3
    <3>5. CASE producer.at \in {"read", "announce", "job", "failed"}
      BY <1>3, <2>3, <3>1, <3>4, <3>5 DEF AtTheEnd
    <3>6. CASE producer.at = "done"
      <4>1. CASE Len(messages) = m /\ (Reported \/ Whole)
        BY <1>3, <3>4, <3>6, <4>1 DEF AtTheEnd
      <4>2. CASE Len(messages) = m + 1 /\ messages[m + 1] = Failed
        <5>1. Len(messages') = (m - 1) + 1 /\ messages'[(m - 1) + 1] = Failed
          BY <1>3, <3>2, <3>3, <4>2
        <5> QED
          BY <1>4, <2>3, <3>4, <3>6, <5>1 DEF AtTheEnd
      <4> QED
        BY <3>1, <3>6, <4>1, <4>2 DEF AtTheEnd
    <3>7. CASE producer.at = "exit"
      <4>1. CASE Len(messages) = m + 1 /\ messages[m + 1] = ChunksDone /\ (Reported \/ Whole)
        <5>1. Len(messages') = (m - 1) + 1 /\ messages'[(m - 1) + 1] = ChunksDone
          BY <1>3, <3>2, <3>3, <4>1
        <5> QED
          BY <1>4, <3>4, <3>7, <4>1, <5>1 DEF AtTheEnd
      <4>2. CASE Len(messages) = m + 2 /\ messages[m + 1] = Failed /\ messages[m + 2] = ChunksDone
        <5>1. Len(messages') = (m - 1) + 2 /\ messages'[(m - 1) + 1] = Failed
              /\ messages'[(m - 1) + 2] = ChunksDone
          BY <1>3, <3>2, <3>3, <4>2
        <5> QED
          BY <1>4, <2>3, <3>4, <3>7, <5>1 DEF AtTheEnd
      <4> QED
        BY <3>1, <3>7, <4>1, <4>2 DEF AtTheEnd
    <3> QED
      BY <1>3, <3>5, <3>6, <3>7
  <2>7. Awaited' = 1
    BY <1>3, <2>2 DEF Awaited
  <2>8. Announced' = d + (m - 1) + Awaited'
    BY <1>3, <1>4, <2>7
  <2>9. Handled(d, m - 1)'
    BY <1>1, <1>4, <2>2, <2>3, <2>5, <2>6, <2>8 DEF Handled
  <2> QED
    BY <1>1, <2>4, <2>9
<1>6. CASE m = 0
  <2>1. /\ messages[1] = Failed /\ ~Reported
        /\ \/ producer.at = "done" /\ Len(messages') = 0
           \/ producer.at = "exit" /\ Len(messages') = 1 /\ messages'[1] = ChunksDone
    <3>1. Head(messages) # ChunksDone
      BY MessageKinds DEF NextMessage
    <3>2. AtTheEnd(0)
      BY <1>2, <1>6 DEF Handled
    <3>3. Len(messages) # 0
      BY <1>3
    <3>4. producer.at \in {"done", "exit"}
      BY <1>3, <3>2, <3>3 DEF AtTheEnd
    <3>5. CASE producer.at = "done"
      BY <1>3, <3>2, <3>3, <3>5 DEF AtTheEnd
    <3>6. CASE producer.at = "exit"
      <4>1. Len(messages) = 2 /\ messages[1] = Failed /\ messages[2] = ChunksDone /\ ~Reported
        BY <1>3, <3>1, <3>2, <3>6 DEF AtTheEnd
      <4> QED
        BY <1>3, <3>6, <4>1
    <3> QED
      BY <3>4, <3>5, <3>6
  <2>2. waiting' = waiting /\ c_out' = Append(c_out, ReadError)
    BY <1>3, <2>1, MessageKinds DEF NextMessage, Give
  <2>3. c_out = Upto(d) /\ c_out \in Seq(Item)
    <3>1. c_out \o ready = Upto(d)
      BY <1>2, <2>1 DEF Handled, Handed
    <3> QED
      BY <1>1, <3>1 DEF ChunkTypes
  <2>4. \A y : Contains(c_out', y) <=> Contains(c_out, y) \/ ReadError = y
    BY <2>2, <2>3, ContainsAppend, ItemFacts
  <2>5. /\ Reported' 
        /\ \A c \in 1..d : Contains(c_out', ChunkError(c)) <=> Contains(c_out, ChunkError(c))
    <3>1. \A c \in 1..d : c \in Nat /\ c # 0
      BY <1>3
    <3> QED
      BY <2>4, <3>1, ItemFacts DEF Reported, ReadError
  <2>6. Upto(d)' = Upto(d) /\ ReadError' = ReadError /\ \A c : ChunkError(c)' = ChunkError(c)
    BY <1>1, <1>3, <2>5, SameUpto DEF ReadError, ChunkError
  <2>7. Len(<< >>) = 0
    OBVIOUS
  <2>8. Handed(d)'
    BY <1>1, <1>2, <2>2, <2>3, <2>5, <2>6, <2>7 DEF Handed, Handled
  <2>9. AtTheEnd(0)'
    BY <1>1, <1>4, <2>1, <2>5 DEF AtTheEnd
  <2>10. Awaited' = 0 /\ Announced' = d + 0 + 0
    BY <1>1, <1>3, <1>4, <1>6, <2>2 DEF Awaited
  <2>11. Handled(d, 0)'
    BY <1>1, <2>2, <2>8, <2>9, <2>10 DEF Handled
  <2>12. 0 \in 0..Len(messages')
    BY <2>1
  <2> QED
    BY <1>1, <2>11, <2>12
<1> QED
  BY <1>5, <1>6

\* The result of the chunk waited for: its batches, or one error in their place.
LEMMA StreamInvResult ==
  ASSUME ChunkTypes, StreamInv, NextResult
  PROVE  StreamInv'
<1>1. /\ UNCHANGED << file, producer, messages, c_consumer >>
      /\ c_consumer = "reading" /\ waiting # 0 /\ waiting' = 0
      /\ NChunks \in Nat /\ NChunks' = NChunks /\ file \in Inputs
      /\ c_out \in Seq(Item) /\ ready \in Seq(Item)
  BY FileFacts DEF NextResult, ChunkTypes, NChunks
<1>2. PICK d \in 0..NChunks, m \in 0..Len(messages) : Handled(d, m)
  BY <1>1 DEF StreamInv
<1>3. /\ waiting = d + 1 /\ waiting \in 1..NChunks /\ d \in Nat /\ d + 1 \in 0..NChunks
      /\ ready = << >> /\ ~Reported /\ m \in Nat
  BY <1>1, <1>2 DEF Handled, ChunkTypes
<1>4. c_out = Upto(d) /\ Upto(d) \in Seq(Item) /\ \A k \in 1..Len(c_out) : c_out[k][1] \in 1..d
  <2>1. c_out \o ready = Upto(d)
    BY <1>2, <1>3 DEF Handled, Handed
  <2>2. c_out = Upto(d)
    BY <1>1, <1>3, <2>1
  <2> QED
    BY <1>1, <2>2, UptoType
<1>5. ~Contains(c_out, ChunkError(d + 1))
  <2>1. \A k \in 1..Len(c_out) : c_out[k][1] # d + 1
    BY <1>3, <1>4
  <2>2. ChunkError(d + 1)[1] = d + 1
    BY <1>3, ItemFacts
  <2> QED
    BY <2>1, <2>2 DEF Contains
<1>6. /\ Announced' = d + 1 + m /\ Awaited' = 0
      /\ \A i : Chunk(Announced' - m + i) = Chunk(Announced - m + i)
      /\ \A c : Chunk(c)' = Chunk(c)
  <2>1. Announced' = Announced /\ Announced = d + m + 1
    BY <1>1, <1>2 DEF Announced, Handled, Awaited
  <2> QED
    BY <1>1, <1>3, <2>1 DEF Awaited, Chunk
<1>8. Upto(d + 1)' = Upto(d)' \o Items(d + 1)'
  <2>1. (file \in Inputs => UptoGrows)'
    BY UptoAlwaysGrows, PTL
  <2> QED
    BY <1>1, <1>3, <2>1 DEF UptoGrows
<1>9. ASSUME ~Reported', \A c \in 1..d : Contains(c_out', ChunkError(c)) <=> Contains(c_out, ChunkError(c)),
             c_out' \o ready' = Upto(d) \o Items(d + 1)',
             \A i \in 1..Len(ready') : ready'[i][1] = d + 1 /\ ready'[i][2] # 0,
             file.chunks[d + 1].kind # "ok" => Contains(c_out', ChunkError(d + 1))
      PROVE  StreamInv'
  <2>1. Upto(d)' = Upto(d)
    BY <1>1, <1>3, <1>9, SameUpto
  <2>2. \A c \in 1..d + 1 : file'.chunks[c].kind # "ok" => Contains(c_out', ChunkError(c)')
    <3>1. \A c \in 1..d : file.chunks[c].kind # "ok" => Contains(c_out, ChunkError(c))
      BY <1>2 DEF Handled, Handed
    <3>2. \A c \in 1..d + 1 : c \in 1..d \/ c = d + 1
      BY <1>3
    <3> QED
      BY <1>1, <1>9, <3>1, <3>2 DEF ChunkError
  <2>3. Handed(d + 1)'
    BY <1>8, <1>9, <2>1, <2>2 DEF Handed
  <2>4. AtTheEnd(m)'
    <3>1. AtTheEnd(m)
      BY <1>2 DEF Handled
    <3>2. Whole' = Whole /\ Failed' = Failed /\ ChunksDone' = ChunksDone
      BY <1>1 DEF Whole, NChunks, Failed, ChunksDone
    <3> QED
      BY <1>1, <1>3, <1>9, <3>1, <3>2 DEF AtTheEnd
  <2>5. Handled(d + 1, m)'
    <3>1. waiting' = 0 /\ Announced' = d + 1 + m + Awaited'
      BY <1>1, <1>3, <1>6
    <3>2. ASSUME NEW i \in 1..m PROVE messages'[i] = Chunk(Announced' - m + i)
      <4>1. messages'[i] = Chunk(Announced - m + i)
        BY <1>1, <1>2 DEF Handled
      <4>2. Chunk(Announced - m + i) = Chunk(Announced' - m + i)
        BY <1>6
      <4> QED
        BY <4>1, <4>2
    <3> QED
      BY <1>3, <1>9, <2>3, <2>4, <3>1, <3>2 DEF Handled
  <2> QED
    BY <1>1, <1>3, <2>5 DEF StreamInv
<1>10. CASE result[waiting] = "sent" /\ file.chunks[waiting].kind = "ok"
  <2>1. ready' = ready \o Batches(d + 1) /\ c_out' = c_out
    BY <1>3, <1>10 DEF NextResult
  <2>2. /\ Batches(d + 1) \in Seq(Item) /\ Batches(d + 1)' = Batches(d + 1)
        /\ \A k \in 1..Len(Batches(d + 1)) : Batches(d + 1)[k] = << d + 1, k >>
    BY <1>1, <1>3, ItemsType DEF Batches
  <2>3. ready' = Batches(d + 1)
    BY <1>3, <2>1, <2>2
  <2>4. Items(d + 1)' = Batches(d + 1)
    BY <1>5, <2>1, <2>2 DEF Items, ChunkError
  <2>5. \A i \in 1..Len(ready') : ready'[i][1] = d + 1 /\ ready'[i][2] # 0
    BY <2>2, <2>3
  <2>6. ~Reported'
    BY <1>3, <2>1 DEF Reported, ReadError
  <2> QED
    BY <1>3, <1>4, <1>9, <1>10, <2>1, <2>3, <2>4, <2>5, <2>6
<1>11. CASE ~(result[waiting] = "sent" /\ file.chunks[waiting].kind = "ok")
  <2>1. c_out' = Append(c_out, ChunkError(d + 1)) /\ ready' = << >>
    BY <1>3, <1>11 DEF NextResult, Give
  <2>2. ChunkError(d + 1) \in Item
    BY <1>3, ItemFacts
  <2>3. \A y : Contains(c_out', y) <=> Contains(c_out, y) \/ ChunkError(d + 1) = y
    BY <1>1, <2>1, <2>2, ContainsAppend
  <2>4. Contains(c_out', ChunkError(d + 1)) /\ ChunkError(d + 1)' = ChunkError(d + 1)
    BY <2>3 DEF ChunkError
  <2>5. Items(d + 1)' = << ChunkError(d + 1) >>
    BY <2>4 DEF Items
  <2>6. c_out' \o ready' = Upto(d) \o << ChunkError(d + 1) >>
    <3>1. Append(c_out, ChunkError(d + 1)) \o << >> = c_out \o << ChunkError(d + 1) >>
      BY <1>1, <2>2
    <3> QED
      BY <1>4, <2>1, <3>1
  <2>7. \A c \in 1..d : ChunkError(d + 1) # ChunkError(c)
    <3>1. \A c \in 1..d : c \in Nat /\ c # d + 1
      BY <1>3
    <3> QED
      BY <1>3, <3>1, ItemFacts
  <2>8. ~Reported'
    <3>1. ChunkError(d + 1) # ReadError
      BY <1>3, ItemFacts
    <3>2. ReadError' = ReadError
      BY DEF ReadError
    <3> QED
      BY <1>3, <2>3, <3>1, <3>2 DEF Reported
  <2>9. \A i \in 1..Len(ready') : ready'[i][1] = d + 1 /\ ready'[i][2] # 0
    <3>1. Len(ready') = 0
      BY <2>1
    <3> QED
      BY <3>1
  <2>10. \A c \in 1..d : Contains(c_out', ChunkError(c)) <=> Contains(c_out, ChunkError(c))
    BY <2>3, <2>7
  <2>11. c_out' \o ready' = Upto(d) \o Items(d + 1)'
    BY <2>5, <2>6
  <2> QED
    BY <1>9, <2>4, <2>8, <2>9, <2>10, <2>11
<1> QED
  BY <1>10, <1>11

LEMMA StreamInvNext == ChunkTypes /\ StreamInv /\ [ChunksNext]_c_vars => StreamInv'
<1> SUFFICES ASSUME ChunkTypes, StreamInv, [ChunksNext]_c_vars PROVE StreamInv'
  OBVIOUS
<1>1. CASE UNCHANGED << file, producer, messages, ready, waiting, c_out, c_consumer >>
  <2> SUFFICES ASSUME c_consumer' = "reading"
               PROVE  \E d \in 0..NChunks' : \E m \in 0..Len(messages') : Handled(d, m)'
    BY DEF StreamInv
  <2>1. PICK d \in 0..NChunks, m \in 0..Len(messages) : Handled(d, m)
    BY <1>1 DEF StreamInv
  <2>2. d \in Nat
    BY FileFacts DEF ChunkTypes
  <2>3. Handed(d)' /\ Reported' = Reported
    BY <1>1, <2>1, <2>2, SameHanded DEF Handled
  <2>4. AtTheEnd(m)' /\ Announced' = Announced /\ Awaited' = Awaited /\ NChunks' = NChunks
    BY <1>1, <2>1, <2>3 DEF AtTheEnd, Handled, Whole, NChunks, Announced, Awaited, Failed, ChunksDone
  <2>5. Handled(d, m)'
    BY <1>1, <2>1, <2>3, <2>4 DEF Handled, Chunk
  <2> QED
    BY <1>1, <2>4, <2>5
<1>2. CASE DropConsumer
  BY <1>2 DEF DropConsumer, StreamInv
<1>3. CASE (\E p \in Parser : Work(p)) \/ ChunksTerminated \/ UNCHANGED c_vars
  BY <1>1, <1>3 DEF Work, Lock, ReceiveJob, Parse, ChunksTerminated, c_vars
<1>4. CASE Read
  BY <1>4, StreamInvRead
<1>5. CASE Consume
  BY <1>5, StreamInvReady, StreamInvMessage, StreamInvResult DEF Consume
<1> QED
  BY <1>2, <1>3, <1>4, <1>5 DEF ChunksNext

----------------------------------------------------------------------------
(***************************************************************************)
(* Chunks: order, the end and what is in flight                            *)
(***************************************************************************)

OrderWhileReading == c_consumer = "reading" => InOrder

LEMMA ReadInOrder == ChunkTypes /\ StreamInv => OrderWhileReading
<1> SUFFICES ASSUME ChunkTypes, StreamInv, c_consumer = "reading" PROVE InOrder
  BY DEF OrderWhileReading
<1>1. file \in Inputs /\ c_out \in Seq(Item) /\ ready \in Seq(Item) /\ NChunks \in Nat
  BY FileFacts DEF ChunkTypes
<1>2. PICK d \in 0..NChunks, m \in 0..Len(messages) : Handled(d, m)
  BY DEF StreamInv
<1>3. NChunks \in d..NChunks /\ NChunks \in 0..NChunks
  BY <1>1
<1>4. PICK s \in Seq(Item) : Expected = Upto(d) \o s
  BY <1>1, <1>3, UptoExtends DEF Expected
<1>5. Upto(d) \in Seq(Item)
  BY <1>1, UptoType
<1>6. CASE ~Reported
  <2>1. c_out \o ready = Upto(d)
    BY <1>2, <1>6 DEF Handled, Handed
  <2>2. Expected = c_out \o (ready \o s) /\ ready \o s \in Seq(Item)
    <3>1. ready \o s \in Seq(Item) /\ (c_out \o ready) \o s = c_out \o (ready \o s)
      BY <1>1
    <3> QED
      BY <1>4, <2>1, <3>1
  <2>3. IsPrefix(c_out, Expected)
    BY <1>1, <2>2, Prefixed
  <2> QED
    BY <2>3 DEF InOrder
<1>7. CASE Reported
  <2>1. c_out = Append(Upto(d), ReadError)
    BY <1>2, <1>7 DEF Handled, Handed
  <2>2. c_out # << >> /\ Last(c_out) = ReadError /\ Front(c_out) = Upto(d)
    <3>1. /\ Len(c_out) = Len(Upto(d)) + 1 /\ Len(Upto(d)) \in Nat /\ c_out[Len(Upto(d)) + 1] = ReadError
          /\ \A i \in 1..Len(Upto(d)) : c_out[i] = Upto(d)[i]
      BY <1>5, <2>1, ItemFacts, AppendTyped
    <3>2. SubSeq(c_out, 1, Len(c_out) - 1) = Upto(d)
      BY <1>1, <1>5, <3>1
    <3> QED
      BY <3>1, <3>2 DEF Last, Front
  <2>3. IsPrefix(Upto(d), Expected)
    BY <1>4, <1>5, Prefixed
  <2> QED
    BY <2>2, <2>3 DEF InOrder
<1> QED
  BY <1>6, <1>7

\* What a consumer that has gone was given stays.
LEMMA GivenStays ==
  ASSUME [ChunksNext]_c_vars, c_consumer' # "reading"
  PROVE  UNCHANGED << file, c_out >>
BY DEF ChunksNext, Read, Work, Consume, ReadChunk, Announce, SendJob, ReportError, ReportDone,
       Report, Lock, ReceiveJob, Parse, NextReady, NextMessage, NextResult, DropConsumer,
       ChunksTerminated, c_vars, Give

LEMMA SameExpected ==
  ASSUME UNCHANGED << file, c_out >>, file \in Inputs
  PROVE  Expected' = Expected /\ ReadError' = ReadError /\ Reported' = Reported
<1>1. NChunks' = NChunks /\ NChunks \in Nat
  BY FileFacts DEF NChunks
<1>2. Upto(NChunks)' = Upto(NChunks)
  <2>1. ASSUME NEW d \in Nat PROVE Upto(d)' = Upto(d)
    BY <2>1, SameUpto
  <2> QED
    BY <1>1, <2>1 DEF Upto, Items, Batches, ChunkError
<1> QED
  BY <1>2 DEF Expected, ReadError, Reported

LEMMA InOrderNext ==
  ASSUME ChunkTypes, ChunkTypes', StreamInv, StreamInv', InOrder, [ChunksNext]_c_vars
  PROVE  InOrder'
<1>1. CASE c_consumer' = "reading"
  <2>1. (ChunkTypes /\ StreamInv => OrderWhileReading)'
    BY ReadInOrder, PTL
  <2> QED
    BY <1>1, <2>1 DEF OrderWhileReading
<1>2. CASE c_consumer' # "reading"
  <2>1. UNCHANGED << file, c_out >> /\ file \in Inputs
    BY <1>2, GivenStays DEF ChunkTypes
  <2> QED
    BY <2>1, SameExpected DEF InOrder
<1> QED
  BY <1>1, <1>2

\* The end is told when everything was handed over.
LEMMA EndIsWhole ==
  ASSUME ChunkTypes, StreamInv, c_consumer = "reading", ready = << >>, waiting = 0,
         messages # << >>, Head(messages) = ChunksDone
  PROVE  Reported \/ (~file.fails /\ c_out = Expected)
<1>1. PICK d \in 0..NChunks, m \in 0..Len(messages) : Handled(d, m)
  BY DEF StreamInv
<1>2. /\ messages \in Seq(Message) /\ Len(messages) \in Nat \ {0} /\ messages[1] = ChunksDone
      /\ NChunks \in Nat /\ d \in Nat /\ m \in Nat /\ c_out \in Seq(Item)
      /\ producer.at \in {"read", "announce", "job", "failed", "done", "exit"}
  BY TailTyped, FileFacts DEF ChunkTypes, Message
<1>3. m = 0
  <2>1. ASSUME m # 0 PROVE FALSE
    <3>1. 1 \in 1..m
      BY <1>2, <2>1
    <3>2. messages[1] = Chunk(Announced - m + 1)
      BY <1>1, <3>1 DEF Handled
    <3> QED
      BY <1>2, <3>2, MessageKinds
  <2> QED
    BY <2>1
<1>4. ChunksDone # Failed
  BY MessageKinds
<1>5. producer.at = "exit" /\ (Reported \/ Whole)
  BY <1>1, <1>2, <1>3, <1>4 DEF Handled, AtTheEnd
<1>6. ASSUME ~Reported PROVE ~file.fails /\ c_out = Expected
  <2>1. Whole
    BY <1>5, <1>6
  <2>2. d = NChunks
    <3>1. Announced = d
      BY <1>1, <1>2, <1>3 DEF Handled, Awaited
    <3> QED
      BY <1>5, <2>1, <3>1 DEF Announced, Whole
  <2>3. c_out \o << >> = Upto(d)
    BY <1>1, <1>6 DEF Handled, Handed
  <2>4. c_out \o << >> = c_out
    BY <1>2
  <2> QED
    BY <2>1, <2>2, <2>3, <2>4 DEF Whole, Expected
<1> QED
  BY <1>6

LEMMA NeverTruncatedNext ==
  ASSUME ChunkTypes, StreamInv, NeverTruncated, [ChunksNext]_c_vars
  PROVE  NeverTruncated'
<1> SUFFICES ASSUME c_consumer' = "finished"
             PROVE  Contains(c_out', ReadError') \/ (~file'.fails /\ c_out' = Expected')
  BY DEF NeverTruncated
<1>1. UNCHANGED << file, c_out >> /\ file \in Inputs
  BY GivenStays DEF ChunkTypes
<1>2. Expected' = Expected /\ ReadError' = ReadError
  BY <1>1, SameExpected
<1>3. CASE c_consumer = "finished"
  BY <1>1, <1>2, <1>3 DEF NeverTruncated
<1>4. CASE c_consumer # "finished"
  <2>1. NextMessage /\ Head(messages).kind = "done"
    BY <1>4 DEF ChunksNext, Read, Work, Consume, ReadChunk, Announce, SendJob, ReportError, ReportDone,
       Report, Lock, ReceiveJob, Parse, NextReady, NextMessage, NextResult, DropConsumer,
       ChunksTerminated, c_vars
  <2>2. Head(messages) = ChunksDone
    <3>1. messages \in Seq(Message) /\ messages # << >>
      BY <2>1 DEF NextMessage, ChunkTypes, Message
    <3> QED
      BY <2>1, <3>1, TailTyped, MessageCases
  <2>3. Reported \/ (~file.fails /\ c_out = Expected)
    BY <2>1, <2>2, EndIsWhole DEF NextMessage
  <2> QED
    BY <1>1, <1>2, <2>3 DEF Reported
<1> QED
  BY <1>3, <1>4

LEMMA InFlight == ChunkTypes /\ StreamInv => ChunksInFlight
<1> SUFFICES ASSUME ChunkTypes, StreamInv, NEW c \in 1..NChunks, c <= producer.chunk, c_consumer = "reading",
                    ~(file.chunks[c].kind = "ok" /\ file.chunks[c].n = 0),
                    ~(producer.chunk - c <= ParserThreads + 1)
             PROVE  Contains(c_out, << c, 0 >>) \/ Contains(c_out, << c, 1 >>)
  BY DEF ChunksInFlight, ConsumerGone
<1>1. PICK d \in 0..NChunks, m \in 0..Len(messages) : Handled(d, m)
  BY DEF StreamInv
<1>2. /\ NChunks \in Nat /\ d \in Nat /\ m \in Nat /\ m <= ParserThreads /\ c \in Nat
      /\ producer.chunk \in Nat /\ file \in Inputs /\ ParserThreads \in Nat
      /\ c_out \in Seq(Item) /\ ready \in Seq(Item)
      /\ file.chunks[c].kind \in {"ok", "err", "panic"} /\ file.chunks[c].n \in Nat
  <2>1. messages \in Seq(Message)
    BY DEF ChunkTypes, Message
  <2>2. Len(messages) \in Nat /\ Len(messages) <= ParserThreads
    BY <2>1 DEF ChunkTypes
  <2> QED
    BY <2>2, FileFacts, ParsersExist DEF ChunkTypes
<1>3. /\ Announced = d + m + Awaited /\ Awaited \in {0, 1}
      /\ Announced \in {producer.chunk, producer.chunk - 1}
      /\ Awaited # 0 => ready = << >>
  BY <1>1 DEF Handled, Awaited, Announced
<1>4. c <= d /\ (c = d => ready = << >>)
  BY <1>2, <1>3
<1>5. c \in 1..d
  BY <1>2, <1>4
<1>6. /\ Items(c) # << >> /\ Items(c)[1] \in {<< c, 0 >>, << c, 1 >>}
  <2>1. CASE Contains(c_out, ChunkError(c))
    BY <2>1 DEF Items, ChunkError
  <2>2. CASE ~Contains(c_out, ChunkError(c))
    <3>1. file.chunks[c].kind = "ok"
      BY <1>1, <1>5, <2>2 DEF Handled, Handed
    <3>2. file.chunks[c].n # 0
      BY <3>1
    <3>3. Items(c) = Batches(c)
      BY <2>2 DEF Items
    <3>4. /\ Len(Batches(c)) = file.chunks[c].n
          /\ \A k \in 1..Len(Batches(c)) : Batches(c)[k] = << c, k >>
      BY <1>2, ItemsType
    <3>5. 1 \in 1..Len(Batches(c))
      BY <1>2, <3>2, <3>4
    <3>6. Batches(c)[1] = << c, 1 >>
      BY <3>4, <3>5
    <3>7. Batches(c) # << >>
      <4>1. SUFFICES ASSUME Batches(c) = << >> PROVE FALSE
        OBVIOUS
      <4>2. Len(Batches(c)) = 0
        BY <4>1
      <4> QED
        BY <3>5, <4>2
    <3> QED
      BY <3>3, <3>6, <3>7
  <2> QED
    BY <2>1, <2>2
<1>7. Contains(Upto(d), Items(c)[1])
  BY <1>2, <1>5, <1>6, UptoHas
<1>8. Items(c)[1][1] = c
  BY <1>6
<1>9. Contains(c_out, Items(c)[1])
  <2>1. PICK j \in 1..Len(Upto(d)) : Upto(d)[j] = Items(c)[1]
    BY <1>7 DEF Contains
  <2>2. CASE Reported
    <3>1. c_out = Append(Upto(d), ReadError) /\ Upto(d) \in Seq(Item)
      BY <1>1, <1>2, <2>2, UptoType DEF Handled, Handed
    <3>2. Contains(c_out, Items(c)[1]) <=> Contains(Upto(d), Items(c)[1]) \/ ReadError = Items(c)[1]
      BY <3>1, ItemFacts, ContainsAppend
    <3> QED
      BY <1>7, <3>2
  <2>3. CASE ~Reported
    <3>1. c_out \o ready = Upto(d) /\ \A i \in 1..Len(ready) : ready[i][1] = d
      BY <1>1, <2>3 DEF Handled, Handed
    <3>2. Joins(Upto(d), c_out, ready)
      BY <1>2, <3>1, ConcatJoins
    <3>3. j <= Len(c_out)
      <4>1. SUFFICES ASSUME j > Len(c_out) PROVE FALSE
        BY <1>2
      <4>2. j - Len(c_out) \in 1..Len(ready) /\ Upto(d)[j] = ready[j - Len(c_out)]
        BY <3>2, <4>1 DEF Joins
      <4>3. ready[j - Len(c_out)][1] = d
        BY <3>1, <4>2
      <4>4. c = d
        BY <1>8, <2>1, <4>2, <4>3
      <4>5. Len(ready) = 0
        BY <1>4, <4>4
      <4> QED
        BY <4>2, <4>5
    <3>4. j \in 1..Len(c_out) /\ c_out[j] = Items(c)[1]
      BY <1>2, <2>1, <3>2, <3>3 DEF Joins
    <3> QED
      BY <3>4 DEF Contains
  <2> QED
    BY <2>2, <2>3
<1> QED
  BY <1>6, <1>9

ChunksInv == ChunkTypes /\ LossInv /\ ErrorsEarned /\ StreamInv /\ InOrder /\ NeverTruncated

LEMMA ChunksInvInit == ChunksInit => ChunksInv
<1> SUFFICES ASSUME ChunksInit PROVE ChunksInv
  OBVIOUS
<1>1. ChunkTypes /\ StreamInv /\ c_consumer = "reading" /\ c_out = << >>
  BY ChunkTypesInit, StreamInvInit DEF ChunksInit
<1>2. LossInv
  BY DEF LossInv, ChunksInit
<1>3. Len(c_out) = 0
  BY <1>1
<1>4. ErrorsEarned
  BY <1>3 DEF ErrorsEarned, Contains
<1>5. InOrder
  BY <1>1, ReadInOrder DEF OrderWhileReading
<1> QED
  BY <1>1, <1>2, <1>4, <1>5 DEF ChunksInv, NeverTruncated

LEMMA ChunksInvNext == ChunksInv /\ [ChunksNext]_c_vars => ChunksInv'
<1> SUFFICES ASSUME ChunksInv, [ChunksNext]_c_vars PROVE ChunksInv'
  OBVIOUS
<1>1. ChunkTypes'
  BY ChunkTypesNext DEF ChunksInv
<1>2. LossInv'
  BY LossInvNext DEF ChunksInv
<1>3. ErrorsEarned'
  BY ErrorsEarnedNext DEF ChunksInv
<1>4. StreamInv'
  BY StreamInvNext DEF ChunksInv
<1>5. InOrder'
  BY <1>1, <1>4, InOrderNext DEF ChunksInv
<1>6. NeverTruncated'
  BY NeverTruncatedNext DEF ChunksInv
<1> QED
  BY <1>1, <1>2, <1>3, <1>4, <1>5, <1>6 DEF ChunksInv

\* The batches of a CSV file read in chunks (parallel_csv_chunks) come in file order
\* whichever parser finishes first, each chunk whole or as one error; None is never
\* returned before everything was; and the reading thread is never further ahead of the
\* consumer than the channel and the two chunks in hand, for any file and any number of
\* parsers.
THEOREM ChunksArriveInOrder == ChunksSpec => []ChunksKeepOrder
<1>1. ChunksInv => ChunksKeepOrder
  BY InFlight DEF ChunksInv, ChunksKeepOrder, ChunksDelivered, InOrder, ErrorsEarned, Panicked
<1> QED
  BY <1>1, ChunksInvInit, ChunksInvNext, PTL DEF ChunksSpec

----------------------------------------------------------------------------
(***************************************************************************)
(* The reader of several files is given their contents                     *)
(***************************************************************************)

\* The first d parts of a flattening, and where they are.
FirstParts(f, d) == FlattenSeq([c \in 1..d |-> f[c]])

AreFirstParts(part, f, n) == \A d \in 0..n : part[d] = FirstParts(f, d)
PartsPlaced(part, f, n, V) ==
  /\ part[0] = << >>
  /\ \A d \in 0..n : part[d] \in Seq(V)
  /\ \A d \in 1..n : Len(part[d]) = Len(part[d - 1]) + Len(f[d])
  /\ \A d \in 1..n : \A k \in 1..Len(f[d]) :
       /\ Len(part[d - 1]) + k \in 1..Len(part[n])
       /\ part[n][Len(part[d - 1]) + k] = f[d][k]

LEMMA FlattenPosition ==
  ASSUME NEW V, NEW n \in Nat, NEW f, \A c \in 1..n : f[c] \in Seq(V),
         NEW part, AreFirstParts(part, f, n)
  PROVE  PartsPlaced(part, f, n, V)
<1> USE DEF AreFirstParts
<1>0. part[0] = FlattenSeq([c \in 1..0 |-> f[c]])
  <2>1. 0 \in 0..n
    OBVIOUS
  <2> QED
    BY <2>1 DEF FirstParts
<1>1. part[0] = << >>
  <2> DEFINE t == [c \in 1..0 |-> f[c]]
  <2>1. t = << >> /\ Len(t) = 0
    OBVIOUS
  <2> HIDE DEF t
  <2>2. FlattenSeq(t) = << >>
    BY <2>1 DEF FlattenSeq
  <2> QED
    BY <1>0, <2>2 DEF t
<1>2. ASSUME NEW d \in Nat, d + 1 <= n PROVE part[d + 1] = part[d] \o f[d + 1]
  <2>1. \A c \in 1..d + 1 : f[c] \in Seq(V)
    BY <1>2
  <2>2. FirstParts(f, d + 1) = FirstParts(f, d) \o f[d + 1]
    BY <2>1, FlattenAppend DEF FirstParts
  <2>3. d \in 0..n /\ d + 1 \in 0..n
    BY <1>2
  <2> QED
    BY <2>2, <2>3
<1> DEFINE K == {d \in Nat : d <= n => part[d] \in Seq(V)}
<1>3. 0 \in K
  <2>1. << >> \in Seq(V)
    OBVIOUS
  <2> QED
    BY <1>1, <2>1
<1>4. ASSUME NEW d \in K PROVE d + 1 \in K
  <2>1. SUFFICES ASSUME d + 1 <= n PROVE part[d + 1] \in Seq(V)
    OBVIOUS
  <2>2. part[d] \in Seq(V) /\ d \in Nat
    BY <2>1
  <2>3. f[d + 1] \in Seq(V)
    BY <2>1, <2>2
  <2>4. \A s \in Seq(V), t \in Seq(V) : s \o t \in Seq(V)
    OBVIOUS
  <2>5. part[d + 1] = part[d] \o f[d + 1]
    BY <1>2, <2>1, <2>2
  <2> HIDE DEF K
  <2> QED
    BY <2>2, <2>3, <2>4, <2>5
<1>5. K \in SUBSET Nat
  OBVIOUS
<1> HIDE DEF K
<1>6. K = Nat
  BY <1>3, <1>4, <1>5, NatSetInduction
<1>7. \A d \in 0..n : part[d] \in Seq(V)
  BY <1>6 DEF K
<1>8. \A d \in 1..n : Joins(part[d], part[d - 1], f[d])
  <2> SUFFICES ASSUME NEW d \in 1..n PROVE Joins(part[d], part[d - 1], f[d])
    OBVIOUS
  <2>1. d - 1 \in Nat /\ (d - 1) + 1 = d /\ d - 1 \in 0..n
    OBVIOUS
  <2>2. part[(d - 1) + 1] = part[d - 1] \o f[(d - 1) + 1]
    <3>1. d - 1 \in Nat /\ (d - 1) + 1 <= n
      BY <2>1
    <3> QED
      BY <1>2, <3>1
  <2>3. part[d] = part[d - 1] \o f[d]
    BY <2>1, <2>2
  <2> QED
    BY <1>7, <2>1, <2>3, ConcatJoins
<1> DEFINE Inside(d, e) ==
             \A j \in 1..Len(part[d]) : j \in 1..Len(part[e]) /\ part[e][j] = part[d][j]
<1>9. ASSUME NEW d \in 0..n PROVE Inside(d, n)
  <2> DEFINE L == {i \in Nat : d + i <= n => Inside(d, d + i)}
  <2>1. 0 \in L
    <3>1. d + 0 = d
      OBVIOUS
    <3> QED
      BY <3>1
  <2>2. ASSUME NEW i \in L PROVE i + 1 \in L
    <3>1. SUFFICES ASSUME d + (i + 1) <= n PROVE Inside(d, d + (i + 1))
      OBVIOUS
    <3>2. i \in Nat /\ Inside(d, d + i) /\ d + (i + 1) \in 1..n /\ (d + (i + 1)) - 1 = d + i
      BY <3>1
    <3>3. Joins(part[d + (i + 1)], part[d + i], f[d + (i + 1)])
      BY <1>8, <3>2
    <3> HIDE DEF L
    <3> QED
      BY <3>2, <3>3 DEF Joins
  <2>3. L \in SUBSET Nat
    OBVIOUS
  <2> HIDE DEF L
  <2>4. n - d \in Nat /\ d + (n - d) = n
    BY <1>9
  <2>5. n - d \in L
    BY <2>1, <2>2, <2>3, <2>4, NatSetInduction
  <2> QED
    BY <2>4, <2>5 DEF L
<1> HIDE DEF Inside
<1>10. ASSUME NEW d \in 1..n, NEW k \in 1..Len(f[d])
       PROVE  /\ Len(part[d - 1]) + k \in 1..Len(part[n])
              /\ part[n][Len(part[d - 1]) + k] = f[d][k]
  <2>1. /\ Len(part[d - 1]) + k \in 1..Len(part[d])
        /\ part[d][Len(part[d - 1]) + k] = f[d][k]
    BY <1>8 DEF Joins
  <2>2. d \in 0..n
    OBVIOUS
  <2> QED
    BY <1>9, <2>1, <2>2 DEF Inside
<1>11. \A d \in 1..n : Len(part[d]) = Len(part[d - 1]) + Len(f[d])
  BY <1>8 DEF Joins
<1> QED
  BY <1>1, <1>7, <1>10, <1>11 DEF PartsPlaced

\* The contents of a file: its batches up to the first error, or the error of opening it.
Stop(f) == Len(Abstract!Contents(f))
Number(f, n) == IF files[f].opens THEN n ELSE 0

LEMMA LeastElement ==
  ASSUME NEW S \in SUBSET Nat, S # {}
  PROVE  \E k \in S : \A j \in S : k <= j
<1>1. PICK k \in S : \A j \in S : ~ (<<j, k>> \in OpToRel(<, Nat))
  BY NatLessThanWellFounded, WFMin
<1>2. ASSUME NEW j \in S, j < k PROVE FALSE
  BY <1>1, <1>2 DEF OpToRel
<1> QED
  BY <1>2

LEMMA ContentsFacts ==
  ASSUME Shape, NEW f \in 1..NFiles
  PROVE  /\ Abstract!Contents(f) \in Seq(Item) /\ Stop(f) \in Nat
         /\ \A k \in 1..Stop(f) : Abstract!Contents(f)[k] = << f, Number(f, k) >>
         /\ files[f].opens \in BOOLEAN
         /\ ~files[f].opens => Stop(f) = 1
         /\ files[f].opens =>
              /\ Len(files[f].batches) \in Nat /\ Stop(f) <= Len(files[f].batches)
              /\ \A k \in 1..Len(files[f].batches) :
                   files[f].batches[k] = "err" => Stop(f) <= k
              /\ Stop(f) < Len(files[f].batches) =>
                   Stop(f) # 0 /\ files[f].batches[Stop(f)] = "err"
<1>1. /\ NFiles \in Nat /\ f \in Nat /\ files[f] \in FileContents
      /\ files[f].batches \in Seq({"ok", "err"}) /\ files[f].opens \in BOOLEAN
  <2>1. NFiles \in Nat /\ files \in Seq(FileContents) /\ NFiles = Len(files)
    BY NFilesType DEF NFiles
  <2>2. files[f] \in FileContents
    BY <2>1
  <2> QED
    BY <2>1, <2>2 DEF FileContents
<1> DEFINE bs == files[f].batches
           bad == {k \in DOMAIN bs : bs[k] = "err"}
           last == IF bad = {} THEN Len(bs) ELSE CHOOSE k \in bad : \A j \in bad : k <= j
<1>2. Len(bs) \in Nat /\ DOMAIN bs = 1..Len(bs) /\ bad \in SUBSET Nat /\ bad \in SUBSET (1..Len(bs))
  BY <1>1
<1>3. bad # {} => last \in bad /\ \A j \in bad : last <= j
  <2>1. SUFFICES ASSUME bad # {} PROVE last \in bad /\ \A j \in bad : last <= j
    OBVIOUS
  <2> HIDE DEF bad
  <2>2. \E k \in bad : \A j \in bad : k <= j
    BY <1>2, <2>1, LeastElement
  <2> QED
    BY <2>1, <2>2
<1>4. CASE files[f].opens
  <2>1. last \in Nat /\ last <= Len(bs)
    BY <1>2, <1>3
  <2>2. Abstract!Contents(f) = [k \in 1..last |-> << f, k >>]
    BY <1>4 DEF Abstract!Contents
  <2>3. /\ \A k \in 1..Len(bs) : bs[k] = "err" => last <= k
        /\ last < Len(bs) => last # 0 /\ bs[last] = "err"
    <3>1. \A k \in 1..Len(bs) : bs[k] = "err" => k \in bad
      BY <1>2
    <3>0. \A x \in bad : bs[x] = "err" /\ x # 0
      BY <1>2
    <3>3. bad = {} => last = Len(bs)
      OBVIOUS
    <3> HIDE DEF last
    <3>2. last \in bad => bs[last] = "err" /\ last # 0
      BY <3>0
    <3> HIDE DEF bad, last
    <3> QED
      BY <1>2, <1>3, <2>1, <3>1, <3>2, <3>3
  <2> HIDE DEF last
  <2>4. Abstract!Contents(f) \in Seq(Item) /\ Len(Abstract!Contents(f)) = last
    BY <1>1, <2>1, <2>2 DEF Item
  <2>5. \A k \in 1..last : Abstract!Contents(f)[k] = << f, k >>
    BY <2>2
  <2> QED
    BY <1>1, <1>2, <1>4, <2>1, <2>3, <2>4, <2>5 DEF Stop, Number
<1>5. CASE ~files[f].opens
  <2>1. Abstract!Contents(f) = << << f, 0 >> >>
    BY <1>5 DEF Abstract!Contents
  <2> QED
    BY <1>1, <1>5, <2>1 DEF Stop, Number, Item
<1> QED
  BY <1>1, <1>4, <1>5

LEMMA SameFlatten == \A s : Abstract!FlattenSeq(s) = FlattenSeq(s)
BY DEF Abstract!FlattenSeq, FlattenSeq

\* The first d files.
FilesUpto(d) == FlattenSeq([f \in 1..d |-> Abstract!Contents(f)])

LEMMA FilesPosition ==
  ASSUME Shape
  PROVE  /\ Abstract!Expected = FilesUpto(NFiles) /\ Abstract!Expected \in Seq(Item)
         /\ Len(FilesUpto(0)) = 0
         /\ \A d \in 0..NFiles : Len(FilesUpto(d)) \in Nat
         /\ \A f \in 1..NFiles :
              /\ Len(FilesUpto(f)) = Len(FilesUpto(f - 1)) + Stop(f)
              /\ \A k \in 1..Stop(f) :
                   /\ Len(FilesUpto(f - 1)) + k \in 1..Len(Abstract!Expected)
                   /\ Abstract!Expected[Len(FilesUpto(f - 1)) + k] = << f, Number(f, k) >>
<1>1. NFiles \in Nat /\ DOMAIN files = 1..NFiles
  BY NFilesType DEF NFiles
<1> DEFINE content == [f \in 1..NFiles |-> Abstract!Contents(f)]
<1>2. \A f \in 1..NFiles : content[f] \in Seq(Item) /\ content[f] = Abstract!Contents(f)
  BY ContentsFacts
<1>3. \A d \in 0..NFiles : FilesUpto(d) = FlattenSeq([f \in 1..d |-> content[f]])
  <2> SUFFICES ASSUME NEW d \in 0..NFiles PROVE FilesUpto(d) = FlattenSeq([f \in 1..d |-> content[f]])
    OBVIOUS
  <2>1. \A f \in 1..d : f \in 1..NFiles
    BY <1>1
  <2>2. [f \in 1..d |-> content[f]] = [f \in 1..d |-> Abstract!Contents(f)]
    BY <2>1
  <2> QED
    BY <2>2 DEF FilesUpto
<1>4. Abstract!Expected = FilesUpto(NFiles)
  <2>1. [f \in DOMAIN files |-> Abstract!Contents(f)] = [f \in 1..NFiles |-> Abstract!Contents(f)]
    BY <1>1
  <2> QED
    BY <2>1, SameFlatten DEF Abstract!Expected, FilesUpto
<1> HIDE DEF content
<1> DEFINE part == [d \in 0..NFiles |-> FilesUpto(d)]
<1>5. /\ FilesUpto(0) = << >>
      /\ \A d \in 0..NFiles : FilesUpto(d) \in Seq(Item)
      /\ \A d \in 1..NFiles : Len(FilesUpto(d)) = Len(FilesUpto(d - 1)) + Len(content[d])
      /\ \A d \in 1..NFiles : \A k \in 1..Len(content[d]) :
              /\ Len(FilesUpto(d - 1)) + k \in 1..Len(FilesUpto(NFiles))
              /\ FilesUpto(NFiles)[Len(FilesUpto(d - 1)) + k] = content[d][k]
  <2>1. \A d \in 0..NFiles : part[d] = FilesUpto(d)
    OBVIOUS
  <2> HIDE DEF part
  <2>2. \A d \in 0..NFiles : part[d] = FirstParts(content, d)
    <3> SUFFICES ASSUME NEW d \in 0..NFiles PROVE part[d] = FirstParts(content, d)
      OBVIOUS
    <3>1. FilesUpto(d) = FlattenSeq([f \in 1..d |-> content[f]])
      BY <1>3
    <3> QED
      BY <2>1, <3>1 DEF FirstParts
  <2>3. /\ part[0] = << >>
        /\ \A d \in 0..NFiles : part[d] \in Seq(Item)
        /\ \A d \in 1..NFiles : Len(part[d]) = Len(part[d - 1]) + Len(content[d])
        /\ \A d \in 1..NFiles : \A k \in 1..Len(content[d]) :
              /\ Len(part[d - 1]) + k \in 1..Len(part[NFiles])
              /\ part[NFiles][Len(part[d - 1]) + k] = content[d][k]
    <3>1. \A f \in 1..NFiles : content[f] \in Seq(Item)
      BY <1>2
    <3>2. NFiles \in Nat
      BY <1>1
    <3>3. AreFirstParts(part, content, NFiles)
      BY <2>2 DEF AreFirstParts
    <3>4. PartsPlaced(part, content, NFiles, Item)
      BY <3>1, <3>2, <3>3, FlattenPosition
    <3> QED
      BY <3>4 DEF PartsPlaced
  <2>4. \A d \in 1..NFiles : part[d] = FilesUpto(d) /\ part[d - 1] = FilesUpto(d - 1)
    <3>1. \A d \in 1..NFiles : d \in 0..NFiles /\ d - 1 \in 0..NFiles
      BY <1>1
    <3> QED
      BY <2>1, <3>1
  <2>5. part[0] = FilesUpto(0) /\ part[NFiles] = FilesUpto(NFiles)
    BY <1>1, <2>1
  <2> QED
    BY <2>1, <2>3, <2>4, <2>5
<1>6. /\ \A f \in 1..NFiles : Len(content[f]) = Stop(f)
      /\ \A f \in 1..NFiles : \A k \in 1..Stop(f) : content[f][k] = << f, Number(f, k) >>
  BY <1>2, ContentsFacts DEF Stop
<1>7. Len(FilesUpto(0)) = 0
  BY <1>5
<1>8. NFiles \in 0..NFiles
  BY <1>1
<1>9. Abstract!Expected \in Seq(Item)
  BY <1>4, <1>5, <1>8
<1>10. \A d \in 0..NFiles : Len(FilesUpto(d)) \in Nat
  BY <1>5
<1>11. \A f \in 1..NFiles : Len(FilesUpto(f)) = Len(FilesUpto(f - 1)) + Stop(f)
  BY <1>5, <1>6
<1>12. \A f \in 1..NFiles : \A k \in 1..Stop(f) :
         /\ Len(FilesUpto(f - 1)) + k \in 1..Len(Abstract!Expected)
         /\ Abstract!Expected[Len(FilesUpto(f - 1)) + k] = << f, Number(f, k) >>
  BY <1>4, <1>5, <1>6
<1> QED
  BY <1>4, <1>7, <1>9, <1>10, <1>11, <1>12

----------------------------------------------------------------------------
(***************************************************************************)
(* How far the workers and the consumer have got, without panics           *)
(***************************************************************************)

\* A worker on a file of which n batches were sent.
Working(w, n) ==
  LET f == worker[w].file
      k == worker[w].k
  IN  /\ worker[w].at = "open" => n = 0
      /\ worker[w].at = "decode" =>
           files[f].opens /\ k = n /\ (n # 0 => files[f].batches[n] # "err")
      /\ worker[w].at = "send" => n < Stop(f) /\ k = Number(f, n + 1)
      /\ worker[w].at = "finish" => n = Stop(f)

\* What waits in the channel of file f, of which n batches were sent and g received.
Waiting(f, n, g) ==
  \/ queue[f] \in {<< >>, << Done >>} /\ n = g
  \/ queue[f] = << Batch(f, Number(f, n)) >> /\ n = g + 1

Got(f, p) == IF f = current THEN p ELSE 0

SentInv(s) ==
  /\ \A f \in 1..NFiles : s[f] <= Stop(f)
  /\ \A f \in 1..NFiles : f >= nextFile => s[f] = 0
  /\ \A w \in Worker : Busy(w) => Working(w, s[worker[w].file])
  /\ \A f \in 1..NFiles : f < nextFile /\ ~OnFile(f) => s[f] = Stop(f)

\* Of each file f, s[f] batches were sent, and the consumer has received the files
\* before its own and p batches of that.
Streamed(s, p) ==
  /\ SentInv(s)
  /\ \A f \in 1..NFiles : f >= current => Waiting(f, s[f], Got(f, p))
  /\ current > NFiles => p = 0
  /\ out \in Seq(Item) /\ Len(out) = Len(FilesUpto(current - 1)) + p
  /\ \A i \in 1..Len(out) : i \in 1..Len(Abstract!Expected) /\ out[i] = Abstract!Expected[i]

RefineInv == consumer = "reading" => \E s \in [1..NFiles -> Nat], p \in Nat : Streamed(s, p)

LEMMA BatchIsNotDone == \A f, k : << Batch(f, k) >> # << Done >>
<1> SUFFICES ASSUME NEW f, NEW k, << Batch(f, k) >> = << Done >> PROVE FALSE
  OBVIOUS
<1>1. Head(<< Batch(f, k) >>).kind = "batch" /\ Head(<< Done >>).kind = "done"
  BY Singleton DEF Batch, Done
<1> QED
  BY <1>1

\* What follows from the list of files alone.
LEMMA SameContents ==
  ASSUME files' = files
  PROVE  /\ \A f : Stop(f)' = Stop(f)
         /\ \A f, n : Number(f, n)' = Number(f, n)
         /\ \A d : FilesUpto(d)' = FilesUpto(d)
         /\ Abstract!Expected' = Abstract!Expected
         /\ Done' = Done /\ \A f, k : Batch(f, k)' = Batch(f, k)
         /\ \A f : files'[f] = files[f]
<1>1. \A f : Abstract!Contents(f)' = Abstract!Contents(f)
  BY DEF Abstract!Contents
<1>2. Abstract!Expected' = Abstract!Expected
  BY DEF Abstract!Expected, Abstract!Contents
<1>3. \A d : FilesUpto(d)' = FilesUpto(d)
  BY <1>1 DEF FilesUpto
<1> QED
  BY <1>1, <1>2, <1>3 DEF Stop, Number, Done, Batch

LEMMA RefineInvInit == Init => RefineInv
<1> SUFFICES ASSUME Init PROVE \E s \in [1..NFiles -> Nat], p \in Nat : Streamed(s, p)
  BY DEF RefineInv
<1>1. Shape /\ NFiles \in Nat
  BY TypeInvInit, NFilesType DEF TypeInv
<1> DEFINE s == [f \in 1..NFiles |-> 0]
<1>2. \A w \in Worker : ~Busy(w)
  BY DEF Init, Busy
<1>3. \A f \in 1..NFiles : Stop(f) \in Nat
  BY <1>1, ContentsFacts
<1>4. SentInv(s)
  BY <1>2, <1>3 DEF SentInv, Init
<1>5. \A f \in 1..NFiles : Waiting(f, s[f], Got(f, 0))
  BY DEF Waiting, Got, Init
<1>6. out \in Seq(Item) /\ Len(out) = 0 /\ current = 1 /\ current - 1 = 0
  BY DEF Init
<1>7. Len(out) = Len(FilesUpto(current - 1)) + 0
  BY <1>1, <1>6, FilesPosition
<1>8. Streamed(s, 0)
  BY <1>4, <1>5, <1>6, <1>7 DEF Streamed
<1>9. s \in [1..NFiles -> Nat]
  OBVIOUS
<1> QED
  BY <1>8, <1>9

\* A worker's step that delivers nothing.
LEMMA StreamedKept ==
  ASSUME UNCHANGED << files, current, out >>, NFiles' = NFiles,
         NEW s \in [1..NFiles -> Nat], NEW t \in [1..NFiles -> Nat], NEW p \in Nat, Streamed(s, p),
         SentInv(t)', \A f \in 1..NFiles : f >= current => Waiting(f, t[f], Got(f, p))'
  PROVE  Streamed(t, p)'
<1>1. /\ \A d : FilesUpto(d)' = FilesUpto(d)
      /\ Abstract!Expected' = Abstract!Expected
  BY SameContents
<1> QED
  BY <1>1 DEF Streamed

LEMMA RefineInvClaim ==
  ASSUME TypeInv, ServedInv, RefineInv, NEW w \in Worker, Claim(w), consumer = "reading",
         NFiles' = NFiles, Worker' = Worker
  PROVE  RefineInv'
<1> USE DEF TypeInv
<1>1. PICK s \in [1..NFiles -> Nat], p \in Nat : Streamed(s, p)
  BY DEF RefineInv
<1>2. /\ worker[w].at = "claim" /\ nextFile' = nextFile + 1
      /\ UNCHANGED << files, queue, current, out, consumer >>
      /\ worker'[w] = [at |-> IF nextFile > NFiles THEN "exit" ELSE "open",
                       file |-> nextFile, k |-> 0]
      /\ \A v \in Worker : v # w => worker'[v] = worker[v]
  BY DEF Claim, Shape
<1>3. NFiles \in Nat /\ nextFile \in Nat \ {0} /\ current \in 1..(NFiles + 1)
  BY NFilesType DEF Shape
<1>4. /\ \A f : Stop(f)' = Stop(f)
      /\ \A f, n : Number(f, n)' = Number(f, n)
      /\ Done' = Done /\ \A f, k : Batch(f, k)' = Batch(f, k)
  BY <1>2, SameContents
<1>5. /\ \A v \in Worker : v # w => (Busy(v)' <=> Busy(v))
      /\ ~Busy(w) /\ (Busy(w)' <=> nextFile <= NFiles)
  BY <1>2, <1>3 DEF Busy, Places
<1>6. \A f \in 1..NFiles : f < nextFile' /\ ~OnFile(f)' => f < nextFile /\ ~OnFile(f)
  <2> SUFFICES ASSUME NEW f \in 1..NFiles, f < nextFile', ~OnFile(f)'
               PROVE  f < nextFile /\ ~OnFile(f)
    OBVIOUS
  <2>1. f # nextFile
    BY <1>2, <1>3, <1>5 DEF OnFile
  <2>2. ~OnFile(f)
    BY <1>2, <1>5 DEF OnFile
  <2> QED
    BY <1>2, <1>3, <2>1, <2>2
<1>7. \A v \in Worker : Busy(v)' => Working(v, s[worker[v].file])'
  <2> SUFFICES ASSUME NEW v \in Worker, Busy(v)' PROVE Working(v, s[worker[v].file])'
    OBVIOUS
  <2>1. CASE v = w
    <3>1. nextFile \in 1..NFiles /\ worker'[v].file = nextFile /\ worker'[v].at = "open"
      BY <1>2, <1>3, <1>5, <2>1
    <3>2. s[nextFile] = 0
      BY <1>1, <1>3, <3>1 DEF Streamed, SentInv
    <3> QED
      BY <3>1, <3>2 DEF Working
  <2>2. CASE v # w
    <3>1. Working(v, s[worker[v].file]) /\ worker'[v] = worker[v]
      BY <1>1, <1>2, <1>5, <2>2 DEF Streamed, SentInv
    <3> QED
      BY <1>2, <1>4, <3>1 DEF Working
  <2> QED
    BY <2>1, <2>2
<1>8. \A f \in 1..NFiles : f >= nextFile' => s[f] = 0
  BY <1>1, <1>2, <1>3 DEF Streamed, SentInv
<1>9. SentInv(s)'
  BY <1>1, <1>4, <1>6, <1>7, <1>8 DEF Streamed, SentInv
<1>10. \A f \in 1..NFiles : f >= current => Waiting(f, s[f], Got(f, p))'
  BY <1>1, <1>2, <1>4 DEF Streamed, Waiting, Got
<1>11. Streamed(s, p)'
  BY <1>1, <1>2, <1>9, <1>10, StreamedKept
<1> QED
  BY <1>11 DEF RefineInv

\* The step of a busy worker: what it sent, and where it is now.
LEMMA RefineInvBusy ==
  ASSUME TypeInv, ServedInv, consumer = "reading", NFiles' = NFiles, Worker' = Worker,
         NEW s \in [1..NFiles -> Nat], NEW p \in Nat, Streamed(s, p),
         NEW w \in Worker, Busy(w), NEW f \in 1..NFiles, f = worker[w].file,
         NEW n \in Nat, n <= Stop(f), f < nextFile,
         UNCHANGED << files, nextFile, current, out, consumer >>,
         \A v \in Worker : v # w => worker'[v] = worker[v],
         worker'[w].file = f,
         Busy(w)' => Working(w, n)', ~Busy(w)' => n = Stop(f),
         \A g \in 1..NFiles : g # f => queue'[g] = queue[g],
         f >= current => Waiting(f, n, Got(f, p))'
  PROVE  RefineInv'
<1> USE DEF TypeInv
<1> DEFINE t == [s EXCEPT ![f] = n]
<1>1. t \in [1..NFiles -> Nat] /\ t[f] = n /\ \A g \in 1..NFiles : g # f => t[g] = s[g]
  OBVIOUS
<1> HIDE DEF t
<1>2. /\ \A g : Stop(g)' = Stop(g)
      /\ \A g, k : Number(g, k)' = Number(g, k)
      /\ Done' = Done /\ \A g, k : Batch(g, k)' = Batch(g, k)
  BY SameContents
<1>3. \A v \in Worker : v # w => (Busy(v)' <=> Busy(v)) /\ (Busy(v) => worker[v].file # f)
  BY DEF Busy, Claimed, OneReaderPerFile
<1>4. \A v \in Worker : Busy(v)' => Working(v, t[worker[v].file])'
  <2> SUFFICES ASSUME NEW v \in Worker, Busy(v)' PROVE Working(v, t[worker[v].file])'
    OBVIOUS
  <2>1. CASE v = w
    BY <1>1, <2>1
  <2>2. CASE v # w
    <3>1. Busy(v) /\ worker[v].file # f /\ worker'[v] = worker[v] /\ worker[v].file \in 1..NFiles
      BY <1>3, <2>2 DEF Claimed
    <3>2. Working(v, s[worker[v].file]) /\ t[worker[v].file] = s[worker[v].file]
      BY <1>1, <3>1 DEF Streamed, SentInv
    <3> QED
      BY <1>2, <3>1, <3>2 DEF Working
  <2> QED
    BY <2>1, <2>2
<1>5. \A g \in 1..NFiles : g # f => (OnFile(g)' <=> OnFile(g))
  BY <1>3 DEF OnFile
<1>6. ~OnFile(f)' => ~Busy(w)'
  BY DEF OnFile
<1>7. SentInv(t)'
  <2>1. \A g \in 1..NFiles : t[g] <= Stop(g)'
    BY <1>1, <1>2 DEF Streamed, SentInv
  <2>2. \A g \in 1..NFiles : g >= nextFile' => t[g] = 0
    BY <1>1 DEF Streamed, SentInv, Shape
  <2>3. \A g \in 1..NFiles : g < nextFile' /\ ~OnFile(g)' => t[g] = Stop(g)'
    BY <1>1, <1>2, <1>5, <1>6 DEF Streamed, SentInv
  <2> QED
    BY <1>4, <2>1, <2>2, <2>3 DEF SentInv
<1>8. \A g \in 1..NFiles : g >= current => Waiting(g, t[g], Got(g, p))'
  BY <1>1, <1>2 DEF Streamed, Waiting, Got
<1>9. Streamed(t, p)'
  BY <1>1, <1>7, <1>8, StreamedKept
<1> QED
  BY <1>1, <1>9 DEF RefineInv

\* A busy worker before its step.
LEMMA AtWork ==
  ASSUME TypeInv, ServedInv, consumer = "reading", NEW w \in Worker, Busy(w),
         NEW s \in [1..NFiles -> Nat], NEW p \in Nat, Streamed(s, p)
  PROVE  /\ worker[w].file \in 1..NFiles /\ worker[w].file < nextFile
         /\ worker[w].file >= current /\ worker[w].k \in Nat
         /\ s[worker[w].file] \in Nat /\ s[worker[w].file] <= Stop(worker[w].file)
         /\ Working(w, s[worker[w].file])
         /\ Waiting(worker[w].file, s[worker[w].file], Got(worker[w].file, p))
         /\ queue[worker[w].file] # << Done >>
<1>1. worker[w].file \in 1..NFiles /\ worker[w].file < nextFile /\ worker[w].k \in Nat
  BY DEF TypeInv, Claimed, Shape
<1>2. worker[w].file >= current
  BY DEF ServedInv, AheadInv
<1>3. queue[worker[w].file] # << Done >>
  BY <1>1 DEF ServedInv, ChannelInv, OnFile
<1> QED
  BY <1>1, <1>2, <1>3 DEF Streamed, SentInv

LEMMA RefineInvQuiet ==
  ASSUME TypeInv, ServedInv, RefineInv, NEW w \in Worker, Open(w) \/ Decode(w),
         consumer = "reading", NFiles' = NFiles, Worker' = Worker
  PROVE  RefineInv'
<1>1. PICK s \in [1..NFiles -> Nat], p \in Nat : Streamed(s, p)
  BY DEF RefineInv
<1>2. Busy(w) /\ UNCHANGED << files, nextFile, queue, current, out, consumer >>
  BY DEF Open, Decode, Busy, Places
<1>3. PICK f, n : f = worker[w].file /\ n = s[f]
  OBVIOUS
<1>4. /\ f \in 1..NFiles /\ f < nextFile /\ worker[w].k \in Nat
      /\ n \in Nat /\ n <= Stop(f) /\ Working(w, n) /\ Waiting(f, n, Got(f, p))
  BY <1>1, <1>2, <1>3, AtWork
<1>5. /\ \A g : Stop(g)' = Stop(g) /\ files'[g] = files[g]
      /\ \A g, k : Number(g, k)' = Number(g, k)
      /\ Done' = Done /\ \A g, k : Batch(g, k)' = Batch(g, k)
  BY <1>2, SameContents
<1>6. /\ Stop(f) \in Nat /\ files[f].opens \in BOOLEAN
      /\ ~files[f].opens => Stop(f) = 1
      /\ files[f].opens =>
              /\ Len(files[f].batches) \in Nat /\ Stop(f) <= Len(files[f].batches)
              /\ Stop(f) < Len(files[f].batches) =>
                   Stop(f) # 0 /\ files[f].batches[Stop(f)] = "err"
  BY <1>4, ContentsFacts DEF TypeInv
<1>7. ASSUME NEW at \in {"decode", "send", "finish"}, NEW k \in Nat, Move(w, at, k),
             at = "decode" => files[f].opens /\ k = n /\ n = 0,
             at = "send" => n < Stop(f) /\ k = Number(f, n + 1),
             at = "finish" => n = Stop(f)
      PROVE  RefineInv'
  <2>1. at \in Places
    BY DEF Places
  <2>2. /\ worker'[w] = [at |-> at, file |-> f, k |-> k]
        /\ \A v \in Worker : v # w => worker'[v] = worker[v]
    BY <1>3, <1>7, <2>1, MoveEffect DEF TypeInv
  <2>3. Working(w, n)' /\ worker'[w].file = f /\ Busy(w)'
    BY <1>5, <1>7, <2>2 DEF Working, Busy, Places
  <2>4. Waiting(f, n, Got(f, p))'
    BY <1>2, <1>4, <1>5 DEF Waiting, Got
  <2> QED
    BY <1>1, <1>2, <1>3, <1>4, <2>2, <2>3, <2>4, RefineInvBusy
<1>8. CASE Open(w)
  <2>1. n = 0 /\ Move(w, IF files[f].opens THEN "decode" ELSE "send", 0)
    BY <1>3, <1>4, <1>8 DEF Open, Working
  <2>2. CASE files[f].opens
    BY <1>7, <2>1, <2>2
  <2>3. CASE ~files[f].opens
    BY <1>6, <1>7, <2>1, <2>3 DEF Number
  <2> QED
    BY <2>2, <2>3
<1>9. CASE Decode(w)
  <2>1. files[f].opens /\ worker[w].k = n /\ (n # 0 => files[f].batches[n] # "err")
    BY <1>3, <1>4, <1>9 DEF Decode, Working
  <2>2. CASE n < Len(files[f].batches)
    <3>1. Move(w, "send", n + 1)
      BY <1>3, <1>9, <2>1, <2>2 DEF Decode
    <3>2. n < Stop(f)
      BY <1>4, <1>6, <2>1, <2>2
    <3> QED
      BY <1>4, <1>7, <2>1, <3>1, <3>2 DEF Number
  <2>3. CASE ~(n < Len(files[f].batches))
    <3>1. Move(w, "finish", n)
      BY <1>3, <1>9, <2>1, <2>3 DEF Decode
    <3>2. n = Stop(f)
      BY <1>4, <1>6, <2>1, <2>3
    <3> QED
      BY <1>4, <1>7, <3>1, <3>2
  <2> QED
    BY <2>2, <2>3
<1> QED
  BY <1>8, <1>9

LEMMA RefineInvSend ==
  ASSUME TypeInv, ServedInv, RefineInv, NEW w \in Worker, Send(w),
         consumer = "reading", NFiles' = NFiles, Worker' = Worker
  PROVE  RefineInv'
<1>1. PICK s \in [1..NFiles -> Nat], p \in Nat : Streamed(s, p)
  BY DEF RefineInv
<1>2. Busy(w) /\ UNCHANGED << files, nextFile, current, out, consumer >>
  BY DEF Send, Busy, Places
<1>3. PICK f, n, k : f = worker[w].file /\ n = s[f] /\ k = worker[w].k
  OBVIOUS
<1>4. /\ f \in 1..NFiles /\ f < nextFile /\ k \in Nat /\ f >= current
      /\ n \in Nat /\ n <= Stop(f) /\ Working(w, n) /\ Waiting(f, n, Got(f, p))
  BY <1>1, <1>2, <1>3, AtWork
<1>5. /\ \A g : Stop(g)' = Stop(g) /\ files'[g] = files[g]
      /\ \A g, j : Number(g, j)' = Number(g, j)
      /\ Done' = Done /\ \A g, j : Batch(g, j)' = Batch(g, j)
  BY <1>2, SameContents
<1>6. /\ Stop(f) \in Nat /\ files[f].opens \in BOOLEAN
      /\ ~files[f].opens => Stop(f) = 1
      /\ files[f].opens =>
              /\ Len(files[f].batches) \in Nat /\ Stop(f) <= Len(files[f].batches)
              /\ \A j \in 1..Len(files[f].batches) :
                   files[f].batches[j] = "err" => Stop(f) <= j
  BY <1>4, ContentsFacts DEF TypeInv
<1>7. n < Stop(f) /\ k = Number(f, n + 1)
  BY <1>3, <1>4 DEF Send, Working
<1>8. /\ queue[f] = << >> /\ queue'[f] = << Batch(f, k) >>
      /\ \A g \in 1..NFiles : g # f => queue'[g] = queue[g]
  <2>1. Accepts(f) /\ queue' = [queue EXCEPT ![f] = Append(@, Batch(f, k))] /\ DOMAIN queue = 1..NFiles
    BY <1>3 DEF Send, TypeInv, Shape
  <2>2. queue[f] = << >>
    BY <1>4, <2>1, QueueLength DEF Accepts, Capacity, TypeInv, Shape
  <2> QED
    BY <1>4, <2>1, <2>2, Singleton
<1>9. Waiting(f, n + 1, Got(f, p))'
  <2>1. n = Got(f, p)
    BY <1>4, <1>8, Singleton DEF Waiting
  <2>2. Got(f, p)' = Got(f, p)
    BY <1>2 DEF Got
  <2> QED
    BY <1>5, <1>7, <1>8, <2>1, <2>2 DEF Waiting
<1>10. ASSUME NEW at \in {"decode", "finish"}, Move(w, at, k),
              at = "decode" => files[f].opens /\ k = n + 1 /\ files[f].batches[n + 1] # "err",
              at = "finish" => n + 1 = Stop(f)
       PROVE  RefineInv'
  <2>1. at \in Places
    BY DEF Places
  <2>2. /\ worker'[w] = [at |-> at, file |-> f, k |-> k]
        /\ \A v \in Worker : v # w => worker'[v] = worker[v]
    BY <1>3, <1>4, <1>10, <2>1, MoveEffect DEF TypeInv
  <2>3. Working(w, n + 1)' /\ worker'[w].file = f /\ Busy(w)'
    BY <1>5, <1>10, <2>2 DEF Working, Busy, Places
  <2>4. n + 1 \in Nat /\ n + 1 <= Stop(f)
    BY <1>4, <1>6, <1>7
  <2> QED
    BY <1>1, <1>2, <1>3, <1>4, <1>8, <1>9, <2>2, <2>3, <2>4, RefineInvBusy
<1>11. Move(w, IF LastBatch(w) THEN "finish" ELSE "decode", k)
  BY <1>3 DEF Send
<1>12. CASE LastBatch(w)
  <2>1. n + 1 = Stop(f)
    <3>1. CASE k = 0
      BY <1>4, <1>6, <1>7, <3>1 DEF Number
    <3>2. CASE k # 0
      <4>1. files[f].opens /\ k = n + 1 /\ files[f].batches[k] = "err"
        BY <1>3, <1>6, <1>7, <1>12, <3>2 DEF LastBatch, Number
      <4> QED
        BY <1>4, <1>6, <1>7, <4>1
    <3> QED
      BY <3>1, <3>2
  <2> QED
    BY <1>10, <1>11, <1>12, <2>1
<1>13. CASE ~LastBatch(w)
  <2>1. files[f].opens /\ k = n + 1 /\ files[f].batches[n + 1] # "err"
    BY <1>3, <1>6, <1>7, <1>13 DEF LastBatch, Number
  <2> QED
    BY <1>10, <1>11, <1>13, <2>1
<1> QED
  BY <1>12, <1>13

LEMMA RefineInvFinish ==
  ASSUME TypeInv, ServedInv, RefineInv, NEW w \in Worker, Finish(w),
         consumer = "reading", NFiles' = NFiles, Worker' = Worker
  PROVE  RefineInv'
<1>1. PICK s \in [1..NFiles -> Nat], p \in Nat : Streamed(s, p)
  BY DEF RefineInv
<1>2. Busy(w) /\ UNCHANGED << files, nextFile, current, out, consumer >>
  BY DEF Finish, Busy, Places
<1>3. PICK f, n : f = worker[w].file /\ n = s[f]
  OBVIOUS
<1>4. /\ f \in 1..NFiles /\ f < nextFile /\ n \in Nat /\ n <= Stop(f)
      /\ Working(w, n) /\ Waiting(f, n, Got(f, p))
  BY <1>1, <1>2, <1>3, AtWork
<1>5. Done' = Done
  BY DEF Done
<1>6. n = Stop(f)
  BY <1>3, <1>4 DEF Finish, Working
<1>7. /\ queue[f] = << >> /\ queue'[f] = << Done >>
      /\ \A g \in 1..NFiles : g # f => queue'[g] = queue[g]
  <2>1. Accepts(f) /\ queue' = [queue EXCEPT ![f] = Append(@, Done)] /\ DOMAIN queue = 1..NFiles
    BY <1>3 DEF Finish, TypeInv, Shape
  <2>2. queue[f] = << >>
    BY <1>4, <2>1, QueueLength DEF Accepts, Capacity, TypeInv, Shape
  <2> QED
    BY <1>4, <2>1, <2>2, Singleton
<1>8. Waiting(f, n, Got(f, p))'
  <2>1. n = Got(f, p)
    BY <1>4, <1>7, Singleton DEF Waiting
  <2>2. Got(f, p)' = Got(f, p)
    BY <1>2 DEF Got
  <2> QED
    BY <1>5, <1>7, <2>1, <2>2 DEF Waiting
<1>9. /\ worker'[w] = [at |-> "claim", file |-> f, k |-> 0]
      /\ \A v \in Worker : v # w => worker'[v] = worker[v]
  <2>1. Move(w, "claim", 0) /\ "claim" \in Places /\ 0 \in Nat
    BY DEF Finish, Places
  <2> QED
    BY <1>3, <2>1, MoveEffect DEF TypeInv
<1>10. worker'[w].file = f /\ ~Busy(w)'
  BY <1>9 DEF Busy
<1> QED
  BY <1>1, <1>2, <1>3, <1>4, <1>6, <1>7, <1>8, <1>9, <1>10, RefineInvBusy

\* The batch received is the next one that is expected.
LEMMA ReceivedIsNext ==
  ASSUME TypeInv, ServedInv, Receive, NEW s \in [1..NFiles -> Nat], NEW p \in Nat, Streamed(s, p)
  PROVE  /\ current \in 1..NFiles /\ s[current] = p + 1 /\ p + 1 <= Stop(current)
         /\ queue[current] = << Batch(current, Number(current, p + 1)) >>
         /\ out' = Append(out, Abstract!Expected[Len(out) + 1])
         /\ Len(out) + 1 \in 1..Len(Abstract!Expected)
<1>1. current \in 1..NFiles
  BY NFilesType DEF Receive, TypeInv, Shape
<1>2. queue[current] # << >> /\ queue[current] # << Done >>
  <2>1. Head(<< Done >>).kind = "done"
    BY Singleton DEF Done
  <2> QED
    BY <2>1 DEF Receive
<1>3. /\ queue[current] = << Batch(current, Number(current, s[current])) >> /\ s[current] = p + 1
      /\ s[current] <= Stop(current)
  BY <1>1, <1>2 DEF Streamed, SentInv, Waiting, Got
<1>4. p + 1 \in 1..Stop(current) /\ Stop(current) \in Nat
  BY <1>1, <1>3, ContentsFacts DEF TypeInv
<1>5. /\ Len(FilesUpto(current - 1)) + (p + 1) \in 1..Len(Abstract!Expected)
      /\ Abstract!Expected[Len(FilesUpto(current - 1)) + (p + 1)] = << current, Number(current, p + 1) >>
      /\ Len(FilesUpto(current - 1)) \in Nat
  <2>1. current - 1 \in 0..NFiles
    BY <1>1, NFilesType DEF TypeInv
  <2> QED
    BY <1>1, <1>4, <2>1, FilesPosition DEF TypeInv
<1>6. Len(out) + 1 = Len(FilesUpto(current - 1)) + (p + 1)
  BY <1>5 DEF Streamed
<1>7. out' = Append(out, << current, Number(current, p + 1) >>)
  <2>1. Head(queue[current]).batch = << current, Number(current, p + 1) >>
    BY <1>3, Singleton DEF Batch
  <2> QED
    BY <2>1 DEF Receive
<1> QED
  BY <1>1, <1>3, <1>4, <1>5, <1>6, <1>7

LEMMA RefineInvReceive ==
  ASSUME TypeInv, ServedInv, RefineInv, Receive, NFiles' = NFiles, Worker' = Worker
  PROVE  RefineInv'
<1>1. /\ UNCHANGED << files, nextFile, worker, current, consumer >> /\ consumer = "reading"
      /\ queue' = [queue EXCEPT ![current] = Tail(@)]
  BY DEF Receive
<1>2. PICK s \in [1..NFiles -> Nat], p \in Nat : Streamed(s, p)
  BY <1>1 DEF RefineInv
<1>3. /\ current \in 1..NFiles /\ s[current] = p + 1 /\ p + 1 <= Stop(current)
      /\ queue[current] = << Batch(current, Number(current, p + 1)) >>
      /\ out' = Append(out, Abstract!Expected[Len(out) + 1])
      /\ Len(out) + 1 \in 1..Len(Abstract!Expected)
  BY <1>2, ReceivedIsNext
<1>4. queue'[current] = << >> /\ \A g \in 1..NFiles : g # current => queue'[g] = queue[g]
  BY <1>1, <1>3, Singleton DEF TypeInv, Shape
<1>5. /\ \A g : Stop(g)' = Stop(g) /\ files'[g] = files[g]
      /\ \A g, j : Number(g, j)' = Number(g, j)
      /\ \A d : FilesUpto(d)' = FilesUpto(d)
      /\ Abstract!Expected' = Abstract!Expected
      /\ Done' = Done /\ \A g, j : Batch(g, j)' = Batch(g, j)
  BY <1>1, SameContents
<1>6. SentInv(s)'
  <2>1. \A w : Busy(w)' = Busy(w)
    BY <1>1 DEF Busy
  <2>2. \A g : OnFile(g)' <=> OnFile(g)
    BY <1>1, <2>1 DEF OnFile
  <2>3. \A w \in Worker : Busy(w)' => Working(w, s[worker[w].file])'
    BY <1>1, <1>2, <1>5, <2>1 DEF Streamed, SentInv, Working
  <2> QED
    BY <1>1, <1>2, <1>5, <2>2, <2>3 DEF Streamed, SentInv
<1>7. \A f \in 1..NFiles : f >= current' => Waiting(f, s[f], Got(f, p + 1))'
  <2> SUFFICES ASSUME NEW f \in 1..NFiles, f >= current PROVE Waiting(f, s[f], Got(f, p + 1))'
    BY <1>1
  <2>1. CASE f = current
    BY <1>1, <1>3, <1>4, <2>1 DEF Waiting, Got
  <2>2. CASE f # current
    <3>1. Waiting(f, s[f], Got(f, p)) /\ Got(f, p) = 0 /\ Got(f, p + 1)' = 0
      BY <1>1, <1>2, <2>2 DEF Streamed, Got
    <3> QED
      BY <1>4, <1>5, <2>2, <3>1 DEF Waiting
  <2> QED
    BY <2>1, <2>2
<1>8. /\ out' \in Seq(Item) /\ Len(out') = Len(out) + 1 /\ Len(out) \in Nat
      /\ out'[Len(out) + 1] = Abstract!Expected[Len(out) + 1]
      /\ \A i \in 1..Len(out) : out'[i] = out[i]
  <2>1. out \in Seq(Item)
    BY <1>2 DEF Streamed
  <2>2. Abstract!Expected \in Seq(Item)
    BY FilesPosition DEF TypeInv
  <2>3. Abstract!Expected[Len(out) + 1] \in Item
    BY <1>3, <2>2
  <2> QED
    BY <1>3, <2>1, <2>3, AppendTyped
<1>9. \A i \in 1..Len(out') : i \in 1..Len(Abstract!Expected') /\ out'[i] = Abstract!Expected'[i]
  <2> SUFFICES ASSUME NEW i \in 1..Len(out')
               PROVE  i \in 1..Len(Abstract!Expected) /\ out'[i] = Abstract!Expected[i]
    BY <1>5
  <2>1. CASE i = Len(out) + 1
    BY <1>3, <1>8, <2>1
  <2>2. CASE i # Len(out) + 1
    <3>1. i \in 1..Len(out)
      BY <1>8, <2>2
    <3> QED
      BY <1>2, <1>8, <3>1 DEF Streamed
  <2> QED
    BY <2>1, <2>2
<1>10. Len(out') = Len(FilesUpto(current - 1)') + (p + 1)
  <2>1. Len(FilesUpto(current - 1)) \in Nat
    <3>1. current - 1 \in 0..NFiles
      BY <1>3, NFilesType DEF TypeInv
    <3> QED
      BY <3>1, FilesPosition DEF TypeInv
  <2>2. Len(out) = Len(FilesUpto(current - 1)) + p
    BY <1>2 DEF Streamed
  <2>3. FilesUpto(current - 1)' = FilesUpto(current - 1)
    BY <1>1, <1>5
  <2> QED
    BY <1>1, <1>5, <1>8, <2>1, <2>2, <2>3
<1>11. ~(current' > NFiles')
  BY <1>1, <1>3, NFilesType DEF TypeInv
<1>12. Streamed(s, p + 1)'
  BY <1>6, <1>7, <1>8, <1>9, <1>10, <1>11 DEF Streamed
<1>13. s \in [1..NFiles' -> Nat] /\ p + 1 \in Nat
  OBVIOUS
<1> QED
  BY <1>12, <1>13 DEF RefineInv

LEMMA RefineInvNextFile ==
  ASSUME TypeInv, ServedInv, RefineInv, NextFile, NFiles' = NFiles, Worker' = Worker
  PROVE  RefineInv'
<1>1. /\ UNCHANGED << files, nextFile, worker, out, consumer >> /\ consumer = "reading"
      /\ current' = current + 1 /\ current \in 1..NFiles /\ current \in Nat /\ NFiles \in Nat
  BY NFilesType DEF NextFile, TypeInv, Shape
<1>2. PICK s \in [1..NFiles -> Nat], p \in Nat : Streamed(s, p)
  BY <1>1 DEF RefineInv
<1>3. /\ \A g \in 1..NFiles : g # current => queue'[g] = queue[g]
      /\ queue[current] \in {<< >>, << Done >>}
      /\ current < nextFile /\ ~OnFile(current)
  BY FileIsOver
<1>4. /\ \A g : Stop(g)' = Stop(g) /\ files'[g] = files[g]
      /\ \A g, j : Number(g, j)' = Number(g, j)
      /\ \A d : FilesUpto(d)' = FilesUpto(d)
      /\ Abstract!Expected' = Abstract!Expected
      /\ Done' = Done /\ \A g, j : Batch(g, j)' = Batch(g, j)
  BY <1>1, SameContents
<1>5. p = Stop(current)
  <2>1. s[current] = Stop(current)
    BY <1>1, <1>2, <1>3 DEF Streamed, SentInv
  <2>2. Waiting(current, s[current], p)
    BY <1>1, <1>2 DEF Streamed, Got
  <2>3. s[current] = p
    BY <1>3, <2>2, Singleton, BatchIsNotDone DEF Waiting
  <2> QED
    BY <2>1, <2>3
<1>6. SentInv(s)'
  <2>1. \A w : Busy(w)' = Busy(w)
    BY <1>1 DEF Busy
  <2>2. \A g : OnFile(g)' <=> OnFile(g)
    BY <1>1, <2>1 DEF OnFile
  <2>3. \A w \in Worker : Busy(w)' => Working(w, s[worker[w].file])'
    BY <1>1, <1>2, <1>4, <2>1 DEF Streamed, SentInv, Working
  <2> QED
    BY <1>1, <1>2, <1>4, <2>2, <2>3 DEF Streamed, SentInv
<1>7. \A f \in 1..NFiles : f >= current' => Waiting(f, s[f], Got(f, 0))'
  <2> SUFFICES ASSUME NEW f \in 1..NFiles, f >= current + 1 PROVE Waiting(f, s[f], Got(f, 0))'
    BY <1>1
  <2>0. f >= current /\ f # current
    BY <1>1
  <2>1. Waiting(f, s[f], Got(f, p)) /\ Got(f, p) = 0 /\ Got(f, 0)' = 0
    BY <1>2, <2>0 DEF Streamed, Got
  <2> QED
    BY <1>3, <1>4, <2>1 DEF Waiting
<1>8. Len(out') = Len(FilesUpto(current - 1)') + 0
  <2>0. current' - 1 = current
    BY <1>1
  <2>1. FilesUpto(current - 1)' = FilesUpto(current)
    BY <1>4, <2>0
  <2>2. Len(FilesUpto(current)) = Len(FilesUpto(current - 1)) + Stop(current) /\ Len(FilesUpto(current)) \in Nat
    <3>1. current \in 0..NFiles
      BY <1>1
    <3> QED
      BY <1>1, <3>1, FilesPosition DEF TypeInv
  <2>3. Len(out) = Len(FilesUpto(current - 1)) + p
    BY <1>2 DEF Streamed
  <2> QED
    BY <1>1, <1>5, <2>1, <2>2, <2>3
<1>9. /\ out' \in Seq(Item)
      /\ \A i \in 1..Len(out') : i \in 1..Len(Abstract!Expected') /\ out'[i] = Abstract!Expected'[i]
  BY <1>1, <1>2, <1>4 DEF Streamed
<1>10. Streamed(s, 0)'
  BY <1>6, <1>7, <1>8, <1>9 DEF Streamed
<1> QED
  BY <1>1, <1>10 DEF RefineInv

LEMMA RefineInvNext ==
  ASSUME ~MayPanic
  PROVE  TypeInv /\ ServedInv /\ RefineInv /\ [Next]_vars => RefineInv'
<1> SUFFICES ASSUME TypeInv, ServedInv, RefineInv, [Next]_vars PROVE RefineInv'
  OBVIOUS
<1>1. NFiles' = NFiles /\ Worker' = Worker /\ files' = files
  BY SameFiles
<1>2. CASE consumer' # "reading"
  BY <1>2 DEF RefineInv
<1>3. CASE UNCHANGED vars /\ consumer = "reading"
  <2>1. PICK s \in [1..NFiles -> Nat], p \in Nat : Streamed(s, p)
    BY <1>3 DEF RefineInv
  <2>2. /\ \A g : Stop(g)' = Stop(g) /\ files'[g] = files[g]
        /\ \A g, j : Number(g, j)' = Number(g, j)
        /\ \A d : FilesUpto(d)' = FilesUpto(d)
        /\ Abstract!Expected' = Abstract!Expected
        /\ Done' = Done /\ \A g, j : Batch(g, j)' = Batch(g, j)
    BY <1>1, SameContents
  <2>3. UNCHANGED << nextFile, worker, queue, current, out, consumer >>
    BY <1>3 DEF vars
  <2>4. SentInv(s)'
    <3>1. \A w : Busy(w)' = Busy(w)
      BY <2>3 DEF Busy
    <3>2. \A g : OnFile(g)' <=> OnFile(g)
      BY <1>1, <2>3, <3>1 DEF OnFile
    <3>3. \A w \in Worker : Busy(w)' => Working(w, s[worker[w].file])'
      BY <2>1, <2>2, <2>3, <3>1 DEF Streamed, SentInv, Working
    <3> QED
      BY <1>1, <2>1, <2>2, <2>3, <3>2, <3>3 DEF Streamed, SentInv
  <2>5. \A f \in 1..NFiles : f >= current => Waiting(f, s[f], Got(f, p))'
    BY <2>1, <2>2, <2>3 DEF Streamed, Waiting, Got
  <2>6. Streamed(s, p)'
    BY <1>1, <2>1, <2>3, <2>4, <2>5, StreamedKept
  <2> QED
    BY <1>1, <2>6 DEF RefineInv
<1>4. ASSUME NEW w \in Worker, WorkerStep(w), consumer = "reading" PROVE RefineInv'
  BY <1>1, <1>4, RefineInvClaim, RefineInvQuiet, RefineInvSend, RefineInvFinish
     DEF WorkerStep, SendFails
<1>5. CASE Receive \/ NextFile
  BY <1>1, <1>5, RefineInvReceive, RefineInvNextFile
<1>6. CASE End \/ Drop
  BY <1>2, <1>6 DEF End, Drop, NoReceivers
<1>7. consumer' = "reading" => consumer = "reading"
  BY DEF Next, WorkerStep, ConsumerStep, Claim, Open, Decode, Send, SendFails, Finish,
   Panic, Receive, NextFile, End, Drop, NoReceivers, Terminated, vars
<1>8. DOMAIN worker = Worker /\ \A w : ~Panic(w)
  BY DEF TypeInv, Shape, Panic
<1> QED
  BY <1>2, <1>3, <1>4, <1>5, <1>6, <1>7, <1>8 DEF Next, ConsumerStep, Terminated

\* Every step of the reader is one of the stream it implements, or none.
LEMMA StepRefines ==
  ASSUME ~MayPanic
  PROVE  TypeInv /\ ServedInv /\ RefineInv /\ [Next]_vars
           => [Abstract!Next]_<< files, out, consumer >>
<1> SUFFICES ASSUME TypeInv, ServedInv, RefineInv, [Next]_vars
             PROVE  [Abstract!Next]_<< files, out, consumer >>
  OBVIOUS
<1>1. CASE Receive
  <2>1. PICK s \in [1..NFiles -> Nat], p \in Nat : Streamed(s, p)
    BY <1>1 DEF Receive, RefineInv
  <2>2. /\ out' = Append(out, Abstract!Expected[Len(out) + 1])
        /\ Len(out) + 1 \in 1..Len(Abstract!Expected) /\ Len(out) \in Nat
    <3>1. out \in Seq(Item)
      BY <2>1 DEF Streamed
    <3> QED
      BY <1>1, <2>1, <3>1, ReceivedIsNext
  <2>3. Len(out) < Len(Abstract!Expected)
    <3>1. Len(Abstract!Expected) \in Nat
      BY FilesPosition DEF TypeInv
    <3> QED
      BY <2>2, <3>1
  <2>4. Abstract!Deliver
    BY <1>1, <2>2, <2>3 DEF Receive, Abstract!Deliver
  <2> QED
    BY <2>4 DEF Abstract!Next
<1>2. CASE End
  <2>1. consumer = "reading" /\ current > NFiles /\ UNCHANGED << files, out >> /\ consumer' = "finished"
    BY <1>2 DEF End, NoReceivers
  <2>2. PICK s \in [1..NFiles -> Nat], p \in Nat : Streamed(s, p)
    BY <2>1 DEF RefineInv
  <2>3. current - 1 = NFiles /\ p = 0
    <3>1. current \in 1..(NFiles + 1) /\ NFiles \in Nat
      BY NFilesType DEF TypeInv, Shape
    <3> QED
      BY <2>1, <2>2, <3>1 DEF Streamed
  <2>4. Abstract!Expected = FilesUpto(NFiles) /\ Abstract!Expected \in Seq(Item)
    BY FilesPosition DEF TypeInv
  <2>5. Len(out) = Len(Abstract!Expected) /\ out \in Seq(Item)
    BY <2>2, <2>3, <2>4 DEF Streamed
  <2>6. \A i \in 1..Len(out) : out[i] = Abstract!Expected[i]
    BY <2>2 DEF Streamed
  <2>7. out = Abstract!Expected
    BY <2>4, <2>5, <2>6
  <2>8. Abstract!End
    BY <2>1, <2>7 DEF Abstract!End
  <2> QED
    BY <2>8 DEF Abstract!Next
<1>3. CASE Drop
  BY <1>3 DEF Drop, NoReceivers, Abstract!Drop, Abstract!Next
<1>4. CASE ~(Receive \/ End \/ Drop)
  <2>1. UNCHANGED << files, out, consumer >>
    BY <1>4 DEF Next, WorkerStep, ConsumerStep, Claim, Open, Decode, Send, SendFails, Finish,
   Panic, NextFile, Terminated, vars
  <2> QED
    BY <2>1
<1> QED
  BY <1>1, <1>2, <1>3, <1>4

\* Without panics, a consumer of several files is given exactly their batches, one file
\* after the other and each up to its first error, and is told the end only when nothing
\* is missing (ordered_parallel_batches implements OrderedStream).
THEOREM ReaderImplementsStream ==
  ASSUME ~MayPanic
  PROVE  Spec => ImplementsOrderedStream
<1>1. Init => Abstract!Init
  BY DEF Init, Abstract!Init
<1>2. Spec => [](TypeInv /\ ServedInv /\ RefineInv)
  BY TypeInvInit, TypeInvNext, ServedInvInit, ServedInvNext, RefineInvInit, RefineInvNext, PTL
     DEF Spec
<1>3. TypeInv /\ ServedInv /\ RefineInv /\ [Next]_vars => [Abstract!Next]_<< files, out, consumer >>
  BY StepRefines
<1> QED
  BY <1>1, <1>2, <1>3, PTL DEF Spec, ImplementsOrderedStream, Abstract!Spec
=============================================================================
