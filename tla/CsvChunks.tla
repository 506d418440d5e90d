------------------------------ MODULE CsvChunks ------------------------------
(***************************************************************************)
(* parallel_csv_chunks (source/csv_source.rs): one thread cuts a CSV file  *)
(* into chunks of whole records, parser threads parse them in any order,   *)
(* and the consumer receives the batches in file order.  Each chunk has a  *)
(* result channel of its own, which travels to the consumer over the       *)
(* bounded channel of messages before the chunk travels to the parsers     *)
(* over the bounded channel of jobs.                                       *)
(*                                                                         *)
(* A batch is the pair of its chunk and its position there; an error of    *)
(* chunk c is the pair (c, 0), an error of the reading thread (0, 0).      *)
(***************************************************************************)
EXTENDS Integers, Sequences, SequencesExt

CONSTANTS
  NThread,   \* nthread, at least 2: with fewer no thread is started
  Inputs     \* the files considered

\* What a file holds: per chunk how many batches it parses into, or that it
\* cannot be parsed, or that its parser panics; and whether reading it fails
\* after the last of these chunks.
Outcome == [kind : {"ok", "err", "panic"}, n : Nat]
ChunkedFile == [chunks : Seq(Outcome), fails : BOOLEAN]

ASSUME ChunkParams ==
  /\ NThread \in Nat /\ NThread > 1
  /\ \A file \in Inputs : file \in ChunkedFile

VARIABLES
  file,
  producer,   \* the reading thread: its place and its chunk
  messages,   \* the channel of messages
  jobs,       \* the channel of jobs
  parser,     \* per parser thread its place and its chunk
  result,     \* per chunk: "pending", "sent" or "lost" (sender dropped)
  ready,      \* parsed batches the consumer holds
  waiting,    \* the chunk whose result the consumer waits for, 0 if none
  c_out,        \* what the consumer was given
  c_consumer    \* "reading", "finished" (None) or "dropped"

c_vars == << file, producer, messages, jobs, parser, result, ready, waiting, c_out, c_consumer >>

NChunks == Len(file.chunks)

\* nthread - 1 parsers, at least one; both channels have this capacity.
ParserThreads == IF NThread - 1 < 1 THEN 1 ELSE NThread - 1
Parser == 1..ParserThreads

Chunk(c) == [kind |-> "chunk", chunk |-> c]
Failed == [kind |-> "error"]
ChunksDone == [kind |-> "done"]

Batches(c) == [k \in 1..file.chunks[c].n |-> << c, k >>]
ChunkError(c) == << c, 0 >>
ReadError == << 0, 0 >>

ChunksInit ==
  /\ file \in Inputs
  /\ producer = [at |-> "read", chunk |-> 0]
  /\ messages = << >> /\ jobs = << >>
  /\ parser = [p \in Parser |-> [at |-> "lock", chunk |-> 0]]
  /\ result = [c \in 1..NChunks |-> "pending"]
  /\ ready = << >> /\ waiting = 0 /\ c_out = << >>
  /\ c_consumer = "reading"

ConsumerGone == c_consumer # "reading"
ParsersGone(ps) == \A p \in Parser : ps[p].at = "exit"

----------------------------------------------------------------------------
\* The reading thread

\* The end of the file, or an error of reading it.
AfterLast == IF file.fails THEN "failed" ELSE "done"

\* The next complete records fill a chunk.
ReadChunk ==
  /\ producer.at = "read"
  /\ producer' = IF producer.chunk = NChunks
                 THEN [producer EXCEPT !.at = AfterLast]
                 ELSE [at |-> "announce", chunk |-> producer.chunk + 1]
  /\ UNCHANGED << file, messages, jobs, parser, result, ready, waiting, c_out, c_consumer >>

\* A send on the message channel waits for room; it fails once the consumer
\* has gone, which ends the loop as an error.
Announce ==
  /\ producer.at = "announce"
  /\ \/ /\ ConsumerGone
        /\ producer' = [producer EXCEPT !.at = "failed"]
        /\ UNCHANGED messages
     \/ /\ ~ConsumerGone /\ Len(messages) < ParserThreads
        /\ messages' = Append(messages, Chunk(producer.chunk))
        /\ producer' = [producer EXCEPT !.at = "job"]
  /\ UNCHANGED << file, jobs, parser, result, ready, waiting, c_out, c_consumer >>

\* A job nobody can take any more is dropped, and its sender with it.
SendJob ==
  /\ producer.at = "job"
  /\ \/ /\ ParsersGone(parser)
        /\ producer' = [producer EXCEPT !.at = "failed"]
        /\ result' = [result EXCEPT ![producer.chunk] = "lost"]
        /\ UNCHANGED jobs
     \/ /\ ~ParsersGone(parser) /\ Len(jobs) < ParserThreads
        /\ jobs' = Append(jobs, producer.chunk)
        /\ producer' = [producer EXCEPT !.at = "read"]
        /\ UNCHANGED result
  /\ UNCHANGED << file, messages, parser, ready, waiting, c_out, c_consumer >>

\* An error is reported, then the end; a send to nobody is ignored.
Report(from, message, to) ==
  /\ producer.at = from
  /\ ConsumerGone \/ Len(messages) < ParserThreads
  /\ messages' = IF ConsumerGone THEN messages ELSE Append(messages, message)
  /\ producer' = [producer EXCEPT !.at = to]
  /\ UNCHANGED << file, jobs, parser, result, ready, waiting, c_out, c_consumer >>

ReportError == Report("failed", Failed, "done")
ReportDone == Report("done", ChunksDone, "exit")

----------------------------------------------------------------------------
\* The parsers

\* The mutex around the receiver is held while waiting for a job.
Lock(p) ==
  /\ parser[p].at = "lock"
  /\ \A q \in Parser : parser[q].at # "receive"
  /\ parser' = [parser EXCEPT ![p].at = "receive"]
  /\ UNCHANGED << file, producer, messages, jobs, result, ready, waiting, c_out, c_consumer >>

\* When the last parser ends, the jobs still queued are dropped.
DropJobs(ps, res) ==
  IF ParsersGone(ps)
  THEN /\ jobs' = << >>
       /\ result' = [c \in 1..NChunks |->
                       IF \E k \in DOMAIN jobs : jobs[k] = c THEN "lost" ELSE res[c]]
  ELSE jobs' = jobs /\ result' = res

\* No job can come once the reading thread has dropped the sender.
ReceiveJob(p) ==
  /\ parser[p].at = "receive"
  /\ \/ /\ jobs # << >>
        /\ jobs' = Tail(jobs)
        /\ parser' = [parser EXCEPT ![p] = [at |-> "parse", chunk |-> Head(jobs)]]
        /\ UNCHANGED result
     \/ /\ jobs = << >> /\ producer.at = "exit"
        /\ parser' = [parser EXCEPT ![p].at = "exit"]
        /\ DropJobs(parser', result)
  /\ UNCHANGED << file, producer, messages, ready, waiting, c_out, c_consumer >>

\* Parsing and sending the result, for which the channel has room.  A panic
\* drops the sender and ends the thread, a consumer that has gone ends it too.
Parse(p) ==
  /\ parser[p].at = "parse"
  /\ LET c == parser[p].chunk
         dead == file.chunks[c].kind = "panic" \/ ConsumerGone
     IN  /\ parser' = [parser EXCEPT ![p].at = IF dead THEN "exit" ELSE "lock"]
         /\ DropJobs(parser', [result EXCEPT ![c] = IF dead THEN "lost" ELSE "sent"])
  /\ UNCHANGED << file, producer, messages, ready, waiting, c_out, c_consumer >>

----------------------------------------------------------------------------
\* The consumer: ParallelCsvChunks::next

Give(item) == c_out' = Append(c_out, item)

NextReady ==
  /\ c_consumer = "reading" /\ ready # << >>
  /\ Give(Head(ready)) /\ ready' = Tail(ready)
  /\ UNCHANGED << file, producer, messages, jobs, parser, result, waiting, c_consumer >>

NextMessage ==
  /\ c_consumer = "reading" /\ ready = << >> /\ waiting = 0 /\ messages # << >>
  /\ messages' = Tail(messages)
  /\ LET m == Head(messages) IN
     \/ m.kind = "chunk" /\ waiting' = m.chunk /\ UNCHANGED << c_out, c_consumer >>
     \/ m.kind = "error" /\ Give(ReadError) /\ UNCHANGED << waiting, c_consumer >>
     \/ m.kind = "done" /\ c_consumer' = "finished" /\ UNCHANGED << c_out, waiting >>
  /\ UNCHANGED << file, producer, jobs, parser, result, ready >>

\* Mutant: whichever result is there is taken.
NextResultAny ==
  /\ c_consumer = "reading" /\ waiting # 0
  /\ \E c \in 1..NChunks :
       /\ result[c] # "pending" /\ c >= waiting
       /\ waiting' = 0
       /\ IF result[c] = "sent" /\ file.chunks[c].kind = "ok"
          THEN ready' = ready \o Batches(c) /\ UNCHANGED c_out
          ELSE Give(ChunkError(c)) /\ UNCHANGED ready
  /\ UNCHANGED << file, producer, messages, jobs, parser, result, c_consumer >>

\* A chunk that failed, or whose parser died, is an error in its place; the
\* chunks after it are still delivered to a consumer that reads on.
NextResult ==
  /\ c_consumer = "reading" /\ waiting # 0 /\ result[waiting] # "pending"
  /\ waiting' = 0
  /\ IF result[waiting] = "sent" /\ file.chunks[waiting].kind = "ok"
     THEN ready' = ready \o Batches(waiting) /\ UNCHANGED c_out
     ELSE Give(ChunkError(waiting)) /\ UNCHANGED ready
  /\ UNCHANGED << file, producer, messages, jobs, parser, result, c_consumer >>

\* Dropping the iterator drops the messages, and the results in them.
DropConsumer ==
  /\ c_consumer = "reading"
  /\ c_consumer' = "dropped"
  /\ messages' = << >> /\ ready' = << >> /\ waiting' = 0
  /\ UNCHANGED << file, producer, jobs, parser, result, c_out >>

----------------------------------------------------------------------------
Read == ReadChunk \/ Announce \/ SendJob \/ ReportError \/ ReportDone
Work(p) == Lock(p) \/ ReceiveJob(p) \/ Parse(p)
Consume == NextReady \/ NextMessage \/ NextResult

AllEnded == producer.at = "exit" /\ ParsersGone(parser) /\ ConsumerGone
ChunksTerminated == AllEnded /\ UNCHANGED c_vars

ChunksNext == Read \/ (\E p \in Parser : Work(p)) \/ Consume \/ DropConsumer \/ ChunksTerminated

ChunksSpec == ChunksInit /\ [][ChunksNext]_c_vars

----------------------------------------------------------------------------
\* Properties

\* Threads, channels and results are what the code can make of them; neither
\* channel holds more than its capacity and one parser holds the mutex.
ChunksTypeOK ==
  /\ producer.at \in {"read", "announce", "job", "failed", "done", "exit"}
  /\ producer.chunk \in 0..NChunks
  /\ Len(messages) <= ParserThreads /\ Len(jobs) <= ParserThreads
  /\ \A p \in Parser : parser[p].at \in {"lock", "receive", "parse", "exit"}
  /\ \A p, q \in Parser : parser[p].at = "receive" /\ parser[q].at = "receive" => p = q
  /\ waiting \in 0..NChunks
  /\ result \in [1..NChunks -> {"pending", "sent", "lost"}]

\* What chunk c comes as, given which chunks came as errors; and the first k chunks.
Items(c) ==
  IF Contains(c_out, ChunkError(c)) THEN << ChunkError(c) >> ELSE Batches(c)

Upto(k) == FlattenSeq([c \in 1..k |-> Items(c)])

Expected == Upto(NChunks)

\* Batches come in file and row order, every chunk whole or as one error, no
\* matter which parser finished first; a good chunk is an error only if some
\* parser panicked; an error of the reader comes after everything else.
ChunksDelivered ==
  /\ \/ IsPrefix(c_out, Expected)
     \/ /\ c_out # << >> /\ Last(c_out) = ReadError
        /\ IsPrefix(Front(c_out), Expected)
  /\ \A c \in 1..NChunks :
       Contains(c_out, ChunkError(c)) /\ file.chunks[c].kind = "ok" =>
         \E d \in 1..NChunks : file.chunks[d].kind = "panic"

\* The stream never ends short without saying so: None comes only after every
\* chunk was delivered or an error of the reader was handed over.
NeverTruncated ==
  c_consumer = "finished" =>
    \/ Contains(c_out, ReadError)
    \/ ~file.fails /\ c_out = Expected

\* The reader is never further ahead of the consumer than the message channel,
\* the chunk waited for and the chunk in its hands: the bound that keeps a
\* fast disk from filling the memory with unparsed chunks.
ChunksInFlight ==
  \A c \in 1..NChunks :
    c <= producer.chunk /\ ~ConsumerGone =>
      \/ Contains(c_out, << c, 0 >>) \/ Contains(c_out, << c, 1 >>)
      \/ file.chunks[c].kind = "ok" /\ file.chunks[c].n = 0
      \/ producer.chunk - c <= ParserThreads + 1

\* What a CSV file read in chunks promises: order, an honest end, bounded memory.
ChunksKeepOrder == ChunksDelivered /\ NeverTruncated /\ ChunksInFlight

\* A consumer that reads on is told the end, and the threads end in any case.
StreamEnds == <>(c_consumer # "reading")
ThreadsEnd == (c_consumer # "reading") ~> AllEnded
=============================================================================
