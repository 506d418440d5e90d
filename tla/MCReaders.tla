----------------------------- MODULE MCReaders ------------------------------
(***************************************************************************)
(* The threads that read input for TLC: several files at once              *)
(* (ParallelReader), one CSV file in chunks (CsvChunks), and again several *)
(* files with decoders that may panic, after which a consumer can be left  *)
(* waiting.  A behaviour has input for one of them: `input` says which.    *)
(* The other two do nothing, except that ParallelReader first ends with an *)
(* empty list of files.                                                    *)
(***************************************************************************)
EXTENDS ParallelReader, CsvChunks

CONSTANT PanicLists

VARIABLES
  input,      \* "files", "chunks" or "panics"
  p_files, p_nextFile, p_worker, p_queue, p_current, p_out, p_consumer

panic_vars == << p_files, p_nextFile, p_worker, p_queue, p_current, p_out, p_consumer >>

Panics == INSTANCE ParallelReader WITH
  Threads <- 3, FileLists <- PanicLists, MayPanic <- TRUE, files <- p_files,
  nextFile <- p_nextFile, worker <- p_worker, queue <- p_queue, current <- p_current,
  out <- p_out, consumer <- p_consumer

NoChunks == [chunks |-> << >>, fails |-> FALSE]

ReadersInit ==
  /\ \/ input = "files" /\ file = NoChunks /\ p_files = << >>
     \/ input = "chunks" /\ files = << >> /\ p_files = << >>
     \/ input = "panics" /\ files = << >> /\ file = NoChunks
  /\ Init /\ ChunksInit /\ Panics!Init

FilesEnded == consumer # "reading" /\ \A w \in DOMAIN worker : worker[w].at = "exit"

ReadFiles == Next /\ UNCHANGED << input, c_vars, panic_vars >>
ReadChunks ==
  /\ input = "chunks" /\ FilesEnded
  /\ ChunksNext
  /\ UNCHANGED << input, vars, panic_vars >>
ReadAndPanic ==
  /\ input = "panics" /\ FilesEnded
  /\ Panics!Next \/ UNCHANGED panic_vars
  /\ UNCHANGED << input, vars, c_vars >>

ReadersSpec ==
  /\ ReadersInit
  /\ [][ReadFiles \/ ReadChunks \/ ReadAndPanic]_<< input, vars, c_vars, panic_vars >>
  \* ParallelReader!FairSpec; a CSV file's threads are scheduled, and its consumer,
  \* unless it drops the iterator, reads on.
  /\ \A w \in 1..AtLeastOne(Threads) : WF_vars(w \in DOMAIN worker /\ WorkerStep(w))
  /\ WF_vars(ConsumerStep)
  /\ WF_c_vars(input = "chunks" /\ FilesEnded /\ Read)
  /\ WF_c_vars(input = "chunks" /\ FilesEnded /\ Consume)
  /\ \A p \in 1..NThread - 1 : WF_c_vars(input = "chunks" /\ FilesEnded /\ Work(p))

----------------------------------------------------------------------------
\* Properties

\* Every thread ends: the workers of several files, and those of a CSV file once the
\* consumer has left.  A consumer that reads on is told the end, of the CSV file
\* whatever chunks fail and whichever parsers panic.  A decoder that panics neither
\* lets two workers at one file nor disturbs the order of what is delivered.
ReadersEnd ==
  /\ FilesEnd /\ WorkersEnd
  /\ (input = "chunks" => StreamEnds) /\ ThreadsEnd
  /\ [](Panics!OneReaderPerFile /\ Panics!DeliveredInOrder)

----------------------------------------------------------------------------
\* Instances

File(batches) == [opens |-> TRUE, batches |-> batches]
Unreadable == [opens |-> FALSE, batches |-> << >>]

\* An empty file, ordinary ones, an error in the middle and a missing file.
MCFile == {File(<< >>), File(<< "ok" >>), File(<< "ok", "ok" >>),
           File(<< "ok", "err", "ok" >>), Unreadable}

MCFileLists ==
  UNION {[1..n -> MCFile] : n \in 0..2} \cup [1..3 -> MCFile \ {File(<< >>), Unreadable}]
  \cup {<< File(<< >>), f, Unreadable >> : f \in MCFile}

\* As many files as threads, and one more.
MCPanicLists ==
  {<< >>} \cup [1..3 -> {File(<< "ok" >>)}]
  \cup {<< File(<< "ok", "ok" >>), File(<< "ok" >>), File(<< "ok", "ok" >>), File(<< "ok" >>) >>}

\* Chunks of one or two batches, unparsable ones, ones that make a parser panic,
\* and more chunks than the channels hold.
Ok(n) == [kind |-> "ok", n |-> n]
Bad(kind) == [kind |-> kind, n |-> 0]
MCInputs ==
  {NoChunks}
  \cup [chunks : {<< Ok(1) >>, << Ok(2), Bad("err") >>, << Bad("panic"), Ok(1) >>,
                  << Ok(1), Ok(2), Bad("err"), Ok(1) >>,
                  << Bad("panic"), Ok(2), Bad("panic"), Ok(1), Ok(1) >>},
        fails : BOOLEAN]
=============================================================================
