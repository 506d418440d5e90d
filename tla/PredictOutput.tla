---------------------------- MODULE PredictOutput ----------------------------
(***************************************************************************)
(* predict_files_to_parquet (python.rs): a caller reads and scores batches *)
(* and sends the predictions over a channel with room for two messages to  *)
(* a writer thread, which appends them to a new Parquet file and removes   *)
(* the file again unless it could finish it.  Several calls may name the   *)
(* same path; a call never overwrites a file.                              *)
(*                                                                         *)
(* A file is named by the call that created it; "user" is a file that was  *)
(* there before.  A batch is its number.                                   *)
(***************************************************************************)
EXTENDS Integers, Sequences

CONSTANTS
  Call,       \* the calls made with this output path
  NBatches,   \* batches of the input
  User, None

OutputParams == NBatches \in Nat /\ User \notin Call /\ None \notin Call /\ None # User

VARIABLES
  path,       \* the file at the output path
  contents,   \* per call: what its file holds
  caller,     \* per call: its place
  read,       \* per call: batches scored
  channel,    \* per call: the messages in flight
  sender,     \* per call: whether the caller still holds the sender
  writer,     \* per call: the writer thread
  cause,      \* per call: why it was cancelled
  result      \* per call: what it returned, "" while it runs

output_vars == << path, contents, caller, read, channel, sender, writer, cause, result >>

\* PREDICTION_PARQUET_CHANNEL_BATCHES
Capacity == 2
Finish == 0

OutputInit ==
  /\ path \in {None, User}
  /\ contents = [c \in Call |-> [rows |-> << >>, footer |-> FALSE]]
  /\ caller = [c \in Call |-> "create"]
  /\ read = [c \in Call |-> 0]
  /\ channel = [c \in Call |-> << >>]
  /\ sender = [c \in Call |-> TRUE]
  /\ writer = [c \in Call |-> "none"]
  /\ cause = [c \in Call |-> ""]
  /\ result = [c \in Call |-> ""]

Ended == {"ok", "error", "panic"}
ReceiverGone(c) == writer[c] \in Ended

Go(c, place) == caller' = [caller EXCEPT ![c] = place]
Return(c, value) == Go(c, "returned") /\ result' = [result EXCEPT ![c] = value]

----------------------------------------------------------------------------
\* The caller

\* create_new: an existing file is an error, and is left alone.
CreateOutput(c) ==
  /\ caller[c] = "create"
  /\ IF path = None
     THEN path' = c /\ Go(c, "spawn") /\ UNCHANGED result
     ELSE Return(c, "exists") /\ UNCHANGED path
  /\ UNCHANGED << contents, read, channel, sender, writer, cause >>

Spawn(c) ==
  /\ caller[c] = "spawn"
  /\ \/ /\ writer' = [writer EXCEPT ![c] = "receive"]
        /\ Go(c, "score") /\ UNCHANGED << path, result >>
     \/ path' = None /\ Return(c, "spawn") /\ UNCHANGED writer
  /\ UNCHANGED << contents, read, channel, sender, cause >>

\* The next batch is read and scored, the input ends, or it fails.
Score(c) ==
  /\ caller[c] = "score"
  /\ \/ /\ read[c] < NBatches
        /\ read' = [read EXCEPT ![c] = @ + 1]
        /\ Go(c, "send") /\ UNCHANGED << cause, sender >>
     \/ read[c] = NBatches /\ Go(c, "finish") /\ UNCHANGED << cause, read, sender >>
     \/ /\ cause' = [cause EXCEPT ![c] = "input"]
        /\ sender' = [sender EXCEPT ![c] = FALSE]
        /\ Go(c, "cancelled") /\ UNCHANGED read
  /\ UNCHANGED << path, contents, channel, writer, result >>

\* Mutant: a caller whose writer has ended tries again.
SendRetries(c) ==
  /\ caller[c] = "send" /\ ~ReceiverGone(c) /\ Len(channel[c]) < Capacity
  /\ channel' = [channel EXCEPT ![c] = Append(@, read[c])]
  /\ Go(c, "score") /\ UNCHANGED << path, contents, read, writer, result, cause, sender >>

\* A send waits for room and fails once the writer has ended.
Send(c) ==
  /\ caller[c] = "send"
  /\ \/ /\ ReceiverGone(c)
        /\ cause' = [cause EXCEPT ![c] = "writer"]
        /\ sender' = [sender EXCEPT ![c] = FALSE]
        /\ Go(c, "cancelled") /\ UNCHANGED channel
     \/ /\ ~ReceiverGone(c) /\ Len(channel[c]) < Capacity
        /\ channel' = [channel EXCEPT ![c] = Append(@, read[c])]
        /\ Go(c, "score") /\ UNCHANGED << cause, sender >>
  /\ UNCHANGED << path, contents, read, writer, result >>

\* Whether or not Finish could be sent, the sender is dropped and the writer
\* joined.
SendFinish(c) ==
  /\ caller[c] = "finish"
  /\ ReceiverGone(c) \/ Len(channel[c]) < Capacity
  /\ channel' = [channel EXCEPT ![c] = IF ReceiverGone(c) THEN << >> ELSE Append(@, Finish)]
  /\ sender' = [sender EXCEPT ![c] = FALSE]
  /\ Go(c, "join")
  /\ UNCHANGED << path, contents, read, writer, cause, result >>

WriterVerdict(c) == CASE writer[c] = "error" -> "writer" [] writer[c] = "panic" -> "panic"

\* After a failed send the writer's own error is reported.
Cancel(c) ==
  /\ caller[c] = "cancelled" /\ writer[c] \in Ended
  /\ Return(c, IF cause[c] = "writer" /\ writer[c] # "ok" THEN WriterVerdict(c) ELSE "input")
  /\ UNCHANGED << path, contents, read, channel, sender, writer, cause >>

\* The writer's row count must be the reader's, or the file is removed.
JoinWriter(c) ==
  /\ caller[c] = "join" /\ writer[c] \in Ended
  /\ IF writer[c] # "ok" THEN Return(c, WriterVerdict(c)) /\ UNCHANGED path
     ELSE IF Len(contents[c].rows) = read[c] THEN Return(c, "ok") /\ UNCHANGED path
     ELSE path' = None /\ Return(c, "rows")
  /\ UNCHANGED << contents, read, channel, sender, writer, cause >>

----------------------------------------------------------------------------
\* The writer

Fail(c) == writer' = [writer EXCEPT ![c] = "failing"]

\* Mutant: a closed channel ends the file as if it were complete.
ReceiveCloseIsFinish(c) ==
  /\ writer[c] = "receive"
  /\ \/ channel[c] # << >> /\ Head(channel[c]) # Finish
        /\ contents' = [contents EXCEPT ![c].rows = Append(@, Head(channel[c]))]
        /\ channel' = [channel EXCEPT ![c] = Tail(@)] /\ UNCHANGED writer
     \/ channel[c] # << >> /\ Head(channel[c]) = Finish /\ UNCHANGED << channel, contents >>
        /\ writer' = [writer EXCEPT ![c] = "footer"]
     \/ channel[c] = << >> /\ ~sender[c] /\ UNCHANGED << channel, contents >>
        /\ writer' = [writer EXCEPT ![c] = "footer"]
  /\ UNCHANGED << path, caller, read, sender, cause, result >>

\* A batch is written or fails to be; Finish leads to the footer; a channel
\* closed without Finish is a cancellation.
Receive(c) ==
  /\ writer[c] = "receive"
  /\ \/ /\ channel[c] # << >> /\ Head(channel[c]) # Finish
        /\ channel' = [channel EXCEPT ![c] = Tail(@)]
        /\ \/ contents' = [contents EXCEPT ![c].rows = Append(@, Head(channel[c]))]
              /\ UNCHANGED writer
           \/ Fail(c) /\ UNCHANGED contents
     \/ /\ channel[c] # << >> /\ Head(channel[c]) = Finish
        /\ channel' = [channel EXCEPT ![c] = Tail(@)]
        /\ writer' = [writer EXCEPT ![c] = "footer"] /\ UNCHANGED contents
     \/ /\ channel[c] = << >> /\ ~sender[c]
        /\ Fail(c) /\ UNCHANGED << channel, contents >>
  /\ UNCHANGED << path, caller, read, sender, cause, result >>

\* The footer, and sync_all; only then is the output complete.
Footer(c) ==
  /\ writer[c] = "footer"
  /\ \/ /\ contents' = [contents EXCEPT ![c].footer = TRUE]
        /\ writer' = [writer EXCEPT ![c] = "ok"]
     \/ Fail(c) /\ UNCHANGED contents
  /\ UNCHANGED << path, caller, read, channel, sender, cause, result >>

\* IncompletePredictionOutput removes what is at the path, also when the
\* writer unwinds; the receiver, a parameter, is dropped after it.
Cleanup(c) ==
  /\ writer[c] = "failing"
  /\ path' = None
  /\ \E end \in {"error", "panic"} : writer' = [writer EXCEPT ![c] = end]
  /\ channel' = [channel EXCEPT ![c] = << >>]
  /\ UNCHANGED << contents, caller, read, sender, cause, result >>

----------------------------------------------------------------------------
Caller(c) ==
  CreateOutput(c) \/ Spawn(c) \/ Score(c) \/ Send(c) \/ SendFinish(c) \/ Cancel(c) \/ JoinWriter(c)
Writer(c) == Receive(c) \/ Footer(c) \/ Cleanup(c)

Returned == (\A c \in Call : caller[c] = "returned") /\ UNCHANGED output_vars

OutputNext == (\E c \in Call : Caller(c) \/ Writer(c)) \/ Returned

OutputSpec == OutputInit /\ [][OutputNext]_output_vars
FairOutputSpec ==
  OutputSpec /\ \A c \in Call : WF_output_vars(Caller(c)) /\ WF_output_vars(Writer(c))
----------------------------------------------------------------------------
\* Properties

AllBatches == [k \in 1..NBatches |-> k]

\* A call that reports success has left, at its path, a finished file with
\* every batch once and in order, whatever other calls did meanwhile.
SuccessMeansWhole ==
  \A c \in Call : result[c] = "ok" =>
    path = c /\ contents[c] = [rows |-> AllBatches, footer |-> TRUE]

\* A call that reports any error has left no file of its own behind.
FailureLeavesNothing ==
  \A c \in Call : result[c] \notin {"", "ok"} => path # c

\* A call removes or replaces no file but its own: not the user's, not that
\* of another call.
OthersUntouched ==
  [][path \notin {path', None} =>
       \E c \in Call : path = c /\ path' = None /\ (writer[c] = "failing" \/ caller[c] = "spawn")]_path

\* The final comparison of row counts cannot fail, and an error of the writer
\* is reported as one unless the input had failed by itself before.
ErrorsAreNamed ==
  \A c \in Call :
    /\ result[c] # "rows"
    /\ result[c] = "input" => cause[c] = "input"
    /\ result[c] \in {"writer", "panic"} => writer[c] \in {"error", "panic"}

\* A call that reports success has left a whole output file, one that does not has
\* left none, and neither touches the file of another.
OutputWholeOrGone ==
  [](SuccessMeansWhole /\ FailureLeavesNothing /\ ErrorsAreNamed) /\ OthersUntouched

\* Every call returns: caller and writer never wait for each other.
CallsReturn == \A c \in Call : <>(caller[c] = "returned")

=============================================================================
