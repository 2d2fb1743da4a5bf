---------------------------- MODULE ServerStream ----------------------------
(* One server stream of the native gRPC proxy and the client that iterates  *)
(* over it: a producer task of the native process fills a bounded channel,  *)
(* reads of the web view collect batches from it and time out, and a query  *)
(* may be cancelled at any moment. Streams share nothing but the registry,  *)
(* whose ids are unique, so that one of them stands for all.                *)
EXTENDS Naturals, Sequences

CONSTANTS Capacity,      \* STREAM_CAPACITY
          MaxMessages    \* bound on the messages of the server

ASSUME StreamAssumption == /\ Capacity \in Nat \ {0}
                           /\ MaxMessages \in Nat

VARIABLES
    sent,          \* messages the producer has received, numbered from 1
    upstream,      \* what it received after them
    marker,        \* the message that ends the Arrow stream in them, 0 if none did
    producer,      \* the producer task
    inHand,        \* the event it is sending
    queue,         \* the channel
    registered,    \* the stream is in server_streams
    reader,        \* the read call of the client, as far as it got
    batch,         \* the messages that call has collected
    client,        \* the iteration of the query over the stream
    aborted,       \* the query's abort signal
    deleting,      \* a DELETE request is on its way
    reachedEnd,    \* reachedEndOfStream
    buffered,      \* the rest of currentBatch
    delivered      \* messages handed to the query

nativeVars == <<sent, upstream, marker, producer, inHand, queue>>
clientVars == <<client, aborted, reachedEnd, buffered, delivered>>
vars == <<nativeVars, registered, reader, batch, deleting, clientVars>>

Message(n) == [kind |-> "Message", id |-> n]
End == [kind |-> "End", id |-> 0]
ReadFailed == [kind |-> "ReadFailed", id |-> 0]

Events == [kind : {"Message", "End", "ReadFailed"}, id : Nat]

\* A read that ended in an answer which the client has not received yet.
Answers == {"flushed", "ended", "failed"}

Over == {"finished", "failed", "cancelled"}

TypeOK ==
    /\ sent \in 0 .. MaxMessages
    /\ upstream \in {"open", "ended", "failed"}
    /\ marker \in 0 .. MaxMessages
    /\ producer \in {"unborn", "reading", "sending", "stopped"}
    /\ inHand \in Events
    /\ queue \in Seq(Events) /\ Len(queue) <= Capacity
    /\ registered \in BOOLEAN
    /\ reader \in {"idle", "requested", "waiting"} \cup Answers
    /\ batch \in Seq(Nat)
    /\ client \in {"starting", "started", "iterating"} \cup Over
    /\ aborted \in BOOLEAN
    /\ deleting \in BOOLEAN
    /\ reachedEnd \in BOOLEAN
    /\ buffered \in Seq(Nat)
    /\ delivered \in Seq(Nat)

Init ==
    /\ sent = 0
    /\ upstream = "open"
    /\ marker = 0
    /\ producer = "unborn"
    /\ inHand = End
    /\ queue = <<>>
    /\ registered = FALSE
    /\ reader = "idle"
    /\ batch = <<>>
    /\ client = "starting"
    /\ aborted = FALSE
    /\ deleting = FALSE
    /\ reachedEnd = FALSE
    /\ buffered = <<>>
    /\ delivered = <<>>

-----------------------------------------------------------------------------
(* The stream starts.                                                       *)

\* The server accepts the call: the stream gets an entry and a producer.
StreamStarts ==
    /\ client = "starting"
    /\ producer' = "reading"
    /\ registered' = TRUE
    /\ client' = "started"
    /\ UNCHANGED <<sent, upstream, marker, inHand, queue, reader, batch, aborted,
                   deleting, reachedEnd, buffered, delivered>>

StartFails ==
    /\ client = "starting"
    /\ client' = IF aborted THEN "cancelled" ELSE "failed"
    /\ UNCHANGED <<nativeVars, registered, reader, batch, aborted, deleting,
                   reachedEnd, buffered, delivered>>

\* Mutant: the signal is not looked at when the stream id arrives.
StreamArrivesUnchecked ==
    /\ client = "started"
    /\ client' = "iterating"
    /\ UNCHANGED <<nativeVars, registered, reader, batch, aborted, deleting,
                   reachedEnd, buffered, delivered>>

\* The client learns the stream id: a query that was cancelled meanwhile
\* destroys the stream, any other one begins to iterate.
StreamArrives ==
    /\ client = "started"
    /\ client' = IF aborted THEN "cancelled" ELSE "iterating"
    /\ reachedEnd' = aborted
    /\ deleting' = aborted
    /\ UNCHANGED <<nativeVars, registered, reader, batch, aborted, buffered,
                   delivered>>

-----------------------------------------------------------------------------
(* The producer task.                                                       *)

\* The bytes of a message may complete the Arrow stream; a later one is still
\* a message of the gRPC stream.
ReceiveMessage ==
    /\ producer = "reading" /\ sent < MaxMessages
    /\ sent' = sent + 1
    /\ marker' \in IF marker = 0 THEN {0, sent + 1} ELSE {marker}
    /\ inHand' = Message(sent + 1)
    /\ producer' = "sending"
    /\ UNCHANGED <<upstream, queue, registered, reader, batch, deleting, clientVars>>

\* The server ends the stream, with trailers or without a readable form of them.
ReceiveEnd ==
    /\ producer = "reading"
    /\ \/ upstream' = "ended" /\ inHand' = End
       \/ upstream' = "failed" /\ inHand' = ReadFailed
    /\ producer' = "sending"
    /\ UNCHANGED <<sent, marker, queue, registered, reader, batch, deleting, clientVars>>

ReceiveError ==
    /\ producer = "reading"
    /\ upstream' = "failed"
    /\ inHand' = ReadFailed
    /\ producer' = "sending"
    /\ UNCHANGED <<sent, marker, queue, registered, reader, batch, deleting, clientVars>>

\* The send waits for room in the channel. It cannot fail: the task itself
\* holds the entry with the receiver.
Push ==
    /\ producer = "sending" /\ Len(queue) < Capacity
    /\ queue' = Append(queue, inHand)
    /\ producer' = IF inHand.kind = "Message" THEN "reading" ELSE "stopped"
    /\ UNCHANGED <<sent, upstream, marker, inHand, registered, reader, batch, deleting,
                   clientVars>>

-----------------------------------------------------------------------------
(* A read call of the native process. The client is its only caller.        *)

\* The call finds the entry of the stream, or there is none (any more).
ReadBegins ==
    /\ reader = "requested"
    /\ reader' = IF registered THEN "waiting" ELSE "failed"
    /\ batch' = <<>>
    /\ UNCHANGED <<nativeVars, registered, deleting, clientVars>>

\* A message joins the batch, which is flushed when it has grown too large.
ReadMessage ==
    /\ reader = "waiting" /\ queue # <<>> /\ Head(queue).kind = "Message"
    /\ batch' = Append(batch, Head(queue).id)
    /\ queue' = Tail(queue)
    /\ reader' \in {"waiting", "flushed"}
    /\ UNCHANGED <<sent, upstream, marker, producer, inHand, registered, deleting, clientVars>>

ReadEnd ==
    /\ reader = "waiting" /\ queue # <<>> /\ Head(queue).kind = "End"
    /\ queue' = Tail(queue)
    /\ registered' = FALSE
    /\ reader' = "ended"
    /\ UNCHANGED <<sent, upstream, marker, producer, inHand, batch, deleting, clientVars>>

\* Mutant: an upstream failure flushes what was collected and ends the stream.
ReadFailureAsEnd ==
    /\ reader = "waiting" /\ queue # <<>> /\ Head(queue).kind = "ReadFailed"
    /\ queue' = Tail(queue)
    /\ registered' = FALSE
    /\ reader' = "ended"
    /\ UNCHANGED <<sent, upstream, marker, producer, inHand, batch, deleting, clientVars>>

\* The failure is reported and the messages held back are thrown away.
ReadFailure ==
    /\ reader = "waiting" /\ queue # <<>> /\ Head(queue).kind = "ReadFailed"
    /\ queue' = Tail(queue)
    /\ registered' = FALSE
    /\ reader' = "failed"
    /\ UNCHANGED <<sent, upstream, marker, producer, inHand, batch, deleting, clientVars>>

\* Mutant: a read of a stream that is destroyed meanwhile waits for ever.
ReadTimesOutRegistered ==
    /\ reader = "waiting" /\ registered
    /\ IF batch = <<>> THEN queue = <<>> /\ reader' = "failed"
                       ELSE reader' = "flushed"
    /\ UNCHANGED <<nativeVars, registered, batch, deleting, clientVars>>

\* An empty batch waits until timeout_read_after, which is an error; the clock
\* is looked at before the channel once there is something to flush.
ReadTimesOut ==
    /\ reader = "waiting"
    /\ IF batch = <<>> THEN queue = <<>> /\ reader' = "failed"
                       ELSE reader' = "flushed"
    /\ UNCHANGED <<nativeVars, registered, batch, deleting, clientVars>>

DestroyServerStream ==
    /\ deleting
    /\ deleting' = FALSE
    /\ registered' = FALSE
    /\ UNCHANGED <<nativeVars, reader, batch, clientVars>>

-----------------------------------------------------------------------------
(* The client.                                                              *)

\* The next message of the current batch.
TakeMessage ==
    /\ client = "iterating" /\ buffered # <<>>
    /\ delivered' = Append(delivered, Head(buffered))
    /\ buffered' = Tail(buffered)
    /\ UNCHANGED <<nativeVars, registered, reader, batch, deleting, client,
                   aborted, reachedEnd>>

Read ==
    /\ client = "iterating" /\ buffered = <<>> /\ ~reachedEnd /\ reader = "idle"
    /\ reader' = "requested"
    /\ UNCHANGED <<nativeVars, registered, batch, deleting, clientVars>>

\* Mutant: every batch is taken for the last one.
AnswerArrivesLast ==
    /\ reader \in {"flushed", "ended"}
    /\ reader' = "idle"
    /\ buffered' = batch
    /\ reachedEnd' = TRUE
    /\ batch' = <<>>
    /\ UNCHANGED <<nativeVars, registered, deleting, client, aborted, delivered>>

AnswerArrives ==
    /\ reader \in {"flushed", "ended"}
    /\ reader' = "idle"
    /\ buffered' = batch
    /\ reachedEnd' = (reachedEnd \/ reader = "ended")
    /\ batch' = <<>>
    /\ UNCHANGED <<nativeVars, registered, deleting, client, aborted, delivered>>

\* read() throws, a timeout included, and with it the iteration: nobody
\* destroys the stream then.
ErrorArrives ==
    /\ reader = "failed"
    /\ reader' = "idle"
    /\ batch' = <<>>
    /\ client' = IF aborted THEN "cancelled" ELSE "failed"
    /\ UNCHANGED <<nativeVars, registered, deleting, aborted, reachedEnd,
                   buffered, delivered>>

\* The Arrow reader has had the marker and is done: the query ends without the
\* end of the gRPC stream, which nobody reads or destroys then. The reader may
\* also look ahead, what it buffers is its own affair.
ResultComplete ==
    /\ client = "iterating" /\ reader = "idle"
    /\ marker \in 1 .. Len(delivered)
    /\ client' = IF aborted THEN "cancelled" ELSE "finished"
    /\ UNCHANGED <<nativeVars, registered, reader, batch, deleting, aborted,
                   reachedEnd, buffered, delivered>>

\* A message that is no Arrow chunk, or that the reader cannot decode: it throws
\* and nobody destroys the stream.
RejectsMessage ==
    /\ client = "iterating" /\ reader = "idle" /\ delivered # <<>>
    /\ client' = IF aborted THEN "cancelled" ELSE "failed"
    /\ UNCHANGED <<nativeVars, registered, reader, batch, deleting, aborted,
                   reachedEnd, buffered, delivered>>

\* The iterator is done, which a cancelled query does not take for the end.
EndOfStream ==
    /\ client = "iterating" /\ buffered = <<>> /\ reachedEnd /\ reader = "idle"
    /\ client' = IF aborted THEN "cancelled" ELSE "finished"
    /\ UNCHANGED <<nativeVars, registered, reader, batch, deleting, aborted,
                   reachedEnd, buffered, delivered>>

\* produce() looks at the signal after every record batch.
AbortNoticed ==
    /\ client = "iterating" /\ aborted /\ reader = "idle"
    /\ client' = "cancelled"
    /\ UNCHANGED <<nativeVars, registered, reader, batch, deleting, aborted,
                   reachedEnd, buffered, delivered>>

\* The query is cancelled: the signal is set, and a stream that is being
\* iterated and has not reached its end is destroyed.
Cancel ==
    /\ client \notin Over /\ ~aborted
    /\ aborted' = TRUE
    /\ LET destroys == client = "iterating" /\ ~reachedEnd
       IN /\ deleting' = (deleting \/ destroys)
          /\ reachedEnd' = (reachedEnd \/ destroys)
    /\ UNCHANGED <<nativeVars, registered, reader, batch, client, buffered, delivered>>

-----------------------------------------------------------------------------

Producer == ReceiveMessage \/ ReceiveEnd \/ ReceiveError \/ Push
ReadCall == ReadBegins \/ ReadMessage \/ ReadEnd \/ ReadFailure \/ ReadTimesOut
Iteration == \/ TakeMessage \/ Read \/ AnswerArrives \/ ErrorArrives
             \/ ResultComplete \/ EndOfStream
Start == StreamStarts \/ StartFails \/ StreamArrives

\* The client is through with the stream.
Done == client \in Over /\ UNCHANGED vars

Next == Start \/ Producer \/ ReadCall \/ Iteration \/ DestroyServerStream
           \/ RejectsMessage \/ AbortNoticed \/ Cancel \/ Done

Spec == Init /\ [][Next]_vars

\* Requests are answered, tasks are scheduled and timeouts expire. The server
\* may be silent for ever, and nobody has to cancel.
FairSpec == /\ Spec
            /\ WF_vars(Start)
            /\ WF_vars(Push)
            /\ WF_vars(ReadBegins \/ ReadTimesOut)
            /\ WF_vars(ReadMessage \/ ReadEnd \/ ReadFailure)
            /\ WF_vars(Iteration)
            /\ WF_vars(DestroyServerStream)

-----------------------------------------------------------------------------
(* Properties.                                                              *)

Outcome == IF client \in Over THEN client ELSE "reading"

Abstract == INSTANCE MessageStream WITH outcome <- Outcome

\* The query is given the messages of the server in order, none twice and none
\* left out, and it finishes only with its whole result: up to the end of the
\* Arrow stream, or of the gRPC stream, whatever is buffered, flushed, timed out
\* or destroyed in between (native_grpc_client.ts
\* NativeGrpcServerStreamMessageIterator, native_hyperdb_grpc_client.ts produce).
DeliversInOrder == Abstract!Spec

\* The only queries that leave an entry in server_streams without a DELETE on its
\* way are those that failed and those whose result was complete before they were
\* told of the end of the stream. A cancelled one never does, even if it was
\* cancelled before it knew the stream or after its result was complete
\* (native_hyperdb_grpc_client.ts executeQuery, produce).
EntriesAreReleased ==
    client \in Over /\ registered /\ ~deleting =>
        \/ client = "failed" /\ ~aborted
        \/ client = "finished" /\ ~reachedEnd /\ marker \in 1 .. Len(delivered)

\* A cancelled query ends although the server is silent and the read that is
\* under way waits on a stream that is not registered any more.
CancelEnds == aborted ~> client \in Over

\* A producer that waits for room gets it as long as the query goes on. Once it has
\* failed, was cancelled or has its complete result, nobody empties the channel,
\* whose receiver the waiting task keeps alive (grpc_stream_manager.rs
\* start_server_stream).
ProducerAdvances ==
    producer = "sending" ~>
        \/ producer # "sending"
        \/ client \in {"failed", "cancelled"}
        \/ client = "finished" /\ marker \in 1 .. Len(delivered)
=============================================================================
