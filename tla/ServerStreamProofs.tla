------------------------- MODULE ServerStreamProofs -------------------------
(* Theorems about ServerStream, for any capacity and number of messages.    *)
EXTENDS ServerStream, SequenceTheorems, TLAPS

\* Messages that have left the channel and were not thrown away.
Taken == Len(delivered) + Len(buffered) + Len(batch)

\* The values of a part of the pipeline that begins after message n.
RunAfter(s, n) == \A i \in 1 .. Len(s) : s[i] = n + i

AllMessages(q) == \A i \in 1 .. Len(q) : q[i].kind = "Message"

\* What closes the channel of a stream that ended like this.
Closing == IF upstream = "ended" THEN "End" ELSE "ReadFailed"

\* Where the parts of the pipeline are empty.
Shape ==
    /\ reader = "idle" => batch = <<>>
    /\ reader = "requested" => batch = <<>>
    /\ reader # "idle" => buffered = <<>> /\ client = "iterating"
    /\ client \in {"starting", "started"} => buffered = <<>> /\ ~reachedEnd
    /\ client = "starting" <=> producer = "unborn" /\ client \notin Over
    /\ producer = "unborn" => sent = 0 /\ upstream = "open" /\ queue = <<>>
                              /\ delivered = <<>>
                              /\ client \in {"starting"} \cup Over
    /\ producer = "reading" => upstream = "open"
    /\ producer = "sending" /\ inHand.kind = "Message" => upstream = "open"

\* No message was thrown away so far.
Intact == client \notin Over /\ reader # "failed"

\* The pipeline from the query back to the server holds 1 .. sent in order.
Chain ==
    /\ RunAfter(buffered, Len(delivered))
    /\ RunAfter(batch, Len(delivered))
    /\ \A i \in 1 .. Len(queue) : queue[i].kind = "Message" => queue[i].id = Taken + i
    /\ producer = "reading" =>
           upstream = "open" /\ AllMessages(queue) /\ Taken + Len(queue) = sent
    /\ producer = "sending" /\ inHand.kind = "Message" =>
           /\ upstream = "open" /\ AllMessages(queue)
           /\ inHand.id = sent /\ Taken + Len(queue) + 1 = sent
    /\ producer = "sending" /\ inHand.kind # "Message" =>
           /\ upstream # "open" /\ AllMessages(queue)
           /\ inHand.kind = Closing /\ Taken + Len(queue) = sent
    /\ producer = "stopped" /\ queue # <<>> =>
           /\ upstream # "open"
           /\ \A i \in 1 .. Len(queue) - 1 : queue[i].kind = "Message"
           /\ queue[Len(queue)].kind = Closing
           /\ Taken + Len(queue) = sent + 1
    /\ producer = "stopped" /\ queue = <<>> => upstream = "ended" /\ Taken = sent

\* What the client is told about the end is true.
EndInv ==
    /\ reader = "ended" => producer = "stopped" /\ queue = <<>>
    /\ reachedEnd /\ ~aborted /\ client \notin Over =>
           reader = "idle" /\ producer = "stopped" /\ queue = <<>>

StreamInv == TypeOK /\ Shape /\ (Intact => Chain) /\ EndInv

ReleaseInv ==
    /\ client = "starting" => ~registered
    /\ reader = "ended" => ~registered
    /\ reachedEnd => ~registered \/ deleting
    /\ client = "iterating" /\ aborted => reachedEnd
    /\ EntriesAreReleased

-----------------------------------------------------------------------------

\* What is left of the channel after its first event.
LEMMA TailType == ASSUME NEW S, NEW q \in Seq(S), q # <<>>
                  PROVE  Tail(q) \in Seq(S) /\ Len(Tail(q)) = Len(q) - 1
  OBVIOUS

LEMMA HeadType == ASSUME NEW S, NEW q \in Seq(S), q # <<>>
                  PROVE  Head(q) \in S /\ Head(q) = q[1] /\ Len(q) \in Nat \ {0}
  OBVIOUS

\* The stream, its channel and its client keep their types; the channel never
\* holds more than its capacity (grpc_stream_manager.rs start_server_stream).
THEOREM TypeCorrect == Spec => []TypeOK
<1>1. Init => TypeOK
  <2> SUFFICES ASSUME Init PROVE TypeOK
    OBVIOUS
  <2>1. End \in Events
    BY DEF End, Events
  <2>2. queue \in Seq(Events) /\ Len(queue) <= Capacity
    BY StreamAssumption DEF Init, StreamAssumption
  <2>3. sent \in 0 .. MaxMessages
    BY StreamAssumption DEF Init, StreamAssumption
  <2>4. batch \in Seq(Nat) /\ buffered \in Seq(Nat) /\ delivered \in Seq(Nat)
    BY DEF Init
  <2> QED
    BY <2>1, <2>2, <2>3, <2>4 DEF Init, TypeOK, Over, Answers
<1>2. TypeOK /\ [Next]_vars => TypeOK'
  <2> SUFFICES ASSUME TypeOK, [Next]_vars PROVE TypeOK'
    OBVIOUS
  <2> USE StreamAssumption DEF TypeOK, nativeVars, clientVars
  <2>1. CASE StreamStarts
    BY <2>1 DEF StreamStarts, Over, Events, Answers, Message, End, ReadFailed
  <2>2. CASE StartFails
    BY <2>2 DEF StartFails, Over, Events, Answers, Message, End, ReadFailed
  <2>3. CASE StreamArrives
    BY <2>3 DEF StreamArrives, Over, Events, Answers, Message, End, ReadFailed
  <2>4. CASE ReceiveMessage
    BY <2>4 DEF ReceiveMessage, Over, Events, Answers, Message, End, ReadFailed
  <2>5. CASE ReceiveEnd
    BY <2>5 DEF ReceiveEnd, Over, Events, Answers, Message, End, ReadFailed
  <2>6. CASE ReceiveError
    BY <2>6 DEF ReceiveError, Over, Events, Answers, Message, End, ReadFailed
  <2>7. CASE Push
    BY <2>7 DEF Push, Over, Events, Answers, Message, End, ReadFailed
  <2>8. CASE ReadBegins
    BY <2>8 DEF ReadBegins, Over, Events, Answers, Message, End, ReadFailed
  <2>9. CASE ReadMessage
    <3>1. Tail(queue) \in Seq(Events) /\ Len(Tail(queue)) <= Capacity
      BY <2>9, TailType DEF ReadMessage, StreamAssumption
    <3>2. Head(queue) \in Events
      BY <2>9, HeadType DEF ReadMessage
    <3> QED
      BY <2>9, <3>1, <3>2 DEF ReadMessage, Over, Events, Answers
  <2>10. CASE ReadEnd
    <3>1. Tail(queue) \in Seq(Events) /\ Len(Tail(queue)) <= Capacity
      BY <2>10, TailType DEF ReadEnd, StreamAssumption
    <3>2. Head(queue) \in Events
      BY <2>10, HeadType DEF ReadEnd
    <3> QED
      BY <2>10, <3>1, <3>2 DEF ReadEnd, Over, Events, Answers
  <2>11. CASE ReadFailure
    <3>1. Tail(queue) \in Seq(Events) /\ Len(Tail(queue)) <= Capacity
      BY <2>11, TailType DEF ReadFailure, StreamAssumption
    <3>2. Head(queue) \in Events
      BY <2>11, HeadType DEF ReadFailure
    <3> QED
      BY <2>11, <3>1, <3>2 DEF ReadFailure, Over, Events, Answers
  <2>12. CASE ReadTimesOut
    BY <2>12 DEF ReadTimesOut, Over, Events, Answers, Message, End, ReadFailed
  <2>13. CASE TakeMessage
    BY <2>13 DEF TakeMessage, Over, Events, Answers, Message, End, ReadFailed
  <2>14. CASE Read
    BY <2>14 DEF Read, Over, Events, Answers, Message, End, ReadFailed
  <2>15. CASE AnswerArrives
    BY <2>15 DEF AnswerArrives, Over, Events, Answers, Message, End, ReadFailed
  <2>16. CASE ErrorArrives
    BY <2>16 DEF ErrorArrives, Over, Events, Answers, Message, End, ReadFailed
  <2>17. CASE EndOfStream
    BY <2>17 DEF EndOfStream, Over, Events, Answers, Message, End, ReadFailed
  <2>18. CASE AbortNoticed
    BY <2>18 DEF AbortNoticed, Over, Events, Answers, Message, End, ReadFailed
  <2>19. CASE Cancel
    <3>1. aborted' \in BOOLEAN /\ deleting' \in BOOLEAN /\ reachedEnd' \in BOOLEAN
      BY <2>19, Zenon DEF Cancel
    <3> QED
      BY <2>19, <3>1 DEF Cancel, Over, Events, Answers
  <2>20. CASE DestroyServerStream
    <3>1. deleting' \in BOOLEAN /\ registered' \in BOOLEAN
      BY <2>20, Zenon DEF DestroyServerStream
    <3>2. UNCHANGED <<nativeVars, reader, batch, clientVars>>
      BY <2>20 DEF DestroyServerStream
    <3> QED
      BY <3>1, <3>2
  <2>21. CASE UNCHANGED vars
    BY <2>21 DEF vars
  <2>22. CASE ResultComplete
    BY <2>22 DEF ResultComplete, Over, Events, Answers, Message, End, ReadFailed
  <2>23. CASE RejectsMessage
    BY <2>23 DEF RejectsMessage, Over, Events, Answers, Message, End, ReadFailed
  <2> QED
    BY <2>1, <2>2, <2>3, <2>4, <2>5, <2>6, <2>7, <2>8, <2>9, <2>10, <2>11, <2>12, <2>13, <2>14, <2>15, <2>16, <2>17, <2>18, <2>19, <2>20, <2>21, <2>22, <2>23 DEF Next, Start, Producer, ReadCall, Iteration, Done
<1> QED
  BY <1>1, <1>2, PTL DEF Spec

LEMMA ShapeStep == TypeOK /\ Shape /\ [Next]_vars => Shape'
<1> SUFFICES ASSUME TypeOK /\ Shape, [Next]_vars PROVE Shape'
  OBVIOUS
<1> USE DEF TypeOK, Shape, Over, Answers, nativeVars, clientVars
<1>1. CASE StreamStarts
  BY <1>1 DEF StreamStarts
<1>2. CASE StartFails
  BY <1>2 DEF StartFails
<1>3. CASE StreamArrives
  BY <1>3 DEF StreamArrives
<1>4. CASE ReceiveMessage
  BY <1>4 DEF ReceiveMessage
<1>5. CASE ReceiveEnd
  BY <1>5 DEF ReceiveEnd, End, ReadFailed
<1>6. CASE ReceiveError
  BY <1>6 DEF ReceiveError, ReadFailed
<1>7. CASE Push
  BY <1>7 DEF Push
<1>8. CASE ReadBegins
  BY <1>8 DEF ReadBegins
<1>9. CASE ReadMessage
  BY <1>9 DEF ReadMessage
<1>10. CASE ReadEnd
  BY <1>10 DEF ReadEnd
<1>11. CASE ReadFailure
  BY <1>11 DEF ReadFailure
<1>12. CASE ReadTimesOut
  BY <1>12 DEF ReadTimesOut
<1>13. CASE TakeMessage
  BY <1>13 DEF TakeMessage
<1>14. CASE Read
  BY <1>14 DEF Read
<1>15. CASE AnswerArrives
  BY <1>15 DEF AnswerArrives
<1>16. CASE ErrorArrives
  BY <1>16 DEF ErrorArrives
<1>17. CASE EndOfStream
  BY <1>17 DEF EndOfStream
<1>18. CASE AbortNoticed
  BY <1>18 DEF AbortNoticed
<1>19. CASE Cancel
  BY <1>19 DEF Cancel
<1>20. CASE DestroyServerStream
  BY <1>20 DEF DestroyServerStream
<1>21. CASE UNCHANGED vars
  BY <1>21 DEF vars
<1>22. CASE ResultComplete
  BY <1>22 DEF ResultComplete
<1>23. CASE RejectsMessage
  BY <1>23 DEF RejectsMessage
<1> QED
  BY <1>1, <1>2, <1>3, <1>4, <1>5, <1>6, <1>7, <1>8, <1>9, <1>10, <1>11, <1>12, <1>13, <1>14, <1>15, <1>16, <1>17, <1>18, <1>19, <1>20, <1>21, <1>22, <1>23 DEF Next, Start, Producer, ReadCall, Iteration, Done

\* The closing event is the last one in the channel and comes after the
\* messages 1 .. sent.
LEMMA ClosingIsLast ==
    ASSUME TypeOK, Shape, Chain, reader = "waiting", queue # <<>>,
           Head(queue).kind # "Message"
    PROVE  /\ producer = "stopped" /\ Tail(queue) = <<>>
           /\ Taken = sent /\ Head(queue).kind = Closing /\ upstream # "open"
<1>1. Len(queue) \in Nat \ {0} /\ Head(queue) = queue[1] /\ queue \in Seq(Events)
  BY HeadType DEF TypeOK
<1>2. ~AllMessages(queue)
  BY <1>1 DEF AllMessages
<1>3. producer = "stopped"
  <2>1. producer # "unborn"
    BY DEF Shape, Over, TypeOK
  <2>2. producer # "reading"
    BY <1>2 DEF Chain
  <2>3. producer # "sending"
    BY <1>2 DEF Chain
  <2> QED
    BY <2>1, <2>2, <2>3 DEF TypeOK
<1>4. /\ upstream # "open"
      /\ \A i \in 1 .. Len(queue) - 1 : queue[i].kind = "Message"
      /\ queue[Len(queue)].kind = Closing
      /\ Taken + Len(queue) = sent + 1
  BY <1>3 DEF Chain
<1>5. Len(queue) = 1
  <2> SUFFICES ASSUME Len(queue) # 1 PROVE FALSE
    OBVIOUS
  <2>1. 1 \in 1 .. Len(queue) - 1
    <3>1. Len(queue) \in Nat \ {0}
      BY <1>1
    <3>2. \A n \in Nat \ {0} : n # 1 => 1 \in 1 .. n - 1
      OBVIOUS
    <3> QED
      BY <3>1, <3>2
  <2>2. queue[1].kind = "Message"
    BY <1>4, <2>1
  <2> QED
    BY <1>1, <2>2
<1>6. Tail(queue) = <<>>
  <2>1. Tail(queue) \in Seq(Events) /\ Len(Tail(queue)) = 0
    BY <1>1, <1>5, TailType
  <2> QED
    BY <2>1, EmptySeq
<1>7. Taken \in Nat /\ sent \in Nat
  BY StreamAssumption DEF Taken, TypeOK, StreamAssumption
<1> QED
  BY <1>1, <1>3, <1>4, <1>5, <1>6, <1>7

LEMMA EndStep == TypeOK /\ Shape /\ (Intact => Chain) /\ EndInv /\ [Next]_vars => EndInv'
<1> SUFFICES ASSUME TypeOK /\ Shape /\ (Intact => Chain) /\ EndInv, [Next]_vars PROVE EndInv'
  OBVIOUS
<1> USE DEF TypeOK, Shape, EndInv, Over, Answers, nativeVars, clientVars
<1>1. CASE StreamStarts
  BY <1>1 DEF StreamStarts
<1>2. CASE StartFails
  BY <1>2 DEF StartFails
<1>3. CASE StreamArrives
  BY <1>3 DEF StreamArrives
<1>4. CASE ReceiveMessage
  BY <1>4 DEF ReceiveMessage
<1>5. CASE ReceiveEnd
  BY <1>5 DEF ReceiveEnd
<1>6. CASE ReceiveError
  BY <1>6 DEF ReceiveError
<1>7. CASE Push
  BY <1>7 DEF Push
<1>8. CASE ReadBegins
  BY <1>8 DEF ReadBegins
<1>9. CASE ReadMessage
  BY <1>9 DEF ReadMessage
<1>10. CASE ReadEnd
  <2>1. reader = "waiting" /\ queue # <<>> /\ Head(queue).kind = "End"
    BY <1>10 DEF ReadEnd
  <2>2. Chain
    BY <2>1 DEF Intact
  <2>3. producer = "stopped" /\ Tail(queue) = <<>>
    BY <2>1, <2>2, ClosingIsLast
  <2> QED
    BY <1>10, <2>3 DEF ReadEnd
<1>11. CASE ReadFailure
  BY <1>11 DEF ReadFailure
<1>12. CASE ReadTimesOut
  BY <1>12 DEF ReadTimesOut
<1>13. CASE TakeMessage
  BY <1>13 DEF TakeMessage
<1>14. CASE Read
  BY <1>14 DEF Read
<1>15. CASE AnswerArrives
  BY <1>15 DEF AnswerArrives
<1>16. CASE ErrorArrives
  BY <1>16 DEF ErrorArrives
<1>17. CASE EndOfStream
  BY <1>17 DEF EndOfStream
<1>18. CASE AbortNoticed
  BY <1>18 DEF AbortNoticed
<1>19. CASE Cancel
  BY <1>19 DEF Cancel
<1>20. CASE DestroyServerStream
  BY <1>20 DEF DestroyServerStream
<1>21. CASE UNCHANGED vars
  BY <1>21 DEF vars
<1>22. CASE ResultComplete
  BY <1>22 DEF ResultComplete
<1>23. CASE RejectsMessage
  BY <1>23 DEF RejectsMessage
<1> QED
  BY <1>1, <1>2, <1>3, <1>4, <1>5, <1>6, <1>7, <1>8, <1>9, <1>10, <1>11, <1>12, <1>13, <1>14, <1>15, <1>16, <1>17, <1>18, <1>19, <1>20, <1>21, <1>22, <1>23 DEF Next, Start, Producer, ReadCall, Iteration, Done

\* Steps that leave the pipeline alone.
LEMMA ChainFrame ==
    ASSUME Chain, UNCHANGED <<sent, upstream, producer, inHand, queue, batch,
                              buffered, delivered>>
    PROVE  Chain'
  BY DEF Chain, Taken, RunAfter, AllMessages, Closing

LEMMA ChainStep == StreamInv /\ [Next]_vars => (Intact => Chain)'
<1> SUFFICES ASSUME StreamInv, [Next]_vars, Intact' PROVE Chain'
  BY DEF Intact
<1> USE DEF StreamInv, nativeVars, clientVars
<1>0. CASE UNCHANGED <<sent, upstream, producer, inHand, queue, batch, buffered,
                       delivered, client, reader>>
  BY <1>0, ChainFrame DEF Intact
<1>1. CASE StreamStarts
  <2>1. sent = 0 /\ upstream = "open" /\ queue = <<>> /\ delivered = <<>>
    BY <1>1 DEF StreamStarts, Shape, Over
  <2>2. buffered = <<>> /\ batch = <<>>
    BY <1>1 DEF StreamStarts, Shape, TypeOK, Answers
  <2> QED
    BY <1>1, <2>1, <2>2 DEF StreamStarts, Chain, Taken, RunAfter, AllMessages
<1>2. CASE StartFails
  BY <1>2 DEF StartFails, Intact, Over
<1>3. CASE StreamArrives
  <2>1. Intact
    BY <1>3 DEF StreamArrives, Intact, Shape, Over
  <2> QED
    BY <1>3, <2>1, ChainFrame DEF StreamArrives
<1>4. CASE ReceiveMessage
  <2>1. Chain
    BY <1>4 DEF ReceiveMessage, Intact
  <2> QED
    BY <1>4, <2>1 DEF ReceiveMessage, Chain, Taken, RunAfter, AllMessages, Message, TypeOK
<1>5. CASE ReceiveEnd
  <2>1. Chain
    BY <1>5 DEF ReceiveEnd, Intact
  <2> QED
    BY <1>5, <2>1 DEF ReceiveEnd, Chain, Taken, RunAfter, AllMessages, End, ReadFailed, Closing
<1>6. CASE ReceiveError
  <2>1. Chain
    BY <1>6 DEF ReceiveError, Intact
  <2> QED
    BY <1>6, <2>1 DEF ReceiveError, Chain, Taken, RunAfter, AllMessages, ReadFailed, Closing
<1>7. CASE Push
  <2>1. Chain
    BY <1>7 DEF Push, Intact
  <2> QED
    <3>1. /\ queue \in Seq(Events) /\ inHand \in Events /\ Len(queue) \in Nat
          /\ queue' = Append(queue, inHand) /\ producer = "sending"
          /\ UNCHANGED <<sent, upstream, inHand, batch, buffered, delivered>>
          /\ producer' = IF inHand.kind = "Message" THEN "reading" ELSE "stopped"
      BY <1>7 DEF Push, TypeOK
    <3>2. /\ Len(queue') = Len(queue) + 1 /\ queue'[Len(queue) + 1] = inHand
          /\ \A i \in 1 .. Len(queue) : queue'[i] = queue[i]
      BY <3>1
    <3>3. Taken' = Taken /\ Closing' = Closing /\ Taken \in Nat
      BY <3>1 DEF Taken, Closing, TypeOK
    <3>4. /\ AllMessages(queue)
          /\ \A i \in 1 .. Len(queue) : queue[i].kind = "Message" => queue[i].id = Taken + i
          /\ RunAfter(buffered, Len(delivered)) /\ RunAfter(batch, Len(delivered))
      BY <2>1, <3>1 DEF Chain
    <3>5. CASE inHand.kind = "Message"
      <4>1. upstream = "open" /\ inHand.id = sent /\ Taken + Len(queue) + 1 = sent
        BY <2>1, <3>1, <3>5 DEF Chain
      <4>2. \A i \in 1 .. Len(queue') : queue'[i].kind = "Message" /\ queue'[i].id = Taken + i
        <5>1. \A i \in 1 .. Len(queue) : queue'[i].kind = "Message" /\ queue'[i].id = Taken + i
          BY <3>2, <3>4 DEF AllMessages
        <5>2. inHand.id = Taken + (Len(queue) + 1)
          BY <3>1, <3>3, <4>1 DEF TypeOK
        <5>3. \A i \in 1 .. Len(queue') : i \in 1 .. Len(queue) \/ i = Len(queue) + 1
          BY <3>1, <3>2
        <5> QED
          BY <3>2, <3>5, <5>1, <5>2, <5>3
      <4>3. Taken' + Len(queue') = sent'
        BY <3>1, <3>2, <3>3, <4>1 DEF TypeOK
      <4> QED
        BY <3>1, <3>3, <3>4, <3>5, <4>1, <4>2, <4>3 DEF Chain, RunAfter, AllMessages
    <3>6. CASE inHand.kind # "Message"
      <4>1. upstream # "open" /\ inHand.kind = Closing /\ Taken + Len(queue) = sent
        BY <2>1, <3>1, <3>6 DEF Chain
      <4>2. \A i \in 1 .. Len(queue') : queue'[i].kind = "Message" => queue'[i].id = Taken + i
        BY <3>1, <3>2, <3>4, <3>6
      <4>3. /\ queue' # <<>> /\ Taken' + Len(queue') = sent' + 1
            /\ queue'[Len(queue')].kind = Closing'
            /\ \A i \in 1 .. Len(queue') - 1 : queue'[i].kind = "Message"
        <5>1. queue' # <<>>
          BY <3>1, <3>2
        <5>2. Taken' + Len(queue') = sent' + 1
          <6>1. \A t, l \in Nat : t + (l + 1) = (t + l) + 1
            OBVIOUS
          <6>2. Taken + (Len(queue) + 1) = sent + 1
            BY <3>1, <3>3, <4>1, <6>1
          <6> QED
            BY <3>1, <3>2, <3>3, <6>2
        <5>3. queue'[Len(queue')].kind = Closing'
          BY <3>1, <3>2, <3>3, <4>1
        <5>4. Len(queue') - 1 = Len(queue)
          BY <3>1, <3>2
        <5>5. \A i \in 1 .. Len(queue) : queue'[i].kind = "Message"
          BY <3>2, <3>4 DEF AllMessages
        <5> QED
          BY <5>1, <5>2, <5>3, <5>4, <5>5
      <4> QED
        BY <3>1, <3>3, <3>4, <3>6, <4>1, <4>2, <4>3 DEF Chain, RunAfter
    <3> QED
      BY <3>5, <3>6
<1>8. CASE ReadBegins
  <2>1. Chain /\ batch = <<>>
    BY <1>8 DEF ReadBegins, Intact, Shape
  <2> QED
    BY <1>8, <2>1, ChainFrame DEF ReadBegins
<1>9. CASE ReadMessage
  <2>1. Chain
    BY <1>9 DEF ReadMessage, Intact
  <2> QED
    <3>1. /\ reader = "waiting" /\ queue # <<>> /\ Head(queue).kind = "Message"
          /\ queue' = Tail(queue) /\ batch' = Append(batch, Head(queue).id)
          /\ UNCHANGED <<sent, upstream, producer, inHand, buffered, delivered>>
      BY <1>9 DEF ReadMessage
    <3>2. /\ Head(queue) = queue[1] /\ Len(queue) \in Nat \ {0}
          /\ queue \in Seq(Events) /\ Head(queue) \in Events
      BY <3>1, HeadType DEF TypeOK
    <3>3. /\ Len(queue') = Len(queue) - 1
          /\ \A i \in 1 .. Len(queue') : queue'[i] = queue[i + 1]
      BY <3>1, <3>2
    <3>4. batch \in Seq(Nat) /\ Head(queue).id \in Nat /\ Len(batch) \in Nat
      BY <3>2 DEF TypeOK, Events
    <3>5. /\ Len(batch') = Len(batch) + 1 /\ batch'[Len(batch) + 1] = Head(queue).id
          /\ \A i \in 1 .. Len(batch) : batch'[i] = batch[i]
      BY <3>1, <3>4
    <3>6. buffered = <<>>
      BY <3>1 DEF Shape
    <3>7. /\ Taken = Len(delivered) + Len(batch) /\ Taken \in Nat /\ Len(delivered) \in Nat
          /\ Taken' = Taken + 1 /\ Closing' = Closing
      BY <3>1, <3>4, <3>5, <3>6 DEF Taken, Closing, TypeOK
    <3>8. RunAfter(batch', Len(delivered'))
      <4>1. Head(queue).id = Taken + 1
        BY <2>1, <3>1, <3>2 DEF Chain
      <4> QED
        <5>1. \A i \in 1 .. Len(batch) : batch[i] = Len(delivered) + i
          BY <2>1 DEF Chain, RunAfter
        <5>2. batch'[Len(batch) + 1] = Len(delivered) + (Len(batch) + 1)
          BY <3>5, <3>7, <3>4, <4>1
        <5>3. \A i \in 1 .. Len(batch') : i \in 1 .. Len(batch) \/ i = Len(batch) + 1
          BY <3>4, <3>5
        <5>4. \A i \in 1 .. Len(batch') : batch'[i] = Len(delivered) + i
          BY <3>5, <5>1, <5>2, <5>3
        <5> QED
          BY <3>1, <5>4 DEF RunAfter
    <3>9. \A i \in 1 .. Len(queue') : queue'[i].kind = "Message" => queue'[i].id = Taken' + i
      <4> SUFFICES ASSUME NEW i \in 1 .. Len(queue'), queue'[i].kind = "Message"
                   PROVE  queue'[i].id = Taken' + i
        OBVIOUS
      <4>1. i + 1 \in 1 .. Len(queue) /\ queue'[i] = queue[i + 1]
        BY <3>2, <3>3
      <4>2. queue[i + 1].id = Taken + (i + 1)
        BY <2>1, <4>1 DEF Chain
      <4> QED
        BY <3>7, <4>1, <4>2
    <3>10. AllMessages(queue) => AllMessages(queue')
      BY <3>2, <3>3 DEF AllMessages
    <3>11. producer = "reading" =>
             upstream = "open" /\ AllMessages(queue') /\ Taken' + Len(queue') = sent
      BY <2>1, <3>2, <3>3, <3>7, <3>10 DEF Chain
    <3>12. producer = "sending" =>
             /\ AllMessages(queue')
             /\ inHand.kind = "Message" => upstream = "open" /\ inHand.id = sent
                                           /\ Taken' + Len(queue') + 1 = sent
             /\ inHand.kind # "Message" => upstream # "open" /\ inHand.kind = Closing'
                                           /\ Taken' + Len(queue') = sent
      BY <2>1, <3>2, <3>3, <3>7, <3>10 DEF Chain
    <3>13. producer = "stopped" =>
             /\ queue' # <<>> /\ upstream # "open"
             /\ \A i \in 1 .. Len(queue') - 1 : queue'[i].kind = "Message"
             /\ queue'[Len(queue')].kind = Closing'
             /\ Taken' + Len(queue') = sent + 1
      <4> SUFFICES ASSUME producer = "stopped"
                   PROVE  /\ queue' # <<>> /\ upstream # "open"
                          /\ \A i \in 1 .. Len(queue') - 1 : queue'[i].kind = "Message"
                          /\ queue'[Len(queue')].kind = Closing'
                          /\ Taken' + Len(queue') = sent + 1
        OBVIOUS
      <4>1. /\ upstream # "open"
            /\ \A i \in 1 .. Len(queue) - 1 : queue[i].kind = "Message"
            /\ queue[Len(queue)].kind = Closing
            /\ Taken + Len(queue) = sent + 1
        BY <2>1, <3>1 DEF Chain
      <4>2. Len(queue) # 1
        BY <3>1, <3>2, <4>1 DEF Closing
      <4>3. Len(queue') \in Nat \ {0}
        BY <3>2, <3>3, <4>2
      <4>4. queue' # <<>>
        BY <4>3
      <4>5. queue'[Len(queue')].kind = Closing'
        BY <3>2, <3>3, <3>7, <4>1, <4>3
      <4>6. \A i \in 1 .. Len(queue') - 1 : queue'[i].kind = "Message"
        BY <3>2, <3>3, <4>1
      <4>7. Taken' + Len(queue') = sent + 1
        BY <3>2, <3>3, <3>7, <4>1
      <4> QED
        BY <4>1, <4>4, <4>5, <4>6, <4>7
    <3>14. RunAfter(buffered', Len(delivered'))
      BY <3>1, <3>6 DEF RunAfter
    <3> QED
      BY <3>1, <3>8, <3>9, <3>11, <3>12, <3>13, <3>14 DEF Chain
<1>10. CASE ReadEnd
  <2>1. Chain /\ reader = "waiting" /\ queue # <<>> /\ Head(queue).kind = "End"
    BY <1>10 DEF ReadEnd, Intact
  <2>2. producer = "stopped" /\ Tail(queue) = <<>> /\ Taken = sent
        /\ Closing = "End" /\ upstream # "open"
    BY <2>1, ClosingIsLast
  <2> QED
    BY <1>10, <2>1, <2>2 DEF ReadEnd, Chain, Taken, RunAfter, AllMessages, Closing
<1>11. CASE ReadFailure
  BY <1>11 DEF ReadFailure, Intact
<1>12. CASE ReadTimesOut
  <2>1. Chain
    BY <1>12 DEF ReadTimesOut, Intact
  <2> QED
    BY <1>12, <2>1, ChainFrame DEF ReadTimesOut
<1>13. CASE TakeMessage
  <2>1. Chain /\ batch = <<>>
    BY <1>13 DEF TakeMessage, Intact, Shape
  <2> QED
    <3>1. /\ buffered # <<>> /\ buffered' = Tail(buffered)
          /\ delivered' = Append(delivered, Head(buffered))
          /\ UNCHANGED <<sent, upstream, producer, inHand, queue, batch>>
      BY <1>13 DEF TakeMessage
    <3>2. buffered \in Seq(Nat) /\ delivered \in Seq(Nat) /\ Len(buffered) \in Nat \ {0}
      BY <3>1, HeadType DEF TypeOK
    <3>3. /\ Len(delivered) \in Nat /\ Len(delivered') = Len(delivered) + 1
          /\ Len(buffered') = Len(buffered) - 1
          /\ \A i \in 1 .. Len(buffered') : buffered'[i] = buffered[i + 1]
      BY <3>1, <3>2
    <3>4. Taken' = Taken /\ Closing' = Closing
      BY <2>1, <3>1, <3>2, <3>3 DEF Taken, Closing
    <3>5. RunAfter(buffered', Len(delivered'))
      BY <2>1, <3>2, <3>3 DEF Chain, RunAfter
    <3>6. RunAfter(batch', Len(delivered'))
      BY <2>1, <3>1 DEF RunAfter
    <3> QED
      BY <2>1, <3>1, <3>4, <3>5, <3>6 DEF Chain, AllMessages
<1>14. CASE Read
  <2>1. Chain
    BY <1>14 DEF Read, Intact
  <2> QED
    BY <1>14, <2>1, ChainFrame DEF Read
<1>15. CASE AnswerArrives
  <2>1. Chain /\ buffered = <<>>
    BY <1>15 DEF AnswerArrives, Intact, Shape
  <2> QED
    BY <1>15, <2>1 DEF AnswerArrives, Chain, Taken, RunAfter, AllMessages, Closing, TypeOK
<1>16. CASE ErrorArrives
  BY <1>16 DEF ErrorArrives, Intact, Over
<1>17. CASE EndOfStream
  BY <1>17 DEF EndOfStream, Intact, Over
<1>18. CASE AbortNoticed
  BY <1>18 DEF AbortNoticed, Intact, Over
<1>19. CASE Cancel
  BY <1>19, <1>0 DEF Cancel
<1>20. CASE DestroyServerStream
  BY <1>20, <1>0 DEF DestroyServerStream
<1>21. CASE UNCHANGED vars
  BY <1>21, <1>0 DEF vars
<1>22. CASE ResultComplete
  BY <1>22 DEF ResultComplete, Intact, Over
<1>23. CASE RejectsMessage
  BY <1>23 DEF RejectsMessage, Intact, Over
<1> QED
  BY <1>1, <1>2, <1>3, <1>4, <1>5, <1>6, <1>7, <1>8, <1>9, <1>10, <1>11, <1>12,
     <1>13, <1>14, <1>15, <1>16, <1>17, <1>18, <1>19, <1>20, <1>21, <1>22, <1>23
  DEF Next, Start, Producer, ReadCall, Iteration, Done

LEMMA ReleaseStep == TypeOK /\ Shape /\ EndInv /\ ReleaseInv /\ [Next]_vars => ReleaseInv'
<1> SUFFICES ASSUME TypeOK, Shape, EndInv, ReleaseInv, [Next]_vars PROVE ReleaseInv'
  OBVIOUS
<1> USE DEF TypeOK, Shape, EndInv, ReleaseInv, EntriesAreReleased, Over, Answers,
            nativeVars, clientVars
<1>1. CASE StreamStarts
  BY <1>1 DEF StreamStarts
<1>2. CASE StartFails
  BY <1>2 DEF StartFails
<1>3. CASE StreamArrives
  BY <1>3 DEF StreamArrives
<1>4. CASE ReceiveMessage
  BY <1>4 DEF ReceiveMessage
<1>5. CASE ReceiveEnd
  BY <1>5 DEF ReceiveEnd
<1>6. CASE ReceiveError
  BY <1>6 DEF ReceiveError
<1>7. CASE Push
  BY <1>7 DEF Push
<1>8. CASE ReadBegins
  BY <1>8 DEF ReadBegins
<1>9. CASE ReadMessage
  BY <1>9 DEF ReadMessage
<1>10. CASE ReadEnd
  BY <1>10 DEF ReadEnd
<1>11. CASE ReadFailure
  BY <1>11 DEF ReadFailure
<1>12. CASE ReadTimesOut
  BY <1>12 DEF ReadTimesOut
<1>13. CASE TakeMessage
  BY <1>13 DEF TakeMessage
<1>14. CASE Read
  BY <1>14 DEF Read
<1>15. CASE AnswerArrives
  BY <1>15 DEF AnswerArrives
<1>16. CASE ErrorArrives
  BY <1>16 DEF ErrorArrives
<1>17. CASE EndOfStream
  BY <1>17 DEF EndOfStream
<1>18. CASE AbortNoticed
  BY <1>18 DEF AbortNoticed
<1>19. CASE Cancel
  BY <1>19 DEF Cancel
<1>20. CASE DestroyServerStream
  BY <1>20 DEF DestroyServerStream
<1>21. CASE UNCHANGED vars
  BY <1>21 DEF vars
<1>22. CASE ResultComplete
  BY <1>22 DEF ResultComplete
<1>23. CASE RejectsMessage
  BY <1>23 DEF RejectsMessage
<1> QED
  BY <1>1, <1>2, <1>3, <1>4, <1>5, <1>6, <1>7, <1>8, <1>9, <1>10, <1>11, <1>12, <1>13, <1>14, <1>15, <1>16, <1>17, <1>18, <1>19, <1>20, <1>21, <1>22, <1>23 DEF Next, Start, Producer, ReadCall, Iteration, Done

LEMMA StreamInvariant == Spec => []StreamInv
<1> DEFINE Rest == Shape /\ (Intact => Chain) /\ EndInv
<1>1. Init => Rest
  <2> SUFFICES ASSUME Init PROVE Rest
    OBVIOUS
  <2>1. Shape
    BY DEF Init, Shape, Over
  <2>2. Chain
    BY DEF Init, Chain, Taken, RunAfter, AllMessages
  <2>3. EndInv
    BY DEF Init, EndInv
  <2> QED
    BY <2>1, <2>2, <2>3
<1>2. TypeOK /\ Rest /\ [Next]_vars => Rest'
  <2> SUFFICES ASSUME TypeOK, Rest, [Next]_vars PROVE Rest'
    OBVIOUS
  <2>1. Shape'
    BY ShapeStep
  <2>2. (Intact => Chain)'
    BY ChainStep DEF StreamInv
  <2>3. EndInv'
    BY EndStep
  <2> QED
    BY <2>1, <2>2, <2>3
<1>3. Spec => []Rest
  BY TypeCorrect, <1>1, <1>2, PTL DEF Spec
<1>4. TypeOK /\ Rest => StreamInv
  BY DEF StreamInv
<1> QED
  BY TypeCorrect, <1>3, <1>4, PTL

\* An entry that outlives its query is that of a failure, or of a result that was
\* complete before the client was told of the end of the stream; a cancellation,
\* at whatever moment, takes it away or has sent the DELETE that does.
THEOREM EntriesGo == Spec => []EntriesAreReleased
<1>1. Init => ReleaseInv
  BY DEF Init, ReleaseInv, EntriesAreReleased
<1>2. StreamInv /\ ReleaseInv /\ [Next]_vars => ReleaseInv'
  BY ReleaseStep DEF StreamInv
<1>3. ReleaseInv => EntriesAreReleased
  BY DEF ReleaseInv
<1> QED
  BY StreamInvariant, <1>1, <1>2, <1>3, PTL DEF Spec

\* Channel, batches, iterator and Arrow reader together implement the abstract
\* stream: the query gets the messages of the server in order, once, and finishes
\* only with the message that completes the result, or with all of an ended stream.
THEOREM ImplementsMessageStream == Spec => DeliversInOrder
<1> USE DEF Abstract!Send, Abstract!Close, Abstract!Deliver, Abstract!Finish,
            Abstract!GiveUp, Abstract!Next, Abstract!vars, Outcome
<1>1. Init => Abstract!Init
  BY DEF Init, Abstract!Init, Over
<1>2. StreamInv /\ [Next]_vars => [Abstract!Next]_(Abstract!vars)
  <2> SUFFICES ASSUME StreamInv, [Next]_vars
               PROVE  [Abstract!Next]_(Abstract!vars)
    OBVIOUS
  <2> USE DEF nativeVars, clientVars
  <2>0. TypeOK /\ Shape /\ EndInv /\ (Intact => Chain)
    BY DEF StreamInv
  <2>1. CASE StreamStarts
    BY <2>1 DEF StreamStarts, Over
  <2>2. CASE StartFails
    BY <2>2 DEF StartFails, Over
  <2>3. CASE StreamArrives
    BY <2>3 DEF StreamArrives, Over
  <2>4. CASE ReceiveMessage
    <3>1. upstream = "open"
      BY <2>4, <2>0 DEF ReceiveMessage, Shape
    <3> QED
      BY <2>4, <3>1 DEF ReceiveMessage
  <2>5. CASE ReceiveEnd
    <3>1. upstream = "open"
      BY <2>5, <2>0 DEF ReceiveEnd, Shape
    <3> QED
      BY <2>5, <3>1 DEF ReceiveEnd
  <2>6. CASE ReceiveError
    <3>1. upstream = "open"
      BY <2>6, <2>0 DEF ReceiveError, Shape
    <3> QED
      BY <2>6, <3>1 DEF ReceiveError
  <2>7. CASE Push
    BY <2>7 DEF Push, Over
  <2>8. CASE ReadBegins
    BY <2>8 DEF ReadBegins, Over
  <2>9. CASE ReadMessage
    BY <2>9 DEF ReadMessage, Over
  <2>10. CASE ReadEnd
    BY <2>10 DEF ReadEnd, Over
  <2>11. CASE ReadFailure
    BY <2>11 DEF ReadFailure, Over
  <2>12. CASE ReadTimesOut
    BY <2>12 DEF ReadTimesOut, Over
  <2>13. CASE TakeMessage
    <3>1. /\ client = "iterating" /\ buffered # <<>> /\ reader = "idle" /\ batch = <<>>
          /\ buffered[1] = Head(buffered) /\ Len(buffered) \in Nat \ {0}
      BY <2>13, <2>0, HeadType DEF TakeMessage, Shape, TypeOK
    <3>2. Chain
      BY <2>0, <3>1 DEF Intact, Over
    <3>3. Head(buffered) = Len(delivered) + 1
      BY <3>1, <3>2 DEF Chain, RunAfter
    <3>4. Len(delivered) < sent
      BY <2>0, <3>1, <3>2 DEF Chain, Taken, TypeOK, Shape, Over
    <3> QED
      BY <2>13, <3>1, <3>3, <3>4 DEF TakeMessage, Over
  <2>14. CASE Read
    BY <2>14 DEF Read, Over
  <2>15. CASE AnswerArrives
    BY <2>15 DEF AnswerArrives, Over
  <2>16. CASE ErrorArrives
    <3>1. client = "iterating"
      BY <2>16, <2>0 DEF ErrorArrives, Shape
    <3>2. client' \in {"failed", "cancelled"}
      BY <2>16 DEF ErrorArrives
    <3>3. UNCHANGED <<sent, upstream, marker, delivered>>
      BY <2>16 DEF ErrorArrives
    <3> QED
      BY <3>1, <3>2, <3>3 DEF Over
  <2>17. CASE EndOfStream
    <3>1. CASE aborted
      BY <2>17, <3>1 DEF EndOfStream, Over
    <3>2. CASE ~aborted
      <4>1. producer = "stopped" /\ queue = <<>> /\ batch = <<>> /\ buffered = <<>>
        BY <2>17, <2>0, <3>2 DEF EndOfStream, EndInv, Shape, Over
      <4>2. Chain
        BY <2>17, <2>0 DEF EndOfStream, Intact, Over
      <4>3. upstream = "ended" /\ Len(delivered) = sent
        BY <2>0, <4>1, <4>2 DEF Chain, Taken, TypeOK
      <4> QED
        BY <2>17, <3>2, <4>3 DEF EndOfStream, Over
    <3> QED
      BY <3>1, <3>2 DEF TypeOK
  <2>18. CASE AbortNoticed
    BY <2>18 DEF AbortNoticed, Over
  <2>19. CASE Cancel
    BY <2>19 DEF Cancel, Over
  <2>20. CASE DestroyServerStream
    BY <2>20 DEF DestroyServerStream, Over
  <2>21. CASE UNCHANGED vars
    BY <2>21 DEF vars
  <2>22. CASE ResultComplete
    BY <2>22 DEF ResultComplete, Over
  <2>23. CASE RejectsMessage
    BY <2>23 DEF RejectsMessage, Over
  <2> QED
    BY <2>1, <2>2, <2>3, <2>4, <2>5, <2>6, <2>7, <2>8, <2>9, <2>10, <2>11, <2>12, <2>13, <2>14, <2>15, <2>16, <2>17, <2>18, <2>19, <2>20, <2>21, <2>22, <2>23 DEF Next, Start, Producer, ReadCall, Iteration, Done
<1> QED
  BY StreamInvariant, <1>1, <1>2, PTL DEF Spec, DeliversInOrder, Abstract!Spec
=============================================================================
