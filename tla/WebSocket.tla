----------------------------- MODULE WebSocket -----------------------------
(***************************************************************************)
(* One connection of the WebSocket server (api/ws_server.go): the handler  *)
(* that polls the topics and queues a snapshot when one has changed, the   *)
(* writer goroutine that sends the queue, and the reader goroutine that    *)
(* only notices the end of the connection.  They share the channel send,   *)
(* the channel writeErrs of capacity one and a context any of them may     *)
(* cancel.                                                                 *)
(***************************************************************************)
EXTENDS Integers, Sequences

CONSTANTS
    Topics,         \* the subscribed topics that have a provider
    Values,         \* what a provider may answer
    NoValue,        \* an absent key of lastSent; nothing received
    SendCapacity,   \* capacity of the channel send
    MaxChanges      \* bound: changes of the data

ASSUME NoValueAssumption == NoValue \notin Values
ASSUME SendCapacityAssumption == SendCapacity \in Nat \ {0}

VARIABLES
    data,       \* what the providers would answer now
    handler,    \* ServeHTTP: its place and its locals
    lastSent,   \* topic -> the last snapshot pushed
    send,       \* the channel of envelopes
    sendClosed,
    writeErrs,  \* the channel of capacity one: what it holds
    ctxDone,    \* the context is cancelled
    connClosed, \* conn.Close
    writer,     \* the writer goroutine
    reader,     \* the reader goroutine
    received,   \* topic -> the last snapshot written to the connection
    changes     \* bound counter

channels == <<send, sendClosed, writeErrs>>
vars == <<data, handler, lastSent, channels, ctxDone, connClosed, writer, reader,
          received, changes>>

Hello == [topic |-> "hello", value |-> NoValue]
NoEnvelope == [topic |-> "none", value |-> NoValue]

\* Every order in which the topics may have been asked for.
Rounds == {r \in UNION {[1 .. n -> Topics] : n \in 1 .. 3} :
            /\ {r[i] : i \in DOMAIN r} = Topics
            /\ \A i, j \in DOMAIN r : r[i] = r[j] => i = j}

---------------------------------------------------------------------------
(***************************************************************************)
(* The handler.                                                            *)
(***************************************************************************)

\* return: the deferred cancel and conn.Close run.
Leave == [handler EXCEPT !.pc = "ended"]

Ends ==
    /\ handler' = Leave
    /\ ctxDone' = TRUE
    /\ connClosed' = TRUE

\* pushTopicSnapshot reads the topic and compares it with the last one sent.
Snapshot ==
    /\ handler.pc = "topics"
    /\ handler.todo # <<>>
    /\ LET t == Head(handler.todo) IN
        IF ~handler.force /\ lastSent[t] = data[t]
        THEN /\ handler' = [handler EXCEPT !.todo = Tail(@)]
             /\ UNCHANGED lastSent
        ELSE /\ handler' = [handler EXCEPT !.pc = "push", !.todo = Tail(@),
                                !.envelope = [topic |-> t, value |-> data[t]]]
             /\ lastSent' = [lastSent EXCEPT ![t] = data[t]]
    /\ UNCHANGED <<data, channels, ctxDone, connClosed, writer, reader, received, changes>>

\* Mutant: a full channel drops the envelope.
PushOrDrop ==
    /\ handler.pc = "push"
    /\ send' = IF Len(send) < SendCapacity THEN Append(send, handler.envelope) ELSE send
    /\ handler' = [handler EXCEPT !.pc = "topics", !.envelope = NoEnvelope]
    /\ UNCHANGED <<data, lastSent, sendClosed, writeErrs, ctxDone, connClosed, writer, reader,
                   received, changes>>

\* pushEnvelope: the channel has room ...
Push ==
    /\ handler.pc = "push"
    /\ Len(send) < SendCapacity
    /\ send' = Append(send, handler.envelope)
    /\ handler' = [handler EXCEPT !.pc = "topics", !.envelope = NoEnvelope]
    /\ UNCHANGED <<data, lastSent, sendClosed, writeErrs, ctxDone, connClosed, writer, reader,
                   received, changes>>

\* ... or the context is done and the handler returns; send stays open.
PushCancelled ==
    /\ handler.pc = "push"
    /\ ctxDone
    /\ Ends
    /\ UNCHANGED <<data, lastSent, channels, writer, reader, received, changes>>

\* All topics are done: back to the select.
RoundDone ==
    /\ handler.pc = "topics"
    /\ handler.todo = <<>>
    /\ handler' = [handler EXCEPT !.pc = "select"]
    /\ UNCHANGED <<data, lastSent, channels, ctxDone, connClosed, writer, reader,
                   received, changes>>

\* case <-ticker.C
Tick ==
    /\ handler.pc = "select"
    /\ handler' = [handler EXCEPT !.pc = "topics", !.todo = handler.topics, !.force = FALSE]
    /\ UNCHANGED <<data, lastSent, channels, ctxDone, connClosed, writer, reader,
                   received, changes>>

\* case <-ctx.Done(): close(send) and wait for the writer.
SelectDone ==
    /\ handler.pc = "select"
    /\ ctxDone
    /\ sendClosed' = TRUE
    /\ handler' = [handler EXCEPT !.pc = "drain"]
    /\ UNCHANGED <<data, lastSent, send, writeErrs, ctxDone, connClosed, writer, reader,
                   received, changes>>

\* case err := <-writeErrs, in the select or after close(send).
TakeWriteErr ==
    /\ handler.pc \in {"select", "drain"}
    /\ writeErrs # "empty"
    /\ writeErrs' = "empty"
    /\ Ends
    /\ UNCHANGED <<data, lastSent, send, sendClosed, writer, reader, received, changes>>

---------------------------------------------------------------------------
(***************************************************************************)
(* The writer.                                                             *)
(***************************************************************************)

\* WriteJSON succeeds, which a closed connection does not allow.
Write ==
    /\ writer = "range"
    /\ send # <<>>
    /\ ~connClosed
    /\ send' = Tail(send)
    /\ received' = IF Head(send) = Hello THEN received
                   ELSE [received EXCEPT ![Head(send).topic] = Head(send).value]
    /\ UNCHANGED <<data, handler, lastSent, sendClosed, writeErrs, ctxDone, connClosed,
                   writer, reader, changes>>

\* Mutant: without its buffer the channel needs a handler that listens.
WriteFailsUnbuffered ==
    /\ writer = "range"
    /\ send # <<>>
    /\ handler.pc \in {"select", "drain"}
    /\ send' = Tail(send)
    /\ writeErrs' = "error"
    /\ writer' = "cancel"
    /\ UNCHANGED <<data, handler, lastSent, sendClosed, ctxDone, connClosed, reader,
                   received, changes>>

\* WriteJSON fails or runs into its deadline: writeErrs <- err, which has room.
WriteFails ==
    /\ writer = "range"
    /\ send # <<>>
    /\ writeErrs = "empty"
    /\ send' = Tail(send)
    /\ writeErrs' = "error"
    /\ writer' = "cancel"
    /\ UNCHANGED <<data, handler, lastSent, sendClosed, ctxDone, connClosed, reader,
                   received, changes>>

\* cancel() after the failed write.
WriterCancels ==
    /\ writer = "cancel"
    /\ writer' = "ended"
    /\ ctxDone' = TRUE
    /\ UNCHANGED <<data, handler, lastSent, channels, connClosed, reader, received, changes>>

\* send is closed and drained: writeErrs <- nil.
WriterDone ==
    /\ writer = "range"
    /\ sendClosed /\ send = <<>>
    /\ writeErrs = "empty"
    /\ writeErrs' = "nil"
    /\ writer' = "ended"
    /\ UNCHANGED <<data, handler, lastSent, send, sendClosed, ctxDone, connClosed, reader,
                   received, changes>>

---------------------------------------------------------------------------
\* NextReader fails: the client has gone, or the connection was closed here.
ReaderEnds ==
    /\ reader = "run"
    /\ reader' = "ended"
    /\ ctxDone' = TRUE
    /\ UNCHANGED <<data, handler, lastSent, channels, connClosed, writer, received, changes>>

\* The node's state changes under a topic.
Change(t, v) ==
    /\ changes < MaxChanges
    /\ v # data[t]
    /\ data' = [data EXCEPT ![t] = v]
    /\ changes' = changes + 1
    /\ UNCHANGED <<handler, lastSent, channels, ctxDone, connClosed, writer, reader, received>>

---------------------------------------------------------------------------
\* The connection is upgraded; the first envelope is the hello.
Init ==
    /\ data \in [Topics -> Values]
    /\ \E r \in Rounds :
        handler = [pc |-> "push", topics |-> r, todo |-> r, force |-> TRUE, envelope |-> Hello]
    /\ lastSent = [t \in Topics |-> NoValue]
    /\ send = <<>> /\ sendClosed = FALSE /\ writeErrs = "empty"
    /\ ctxDone = FALSE /\ connClosed = FALSE
    /\ writer = "range" /\ reader = "run"
    /\ received = [t \in Topics |-> NoValue]
    /\ changes = 0

HandlerStep ==
    \/ Snapshot
    \/ Push
    \/ PushCancelled
    \/ RoundDone
    \/ Tick
    \/ SelectDone
    \/ TakeWriteErr

WriterStep ==
    \/ Write
    \/ WriteFails
    \/ WriterCancels
    \/ WriterDone

Next ==
    \/ HandlerStep
    \/ WriterStep
    \/ ReaderEnds
    \/ \E t \in Topics, v \in Values : Change(t, v)

(***************************************************************************)
(* The goroutines run, the ticker ticks, a write succeeds or fails within  *)
(* its deadline.  A select with several ready cases picks one at random,   *)
(* so that none is passed over for ever.  The client need not go away, and *)
(* the data need not change.                                               *)
(***************************************************************************)
Spec ==
    /\ Init /\ [][Next]_vars
    /\ WF_vars(HandlerStep) /\ WF_vars(WriterStep)
    /\ SF_vars(SelectDone) /\ SF_vars(PushCancelled)
    /\ WF_vars(connClosed /\ ReaderEnds)

---------------------------------------------------------------------------
(***************************************************************************)
(* Properties.                                                             *)
(***************************************************************************)

(***************************************************************************)
(* Once the context is cancelled, because the client left or a write       *)
(* failed, ServeHTTP returns: it never waits for ever for room in send or  *)
(* for the writer's last word.  The writer returns after it, also when     *)
(* nobody reads its error any more; the one exception is a handler that    *)
(* gave up inside pushEnvelope after the writer had sent everything: send  *)
(* is never closed then, and the goroutine waits on it for ever.           *)
(***************************************************************************)
ConnectionEnds ==
    /\ ctxDone ~> (handler.pc = "ended")
    /\ (handler.pc = "ended" /\ (sendClosed \/ send # <<>> \/ writer # "range"))
            ~> (writer = "ended")

(***************************************************************************)
(* When a topic stops changing and the connection stays up, the client     *)
(* gets the topic's latest state: lastSent never makes the handler skip a  *)
(* snapshot that was not queued.                                           *)
(***************************************************************************)
ClientCatchesUp ==
    \A t \in Topics, v \in Values :
        <>[](data[t] = v /\ ~ctxDone) => <>[](received[t] = v)
=============================================================================
