------------------------------- MODULE Client -------------------------------
(***************************************************************************)
(* Client (givenergy_modbus/client/client.py): one TCP connection at a     *)
(* time to the dongle, a producer and a consumer task for each, a queue of *)
(* frames that outlives connections, and request coroutines that wait for  *)
(* futures the two tasks resolve.                                          *)
(*                                                                         *)
(* A step is the code a coroutine runs from one await at which it may be   *)
(* suspended to the next: the producer waits for a frame (get), for the    *)
(* peer to read it (drain) and for its pause (sleep).  Steps of different  *)
(* coroutines come in any order, which includes the order of the event     *)
(* loop.  Timers may fire at any time.  Connections are numbered in the    *)
(* order they open; 0 stands for a deleted attribute.  The owner is the    *)
(* coordinator: it connects, closes and abandons the client.               *)
(***************************************************************************)
EXTENDS Integers, Sequences, SequencesExt, FiniteSets

CONSTANTS
    Requests,        \* calls of send_request_and_await_response, one each
    Shapes,          \* values of shape_hash()
    Shape,           \* the shape of the answer each request expects
    Heartbeat,       \* the answer to a heartbeat, as an item of tx_queue
    None,            \* no request
    Tries,           \* of each request: its retries + 1
    QueueMax,        \* Queue(maxsize=20)
    MaxConnections   \* bound: connections opened

ASSUME ClientAssumption ==
    /\ Shape \in [Requests -> Shapes]
    /\ Heartbeat \notin Requests /\ None \notin Requests
    /\ Tries \in [Requests -> Nat \ {0}] /\ QueueMax \in Nat \ {0} /\ MaxConnections \in Nat \ {0}

VARIABLES
    connected,  \* self.connected
    writer,     \* self.writer
    reader,     \* self.reader
    conn,       \* the last connection opened; its tasks are the attributes
    sock,       \* what has become of each connection
    producer,   \* _task_network_producer of each connection
    hand,       \* the request whose frame each producer took and has not reported
    consumer,   \* _task_network_consumer of each connection
    reads,      \* the reader each consumer awaits
    owner,      \* the coordinator: "idle", awaits close(), or has replaced this client
    closing,    \* the writer whose wait_closed() the owner (0) or a consumer awaits
    txQueue,    \* tx_queue
    expected,   \* expected_responses: whose future is registered for a shape
    pc,         \* where a request awaits, or how it ended
    tries,      \* its tries so far
    future,     \* the response_future of its current try
    frames      \* how many frames of it were given to a writer

vars == <<connected, writer, reader, conn, sock, producer, hand, consumer, reads, owner,
          closing, txQueue, expected, pc, tries, future, frames>>
requestVars == <<expected, pc, tries, future, frames>>
linkVars == <<connected, writer, reader, conn, sock, reads, owner, closing>>
netVars == <<connected, writer, reader, conn, sock, reads, owner, closing, hand>>

Connections == 1..MaxConnections
Suspended == {"put", "send", "wait"}
\* "failed" is a TimeoutError or a CancelledError
Ended == {"ok", "failed"}
Running == {"get", "drain", "sleep", "read", "put", "loop", "closing"}

Queued(r) == r \in ToSet(txQueue)
Full == Len(txQueue) >= QueueMax
\* task.cancel() on a task that still runs
Cancel(state) == IF state \in Running THEN "ended" ELSE state
\* The connection an attribute refers to; "none" when the attribute is deleted.
Sock(c) == IF c = 0 THEN "none" ELSE sock[c]
Leaving(c) == Sock(c) \in {"none", "closing", "closed", "reset"}
AtEof(c) == Sock(c) \in {"none", "eof", "closed"}

(***************************************************************************)
(* send_request_and_await_response                                         *)
(***************************************************************************)
\* Mutant: the request that is replaced is not cancelled.
MutCancelPending(fs, r) == fs

\* future.cancel(), which has no effect on a future that is done.
CancelPending(fs, r) == [q \in Requests |-> IF q = r /\ fs[q] = "pending" THEN "cancelled" ELSE fs[q]]

\* Mutant: the request does not await frame_sent.
MutPut(r) == IF Full THEN pc' = [pc EXCEPT ![r] = "put"] /\ UNCHANGED txQueue
                     ELSE pc' = [pc EXCEPT ![r] = "wait"] /\ txQueue' = Append(txQueue, r)

\* await tx_queue.put
Put(r) == IF Full THEN pc' = [pc EXCEPT ![r] = "put"] /\ UNCHANGED txQueue
                  ELSE pc' = [pc EXCEPT ![r] = "send"] /\ txQueue' = Append(txQueue, r)

\* One pass of the while loop up to its first await; fs are the futures before it.
BeginTry(r, fs) ==
    /\ tries' = [tries EXCEPT ![r] = @ + 1]
    /\ future' = [CancelPending(fs, expected[Shape[r]]) EXCEPT ![r] = "pending"]
    /\ expected' = [expected EXCEPT ![Shape[r]] = r]
    /\ Put(r)
    /\ UNCHANGED frames

\* The coroutine ends.  Nobody awaits its future any more: what becomes of it is no matter.
End(r, how, fs) ==
    /\ pc' = [pc EXCEPT ![r] = how]
    /\ future' = [fs EXCEPT ![r] = "none"]
    /\ UNCHANGED <<expected, tries, frames, txQueue>>

\* A request that encode() refuses raises before it touches anything, and counts as not called.
Call(r) ==
    /\ pc[r] = "idle" /\ owner # "gone"
    /\ BeginTry(r, future)
    /\ UNCHANGED <<netVars, producer, consumer>>

PutResumes(r) ==
    /\ pc[r] = "put" /\ ~Full
    /\ Put(r)
    /\ UNCHANGED <<netVars, producer, consumer, expected, tries, future, frames>>

\* Mutant: frame_sent is awaited without a timeout.
MutFrameTimeout(r) == FALSE

\* wait_for(frame_sent) is outside the try statement: its timeout ends the request.
FrameTimeout(r) ==
    /\ pc[r] = "send"
    /\ End(r, "failed", future)
    /\ UNCHANGED <<netVars, producer, consumer>>

\* Mutant: one try too many.
MutNextTry(r, fs) ==
    \/ tries[r] <= Tries[r] /\ BeginTry(r, fs)
    \/ tries[r] > Tries[r] /\ End(r, "failed", fs)

\* while tries <= retries
NextTry(r, fs) ==
    \/ tries[r] < Tries[r] /\ BeginTry(r, fs)
    \/ tries[r] >= Tries[r] /\ End(r, "failed", fs)

ResponseTimeout(r) ==
    /\ pc[r] = "wait" /\ future[r] = "pending"
    /\ NextTry(r, [future EXCEPT ![r] = "cancelled"])
    /\ UNCHANGED <<netVars, producer, consumer>>

\* wait_for(response_future) returns, or raises the CancelledError of the future.
ResponseArrives(r) ==
    /\ pc[r] = "wait"
    /\ \/ future[r] = "ok" /\ End(r, "ok", future)
       \/ future[r] = "error" /\ NextTry(r, future)
       \/ future[r] = "cancelled" /\ End(r, "failed", future)
    /\ UNCHANGED <<netVars, producer, consumer>>

\* The caller is cancelled: CancelledError ends the request where it awaits.
CallerCancelled(r) ==
    /\ pc[r] \in Suspended
    /\ End(r, "failed", future)
    /\ UNCHANGED <<netVars, producer, consumer>>

(***************************************************************************)
(* close                                                                   *)
(***************************************************************************)
\* close() cancels frame_sent of the queued frames, which ends the requests that await it.
CancelQueued ==
    LET cancelled(r) == pc[r] = "send" /\ Queued(r) IN
    /\ pc' = [r \in Requests |-> IF cancelled(r) THEN "failed" ELSE pc[r]]
    /\ future' = [r \in Requests |-> IF cancelled(r) THEN "none" ELSE future[r]]

\* writer.close(); without a writer nothing is awaited and close() runs through at once.
CloseWriter ==
    /\ sock' = [c \in Connections |->
                   IF c = writer /\ sock[c] \in {"open", "eof"} THEN "closing" ELSE sock[c]]
    /\ expected' = IF writer = 0 THEN [s \in Shapes |-> None] ELSE expected

CloseCancels == consumer' = IF writer = 0 THEN [consumer EXCEPT ![conn] = Cancel(@)] ELSE consumer

\* Mutants: close() does not cancel the frames it drops, leaves its producer running, or
\* does not clear connected.
MutBeginCloseFrames ==
    /\ connected' = FALSE /\ txQueue' = <<>>
    /\ producer' = [producer EXCEPT ![conn] = Cancel(@)]
    /\ CloseWriter
    /\ UNCHANGED <<writer, reader, conn, reads, hand, pc, tries, future, frames>>

MutBeginCloseProducer ==
    /\ connected' = FALSE /\ txQueue' = <<>>
    /\ CancelQueued
    /\ CloseWriter
    /\ UNCHANGED <<writer, reader, conn, reads, hand, producer, tries, frames>>

MutBeginCloseConnected ==
    /\ txQueue' = <<>>
    /\ CancelQueued
    /\ producer' = [producer EXCEPT ![conn] = Cancel(@)]
    /\ CloseWriter
    /\ UNCHANGED <<connected, writer, reader, conn, reads, hand, tries, frames>>

\* close() up to wait_closed().  The caller states what it waits for, and what CloseCancels.
BeginClose ==
    /\ connected' = FALSE
    /\ txQueue' = <<>>
    /\ CancelQueued
    /\ producer' = [producer EXCEPT ![conn] = Cancel(@)]
    /\ CloseWriter
    /\ UNCHANGED <<writer, reader, conn, reads, hand, tries, frames>>

\* close() after wait_closed(): it acts on the attributes as they are by then.
FinishClose ==
    /\ writer' = 0 /\ reader' = 0
    /\ sock' = [c \in Connections |-> IF c = reader /\ sock[c] = "open" THEN "eof" ELSE sock[c]]
    /\ expected' = [s \in Shapes |-> None]
    /\ UNCHANGED <<connected, conn, reads, hand, producer, txQueue, pc, tries, future, frames>>

\* wait_closed() raises, or the close finds its writer deleted by another one.
CloseRaises(c) == Sock(c) = "reset" \/ (Sock(c) = "closed" /\ writer = 0)
CloseReturns(c) == Sock(c) = "closed" /\ writer # 0

(***************************************************************************)
(* _task_network_producer                                                  *)
(***************************************************************************)
\* Nobody waits for a heartbeat.
Held(item) == IF item \in Requests THEN item ELSE None

\* get, write and the start of drain(): the frame may be on the wire, its request not told.
ProducerWrites(c) ==
    /\ producer[c] = "get" /\ txQueue # <<>> /\ writer # 0
    /\ LET item == Head(txQueue) IN
        /\ hand' = [hand EXCEPT ![c] = Held(item)]
        /\ frames' = [r \in Requests |-> IF r = item THEN frames[r] + 1 ELSE frames[r]]
    /\ txQueue' = Tail(txQueue)
    /\ producer' = [producer EXCEPT ![c] = "drain"]
    /\ UNCHANGED <<linkVars, consumer, expected, pc, tries, future>>

\* Without a writer the producer dies, and the item with it.
ProducerFails(c) ==
    /\ producer[c] = "get" /\ txQueue # <<>> /\ writer = 0
    /\ hand' = [hand EXCEPT ![c] = Held(Head(txQueue))]
    /\ txQueue' = Tail(txQueue)
    /\ producer' = [producer EXCEPT ![c] = "died"]
    /\ UNCHANGED <<linkVars, consumer, requestVars>>

\* drain() returns, then frame_sent.set_result, which raises when nobody waits for the frame.
ProducerDrained(c) ==
    /\ producer[c] = "drain" /\ sock[c] # "reset"
    /\ hand' = [hand EXCEPT ![c] = None]
    /\ IF hand[c] # None /\ pc[hand[c]] # "send"
         THEN /\ producer' = [producer EXCEPT ![c] = "died"]
              /\ UNCHANGED pc
         ELSE /\ producer' = [producer EXCEPT ![c] = "sleep"]
              /\ pc' = [r \in Requests |-> IF r = hand[c] THEN "wait" ELSE pc[r]]
    /\ UNCHANGED <<linkVars, consumer, txQueue, expected, tries, future, frames>>

\* drain() raises: the request is not told.
DrainFails(c) ==
    /\ producer[c] = "drain" /\ sock[c] \in {"closed", "reset"}
    /\ producer' = [producer EXCEPT ![c] = "died"]
    /\ UNCHANGED <<netVars, consumer, txQueue, requestVars>>

\* The sleep is over.  A close() the producer runs cancels the producer: it ends there.
ProducerWakes(c) ==
    /\ producer[c] = "sleep"
    /\ \/ /\ ~Leaving(writer)
          /\ producer' = [producer EXCEPT ![c] = "get"]
          /\ UNCHANGED <<netVars, consumer, txQueue, requestVars>>
       \/ /\ Leaving(writer)
          /\ connected /\ BeginClose /\ CloseCancels /\ UNCHANGED <<owner, closing>>
       \/ /\ Leaving(writer)
          /\ ~connected /\ producer' = [producer EXCEPT ![c] = "ended"]
          /\ UNCHANGED <<netVars, consumer, txQueue, requestVars>>

(***************************************************************************)
(* _task_network_consumer                                                  *)
(***************************************************************************)
\* A response, late or relayed ones included, resolves whoever is registered.
ConsumerAnswers(c, s, outcome) ==
    /\ consumer[c] = "read" /\ sock[reads[c]] = "open"
    /\ expected[s] # None
    /\ future[expected[s]] = "pending"
    /\ future' = [future EXCEPT ![expected[s]] = outcome]
    /\ UNCHANGED <<netVars, producer, consumer, txQueue, expected, pc, tries, frames>>

ConsumerHeartbeat(c) ==
    /\ consumer[c] = "read" /\ sock[reads[c]] = "open"
    /\ \/ Full /\ consumer' = [consumer EXCEPT ![c] = "put"] /\ UNCHANGED txQueue
       \/ ~Full /\ txQueue' = Append(txQueue, Heartbeat) /\ UNCHANGED consumer
    /\ UNCHANGED <<netVars, producer, requestVars>>

ConsumerPutResumes(c) ==
    /\ consumer[c] = "put" /\ ~Full
    /\ txQueue' = Append(txQueue, Heartbeat)
    /\ consumer' = [consumer EXCEPT ![c] = "loop"]
    /\ UNCHANGED <<netVars, producer, requestVars>>

\* decode raises something the framer does not catch, or the reader does.
ConsumerDies(c) ==
    /\ consumer[c] = "read" /\ sock[reads[c]] \in {"open", "reset"}
    /\ consumer' = [consumer EXCEPT ![c] = "died"]
    /\ UNCHANGED <<netVars, producer, txQueue, requestVars>>

\* The while condition, on self.reader of now.  Two coroutines cannot await one reader.
ConsumerLoops(c) ==
    /\ consumer[c] = "loop" \/ (consumer[c] = "read" /\ AtEof(reads[c]))
    /\ \/ /\ ~AtEof(reader)
          /\ IF \E d \in Connections \ {c} : consumer[d] = "read" /\ reads[d] = reader
               THEN consumer' = [consumer EXCEPT ![c] = "died"] /\ UNCHANGED reads
               ELSE /\ consumer' = [consumer EXCEPT ![c] = "read"]
                    /\ reads' = [reads EXCEPT ![c] = reader]
          /\ UNCHANGED <<connected, writer, reader, conn, sock, hand, owner, closing, producer,
                         txQueue, requestVars>>
       \/ /\ AtEof(reader) /\ connected
          /\ BeginClose
          /\ IF writer = 0 THEN consumer' = [consumer EXCEPT ![conn] = Cancel(@), ![c] = "ended"]
                           ELSE consumer' = [consumer EXCEPT ![c] = "closing"]
          /\ closing' = [closing EXCEPT ![c] = writer]
          /\ UNCHANGED owner
       \/ /\ AtEof(reader) /\ ~connected
          /\ consumer' = [consumer EXCEPT ![c] = "ended"]
          /\ UNCHANGED <<netVars, producer, txQueue, requestVars>>

ConsumerCloseEnds(c) ==
    /\ consumer[c] = "closing"
    /\ \/ /\ CloseRaises(closing[c])
          /\ consumer' = [consumer EXCEPT ![c] = "died"]
          /\ UNCHANGED <<connected, writer, reader, conn, sock, reads, hand, producer, txQueue,
                         requestVars>>
       \/ /\ CloseReturns(closing[c])
          /\ FinishClose
          /\ consumer' = [consumer EXCEPT ![conn] = Cancel(@), ![c] = "ended"]
    /\ closing' = [closing EXCEPT ![c] = 0]
    /\ UNCHANGED owner

(***************************************************************************)
(* The coordinator                                                         *)
(***************************************************************************)
\* Mutant: connects over an open connection.
MutConnect ==
    /\ owner = "idle" /\ conn < MaxConnections
    /\ conn' = conn + 1
    /\ reader' = conn' /\ writer' = conn'
    /\ sock' = [sock EXCEPT ![conn'] = "open"]
    /\ consumer' = [consumer EXCEPT ![conn'] = "read"]
    /\ reads' = [reads EXCEPT ![conn'] = conn']
    /\ producer' = [producer EXCEPT ![conn'] = "get"]
    /\ connected' = TRUE
    /\ UNCHANGED <<owner, closing, hand, txQueue, requestVars>>

\* connect(), which only the coordinator calls and only while disconnected.  A connection
\* that does not open changes nothing.
Connect ==
    /\ owner = "idle" /\ ~connected /\ conn < MaxConnections
    /\ conn' = conn + 1
    /\ reader' = conn' /\ writer' = conn'
    /\ sock' = [sock EXCEPT ![conn'] = "open"]
    /\ consumer' = [consumer EXCEPT ![conn'] = "read"]
    /\ reads' = [reads EXCEPT ![conn'] = conn']
    /\ producer' = [producer EXCEPT ![conn'] = "get"]
    /\ connected' = TRUE
    /\ UNCHANGED <<owner, closing, hand, txQueue, requestVars>>

OwnerCloses ==
    /\ owner = "idle" /\ connected
    /\ BeginClose /\ CloseCancels
    /\ owner' = IF writer = 0 THEN "idle" ELSE "closing"
    /\ closing' = [closing EXCEPT ![0] = writer]

OwnerCloseEnds ==
    /\ owner = "closing" /\ CloseReturns(closing[0])
    /\ FinishClose
    /\ consumer' = [consumer EXCEPT ![conn] = Cancel(@)]
    /\ owner' = "idle"
    /\ closing' = [closing EXCEPT ![0] = 0]

\* _close_client after an exception or its timeout: the tasks go, and the client with them.
OwnerAbandons ==
    /\ owner = "closing"
    /\ owner' = "gone"
    /\ closing' = [closing EXCEPT ![0] = 0]
    /\ consumer' = [consumer EXCEPT ![conn] = Cancel(@)]
    /\ producer' = [producer EXCEPT ![conn] = Cancel(@)]
    /\ UNCHANGED <<connected, writer, reader, conn, sock, reads, hand, txQueue, requestVars>>

(***************************************************************************)
(* The network                                                             *)
(***************************************************************************)
SocketChanges(c, from, to) ==
    /\ sock[c] \in from
    /\ sock' = [sock EXCEPT ![c] = to]
    /\ UNCHANGED <<connected, writer, reader, conn, reads, owner, closing, hand, producer, consumer,
                   txQueue, requestVars>>

PeerEnds(c) == SocketChanges(c, {"open"}, "eof")
ConnectionResets(c) == SocketChanges(c, {"open", "eof", "closing"}, "reset")
SocketCloses(c) == SocketChanges(c, {"closing"}, "closed")

Init ==
    /\ connected = FALSE /\ writer = 0 /\ reader = 0 /\ conn = 0
    /\ sock = [c \in Connections |-> "none"]
    /\ producer = [c \in Connections |-> "none"]
    /\ hand = [c \in Connections |-> None]
    /\ consumer = [c \in Connections |-> "none"]
    /\ reads = [c \in Connections |-> 0]
    /\ owner = "idle" /\ closing = [a \in {0} \cup Connections |-> 0]
    /\ txQueue = <<>>
    /\ expected = [s \in Shapes |-> None]
    /\ pc = [r \in Requests |-> "idle"]
    /\ tries = [r \in Requests |-> 0]
    /\ future = [r \in Requests |-> "none"]
    /\ frames = [r \in Requests |-> 0]

RequestStep(r) == PutResumes(r) \/ FrameTimeout(r) \/ ResponseTimeout(r) \/ ResponseArrives(r)
ProducerStep(c) == ProducerWrites(c) \/ ProducerFails(c) \/ DrainFails(c) \/ ProducerWakes(c)
ConsumerStep(c) == ConsumerPutResumes(c) \/ ConsumerLoops(c) \/ ConsumerCloseEnds(c)
OwnerStep == Connect \/ OwnerCloses \/ OwnerCloseEnds \/ OwnerAbandons

Next ==
    \/ \E r \in Requests : Call(r) \/ RequestStep(r) \/ CallerCancelled(r)
    \/ \E c \in Connections :
        \/ ProducerStep(c) \/ ProducerDrained(c)
        \/ ConsumerStep(c) \/ ConsumerHeartbeat(c) \/ ConsumerDies(c)
        \/ \E s \in Shapes, outcome \in {"ok", "error"} : ConsumerAnswers(c, s, outcome)
        \/ PeerEnds(c) \/ ConnectionResets(c) \/ SocketCloses(c)
    \/ OwnerStep

\* Every coroutine that can run does, and every await but put and drain has a timeout; a full
\* queue wakes the request that waits longest, so heartbeats cannot starve it.  drain() returns
\* when the peer reads, which it need not.  A read through a connection without both tasks, or
\* with a producer that stays in drain, times out; the coordinator then closes it.
OwnerNotices ==
    /\ OwnerCloses
    /\ producer[conn] \in {"drain", "ended", "died"} \/ consumer[conn] \in {"ended", "died"}

Spec ==
    /\ Init /\ [][Next]_vars
    /\ \A r \in Requests : WF_vars(RequestStep(r)) /\ SF_vars(PutResumes(r))
    /\ \A c \in Connections : WF_vars(ProducerStep(c)) /\ WF_vars(ConsumerStep(c))
    /\ WF_vars(OwnerNotices) /\ WF_vars(OwnerCloseEnds \/ OwnerAbandons)

(***************************************************************************)
(* Properties                                                              *)
(***************************************************************************)
\* Every variable has its type; tx_queue stays within its size and a request within its tries.
TypeOK ==
    /\ connected \in BOOLEAN
    /\ {writer, reader, conn} \subseteq 0..MaxConnections
    /\ sock \in [Connections -> {"none", "open", "eof", "closing", "closed", "reset"}]
    /\ producer \in [Connections -> {"none", "get", "drain", "sleep", "ended", "died"}]
    /\ hand \in [Connections -> Requests \cup {None}]
    /\ consumer \in [Connections -> {"none", "read", "put", "loop", "closing", "ended", "died"}]
    /\ reads \in [Connections -> 0..MaxConnections]
    /\ owner \in {"idle", "closing", "gone"}
    /\ closing \in [{0} \cup Connections -> 0..MaxConnections]
    /\ txQueue \in Seq(Requests \cup {Heartbeat}) /\ Len(txQueue) <= QueueMax
    /\ expected \in [Shapes -> Requests \cup {None}]
    /\ pc \in [Requests -> {"idle"} \cup Suspended \cup Ended]
    /\ \A r \in Requests : tries[r] \in 0..Tries[r] /\ frames[r] \in 0..Tries[r]
    /\ future \in [Requests -> {"none", "pending", "ok", "error", "cancelled"}]

\* A request that waits for a frame that is not queued waits for one a producer took and has not
\* reported, or died or was cancelled with: neither close() nor a new connection drops a frame
\* without telling its request, and each connection leaves one request at most untold.
NoForgottenFrame ==
    \A r \in Requests : pc[r] = "send" /\ ~Queued(r) => \E c \in Connections : hand[c] = r

\* However closes, reconnections and deaths overlap, one producer at most runs, that of the
\* last connection: two would interleave frames without the pause the dongle needs.
OneProducer ==
    \A c \in Connections : producer[c] \in Running => c = conn

\* A connected client is served by its tasks unless one died of an exception, or an older
\* close() tore the new connection down.
ConnectedIsServed ==
    connected =>
        /\ producer[conn] # "ended"
        /\ consumer[conn] = "ended" => writer = 0

\* A request whose answer is awaited is the one that gets the next answer of its shape, unless
\* a connection was given up since: replacing a request, retrying it and failing it never leave
\* one behind whose future nothing will resolve, nor two of a shape that wait together.
OrphanedOnlyByClose ==
    \A r \in Requests :
        future[r] = "pending" /\ expected[Shape[r]] # r => \E c \in 1..conn : c # writer

\* The writers whose wait_closed() somebody awaits.
Awaited == {closing[c] : c \in {d \in Connections : consumer[d] = "closing"}}
           \cup (IF owner = "closing" THEN {closing[0]} ELSE {})

\* close() abandons an open socket only if a connection was opened while it waited for an
\* older socket.
LeakNeedsOverlap ==
    [][(\E c \in Connections : writer = c /\ writer' # c /\ sock[c] \in {"open", "eof"}
                                              /\ sock'[c] \in {"open", "eof"})
          => Awaited \ {writer} # {}]_vars

\* No request waits for ever, whatever dies or is closed under it, except in the queue of a
\* client that is not connected.
RequestsEnd ==
    \A r \in Requests :
        pc[r] \in Suspended ~> (pc[r] \in Ended \/ (pc[r] = "put" /\ ~connected))

Contract == INSTANCE RequestContract WITH
    status <- [r \in Requests |-> IF pc[r] \in Suspended THEN "active" ELSE pc[r]],
    queued <- {r \in Requests : Queued(r)},
    sends <- frames

\* Requests keep the promise of RequestContract over any number of connections.
ImplementsContract == Contract!Spec

=============================================================================
