---------------------------- MODULE ClientProofs ----------------------------
(***************************************************************************)
(* Theorems about Client, for every set of requests, every number of       *)
(* tries, every size of the queue and any number of connections.           *)
(*                                                                         *)
(* IInv collects what holds at each await.  NetInv is about connections:   *)
(* who runs, who closes and what the attributes refer to.  QueueInv is     *)
(* about requests: each frame in the queue is there once and stands for a  *)
(* try of a request that has not been told of it yet.  HandInv is about    *)
(* the frames that producers have taken from the queue.                    *)
(***************************************************************************)
EXTENDS Client, SequenceTheorems, TLAPS

Futures == {"none", "pending", "ok", "error", "cancelled"}
Items == Requests \cup {Heartbeat}

NetType ==
    /\ connected \in BOOLEAN
    /\ {writer, reader, conn} \subseteq 0..MaxConnections
    /\ sock \in [Connections -> {"none", "open", "eof", "closing", "closed", "reset"}]
    /\ producer \in [Connections -> {"none", "get", "drain", "sleep", "ended", "died"}]
    /\ hand \in [Connections -> Requests \cup {None}]
    /\ consumer \in [Connections -> {"none", "read", "put", "loop", "closing", "ended", "died"}]
    /\ reads \in [Connections -> 0..MaxConnections]
    /\ owner \in {"idle", "closing", "gone"}
    /\ closing \in [{0} \cup Connections -> 0..MaxConnections]

RequestType ==
    /\ txQueue \in Seq(Items) /\ Len(txQueue) <= QueueMax
    /\ expected \in [Shapes -> Requests \cup {None}]
    /\ pc \in [Requests -> {"idle"} \cup Suspended \cup Ended]
    /\ tries \in [Requests -> Nat] /\ frames \in [Requests -> Nat]
    /\ \A r \in Requests : tries[r] <= Tries[r]
    /\ future \in [Requests -> Futures]

\* No request has two frames in a queue.
OnceEach(s) ==
    \A i, j \in 1..Len(s) : s[i] = s[j] /\ s[i] \in Requests => i = j

NetInv ==
    /\ reader = writer
    /\ connected => conn \in Connections
    /\ owner # "idle" => ~connected
    /\ \A c \in Connections :
          /\ c > conn => producer[c] = "none"
          /\ producer[c] \in Running => c = conn /\ connected
          /\ consumer[c] = "closing" => closing[c] \in Connections
    /\ owner = "closing" => closing[0] \in Connections
    /\ ~connected /\ writer # 0 => sock[writer] \notin {"open", "eof"}

QueueInv ==
    /\ OnceEach(txQueue)
    /\ \A r \in Requests :
          /\ frames[r] <= tries[r]
          /\ pc[r] = "idle" => tries[r] = 0
          /\ pc[r] = "wait" => frames[r] > 0
          /\ pc[r] = "put" \/ Queued(r) => frames[r] < tries[r]
          /\ Queued(r) => pc[r] \in {"send", "failed"}

\* The frame a producer drains stands for a try that is not queued again and did not succeed.
HandInv ==
    \A c \in Connections :
        /\ producer[c] \in {"none", "get", "sleep"} => hand[c] = None
        /\ \A r \in Requests :
              producer[c] = "drain" /\ hand[c] = r
                 => frames[r] > 0 /\ ~Queued(r) /\ pc[r] \in {"send", "failed"}

\* The state of connections, and that of requests: few steps touch both.
NetPart == NetType /\ NetInv /\ ConnectedIsServed
RequestPart == RequestType /\ QueueInv /\ HandInv /\ NoForgottenFrame

IInv == NetPart /\ RequestPart

(***************************************************************************)
(* Lemmas about sequences.                                                 *)
(***************************************************************************)
LEMMA ToSetOfEmpty == ToSet(<<>>) = {}
  BY DEF ToSet

LEMMA ToSetOfAppend ==
    ASSUME NEW S, NEW s \in Seq(S), NEW e \in S
    PROVE  ToSet(Append(s, e)) = ToSet(s) \cup {e}
  <1>1. /\ DOMAIN s = 1..Len(s) /\ Len(s) \in Nat
        /\ DOMAIN Append(s, e) = 1..(Len(s) + 1)
        /\ \A i \in 1..Len(s) : Append(s, e)[i] = s[i]
        /\ Append(s, e)[Len(s) + 1] = e
    BY AppendProperties, LenProperties
  <1> QED BY <1>1 DEF ToSet

LEMMA ToSetOfTail ==
    ASSUME NEW S, NEW s \in Seq(S), s # <<>>
    PROVE  ToSet(s) = {Head(s)} \cup ToSet(Tail(s))
  <1>1. /\ DOMAIN s = 1..Len(s) /\ Len(s) \in Nat /\ Len(s) > 0
        /\ DOMAIN Tail(s) = 1..(Len(s) - 1)
        /\ \A i \in 1..(Len(s) - 1) : Tail(s)[i] = s[i + 1]
        /\ Head(s) = s[1]
    BY HeadTailProperties, LenProperties, EmptySeq
  <1>2. \A i \in 1..Len(s) : i = 1 \/ i - 1 \in 1..(Len(s) - 1)
    BY <1>1
  <1>3. \A i \in 1..Len(s) : i # 1 => s[i] = Tail(s)[i - 1]
    BY <1>1, <1>2
  <1>4. ASSUME NEW e \in ToSet(s)
        PROVE  e = Head(s) \/ e \in ToSet(Tail(s))
    <2>1. PICK i \in 1..Len(s) : e = s[i]
      BY <1>1 DEF ToSet
    <2> QED BY <2>1, <1>1, <1>2, <1>3 DEF ToSet
  <1>5. ASSUME NEW e, e = Head(s) \/ e \in ToSet(Tail(s))
        PROVE  e \in ToSet(s)
    <2>1. CASE e = Head(s)
      BY <2>1, <1>1 DEF ToSet
    <2>2. CASE e \in ToSet(Tail(s))
      <3>1. PICK i \in 1..(Len(s) - 1) : e = Tail(s)[i]
        BY <2>2, <1>1 DEF ToSet
      <3>2. e = s[i + 1] /\ i + 1 \in 1..Len(s)
        BY <3>1, <1>1
      <3> QED BY <3>2, <1>1 DEF ToSet
    <2> QED BY <1>5, <2>1, <2>2
  <1> QED BY <1>4, <1>5

LEMMA InToSet ==
    ASSUME NEW S, NEW s \in Seq(S), NEW e
    PROVE  e \in ToSet(s) <=> \E i \in 1..Len(s) : s[i] = e
  BY LenProperties DEF ToSet

LEMMA OnceEachAppend ==
    ASSUME NEW S, NEW s \in Seq(S), NEW e \in S, OnceEach(s), e \notin Requests \/ e \notin ToSet(s)
    PROVE  OnceEach(Append(s, e))
  <1>1. /\ Len(s) \in Nat /\ Len(Append(s, e)) = Len(s) + 1
        /\ \A i \in 1..Len(s) : Append(s, e)[i] = s[i]
        /\ Append(s, e)[Len(s) + 1] = e
    BY AppendProperties, LenProperties
  <1>2. e \in Requests => \A i \in 1..Len(s) : s[i] # e
    BY InToSet
  <1> QED BY <1>1, <1>2 DEF OnceEach

LEMMA OnceEachTail ==
    ASSUME NEW S, NEW s \in Seq(S), s # <<>>, OnceEach(s)
    PROVE  OnceEach(Tail(s)) /\ (Head(s) \in Requests => Head(s) \notin ToSet(Tail(s)))
  <1>1. /\ Len(s) \in Nat /\ Len(s) > 0 /\ Len(Tail(s)) = Len(s) - 1
        /\ Tail(s) \in Seq(S) /\ DOMAIN Tail(s) = 1..(Len(s) - 1)
        /\ \A i \in 1..(Len(s) - 1) : Tail(s)[i] = s[i + 1]
        /\ Head(s) = s[1]
    BY HeadTailProperties, LenProperties, EmptySeq
  <1>2. OnceEach(Tail(s))
    BY <1>1 DEF OnceEach
  <1>3. ASSUME Head(s) \in Requests, NEW i \in 1..(Len(s) - 1)
        PROVE  Tail(s)[i] # Head(s)
    BY <1>1, <1>3 DEF OnceEach
  <1> QED BY <1>1, <1>2, <1>3 DEF ToSet

(***************************************************************************)
(* The constants, and steps that leave a half of the state alone.          *)
(***************************************************************************)
LEMMA Bounds ==
    /\ MaxConnections \in Nat /\ MaxConnections > 0
    /\ QueueMax \in Nat /\ QueueMax > 0
    /\ \A r \in Requests : Tries[r] \in Nat /\ Tries[r] > 0 /\ Shape[r] \in Shapes
    /\ Heartbeat \notin Requests /\ None \notin Requests
    /\ Connections = 1..MaxConnections
  BY ClientAssumption DEF Connections

LEMMA Untouched ==
    /\ NetPart /\ UNCHANGED <<netVars, producer, consumer>> => NetPart'
    /\ RequestPart /\ UNCHANGED <<producer, hand, txQueue, requestVars>> => RequestPart'
  <1>1. ASSUME NetPart, UNCHANGED <<netVars, producer, consumer>>
        PROVE  NetPart'
    BY <1>1 DEF NetPart, NetType, NetInv, ConnectedIsServed, netVars
  <1>2. ASSUME RequestPart, UNCHANGED <<producer, hand, txQueue, requestVars>>
        PROVE  RequestPart'
    BY <1>2 DEF RequestPart, RequestType, QueueInv, HandInv, NoForgottenFrame, Queued, requestVars
  <1> QED BY <1>1, <1>2

\* A request is affected by a step of the network only through the frame a producer holds.
HandsKept ==
    \A c \in Connections :
        /\ producer'[c] = "drain" => producer[c] = "drain"
        /\ producer'[c] \in {"none", "get", "sleep"} => producer[c] \in {"none", "get", "sleep"}

LEMMA RequestsUntouched ==
    ASSUME RequestPart, UNCHANGED <<hand, txQueue, requestVars>>, HandsKept
    PROVE  RequestPart'
  <1>1. RequestType' /\ QueueInv'
    BY DEF RequestPart, RequestType, QueueInv, Queued, requestVars
  <1>2. HandInv' /\ NoForgottenFrame'
    BY DEF RequestPart, HandInv, HandsKept, NoForgottenFrame, Queued, requestVars
  <1> QED BY <1>1, <1>2 DEF RequestPart

(***************************************************************************)
(* What the operators that requests are built from preserve.               *)
(***************************************************************************)
\* A frame joins the queue, which has room for it.
LEMMA QueueGrows ==
    ASSUME RequestType, OnceEach(txQueue), NEW e \in Items, ~Full, e \notin Requests \/ ~Queued(e),
           txQueue' = Append(txQueue, e)
    PROVE  /\ txQueue' \in Seq(Items) /\ Len(txQueue') <= QueueMax
           /\ OnceEach(txQueue)'
           /\ \A r \in Requests : Queued(r)' <=> Queued(r) \/ r = e
  <1>1. txQueue \in Seq(Items) /\ Len(txQueue) \in Nat /\ Len(txQueue) < QueueMax
    BY LenProperties, Bounds DEF RequestType, Full
  <1>2. txQueue' \in Seq(Items) /\ Len(txQueue') <= QueueMax
    BY <1>1, AppendProperties, Bounds
  <1>3. OnceEach(Append(txQueue, e))
    BY <1>1, OnceEachAppend DEF Queued
  <1>4. ToSet(txQueue') = ToSet(txQueue) \cup {e}
    BY <1>1, ToSetOfAppend
  <1> QED BY <1>2, <1>3, <1>4 DEF OnceEach, Queued

\* The head of the queue is taken.
LEMMA QueueShrinks ==
    ASSUME RequestType, OnceEach(txQueue), txQueue # <<>>, txQueue' = Tail(txQueue)
    PROVE  /\ Head(txQueue) \in Items
           /\ txQueue' \in Seq(Items) /\ Len(txQueue') <= QueueMax
           /\ OnceEach(txQueue)'
           /\ \A r \in Requests : Queued(r) <=> Queued(r)' \/ r = Head(txQueue)
           /\ \A r \in Requests : r = Head(txQueue) => ~Queued(r)'
  <1>1. txQueue \in Seq(Items) /\ Len(txQueue) \in Nat /\ Len(txQueue) <= QueueMax
    BY LenProperties DEF RequestType
  <1>2. /\ Head(txQueue) \in Items /\ txQueue' \in Seq(Items)
        /\ Len(txQueue') <= QueueMax
    BY <1>1, HeadTailProperties, Bounds
  <1>3. /\ OnceEach(Tail(txQueue))
        /\ Head(txQueue) \in Requests => Head(txQueue) \notin ToSet(Tail(txQueue))
    BY <1>1, OnceEachTail
  <1>4. ToSet(txQueue) = {Head(txQueue)} \cup ToSet(txQueue')
    BY <1>1, ToSetOfTail
  <1> QED BY <1>2, <1>3, <1>4 DEF OnceEach, Queued

LEMMA PutInv ==
    ASSUME RequestType, OnceEach(txQueue), NEW r \in Requests, ~Queued(r), Put(r)
    PROVE  /\ txQueue' \in Seq(Items) /\ Len(txQueue') <= QueueMax
           /\ OnceEach(txQueue)'
           /\ pc' \in [Requests -> {"idle"} \cup Suspended \cup Ended]
           /\ \A q \in Requests \ {r} : pc'[q] = pc[q] /\ (Queued(q)' <=> Queued(q))
           /\ \/ pc'[r] = "put" /\ ~Queued(r)'
              \/ pc'[r] = "send" /\ Queued(r)'
  <1>1. pc' \in [Requests -> {"idle"} \cup Suspended \cup Ended]
    BY DEF Put, RequestType, Suspended
  <1>2. CASE Full
    BY <1>1, <1>2 DEF Put, RequestType, OnceEach, Queued
  <1>3. CASE ~Full
    <2>1. txQueue' = Append(txQueue, r) /\ pc' = [pc EXCEPT ![r] = "send"]
      BY <1>3 DEF Put
    <2>2. r \in Items
      BY DEF Items
    <2> QED BY <1>1, <1>3, <2>1, <2>2, QueueGrows DEF RequestType
  <1> QED BY <1>2, <1>3

LEMMA BeginTryInv ==
    ASSUME RequestPart, NEW r \in Requests, NEW fs \in [Requests -> Futures],
           pc[r] \in {"idle", "wait"}, tries[r] < Tries[r], BeginTry(r, fs), UNCHANGED <<producer, hand>>
    PROVE  RequestPart'
  <1> USE DEF RequestPart
  <1>1. ~Queued(r)
    BY DEF QueueInv
  <1>2. /\ tries' = [tries EXCEPT ![r] = @ + 1] /\ Put(r) /\ UNCHANGED frames
        /\ expected' = [expected EXCEPT ![Shape[r]] = r]
        /\ future' = [CancelPending(fs, expected[Shape[r]]) EXCEPT ![r] = "pending"]
    BY DEF BeginTry
  <1>3. /\ txQueue' \in Seq(Items) /\ Len(txQueue') <= QueueMax
        /\ OnceEach(txQueue)'
        /\ pc' \in [Requests -> {"idle"} \cup Suspended \cup Ended]
        /\ \A q \in Requests \ {r} : pc'[q] = pc[q] /\ (Queued(q)' <=> Queued(q))
        /\ \/ pc'[r] = "put" /\ ~Queued(r)'
           \/ pc'[r] = "send" /\ Queued(r)'
    BY <1>1, <1>2, PutInv DEF QueueInv
  <1>4. future' \in [Requests -> Futures]
    BY <1>2 DEF CancelPending, Futures
  <1>5. RequestType'
    <2>1. expected' \in [Shapes -> Requests \cup {None}]
      BY <1>2, Bounds DEF RequestType
    <2>2. /\ tries' \in [Requests -> Nat] /\ frames' \in [Requests -> Nat]
          /\ \A q \in Requests : tries'[q] <= Tries[q]
      BY <1>2, Bounds DEF RequestType
    <2> QED BY <1>3, <1>4, <2>1, <2>2 DEF RequestType
  <1>6. QueueInv'
    BY <1>2, <1>3, Bounds DEF QueueInv, RequestType
  <1>7. HandInv' /\ NoForgottenFrame'
    BY <1>2, <1>3 DEF HandInv, NoForgottenFrame
  <1> QED BY <1>5, <1>6, <1>7

LEMMA EndInv ==
    ASSUME RequestPart, NEW r \in Requests, NEW fs \in [Requests -> Futures],
           pc[r] \in Suspended, NEW how \in Ended, how = "ok" => pc[r] = "wait",
           End(r, how, fs), UNCHANGED <<producer, hand>>
    PROVE  RequestPart'
  <1> USE DEF RequestPart
  <1>1. RequestType'
    <2>1. pc' \in [Requests -> {"idle"} \cup Suspended \cup Ended]
      BY DEF RequestType, End
    <2>2. future' \in [Requests -> Futures]
      BY DEF End, Futures
    <2> QED BY <2>1, <2>2 DEF RequestType, End
  <1>2. QueueInv'
    BY DEF QueueInv, RequestType, End, Queued, Ended, Suspended
  <1>3. HandInv' /\ NoForgottenFrame'
    BY DEF HandInv, NoForgottenFrame, RequestType, End, Queued, Ended, Suspended
  <1> QED BY <1>1, <1>2, <1>3

\* The condition BeginClose leaves the requests in.
LEMMA BeginCloseRequests ==
    ASSUME RequestPart, NetType, BeginClose
    PROVE  RequestPart'
  <1> USE DEF RequestPart
  <1>1. /\ txQueue' = <<>> /\ UNCHANGED <<tries, frames>>
        /\ pc' = [r \in Requests |-> IF pc[r] = "send" /\ Queued(r) THEN "failed" ELSE pc[r]]
        /\ future' = [r \in Requests |->
                          IF pc[r] = "send" /\ Queued(r) THEN "none" ELSE future[r]]
        /\ expected' = IF writer = 0 THEN [s \in Shapes |-> None] ELSE expected
        /\ producer' = [producer EXCEPT ![conn] = Cancel(@)] /\ UNCHANGED hand
    BY DEF BeginClose, CancelQueued, CloseWriter
  <1>2. /\ txQueue' \in Seq(Items) /\ Len(txQueue') = 0 /\ \A r \in Requests : ~Queued(r)'
        /\ OnceEach(txQueue)'
    BY <1>1, EmptySeq, ToSetOfEmpty DEF Queued, OnceEach
  <1>3. RequestType'
    <2>1. pc' \in [Requests -> {"idle"} \cup Suspended \cup Ended]
      BY <1>1 DEF RequestType, Ended
    <2>2. future' \in [Requests -> Futures]
      BY <1>1 DEF RequestType, Futures
    <2>3. expected' \in [Shapes -> Requests \cup {None}]
      BY <1>1 DEF RequestType
    <2> QED BY <1>1, <1>2, <2>1, <2>2, <2>3, Bounds DEF RequestType
  <1>4. QueueInv'
    BY <1>1, <1>2 DEF QueueInv, RequestType
  <1>5. HandInv' /\ NoForgottenFrame'
    <2>1. HandsKept
      BY <1>1 DEF HandsKept, NetType, Cancel, Running
    <2> QED BY <1>1, <1>2, <2>1 DEF HandInv, HandsKept, NoForgottenFrame, RequestType
  <1> QED BY <1>3, <1>4, <1>5

(***************************************************************************)
(* The actions of requests.                                                *)
(***************************************************************************)
LEMMA CallInv == ASSUME RequestPart, NEW r \in Requests, Call(r) PROVE RequestPart'
  <1>1. tries[r] < Tries[r] /\ future \in [Requests -> Futures]
    BY Bounds DEF RequestPart, QueueInv, RequestType, Call
  <1> QED BY <1>1, BeginTryInv DEF Call, netVars

LEMMA PutResumesInv == ASSUME RequestPart, NEW r \in Requests, PutResumes(r) PROVE RequestPart'
  <1> USE DEF RequestPart
  <1>1. /\ txQueue' \in Seq(Items) /\ Len(txQueue') <= QueueMax
        /\ OnceEach(txQueue)'
        /\ pc' \in [Requests -> {"idle"} \cup Suspended \cup Ended]
        /\ \A q \in Requests \ {r} : pc'[q] = pc[q] /\ (Queued(q)' <=> Queued(q))
        /\ \/ pc'[r] = "put" /\ ~Queued(r)'
           \/ pc'[r] = "send" /\ Queued(r)'
    BY PutInv DEF QueueInv, PutResumes
  <1>2. UNCHANGED <<expected, tries, future, frames, producer, hand>> /\ pc[r] = "put"
    BY DEF PutResumes, netVars
  <1>3. RequestType'
    BY <1>1, <1>2 DEF RequestType
  <1>4. QueueInv'
    BY <1>1, <1>2 DEF QueueInv
  <1>5. HandInv' /\ NoForgottenFrame'
    BY <1>1, <1>2 DEF HandInv, NoForgottenFrame
  <1> QED BY <1>3, <1>4, <1>5

LEMMA NextTryInv ==
    ASSUME RequestPart, NEW r \in Requests, NEW fs \in [Requests -> Futures],
           pc[r] = "wait", NextTry(r, fs), UNCHANGED <<producer, hand>>
    PROVE  RequestPart'
  <1>1. CASE tries[r] < Tries[r] /\ BeginTry(r, fs)
    BY <1>1, BeginTryInv
  <1>2. CASE End(r, "failed", fs)
    BY <1>2, EndInv DEF Suspended, Ended
  <1> QED BY <1>1, <1>2 DEF NextTry

LEMMA RequestActionInv ==
    ASSUME RequestPart, NEW r \in Requests,
           FrameTimeout(r) \/ ResponseTimeout(r) \/ ResponseArrives(r) \/ CallerCancelled(r)
    PROVE  RequestPart'
  <1>0. future \in [Requests -> Futures]
    BY DEF RequestPart, RequestType
  <1>1. CASE FrameTimeout(r)
    BY <1>0, <1>1, EndInv DEF FrameTimeout, Suspended, Ended, netVars
  <1>2. CASE ResponseTimeout(r)
    <2>1. [future EXCEPT ![r] = "cancelled"] \in [Requests -> Futures]
      BY <1>0 DEF Futures
    <2> QED BY <1>2, <2>1, NextTryInv DEF ResponseTimeout, netVars
  <1>3. CASE ResponseArrives(r)
    <2>1. CASE End(r, "ok", future)
      BY <1>0, <1>3, <2>1, EndInv DEF ResponseArrives, Suspended, Ended, netVars
    <2>2. CASE NextTry(r, future)
      BY <1>0, <1>3, <2>2, NextTryInv DEF ResponseArrives, netVars
    <2>3. CASE End(r, "failed", future)
      BY <1>0, <1>3, <2>3, EndInv DEF ResponseArrives, Suspended, Ended, netVars
    <2> QED BY <1>3, <2>1, <2>2, <2>3 DEF ResponseArrives
  <1>4. CASE CallerCancelled(r)
    BY <1>0, <1>4, EndInv DEF CallerCancelled, Ended, netVars
  <1> QED BY <1>1, <1>2, <1>3, <1>4

(***************************************************************************)
(* What the two halves of close() do to the connections.                   *)
(***************************************************************************)
\* The types and the connections after a step, apart from the consumers, closing and the owner.
BeginCloseNet ==
    /\ connected' = FALSE
    /\ UNCHANGED <<writer, reader, conn, reads, hand>>
    /\ producer' \in [Connections -> {"none", "get", "drain", "sleep", "ended", "died"}]
    /\ \A c \in Connections :
          /\ producer'[c] \notin Running
          /\ producer[c] = "none" => producer'[c] = "none"
    /\ sock' \in [Connections -> {"none", "open", "eof", "closing", "closed", "reset"}]
    /\ writer # 0 => sock'[writer] \notin {"open", "eof"}

LEMMA BeginCloseNetwork == NetPart /\ BeginClose => BeginCloseNet
  <1> SUFFICES ASSUME NetPart, BeginClose PROVE BeginCloseNet
    OBVIOUS
  <1> USE DEF NetPart
  <1>1. /\ connected' = FALSE /\ UNCHANGED <<writer, reader, conn, reads, hand>>
        /\ producer' = [producer EXCEPT ![conn] = Cancel(@)]
        /\ sock' = [c \in Connections |->
                       IF c = writer /\ sock[c] \in {"open", "eof"} THEN "closing" ELSE sock[c]]
    BY DEF BeginClose, CloseWriter
  <1>2. producer' \in [Connections -> {"none", "get", "drain", "sleep", "ended", "died"}]
    BY <1>1 DEF NetType, Cancel
  <1>3. ASSUME NEW c \in Connections
        PROVE  producer'[c] \notin Running /\ (producer[c] = "none" => producer'[c] = "none")
    <2>1. CASE c = conn
      BY <1>1, <2>1 DEF NetType, Cancel, Running
    <2>2. CASE c # conn
      BY <1>1, <2>2 DEF NetInv, NetType
    <2> QED BY <2>1, <2>2
  <1>4. sock' \in [Connections -> {"none", "open", "eof", "closing", "closed", "reset"}]
    BY <1>1 DEF NetType
  <1>5. writer # 0 => sock'[writer] \notin {"open", "eof"}
    BY <1>1, Bounds DEF NetType
  <1> QED BY <1>1, <1>2, <1>3, <1>4, <1>5 DEF BeginCloseNet

\* A close that has cancelled consumers, and of which somebody may await the rest.
LEMMA BegunCloseInv ==
    ASSUME NetPart, BeginCloseNet,
           consumer' \in [Connections -> {"none", "read", "put", "loop", "closing", "ended", "died"}],
           closing' \in [{0} \cup Connections -> 0..MaxConnections],
           owner' \in {"idle", "closing", "gone"},
           owner' = "closing" => closing'[0] \in Connections,
           \A c \in Connections : consumer'[c] = "closing" => closing'[c] \in Connections
    PROVE  NetPart'
  <1>1. NetType'
    BY DEF NetPart, NetType, BeginCloseNet
  <1>2. NetInv'
    BY DEF NetPart, NetInv, BeginCloseNet
  <1>3. ConnectedIsServed'
    BY DEF ConnectedIsServed, BeginCloseNet
  <1> QED BY <1>1, <1>2, <1>3 DEF NetPart

LEMMA CancelConsumer ==
    ASSUME NetPart, NEW f, f = [consumer EXCEPT ![conn] = Cancel(@)]
    PROVE  /\ f \in [Connections -> {"none", "read", "put", "loop", "closing", "ended", "died"}]
           /\ \A c \in Connections : f[c] \in {consumer[c], "ended"}
  BY DEF NetPart, NetType, Cancel

LEMMA CloseCancelsInv ==
    ASSUME NetPart, CloseCancels
    PROVE  /\ consumer' \in [Connections -> {"none", "read", "put", "loop", "closing", "ended", "died"}]
           /\ \A c \in Connections : consumer'[c] \in {consumer[c], "ended"}
  <1>1. CASE writer = 0
    BY <1>1, CancelConsumer DEF CloseCancels
  <1>2. CASE writer # 0
    BY <1>2 DEF CloseCancels, NetPart, NetType
  <1> QED BY <1>1, <1>2

LEMMA FinishCloseInv ==
    ASSUME RequestPart, FinishClose
    PROVE  RequestPart'
  <1>1. expected' = [s \in Shapes |-> None] /\ UNCHANGED <<producer, hand, txQueue, pc, tries, future, frames>>
    BY DEF FinishClose
  <1>2. RequestType' /\ QueueInv' /\ HandInv' /\ NoForgottenFrame'
    BY <1>1 DEF RequestPart, RequestType, QueueInv, HandInv, NoForgottenFrame, Queued
  <1> QED BY <1>2 DEF RequestPart

LEMMA FinishCloseNet ==
    ASSUME NetPart, FinishClose,
           consumer' \in [Connections -> {"none", "read", "put", "loop", "closing", "ended", "died"}],
           closing' \in [{0} \cup Connections -> 0..MaxConnections],
           owner' \in {"idle", owner},
           owner' = "closing" => closing'[0] \in Connections,
           \A c \in Connections : consumer'[c] = "closing" => closing'[c] \in Connections
    PROVE  NetPart'
  <1>1. /\ writer' = 0 /\ reader' = 0 /\ UNCHANGED <<connected, conn, reads, producer, hand>>
        /\ sock' = [c \in Connections |-> IF c = reader /\ sock[c] = "open" THEN "eof" ELSE sock[c]]
    BY DEF FinishClose
  <1>2. sock' \in [Connections -> {"none", "open", "eof", "closing", "closed", "reset"}]
    BY <1>1 DEF NetPart, NetType
  <1>3. NetType'
    <2>1. {writer', reader', conn'} \subseteq 0..MaxConnections
      BY <1>1, Bounds DEF NetPart, NetType
    <2>2. owner' \in {"idle", "closing", "gone"}
      BY DEF NetPart, NetType
    <2> QED BY <1>1, <1>2, <2>1, <2>2 DEF NetPart, NetType
  <1>4. NetInv'
    BY <1>1 DEF NetPart, NetInv, NetType
  <1>5. ConnectedIsServed'
    BY <1>1 DEF NetPart, ConnectedIsServed
  <1> QED BY <1>3, <1>4, <1>5 DEF NetPart

(***************************************************************************)
(* The actions of the two network tasks.                                   *)
(***************************************************************************)
LEMMA ProducerMoves ==
    ASSUME NetPart, UNCHANGED <<linkVars, consumer>>, NEW c \in Connections,
           producer[c] \in Running, hand' \in [Connections -> Requests \cup {None}],
           NEW state \in {"get", "drain", "sleep", "died", "ended"}, state = "ended" => ~connected,
           producer' = [producer EXCEPT ![c] = state]
    PROVE  NetPart'
  <1>1. c = conn /\ connected
    BY DEF NetPart, NetInv
  <1>2. NetType'
    BY DEF NetPart, NetType, linkVars
  <1>3. NetInv'
    BY <1>1, Bounds DEF NetPart, NetType, NetInv, linkVars
  <1>4. ConnectedIsServed'
    BY <1>1 DEF NetPart, NetType, ConnectedIsServed, linkVars
  <1> QED BY <1>2, <1>3, <1>4 DEF NetPart

LEMMA ConsumerMoves ==
    ASSUME NetPart, UNCHANGED <<connected, writer, reader, conn, sock, hand, owner, closing, producer>>,
           reads' \in [Connections -> 0..MaxConnections],
           NEW c \in Connections,
           NEW state \in {"read", "put", "loop", "died", "ended"}, state = "ended" => ~connected,
           consumer' = [consumer EXCEPT ![c] = state]
    PROVE  NetPart'
  <1>1. NetType'
    BY DEF NetPart, NetType
  <1>2. NetInv'
    BY DEF NetPart, NetType, NetInv
  <1>3. ConnectedIsServed'
    BY DEF NetPart, NetType, NetInv, ConnectedIsServed
  <1> QED BY <1>1, <1>2, <1>3 DEF NetPart

\* A producer takes the head of the queue.
LEMMA ProducerWritesInv ==
    ASSUME NetPart, RequestPart, NEW c \in Connections, ProducerWrites(c)
    PROVE  NetPart' /\ RequestPart'
  <1> DEFINE item == Head(txQueue)
  <1>1. /\ producer[c] = "get" /\ txQueue # <<>> /\ txQueue' = Tail(txQueue)
        /\ producer' = [producer EXCEPT ![c] = "drain"]
        /\ hand' = [hand EXCEPT ![c] = Held(item)]
        /\ frames' = [r \in Requests |-> IF r = item THEN frames[r] + 1 ELSE frames[r]]
        /\ UNCHANGED <<linkVars, consumer, expected, pc, tries, future>>
    BY DEF ProducerWrites
  <1>2. /\ item \in Items
        /\ txQueue' \in Seq(Items) /\ Len(txQueue') <= QueueMax
        /\ OnceEach(txQueue)'
        /\ \A r \in Requests : Queued(r) <=> Queued(r)' \/ r = item
        /\ \A r \in Requests : r = item => ~Queued(r)'
    BY <1>1, QueueShrinks DEF RequestPart, QueueInv
  <1>3. hand' \in [Connections -> Requests \cup {None}]
    BY <1>1 DEF NetPart, NetType, Held
  <1>4. NetPart'
    BY <1>1, <1>3, ProducerMoves DEF Running
  <1>5. frames' \in [Requests -> Nat]
    BY <1>1 DEF RequestPart, RequestType
  <1>6. RequestType'
    BY <1>1, <1>2, <1>5 DEF RequestPart, RequestType
  <1>7. ASSUME NEW r \in Requests
        PROVE  /\ frames'[r] <= tries'[r]
               /\ pc'[r] = "idle" => tries'[r] = 0
               /\ pc'[r] = "wait" => frames'[r] > 0
               /\ pc'[r] = "put" \/ Queued(r)' => frames'[r] < tries'[r]
               /\ Queued(r)' => pc'[r] \in {"send", "failed"}
    <2>1. CASE r = item
      BY <1>1, <1>2, <2>1 DEF RequestPart, RequestType, QueueInv
    <2>2. CASE r # item
      BY <1>1, <1>2, <2>2 DEF RequestPart, RequestType, QueueInv
    <2> QED BY <2>1, <2>2
  <1>8. QueueInv'
    BY <1>2, <1>7 DEF QueueInv
  <1>9. HandInv'
    <2>1. ASSUME NEW d \in Connections, producer'[d] \in {"none", "get", "sleep"}
          PROVE  hand'[d] = None
      BY <1>1, <2>1 DEF NetPart, NetType, RequestPart, HandInv
    <2>2. ASSUME NEW r \in Requests, hand'[c] = r
          PROVE  frames'[r] > 0 /\ ~Queued(r)' /\ pc'[r] \in {"send", "failed"}
      <3>1. r = item
        BY <1>1, <2>2, Bounds DEF Held, NetPart, NetType
      <3>2. Queued(r) /\ frames[r] \in Nat
        BY <1>2, <3>1 DEF RequestPart, RequestType
      <3> QED BY <1>1, <1>2, <3>1, <3>2 DEF RequestPart, QueueInv
    <2>3. ASSUME NEW d \in Connections \ {c}, NEW r \in Requests,
                 producer'[d] = "drain", hand'[d] = r
          PROVE  frames'[r] > 0 /\ ~Queued(r)' /\ pc'[r] \in {"send", "failed"}
      BY <1>1, <1>2, <2>3 DEF NetPart, NetInv, Running
    <2> QED BY <2>1, <2>2, <2>3 DEF HandInv
  <1>10. NoForgottenFrame'
    <2>1. hand[c] = None
      BY <1>1 DEF RequestPart, HandInv
    <2>2. \A r \in Requests, d \in Connections : hand[d] = r => hand'[d] = r
      BY <1>1, <2>1, Bounds DEF NetPart, NetType
    <2>3. item \in Requests => hand'[c] = item
      BY <1>1 DEF Held, NetPart, NetType
    <2> QED BY <1>1, <1>2, <2>2, <2>3 DEF RequestPart, NoForgottenFrame
  <1> QED BY <1>4, <1>6, <1>8, <1>9, <1>10 DEF RequestPart

LEMMA ProducerFailsInv ==
    ASSUME NetPart, RequestPart, NEW c \in Connections, ProducerFails(c)
    PROVE  NetPart' /\ RequestPart'
  <1> DEFINE item == Head(txQueue)
  <1>1. /\ producer[c] = "get" /\ txQueue # <<>> /\ txQueue' = Tail(txQueue)
        /\ producer' = [producer EXCEPT ![c] = "died"]
        /\ hand' = [hand EXCEPT ![c] = Held(item)]
        /\ UNCHANGED <<linkVars, consumer, requestVars>>
    BY DEF ProducerFails
  <1>2. /\ txQueue' \in Seq(Items) /\ Len(txQueue') <= QueueMax
        /\ OnceEach(txQueue)'
        /\ \A r \in Requests : Queued(r) <=> Queued(r)' \/ r = item
    BY <1>1, QueueShrinks DEF RequestPart, QueueInv
  <1>3. hand' \in [Connections -> Requests \cup {None}]
    BY <1>1 DEF NetPart, NetType, Held
  <1>4. NetPart'
    BY <1>1, <1>3, ProducerMoves DEF Running
  <1>5. RequestType'
    BY <1>1, <1>2 DEF RequestPart, RequestType, requestVars
  <1>6. QueueInv'
    BY <1>1, <1>2 DEF RequestPart, QueueInv, requestVars
  <1>7. HandInv'
    BY <1>1, <1>2 DEF RequestPart, HandInv, requestVars, NetPart, NetType
  <1>8. NoForgottenFrame'
    <2>1. hand[c] = None
      BY <1>1 DEF RequestPart, HandInv
    <2>2. \A r \in Requests, d \in Connections : hand[d] = r => hand'[d] = r
      BY <1>1, <2>1, Bounds DEF NetPart, NetType
    <2>3. item \in Requests => hand'[c] = item
      BY <1>1 DEF Held, NetPart, NetType
    <2> QED BY <1>1, <1>2, <2>2, <2>3 DEF RequestPart, NoForgottenFrame, requestVars
  <1> QED BY <1>4, <1>5, <1>6, <1>7, <1>8 DEF RequestPart

LEMMA ProducerDrainedInv ==
    ASSUME NetPart, RequestPart, NEW c \in Connections, ProducerDrained(c)
    PROVE  NetPart' /\ RequestPart'
  <1>1. /\ producer[c] = "drain" /\ hand' = [hand EXCEPT ![c] = None]
        /\ UNCHANGED <<linkVars, consumer, txQueue, expected, tries, future, frames>>
        /\ \/ /\ producer' = [producer EXCEPT ![c] = "died"] /\ UNCHANGED pc
              /\ hand[c] # None /\ pc[hand[c]] # "send"
           \/ /\ producer' = [producer EXCEPT ![c] = "sleep"]
              /\ hand[c] = None \/ pc[hand[c]] = "send"
              /\ pc' = [r \in Requests |-> IF r = hand[c] THEN "wait" ELSE pc[r]]
    BY DEF ProducerDrained
  <1>2. hand' \in [Connections -> Requests \cup {None}] /\ hand[c] \in Requests \cup {None}
    BY <1>1 DEF NetPart, NetType
  <1>3. NetPart'
    BY <1>1, <1>2, ProducerMoves DEF Running
  <1>4. /\ \A r \in Requests : r # hand[c] => pc'[r] = pc[r]
        /\ \A r \in Requests :
              r = hand[c] => \/ pc[r] = "send" /\ pc'[r] = "wait"
                             \/ pc[r] # "send" /\ pc'[r] = pc[r]
        /\ \A r \in Requests : r = hand[c] => frames[r] > 0 /\ ~Queued(r)
        /\ \A r \in Requests : Queued(r)' <=> Queued(r)
    <2>1. \A r \in Requests : r = hand[c] => r # None
      BY Bounds
    <2>2. \A r \in Requests : r = hand[c] => frames[r] > 0 /\ ~Queued(r)
      BY <1>1 DEF RequestPart, HandInv
    <2>3. \A r \in Requests : Queued(r)' <=> Queued(r)
      BY <1>1 DEF Queued
    <2>4. /\ \A r \in Requests : r # hand[c] => pc'[r] = pc[r]
          /\ \A r \in Requests :
                r = hand[c] => \/ pc[r] = "send" /\ pc'[r] = "wait"
                               \/ pc[r] # "send" /\ pc'[r] = pc[r]
      <3>1. CASE UNCHANGED pc /\ pc[hand[c]] # "send"
        BY <3>1
      <3>2. CASE /\ hand[c] = None \/ pc[hand[c]] = "send"
                 /\ pc' = [r \in Requests |-> IF r = hand[c] THEN "wait" ELSE pc[r]]
        BY <2>1, <3>2
      <3> QED BY <1>1, <3>1, <3>2
    <2> QED BY <2>2, <2>3, <2>4
  <1>5. pc' \in [Requests -> {"idle"} \cup Suspended \cup Ended]
    BY <1>1 DEF RequestPart, RequestType, Suspended
  <1>6. RequestType'
    BY <1>1, <1>5 DEF RequestPart, RequestType
  <1>7. QueueInv'
    BY <1>1, <1>4 DEF RequestPart, QueueInv
  <1>8. HandInv'
    <2>1. /\ \A d \in Connections \ {c} : producer'[d] = producer[d] /\ hand'[d] = hand[d]
          /\ \A d \in Connections \ {c} : producer[d] # "drain"
          /\ producer'[c] # "drain" /\ hand'[c] = None
      BY <1>1 DEF NetPart, NetType, NetInv, Running
    <2> QED BY <2>1 DEF RequestPart, HandInv
  <1>9. NoForgottenFrame'
    <2>1. ASSUME NEW r \in Requests, pc'[r] = "send", ~Queued(r)'
          PROVE  \E d \in Connections : hand'[d] = r
      <3>1. pc[r] = "send" /\ ~Queued(r) /\ r # hand[c]
        BY <1>4, <2>1
      <3>2. PICK d \in Connections : hand[d] = r
        BY <3>1 DEF RequestPart, NoForgottenFrame
      <3> QED BY <1>1, <3>1, <3>2 DEF NetPart, NetType
    <2> QED BY <2>1 DEF NoForgottenFrame
  <1> QED BY <1>3, <1>6, <1>7, <1>8, <1>9 DEF RequestPart

LEMMA DrainFailsInv ==
    ASSUME NetPart, RequestPart, NEW c \in Connections, DrainFails(c)
    PROVE  NetPart' /\ RequestPart'
  <1>1. /\ producer[c] = "drain" /\ producer' = [producer EXCEPT ![c] = "died"]
        /\ UNCHANGED <<netVars, consumer, txQueue, requestVars>>
    BY DEF DrainFails
  <1>2. NetPart'
    BY <1>1, ProducerMoves DEF Running, NetPart, NetType, netVars, linkVars
  <1>3. HandsKept
    BY <1>1 DEF HandsKept, NetPart, NetType
  <1> QED BY <1>1, <1>2, <1>3, RequestsUntouched DEF netVars

LEMMA ProducerWakesInv ==
    ASSUME NetPart, RequestPart, NEW c \in Connections, ProducerWakes(c)
    PROVE  NetPart' /\ RequestPart'
  <1>1. CASE /\ producer' = [producer EXCEPT ![c] = "get"]
             /\ UNCHANGED <<netVars, consumer, txQueue, requestVars>>
    <2>1. producer[c] = "sleep"
      BY DEF ProducerWakes
    <2>2. NetPart'
      BY <1>1, <2>1, ProducerMoves DEF Running, NetPart, NetType, netVars, linkVars
    <2>3. HandsKept
      BY <1>1, <2>1 DEF HandsKept, NetPart, NetType
    <2>4. RequestPart'
      BY <1>1, <2>3, RequestsUntouched DEF netVars
    <2> QED BY <2>2, <2>4
  <1>2. CASE BeginClose /\ CloseCancels /\ UNCHANGED <<owner, closing>>
    <2>1. RequestPart'
      BY <1>2, BeginCloseRequests DEF NetPart
    <2>2. NetPart'
      BY <1>2, BeginCloseNetwork, CloseCancelsInv, BegunCloseInv DEF NetPart, NetType, NetInv
    <2> QED BY <2>1, <2>2
  <1>3. CASE /\ ~connected /\ producer' = [producer EXCEPT ![c] = "ended"]
             /\ UNCHANGED <<netVars, consumer, txQueue, requestVars>>
    <2>1. producer[c] = "sleep"
      BY DEF ProducerWakes
    <2>2. NetPart'
      BY <1>3, <2>1, ProducerMoves DEF Running, NetPart, NetType, netVars, linkVars
    <2>3. HandsKept
      BY <1>3, <2>1 DEF HandsKept, NetPart, NetType
    <2>4. RequestPart'
      BY <1>3, <2>3, RequestsUntouched DEF netVars
    <2> QED BY <2>2, <2>4
  <1> QED BY <1>1, <1>2, <1>3 DEF ProducerWakes

LEMMA ConsumerAnswersInv ==
    ASSUME NetPart, RequestPart, NEW c \in Connections, NEW s \in Shapes,
           NEW outcome \in {"ok", "error"}, ConsumerAnswers(c, s, outcome)
    PROVE  NetPart' /\ RequestPart'
  <1>1. NetPart'
    BY Untouched DEF ConsumerAnswers
  <1>2. /\ future' = [future EXCEPT ![expected[s]] = outcome]
        /\ UNCHANGED <<producer, hand, txQueue, expected, pc, tries, frames>>
    BY DEF ConsumerAnswers, netVars
  <1>3. future' \in [Requests -> Futures]
    BY <1>2 DEF RequestPart, RequestType, Futures
  <1>4. RequestType' /\ QueueInv' /\ HandInv' /\ NoForgottenFrame'
    BY <1>2, <1>3 DEF RequestPart, RequestType, QueueInv, HandInv, NoForgottenFrame, Queued
  <1> QED BY <1>1, <1>4 DEF RequestPart

\* A heartbeat response joins the queue: no request notices.
LEMMA HeartbeatQueued ==
    ASSUME NetPart, RequestPart, ~Full, txQueue' = Append(txQueue, Heartbeat),
           UNCHANGED <<producer, hand, requestVars>>
    PROVE  RequestPart'
  <1>1. /\ txQueue' \in Seq(Items) /\ Len(txQueue') <= QueueMax
        /\ OnceEach(txQueue)'
        /\ \A r \in Requests : Queued(r)' <=> Queued(r)
    BY QueueGrows, Bounds DEF RequestPart, QueueInv, Items
  <1>2. RequestType' /\ QueueInv' /\ HandInv' /\ NoForgottenFrame'
    BY <1>1 DEF RequestPart, RequestType, QueueInv, HandInv, NoForgottenFrame, requestVars
  <1> QED BY <1>2 DEF RequestPart

LEMMA ConsumerHeartbeatInv ==
    ASSUME NetPart, RequestPart, NEW c \in Connections,
           ConsumerHeartbeat(c) \/ ConsumerPutResumes(c)
    PROVE  NetPart' /\ RequestPart'
  <1>0. UNCHANGED <<netVars, producer, requestVars>>
    BY DEF ConsumerHeartbeat, ConsumerPutResumes
  <1>1. CASE consumer' = [consumer EXCEPT ![c] = "put"] /\ UNCHANGED txQueue
    BY <1>0, <1>1, ConsumerMoves, Untouched DEF netVars, NetPart, NetType
  <1>2. CASE ~Full /\ txQueue' = Append(txQueue, Heartbeat) /\ UNCHANGED consumer
    BY <1>0, <1>2, HeartbeatQueued, Untouched DEF netVars
  <1>3. CASE /\ ~Full /\ txQueue' = Append(txQueue, Heartbeat)
             /\ consumer' = [consumer EXCEPT ![c] = "loop"]
    BY <1>0, <1>3, ConsumerMoves, HeartbeatQueued DEF netVars, NetPart, NetType
  <1> QED BY <1>1, <1>2, <1>3 DEF ConsumerHeartbeat, ConsumerPutResumes

LEMMA ConsumerDiesInv ==
    ASSUME NetPart, RequestPart, NEW c \in Connections, ConsumerDies(c)
    PROVE  NetPart' /\ RequestPart'
  <1>1. NetPart'
    BY ConsumerMoves DEF ConsumerDies, netVars, NetPart, NetType
  <1>2. RequestPart'
    BY RequestsUntouched DEF ConsumerDies, HandsKept, netVars
  <1> QED BY <1>1, <1>2

LEMMA ConsumerLoopsInv ==
    ASSUME NetPart, RequestPart, NEW c \in Connections, ConsumerLoops(c)
    PROVE  NetPart' /\ RequestPart'
  <1>1. CASE ~AtEof(reader)
    <2>1. /\ UNCHANGED <<connected, writer, reader, conn, sock, hand, owner, closing, producer,
                          txQueue, requestVars>>
          /\ \/ consumer' = [consumer EXCEPT ![c] = "died"] /\ UNCHANGED reads
             \/ /\ consumer' = [consumer EXCEPT ![c] = "read"]
                /\ reads' = [reads EXCEPT ![c] = reader]
      BY <1>1 DEF ConsumerLoops
    <2>2. reads' \in [Connections -> 0..MaxConnections]
      BY <2>1 DEF NetPart, NetType
    <2>3. NetPart'
      BY <2>1, <2>2, ConsumerMoves
    <2> QED BY <2>1, <2>3, RequestsUntouched DEF HandsKept
  <1>2. CASE AtEof(reader) /\ connected
    <2>1. /\ BeginClose /\ closing' = [closing EXCEPT ![c] = writer] /\ UNCHANGED owner
          /\ IF writer = 0 THEN consumer' = [consumer EXCEPT ![conn] = Cancel(@), ![c] = "ended"]
                           ELSE consumer' = [consumer EXCEPT ![c] = "closing"]
      BY <1>2 DEF ConsumerLoops
    <2>2. RequestPart'
      BY <2>1, BeginCloseRequests DEF NetPart
    <2>3. /\ closing' \in [{0} \cup Connections -> 0..MaxConnections]
          /\ closing'[0] = closing[0]
          /\ \A d \in Connections \ {c} : closing'[d] = closing[d]
          /\ closing'[c] = writer
      BY <2>1, Bounds DEF NetPart, NetType
    <2>4. /\ consumer' \in [Connections -> {"none", "read", "put", "loop", "closing", "ended", "died"}]
          /\ \A d \in Connections \ {c} : consumer'[d] \in {consumer[d], "ended"}
          /\ consumer'[c] = "closing" => writer # 0
      <3>1. CASE writer = 0
        <4> DEFINE f == [consumer EXCEPT ![conn] = Cancel(@)]
        <4>1. /\ f \in [Connections -> {"none", "read", "put", "loop", "closing", "ended", "died"}]
              /\ \A d \in Connections : f[d] \in {consumer[d], "ended"}
          BY CancelConsumer
        <4>2. consumer' = [f EXCEPT ![c] = "ended"]
          BY <2>1, <3>1
        <4> HIDE DEF f
        <4> QED BY <4>1, <4>2
      <3>2. CASE writer # 0
        BY <2>1, <3>2 DEF NetPart, NetType
      <3> QED BY <3>1, <3>2
    <2>5. writer # 0 => writer \in Connections
      BY Bounds DEF NetPart, NetType
    <2>6. \A d \in Connections : consumer'[d] = "closing" => closing'[d] \in Connections
      BY <2>3, <2>4, <2>5 DEF NetPart, NetInv
    <2>7. NetPart'
      BY <2>1, <2>3, <2>4, <2>6, BeginCloseNetwork, BegunCloseInv DEF NetPart, NetType, NetInv
    <2> QED BY <2>2, <2>7
  <1>3. CASE AtEof(reader) /\ ~connected
    <2>1. /\ consumer' = [consumer EXCEPT ![c] = "ended"]
          /\ UNCHANGED <<netVars, producer, txQueue, requestVars>>
      BY <1>3 DEF ConsumerLoops
    <2>2. NetPart'
      BY <1>3, <2>1, ConsumerMoves DEF netVars, NetPart, NetType
    <2> QED BY <2>1, <2>2, RequestsUntouched DEF HandsKept, netVars
  <1> QED BY <1>1, <1>2, <1>3 DEF NetPart, NetType

LEMMA ConsumerCloseEndsInv ==
    ASSUME NetPart, RequestPart, NEW c \in Connections, ConsumerCloseEnds(c)
    PROVE  NetPart' /\ RequestPart'
  <1>0. /\ closing' = [closing EXCEPT ![c] = 0] /\ UNCHANGED owner
        /\ closing' \in [{0} \cup Connections -> 0..MaxConnections]
        /\ closing'[0] = closing[0]
        /\ \A d \in Connections \ {c} : closing'[d] = closing[d]
    BY Bounds DEF ConsumerCloseEnds, NetPart, NetType
  <1>1. CASE /\ consumer' = [consumer EXCEPT ![c] = "died"]
             /\ UNCHANGED <<connected, writer, reader, conn, sock, reads, hand, producer, txQueue,
                            requestVars>>
    <2>1. NetType'
      BY <1>0, <1>1 DEF NetPart, NetType
    <2>2. NetInv'
      BY <1>0, <1>1 DEF NetPart, NetType, NetInv
    <2>3. ConnectedIsServed'
      BY <1>1 DEF NetPart, NetType, NetInv, ConnectedIsServed
    <2>4. RequestPart'
      BY <1>1, RequestsUntouched DEF HandsKept
    <2> QED BY <2>1, <2>2, <2>3, <2>4 DEF NetPart
  <1>2. CASE FinishClose /\ consumer' = [consumer EXCEPT ![conn] = Cancel(@), ![c] = "ended"]
    <2> DEFINE f == [consumer EXCEPT ![conn] = Cancel(@)]
    <2>1. /\ f \in [Connections -> {"none", "read", "put", "loop", "closing", "ended", "died"}]
          /\ \A d \in Connections : f[d] \in {consumer[d], "ended"}
      BY CancelConsumer
    <2>2. consumer' = [f EXCEPT ![c] = "ended"]
      BY <1>2
    <2> HIDE DEF f
    <2>3. /\ consumer' \in [Connections -> {"none", "read", "put", "loop", "closing", "ended", "died"}]
          /\ \A d \in Connections : consumer'[d] = "closing" => closing'[d] \in Connections
      BY <1>0, <2>1, <2>2 DEF NetPart, NetInv
    <2>4. NetPart'
      BY <1>0, <1>2, <2>3, FinishCloseNet DEF NetPart, NetInv
    <2> QED BY <1>2, <2>4, FinishCloseInv
  <1> QED BY <1>1, <1>2 DEF ConsumerCloseEnds

(***************************************************************************)
(* The actions of the coordinator and of the network.                      *)
(***************************************************************************)
LEMMA ConnectInv ==
    ASSUME NetPart, RequestPart, Connect
    PROVE  NetPart' /\ RequestPart'
  <1>1. /\ owner = "idle" /\ ~connected /\ conn < MaxConnections
        /\ conn' = conn + 1 /\ reader' = conn + 1 /\ writer' = conn + 1
        /\ sock' = [sock EXCEPT ![conn + 1] = "open"]
        /\ consumer' = [consumer EXCEPT ![conn + 1] = "read"]
        /\ reads' = [reads EXCEPT ![conn + 1] = conn + 1]
        /\ producer' = [producer EXCEPT ![conn + 1] = "get"]
        /\ connected' = TRUE
        /\ UNCHANGED <<owner, closing, hand, txQueue, requestVars>>
    BY DEF Connect
  <1>2. conn + 1 \in Connections /\ conn \in Nat
    BY <1>1, Bounds DEF NetPart, NetType
  <1>3. NetType'
    BY <1>1, <1>2, Bounds DEF NetPart, NetType
  <1>4. NetInv'
    BY <1>1, <1>2, Bounds DEF NetPart, NetType, NetInv
  <1>5. ConnectedIsServed'
    BY <1>1, <1>2 DEF NetPart, NetType, ConnectedIsServed
  <1>6. HandsKept
    BY <1>1, <1>2, Bounds DEF HandsKept, NetPart, NetType, NetInv
  <1>7. RequestPart'
    BY <1>1, <1>6, RequestsUntouched
  <1> QED BY <1>3, <1>4, <1>5, <1>7 DEF NetPart

LEMMA OwnerClosesInv ==
    ASSUME NetPart, RequestPart, OwnerCloses
    PROVE  NetPart' /\ RequestPart'
  <1>1. /\ BeginClose /\ CloseCancels
        /\ owner' = IF writer = 0 THEN "idle" ELSE "closing"
        /\ closing' = [closing EXCEPT ![0] = writer]
    BY DEF OwnerCloses
  <1>2. RequestPart'
    BY <1>1, BeginCloseRequests DEF NetPart
  <1>3. /\ closing' \in [{0} \cup Connections -> 0..MaxConnections]
        /\ closing'[0] = writer
        /\ \A d \in Connections : closing'[d] = closing[d]
    BY <1>1, Bounds DEF NetPart, NetType
  <1>4. writer # 0 => writer \in Connections
    BY Bounds DEF NetPart, NetType
  <1>5. /\ consumer' \in [Connections -> {"none", "read", "put", "loop", "closing", "ended", "died"}]
        /\ \A d \in Connections : consumer'[d] = "closing" => closing'[d] \in Connections
    BY <1>1, <1>3, CloseCancelsInv DEF NetPart, NetInv
  <1>6. NetPart'
    BY <1>1, <1>3, <1>4, <1>5, BeginCloseNetwork, BegunCloseInv
  <1> QED BY <1>2, <1>6

LEMMA OwnerCloseEndsInv ==
    ASSUME NetPart, RequestPart, OwnerCloseEnds
    PROVE  NetPart' /\ RequestPart'
  <1>1. /\ FinishClose /\ consumer' = [consumer EXCEPT ![conn] = Cancel(@)]
        /\ owner' = "idle" /\ closing' = [closing EXCEPT ![0] = 0]
    BY DEF OwnerCloseEnds
  <1>2. /\ closing' \in [{0} \cup Connections -> 0..MaxConnections]
        /\ \A d \in Connections : closing'[d] = closing[d]
    BY <1>1, Bounds DEF NetPart, NetType
  <1>3. /\ consumer' \in [Connections -> {"none", "read", "put", "loop", "closing", "ended", "died"}]
        /\ \A d \in Connections : consumer'[d] = "closing" => closing'[d] \in Connections
    BY <1>1, <1>2, CancelConsumer DEF NetPart, NetInv
  <1>4. NetPart'
    BY <1>1, <1>2, <1>3, FinishCloseNet
  <1> QED BY <1>1, <1>4, FinishCloseInv

LEMMA OwnerAbandonsInv ==
    ASSUME NetPart, RequestPart, OwnerAbandons
    PROVE  NetPart' /\ RequestPart'
  <1>1. /\ owner = "closing" /\ owner' = "gone"
        /\ closing' = [closing EXCEPT ![0] = 0]
        /\ consumer' = [consumer EXCEPT ![conn] = Cancel(@)]
        /\ producer' = [producer EXCEPT ![conn] = Cancel(@)]
        /\ UNCHANGED <<connected, writer, reader, conn, sock, reads, hand, txQueue, requestVars>>
    BY DEF OwnerAbandons
  <1>2. /\ closing' \in [{0} \cup Connections -> 0..MaxConnections]
        /\ \A d \in Connections : closing'[d] = closing[d]
    BY <1>1, Bounds DEF NetPart, NetType
  <1>3. /\ consumer' \in [Connections -> {"none", "read", "put", "loop", "closing", "ended", "died"}]
        /\ \A d \in Connections : consumer'[d] = "closing" => closing'[d] \in Connections
    BY <1>1, <1>2, CancelConsumer DEF NetPart, NetInv
  <1>4. ~connected /\ producer' = producer
    BY <1>1 DEF NetPart, NetType, NetInv, Cancel
  <1>5. NetType' /\ NetInv' /\ ConnectedIsServed'
    BY <1>1, <1>2, <1>3, <1>4 DEF NetPart, NetType, NetInv, ConnectedIsServed
  <1> QED BY <1>1, <1>4, <1>5, RequestsUntouched DEF NetPart, HandsKept

LEMMA SocketInv ==
    ASSUME NetPart, RequestPart, NEW c \in Connections,
           PeerEnds(c) \/ ConnectionResets(c) \/ SocketCloses(c)
    PROVE  NetPart' /\ RequestPart'
  <1>1. PICK from \in SUBSET {"open", "eof", "closing"}, to \in {"eof", "reset", "closed"} :
            SocketChanges(c, from, to) /\ (to = "eof" => from = {"open"})
    BY DEF PeerEnds, ConnectionResets, SocketCloses
  <1>2. /\ sock[c] \in from /\ sock' = [sock EXCEPT ![c] = to]
        /\ UNCHANGED <<connected, writer, reader, conn, reads, owner, closing, hand, producer,
                       consumer, txQueue, requestVars>>
    BY <1>1 DEF SocketChanges
  <1>3. NetType'
    BY <1>2 DEF NetPart, NetType
  <1>4. ~connected /\ writer # 0 => sock'[writer] \notin {"open", "eof"}
    <2>1. CASE writer = c
      BY <1>1, <1>2, <2>1 DEF NetPart, NetType, NetInv
    <2>2. CASE writer # c
      BY <1>2, <2>2, Bounds DEF NetPart, NetType, NetInv
    <2> QED BY <2>1, <2>2
  <1>5. NetInv' /\ ConnectedIsServed'
    BY <1>2, <1>4 DEF NetPart, NetInv, ConnectedIsServed
  <1> QED BY <1>2, <1>3, <1>5, RequestsUntouched DEF NetPart, HandsKept

(***************************************************************************)
(* The invariant.                                                          *)
(***************************************************************************)
LEMMA InitInv == Init => IInv
  <1> SUFFICES ASSUME Init PROVE NetPart /\ RequestPart
    BY DEF IInv
  <1>1. NetType
    <2>1. /\ sock = [c \in Connections |-> "none"] /\ producer = [c \in Connections |-> "none"]
          /\ hand = [c \in Connections |-> None]
          /\ consumer = [c \in Connections |-> "none"] /\ reads = [c \in Connections |-> 0]
          /\ closing = [a \in {0} \cup Connections |-> 0]
          /\ connected = FALSE /\ writer = 0 /\ reader = 0 /\ conn = 0 /\ owner = "idle"
          /\ 0 \in 0..MaxConnections
      BY Bounds DEF Init
    <2> QED BY <2>1 DEF NetType
  <1>2. NetInv
    BY Bounds DEF Init, NetInv, Running
  <1>3. RequestType
    BY Bounds, EmptySeq DEF Init, RequestType, Futures
  <1>4. QueueInv
    BY EmptySeq, ToSetOfEmpty DEF Init, QueueInv, OnceEach, Queued
  <1>5. HandInv /\ NoForgottenFrame /\ ConnectedIsServed
    BY Bounds DEF Init, HandInv, NoForgottenFrame, ConnectedIsServed
  <1> QED BY <1>1, <1>2, <1>3, <1>4, <1>5 DEF NetPart, RequestPart

LEMMA NextInv == IInv /\ [Next]_vars => IInv'
  <1> SUFFICES ASSUME IInv, [Next]_vars PROVE NetPart' /\ RequestPart'
    BY DEF IInv
  <1>0. NetPart /\ RequestPart
    BY DEF IInv
  <1>1. ASSUME NEW r \in Requests, Call(r) \/ RequestStep(r) \/ CallerCancelled(r)
        PROVE  NetPart' /\ RequestPart'
    <2>1. UNCHANGED <<netVars, producer, consumer>>
      BY <1>1 DEF Call, RequestStep, PutResumes, FrameTimeout, ResponseTimeout, ResponseArrives,
                  CallerCancelled
    <2> QED BY <1>0, <1>1, <2>1, Untouched, CallInv, PutResumesInv, RequestActionInv DEF RequestStep
  <1>2. ASSUME NEW c \in Connections, ProducerStep(c) \/ ProducerDrained(c)
        PROVE  NetPart' /\ RequestPart'
    BY <1>0, <1>2, ProducerWritesInv, ProducerFailsInv, ProducerDrainedInv, DrainFailsInv,
       ProducerWakesInv DEF ProducerStep
  <1>3. ASSUME NEW c \in Connections, ConsumerStep(c) \/ ConsumerHeartbeat(c) \/ ConsumerDies(c)
        PROVE  NetPart' /\ RequestPart'
    BY <1>0, <1>3, ConsumerHeartbeatInv, ConsumerDiesInv, ConsumerLoopsInv, ConsumerCloseEndsInv
       DEF ConsumerStep
  <1>4. ASSUME NEW c \in Connections, NEW s \in Shapes, NEW outcome \in {"ok", "error"},
               ConsumerAnswers(c, s, outcome)
        PROVE  NetPart' /\ RequestPart'
    BY <1>0, <1>4, ConsumerAnswersInv
  <1>5. ASSUME NEW c \in Connections, PeerEnds(c) \/ ConnectionResets(c) \/ SocketCloses(c)
        PROVE  NetPart' /\ RequestPart'
    BY <1>0, <1>5, SocketInv
  <1>6. CASE OwnerStep
    BY <1>0, <1>6, ConnectInv, OwnerClosesInv, OwnerCloseEndsInv, OwnerAbandonsInv DEF OwnerStep
  <1>7. CASE UNCHANGED vars
    BY <1>0, <1>7, Untouched DEF vars, netVars, requestVars
  <1> QED BY <1>1, <1>2, <1>3, <1>4, <1>5, <1>6, <1>7 DEF Next

\* IInv holds in every reachable state.
THEOREM Invariance == Spec => []IInv
  BY InitInv, NextInv, PTL DEF Spec

\* Every variable keeps its type; tx_queue stays within its size, a request within its tries.
THEOREM TypeCorrect == Spec => []TypeOK
  <1>1. IInv => TypeOK
    <2> SUFFICES ASSUME IInv PROVE TypeOK
      OBVIOUS
    <2>1. NetType /\ RequestType /\ QueueInv
      BY DEF IInv, NetPart, RequestPart
    <2>2. \A r \in Requests : tries[r] \in 0..Tries[r] /\ frames[r] \in 0..Tries[r]
      BY <2>1, Bounds DEF RequestType, QueueInv
    <2> QED BY <2>1, <2>2 DEF TypeOK, NetType, RequestType, Items, Futures
  <1> QED BY <1>1, Invariance, PTL

\* A request that waits for a frame that is not queued waits for one a producer took and has not
\* reported, or stopped with: no close() and no new connection drops a frame untold.
THEOREM FramesAccounted == Spec => []NoForgottenFrame
  <1>1. IInv => NoForgottenFrame
    BY DEF IInv, RequestPart
  <1> QED BY <1>1, Invariance, PTL

\* Producers of two connections never run together.
THEOREM ProducersExclusive == Spec => []OneProducer
  <1>1. IInv => OneProducer
    BY DEF IInv, NetPart, NetInv, OneProducer
  <1> QED BY <1>1, Invariance, PTL

\* A connected client has its tasks, unless one died or an older close tore it down.
THEOREM ConnectionServed == Spec => []ConnectedIsServed
  <1>1. IInv => ConnectedIsServed
    BY DEF IInv, NetPart
  <1> QED BY <1>1, Invariance, PTL

(***************************************************************************)
(* Who is registered for the answers, and who holds the writer.            *)
(***************************************************************************)
\* Only a try makes a future pending, and registers it; only a close forgets the registered.
LEMMA FuturesChange ==
    ASSUME IInv, [Next]_vars
    PROVE  \/ /\ UNCHANGED expected
              /\ \A r \in Requests : future'[r] = "pending" => future[r] = "pending"
           \/ writer' = 0 /\ conn' = conn /\ (connected \/ writer # 0)
           \/ \E r \in Requests : \E fs \in [Requests -> Futures] :
                 BeginTry(r, fs) /\ \A q \in Requests \ {r} : fs[q] = future[q]
  <1> DEFINE Kept == /\ UNCHANGED expected
                     /\ \A r \in Requests : future'[r] = "pending" => future[r] = "pending"
             Forgets == writer' = 0 /\ conn' = conn /\ (connected \/ writer # 0)
             Tries_ == \E r \in Requests : \E fs \in [Requests -> Futures] :
                          BeginTry(r, fs) /\ \A q \in Requests \ {r} : fs[q] = future[q]
  <1>0. future \in [Requests -> Futures]
    BY DEF IInv, RequestPart, RequestType
  <1>1. ASSUME NEW r \in Requests, NEW fs \in [Requests -> Futures], NextTry(r, fs),
               \A q \in Requests \ {r} : fs[q] = future[q]
        PROVE  Kept \/ Tries_
    <2>1. CASE BeginTry(r, fs)
      BY <1>1, <2>1
    <2>2. CASE End(r, "failed", fs)
      BY <1>0, <1>1, <2>2 DEF End
    <2> QED BY <1>1, <2>1, <2>2 DEF NextTry
  <1>2. ASSUME NEW r \in Requests, Call(r) \/ RequestStep(r) \/ CallerCancelled(r)
        PROVE  Kept \/ Tries_
    <2>1. CASE PutResumes(r)
      BY <2>1 DEF PutResumes
    <2>2. CASE End(r, "failed", future) \/ End(r, "ok", future)
      BY <1>0, <2>2 DEF End
    <2>3. CASE Call(r)
      BY <1>0, <2>3 DEF Call
    <2>4. CASE ResponseTimeout(r)
      <3>1. [future EXCEPT ![r] = "cancelled"] \in [Requests -> Futures]
        BY <1>0 DEF Futures
      <3> QED BY <1>0, <1>1, <2>4, <3>1 DEF ResponseTimeout
    <2>5. CASE ResponseArrives(r)
      BY <1>0, <1>1, <2>2, <2>5 DEF ResponseArrives
    <2> QED BY <1>2, <2>1, <2>2, <2>3, <2>4, <2>5 DEF RequestStep, FrameTimeout, CallerCancelled
  <1>3. ASSUME BeginClose, connected
        PROVE  Kept \/ Forgets
    <2>1. \A r \in Requests : future'[r] = "pending" => future[r] = "pending"
      BY <1>3 DEF BeginClose, CancelQueued
    <2>2. writer = 0 \/ UNCHANGED expected
      BY <1>3 DEF BeginClose, CloseWriter
    <2>3. UNCHANGED <<writer, conn>>
      BY <1>3 DEF BeginClose
    <2> QED BY <1>3, <2>1, <2>2, <2>3
  <1>4. ASSUME FinishClose, writer # 0
        PROVE  Forgets
    BY <1>4 DEF FinishClose
  <1>5. ASSUME UNCHANGED <<expected, future>>
        PROVE  Kept
    BY <1>5
  <1>6. ASSUME NEW c \in Connections, ProducerStep(c) \/ ProducerDrained(c)
        PROVE  Kept \/ Forgets
    <2>1. CASE ProducerWrites(c) \/ ProducerDrained(c)
      BY <1>5, <2>1 DEF ProducerWrites, ProducerDrained
    <2>2. CASE ProducerFails(c) \/ DrainFails(c)
      BY <1>5, <2>2 DEF ProducerFails, DrainFails, requestVars
    <2>3. CASE ProducerWakes(c)
      BY <1>3, <1>5, <2>3 DEF ProducerWakes, requestVars
    <2> QED BY <1>6, <2>1, <2>2, <2>3 DEF ProducerStep
  <1>7. ASSUME NEW c \in Connections, ConsumerStep(c) \/ ConsumerHeartbeat(c) \/ ConsumerDies(c)
        PROVE  Kept \/ Forgets
    <2>1. CASE ConsumerHeartbeat(c) \/ ConsumerPutResumes(c) \/ ConsumerDies(c)
      BY <1>5, <2>1 DEF ConsumerHeartbeat, ConsumerPutResumes, ConsumerDies, requestVars
    <2>2. CASE ConsumerLoops(c)
      BY <1>3, <1>5, <2>2 DEF ConsumerLoops, requestVars
    <2>3. CASE ConsumerCloseEnds(c)
      BY <1>4, <1>5, <2>3 DEF ConsumerCloseEnds, CloseReturns, requestVars
    <2> QED BY <1>7, <2>1, <2>2, <2>3 DEF ConsumerStep
  <1>8. ASSUME NEW c \in Connections, NEW s \in Shapes, NEW outcome \in {"ok", "error"},
               ConsumerAnswers(c, s, outcome)
        PROVE  Kept
    BY <1>0, <1>8 DEF ConsumerAnswers
  <1>9. ASSUME NEW c \in Connections, PeerEnds(c) \/ ConnectionResets(c) \/ SocketCloses(c)
        PROVE  Kept
    BY <1>5, <1>9 DEF PeerEnds, ConnectionResets, SocketCloses, SocketChanges, requestVars
  <1>10. CASE OwnerStep
    BY <1>3, <1>4, <1>5, <1>10
       DEF OwnerStep, Connect, OwnerCloses, OwnerCloseEnds, OwnerAbandons, CloseReturns, requestVars
  <1>11. CASE UNCHANGED vars
    BY <1>5, <1>11 DEF vars
  <1> QED BY <1>2, <1>6, <1>7, <1>8, <1>9, <1>10, <1>11 DEF Next

\* Only connect() and the end of a close change the writer.
LEMMA WriterChanges ==
    ASSUME [Next]_vars, writer' # writer \/ conn' # conn
    PROVE  \/ Connect \/ OwnerCloseEnds
           \/ \E c \in Connections : ConsumerCloseEnds(c) /\ FinishClose
  <1>1. ASSUME NEW r \in Requests, Call(r) \/ RequestStep(r) \/ CallerCancelled(r)
        PROVE  FALSE
    BY <1>1 DEF Call, RequestStep, PutResumes, FrameTimeout, ResponseTimeout, ResponseArrives,
                CallerCancelled, netVars
  <1>2. ASSUME NEW c \in Connections, ProducerStep(c) \/ ProducerDrained(c)
        PROVE  FALSE
    BY <1>2 DEF ProducerStep, ProducerWrites, ProducerFails, ProducerDrained, DrainFails,
                ProducerWakes, netVars, linkVars, BeginClose
  <1>3. ASSUME NEW c \in Connections, ConsumerStep(c) \/ ConsumerHeartbeat(c) \/ ConsumerDies(c)
        PROVE  ConsumerCloseEnds(c) /\ FinishClose
    BY <1>3 DEF ConsumerStep, ConsumerHeartbeat, ConsumerDies, ConsumerPutResumes, ConsumerLoops,
                ConsumerCloseEnds, netVars, BeginClose
  <1>4. ASSUME NEW c \in Connections, NEW s \in Shapes, NEW outcome \in {"ok", "error"},
               ConsumerAnswers(c, s, outcome)
        PROVE  FALSE
    BY <1>4 DEF ConsumerAnswers, netVars
  <1>5. ASSUME NEW c \in Connections, PeerEnds(c) \/ ConnectionResets(c) \/ SocketCloses(c)
        PROVE  FALSE
    BY <1>5 DEF PeerEnds, ConnectionResets, SocketCloses, SocketChanges
  <1>6. CASE OwnerStep
    BY <1>6 DEF OwnerStep, OwnerCloses, OwnerAbandons, BeginClose
  <1>7. ~UNCHANGED vars
    BY DEF vars
  <1> QED BY <1>1, <1>2, <1>3, <1>4, <1>5, <1>6, <1>7 DEF Next

\* Connections are given up for good: a writer that is deleted or replaced does not come back.
GivenUp == \E c \in 1..conn : c # writer

LEMMA GivenUpStays ==
    ASSUME IInv, writer <= conn, [Next]_vars
    PROVE  writer' <= conn' /\ (GivenUp => GivenUp')
  <1>1. conn \in Nat /\ writer \in Nat /\ writer' \in Nat /\ conn' \in Nat
    <2>1. NetType /\ NetType'
      BY NextInv DEF IInv, NetPart
    <2> QED BY <2>1, Bounds DEF NetType
  <1>2. CASE UNCHANGED <<writer, conn>>
    BY <1>2 DEF GivenUp
  <1>3. CASE Connect
    BY <1>1, <1>3 DEF Connect, GivenUp
  <1>4. CASE FinishClose
    <2>1. writer' = 0 /\ conn' = conn
      BY <1>4 DEF FinishClose
    <2> QED BY <1>1, <2>1 DEF GivenUp
  <1> QED BY <1>2, <1>3, <1>4, WriterChanges DEF OwnerCloseEnds

RegisteredInv == writer <= conn /\ OrphanedOnlyByClose

\* A request whose answer is awaited is registered for it, unless a connection was given up.
THEOREM Registration == Spec => []OrphanedOnlyByClose
  <1>1. Init => RegisteredInv
    BY DEF Init, RegisteredInv, OrphanedOnlyByClose
  <1>2. ASSUME IInv, writer <= conn, OrphanedOnlyByClose, [Next]_vars
        PROVE  writer' <= conn' /\ OrphanedOnlyByClose'
    <2>1. writer' <= conn' /\ (GivenUp => GivenUp')
      BY <1>2, GivenUpStays
    <2>2. OrphanedOnlyByClose
            <=> \A r \in Requests : future[r] = "pending" /\ expected[Shape[r]] # r => GivenUp
      BY DEF OrphanedOnlyByClose, GivenUp
    <2>3. CASE /\ UNCHANGED expected
               /\ \A r \in Requests : future'[r] = "pending" => future[r] = "pending"
      BY <1>2, <2>1, <2>2, <2>3 DEF OrphanedOnlyByClose, GivenUp
    <2>4. CASE writer' = 0 /\ conn' = conn /\ (connected \/ writer # 0)
      <3>1. conn \in Nat \ {0}
        BY <1>2, <2>4, Bounds DEF IInv, NetPart, NetType, NetInv
      <3>2. conn \in 1..conn' /\ conn # writer'
        BY <2>4, <3>1
      <3> QED BY <2>1, <3>2 DEF OrphanedOnlyByClose
    <2>5. ASSUME NEW r \in Requests, NEW fs \in [Requests -> Futures],
                 BeginTry(r, fs), \A q \in Requests \ {r} : fs[q] = future[q]
          PROVE  OrphanedOnlyByClose'
      <3>1. /\ expected' = [expected EXCEPT ![Shape[r]] = r]
            /\ future' = [CancelPending(fs, expected[Shape[r]]) EXCEPT ![r] = "pending"]
            /\ expected \in [Shapes -> Requests \cup {None}]
        BY <1>2, <2>5 DEF BeginTry, IInv, RequestPart, RequestType
      <3>2. ASSUME NEW q \in Requests, future'[q] = "pending", expected'[Shape[q]] # q
            PROVE  GivenUp
        <4>1. q # r
          BY <3>1, <3>2, Bounds
        <4>2. q # expected[Shape[r]] /\ future[q] = "pending"
          BY <2>5, <3>1, <3>2, <4>1 DEF CancelPending
        <4>3. expected[Shape[q]] # q
          BY <3>1, <3>2, <4>2, Bounds
        <4> QED BY <1>2, <2>2, <4>2, <4>3
      <3> QED BY <2>1, <3>2 DEF OrphanedOnlyByClose, GivenUp
    <2> QED BY <1>2, <2>1, <2>3, <2>4, <2>5, FuturesChange
  <1>3. IInv /\ RegisteredInv /\ [Next]_vars => RegisteredInv'
    BY <1>2 DEF RegisteredInv
  <1>4. RegisteredInv => OrphanedOnlyByClose
    BY DEF RegisteredInv
  <1> QED BY <1>1, <1>3, <1>4, Invariance, PTL DEF Spec

(***************************************************************************)
(* The action properties.                                                  *)
(***************************************************************************)
\* A close abandons an open socket only after a connection was opened while it waited.
THEOREM LeakOnlyByOverlap == Spec => LeakNeedsOverlap
  <1>1. ASSUME IInv, [Next]_vars, NEW c \in Connections, writer = c, writer' # c,
               sock[c] \in {"open", "eof"}
        PROVE  Awaited \ {writer} # {}
    <2>1. connected /\ owner # "closing"
      BY <1>1, Bounds DEF IInv, NetPart, NetInv
    <2>2. PICK d \in Connections : ConsumerCloseEnds(d) /\ FinishClose
      BY <1>1, <2>1, WriterChanges DEF Connect, OwnerCloseEnds
    <2>3. consumer[d] = "closing" /\ closing[d] \in Connections
      BY <1>1, <2>2 DEF ConsumerCloseEnds, IInv, NetPart, NetInv
    <2>4. closing[d] # writer
      <3>1. writer # 0 /\ writer' = 0
        BY <1>1, <2>2, Bounds DEF FinishClose
      <3>2. CloseReturns(closing[d])
        BY <2>2, <3>1 DEF ConsumerCloseEnds
      <3> QED BY <1>1, <3>1, <3>2 DEF CloseReturns, Sock
    <2> QED BY <2>3, <2>4 DEF Awaited
  <1>2. IInv /\ [Next]_vars
          => [(\E c \in Connections : writer = c /\ writer' # c /\ sock[c] \in {"open", "eof"}
                                                     /\ sock'[c] \in {"open", "eof"})
                => Awaited \ {writer} # {}]_vars
    BY <1>1
  <1> QED BY <1>2, Invariance, PTL DEF Spec, LeakNeedsOverlap

(***************************************************************************)
(* The refinement of RequestContract, of which status, queued and sends    *)
(* are given in Client.                                                    *)
(***************************************************************************)
Status == [r \in Requests |-> IF pc[r] \in Suspended THEN "active" ELSE pc[r]]
InQueue == {r \in Requests : Queued(r)}

LEMMA ContractVars ==
    UNCHANGED <<txQueue, pc, frames>> => UNCHANGED Contract!vars
  BY DEF Contract!vars, Queued

LEMMA ContractTry ==
    ASSUME IInv, NEW r \in Requests, pc[r] \in {"put", "wait"},
           tries[r] < Tries[r] \/ pc[r] = "put",
           Put(r), UNCHANGED frames
    PROVE  Contract!Enqueue(r) \/ UNCHANGED Contract!vars
  <1>0. RequestType /\ QueueInv
    BY DEF IInv, RequestPart
  <1>1. ~Queued(r) /\ frames[r] < Tries[r]
    <2>1. ~Queued(r) /\ frames[r] <= tries[r] /\ (pc[r] = "put" => frames[r] < tries[r])
      BY <1>0 DEF QueueInv
    <2>2. tries[r] \in Nat /\ frames[r] \in Nat /\ Tries[r] \in Nat /\ tries[r] <= Tries[r]
      BY <1>0, Bounds DEF RequestType
    <2> QED BY <2>1, <2>2
  <1>2. /\ pc' \in [Requests -> {"idle"} \cup Suspended \cup Ended]
        /\ \A q \in Requests \ {r} : pc'[q] = pc[q] /\ (Queued(q)' <=> Queued(q))
        /\ \/ pc'[r] = "put" /\ ~Queued(r)'
           \/ pc'[r] = "send" /\ Queued(r)'
    BY <1>0, <1>1, PutInv DEF QueueInv
  <1>3. Status' = Status
    BY <1>0, <1>2 DEF Status, Suspended
  <1>4. InQueue' = InQueue \/ InQueue' = InQueue \cup {r}
    <2>1. CASE Queued(r)'
      BY <1>2, <2>1 DEF InQueue
    <2>2. CASE ~Queued(r)'
      BY <1>1, <1>2, <2>2 DEF InQueue
    <2> QED BY <2>1, <2>2
  <1>5. r \notin InQueue /\ Status[r] = "active"
    BY <1>1 DEF InQueue, Status, Suspended
  <1> QED BY <1>1, <1>3, <1>4, <1>5 DEF Contract!Enqueue, Contract!vars, Status, InQueue

LEMMA ContractEnd ==
    ASSUME IInv, NEW r \in Requests, NEW fs, NEW how \in Ended, pc[r] \in Suspended,
           how = "ok" => pc[r] = "wait", End(r, how, fs)
    PROVE  Contract!Finish(r)
  <1>0. RequestType /\ QueueInv
    BY DEF IInv, RequestPart
  <1>1. pc' = [pc EXCEPT ![r] = how] /\ UNCHANGED <<txQueue, frames>>
    BY DEF End
  <1>2. Status' = [Status EXCEPT ![r] = how] /\ Status[r] = "active"
    BY <1>0, <1>1 DEF Status, Suspended, Ended, RequestType
  <1>3. InQueue' = InQueue
    BY <1>1 DEF InQueue, Queued
  <1>4. how = "ok" => frames[r] > 0 /\ r \notin InQueue
    BY <1>0 DEF QueueInv, InQueue
  <1> QED BY <1>1, <1>2, <1>3, <1>4 DEF Contract!Finish, Status, InQueue, Ended

LEMMA ContractBegin ==
    ASSUME IInv, NEW r \in Requests, Call(r)
    PROVE  Contract!Begin(r)
  <1>0. RequestType /\ QueueInv
    BY DEF IInv, RequestPart
  <1>1. pc[r] = "idle" /\ Put(r) /\ UNCHANGED frames
    BY DEF Call, BeginTry
  <1>2. /\ pc' \in [Requests -> {"idle"} \cup Suspended \cup Ended]
        /\ \A q \in Requests \ {r} : pc'[q] = pc[q] /\ (Queued(q)' <=> Queued(q))
        /\ \/ pc'[r] = "put" /\ ~Queued(r)'
           \/ pc'[r] = "send" /\ Queued(r)'
        /\ ~Queued(r)
    BY <1>0, <1>1, PutInv DEF QueueInv
  <1>3. Status' = [Status EXCEPT ![r] = "active"] /\ Status[r] = "idle"
    BY <1>0, <1>1, <1>2 DEF Status, Suspended
  <1>4. InQueue' \in {InQueue, InQueue \cup {r}}
    BY <1>2 DEF InQueue
  <1> QED BY <1>1, <1>3, <1>4 DEF Contract!Begin, Status, InQueue

LEMMA ContractRequest ==
    ASSUME IInv, NEW r \in Requests, Call(r) \/ RequestStep(r) \/ CallerCancelled(r)
    PROVE  Contract!Next \/ UNCHANGED Contract!vars
  <1>1. CASE Call(r)
    BY <1>1, ContractBegin DEF Contract!Next
  <1>2. CASE PutResumes(r)
    BY <1>2, ContractTry DEF PutResumes, Contract!Next
  <1>3. CASE FrameTimeout(r) \/ CallerCancelled(r)
    BY <1>3, ContractEnd DEF FrameTimeout, CallerCancelled, Suspended, Ended, Contract!Next
  <1>4. ASSUME NEW fs, pc[r] = "wait", NextTry(r, fs)
        PROVE  Contract!Next \/ UNCHANGED Contract!vars
    <2>1. CASE tries[r] < Tries[r] /\ BeginTry(r, fs)
      BY <1>4, <2>1, ContractTry DEF BeginTry, Contract!Next
    <2>2. CASE End(r, "failed", fs)
      BY <1>4, <2>2, ContractEnd DEF Suspended, Ended, Contract!Next
    <2> QED BY <1>4, <2>1, <2>2 DEF NextTry
  <1>5. CASE ResponseTimeout(r)
    BY <1>4, <1>5 DEF ResponseTimeout
  <1>6. CASE ResponseArrives(r)
    <2>1. CASE End(r, "ok", future) \/ End(r, "failed", future)
      BY <1>6, <2>1, ContractEnd DEF ResponseArrives, Suspended, Ended, Contract!Next
    <2>2. CASE NextTry(r, future)
      BY <1>4, <1>6, <2>2 DEF ResponseArrives
    <2> QED BY <1>6, <2>1, <2>2 DEF ResponseArrives
  <1> QED BY <1>1, <1>2, <1>3, <1>5, <1>6 DEF RequestStep

LEMMA ContractDrain ==
    ASSUME IInv, BeginClose
    PROVE  Contract!Drain
  <1>0. RequestType /\ QueueInv
    BY DEF IInv, RequestPart
  <1>1. /\ txQueue' = <<>> /\ UNCHANGED frames
        /\ pc' = [r \in Requests |-> IF pc[r] = "send" /\ Queued(r) THEN "failed" ELSE pc[r]]
    BY DEF BeginClose, CancelQueued
  <1>2. InQueue' = {}
    BY <1>1, ToSetOfEmpty DEF InQueue, Queued
  <1>3. ASSUME NEW r \in Requests
        PROVE  Status'[r] = IF r \in InQueue /\ Status[r] = "active" THEN "failed" ELSE Status[r]
    <2>1. Queued(r) => pc[r] \in {"send", "failed"}
      BY <1>0 DEF QueueInv
    <2> QED BY <1>1, <2>1 DEF Status, InQueue, Suspended
  <1>4. Status' = [r \in Requests |->
                     IF r \in InQueue /\ Status[r] = "active" THEN "failed" ELSE Status[r]]
    BY <1>3 DEF Status
  <1> QED BY <1>1, <1>2, <1>4 DEF Contract!Drain, Status, InQueue

\* Telling a request that its frame is sent changes nothing its caller sees.
LEMMA ContractTold ==
    ASSUME IInv, NEW c \in Connections, ProducerDrained(c)
    PROVE  UNCHANGED Contract!vars
  <1>1. UNCHANGED <<txQueue, frames>> /\ \A r \in Requests :
           pc'[r] = pc[r] \/ (pc[r] = "send" /\ pc'[r] = "wait")
    <2>1. /\ UNCHANGED <<txQueue, frames>>
          /\ \/ UNCHANGED pc
             \/ /\ hand[c] = None \/ pc[hand[c]] = "send"
                /\ pc' = [q \in Requests |-> IF q = hand[c] THEN "wait" ELSE pc[q]]
      BY DEF ProducerDrained
    <2> QED BY <2>1, Bounds
  <1>2. Status' = Status
    BY <1>1 DEF Status, Suspended
  <1> QED BY <1>1, <1>2 DEF Contract!vars, Status, Queued

LEMMA ContractTake ==
    ASSUME IInv, NEW c \in Connections, ProducerWrites(c) \/ ProducerFails(c)
    PROVE  Contract!Next \/ UNCHANGED Contract!vars
  <1> DEFINE item == Head(txQueue)
  <1>0. RequestType /\ QueueInv
    BY DEF IInv, RequestPart
  <1>1. /\ txQueue # <<>> /\ txQueue' = Tail(txQueue) /\ UNCHANGED pc
        /\ \/ UNCHANGED frames
           \/ frames' = [r \in Requests |-> IF r = item THEN frames[r] + 1 ELSE frames[r]]
    BY DEF ProducerWrites, ProducerFails, requestVars
  <1>2. /\ item \in Items
        /\ \A r \in Requests : Queued(r) <=> Queued(r)' \/ r = item
        /\ \A r \in Requests : r = item => ~Queued(r)'
    BY <1>0, <1>1, QueueShrinks DEF QueueInv
  <1>3. Status' = Status
    BY <1>1 DEF Status
  <1>4. CASE item = Heartbeat
    <2>1. UNCHANGED frames
      BY <1>0, <1>1, <1>4, Bounds DEF RequestType
    <2>2. \A r \in Requests : Queued(r)' <=> Queued(r)
      BY <1>2, <1>4, Bounds
    <2>3. InQueue' = InQueue
      BY <2>2 DEF InQueue
    <2> QED BY <1>3, <2>1, <2>3 DEF Contract!vars, Status, InQueue
  <1>5. CASE item \in Requests
    <2>1. Queued(item) /\ frames[item] < Tries[item]
      BY <1>0, <1>2, <1>5, Bounds DEF RequestType, QueueInv
    <2>2. InQueue' = InQueue \ {item} /\ item \in InQueue
      BY <1>2, <1>5, <2>1 DEF InQueue
    <2>3. UNCHANGED frames \/ frames' = [frames EXCEPT ![item] = @ + 1]
      BY <1>0, <1>1, <1>5 DEF RequestType
    <2>4. Contract!Take(item)
      BY <1>3, <2>1, <2>2, <2>3 DEF Contract!Take, Status, InQueue
    <2> QED BY <1>5, <2>4 DEF Contract!Next
  <1> QED BY <1>2, <1>4, <1>5 DEF Items

LEMMA ContractStep == IInv /\ [Next]_vars => [Contract!Next]_(Contract!vars)
  <1> SUFFICES ASSUME IInv, [Next]_vars PROVE Contract!Next \/ UNCHANGED Contract!vars
    OBVIOUS
  <1>1. ASSUME NEW r \in Requests, Call(r) \/ RequestStep(r) \/ CallerCancelled(r)
        PROVE  Contract!Next \/ UNCHANGED Contract!vars
    BY <1>1, ContractRequest
  <1>2. CASE BeginClose
    BY <1>2, ContractDrain DEF Contract!Next
  <1>3. CASE \E c \in Connections : ProducerWrites(c) \/ ProducerFails(c)
    BY <1>3, ContractTake
  <1>4. ASSUME ~Full, txQueue' = Append(txQueue, Heartbeat), UNCHANGED <<pc, frames>>
        PROVE  UNCHANGED Contract!vars
    <2>1. \A r \in Requests : Queued(r)' <=> Queued(r)
      BY <1>4, QueueGrows, Bounds DEF IInv, RequestPart, QueueInv, Items
    <2>2. Status' = Status /\ InQueue' = InQueue
      BY <1>4, <2>1 DEF Status, InQueue
    <2> QED BY <1>4, <2>2 DEF Contract!vars, Status, InQueue
  <1>5. CASE \E c \in Connections : ConsumerHeartbeat(c) \/ ConsumerPutResumes(c)
    BY <1>4, <1>5, ContractVars DEF ConsumerHeartbeat, ConsumerPutResumes, requestVars
  <1>6. CASE \E c \in Connections : ProducerWakes(c) \/ DrainFails(c) \/ ProducerDrained(c)
    BY <1>2, <1>6, ContractVars, ContractTold DEF ProducerWakes, DrainFails, requestVars
  <1>7. CASE \E c \in Connections : ConsumerDies(c) \/ ConsumerLoops(c) \/ ConsumerCloseEnds(c)
    BY <1>2, <1>7, ContractVars
       DEF ConsumerDies, ConsumerLoops, ConsumerCloseEnds, FinishClose, requestVars
  <1>8. CASE \E c \in Connections, s \in Shapes, outcome \in {"ok", "error"} :
                ConsumerAnswers(c, s, outcome)
    BY <1>8, ContractVars DEF ConsumerAnswers
  <1>9. CASE \E c \in Connections : PeerEnds(c) \/ ConnectionResets(c) \/ SocketCloses(c)
    BY <1>9, ContractVars DEF PeerEnds, ConnectionResets, SocketCloses, SocketChanges, requestVars
  <1>10. CASE OwnerStep
    BY <1>2, <1>10, ContractVars
       DEF OwnerStep, Connect, OwnerCloses, OwnerCloseEnds, OwnerAbandons, FinishClose, requestVars
  <1>11. CASE UNCHANGED vars
    BY <1>11, ContractVars DEF vars
  <1> QED BY <1>1, <1>3, <1>5, <1>6, <1>7, <1>8, <1>9, <1>10, <1>11
          DEF Next, ProducerStep, ConsumerStep

\* Requests keep the promise of RequestContract over any number of connections.
THEOREM Refinement == Spec => ImplementsContract
  <1>1. Init => Contract!Init
    BY EmptySeq, ToSetOfEmpty DEF Init, Contract!Init, Queued, Suspended
  <1> QED BY <1>1, ContractStep, Invariance, PTL DEF Spec, ImplementsContract, Contract!Spec

(***************************************************************************)
(* How many steps a request takes.                                         *)
(***************************************************************************)
\* The awaits of this try, and those of the tries that may follow.
AwaitsLeft(l) ==
    CASE l = "put"           -> 3
      [] l = "send"          -> 2
      [] l = "wait"          -> 1

StepsLeft(r) == IF pc[r] \in Suspended THEN 3 * (Tries[r] - tries[r]) + AwaitsLeft(pc[r]) ELSE 0

TriesCounted == \A r \in Requests : pc[r] \in Suspended => tries[r] >= 1

LeftIsBounded == \A r \in Requests : StepsLeft(r) \in 0..(3 * Tries[r])

\* Whatever a request does brings it nearer to its end, and nothing else takes it away from it.
RequestAdvances ==
    [][\A r \in Requests :
          /\ pc[r] # "idle" => StepsLeft(r)' <= StepsLeft(r)
          /\ RequestStep(r) => StepsLeft(r)' < StepsLeft(r)]_vars

\* From one await of a try to the next, to the next try or to the end.
MovesOn(r) ==
    \/ pc[r] = "put" /\ pc'[r] = "send" /\ tries'[r] = tries[r]
    \/ pc[r] = "send" /\ pc'[r] = "wait" /\ tries'[r] = tries[r]
    \/ /\ pc[r] = "wait" /\ pc'[r] \in {"put", "send"}
       /\ tries[r] < Tries[r] /\ tries'[r] = tries[r] + 1
    \/ pc[r] \in Suspended /\ pc'[r] \in Ended

Begins(r) == pc[r] = "idle" /\ pc'[r] \in {"put", "send"} /\ tries'[r] = tries[r] + 1

Stays(r) == pc'[r] = pc[r] /\ tries'[r] = tries[r]

LEMMA TryMoves ==
    ASSUME RequestType, NEW r \in Requests, NEW fs, NextTry(r, fs), pc[r] = "wait"
    PROVE  MovesOn(r) /\ \A q \in Requests \ {r} : Stays(q)
  BY DEF RequestType, NextTry, BeginTry, Put, End, MovesOn, Stays, Suspended, Ended

LEMMA StepMoves ==
    ASSUME RequestType, NEW r \in Requests, RequestStep(r)
    PROVE  MovesOn(r) /\ \A q \in Requests \ {r} : Stays(q)
  <1>1. CASE PutResumes(r)
    BY <1>1 DEF RequestType, PutResumes, Put, MovesOn, Stays
  <1>2. CASE FrameTimeout(r)
    BY <1>2 DEF RequestType, FrameTimeout, End, MovesOn, Stays, Suspended, Ended
  <1>3. CASE ResponseTimeout(r)
    BY <1>3, TryMoves DEF ResponseTimeout
  <1>4. CASE ResponseArrives(r)
    <2>1. CASE End(r, "ok", future) \/ End(r, "failed", future)
      BY <1>4, <2>1 DEF RequestType, ResponseArrives, End, MovesOn, Stays, Suspended, Ended
    <2>2. CASE NextTry(r, future)
      BY <1>4, <2>2, TryMoves DEF ResponseArrives
    <2> QED BY <1>4, <2>1, <2>2 DEF ResponseArrives
  <1> QED BY <1>1, <1>2, <1>3, <1>4 DEF RequestStep

\* A close ends the requests whose frames it drops, and moves no other.
LEMMA CloseMoves ==
    ASSUME RequestType, BeginClose, NEW r \in Requests
    PROVE  MovesOn(r) \/ Stays(r)
  BY DEF RequestType, BeginClose, CancelQueued, MovesOn, Stays, Suspended, Ended

\* A frame that was written moves its request on.
LEMMA DrainMoves ==
    ASSUME RequestType, NEW c \in Connections, ProducerDrained(c), NEW r \in Requests
    PROVE  MovesOn(r) \/ Stays(r)
  <1>1. /\ UNCHANGED tries
        /\ \/ UNCHANGED pc
           \/ /\ hand[c] = None \/ pc[hand[c]] = "send"
              /\ pc' = [q \in Requests |-> IF q = hand[c] THEN "wait" ELSE pc[q]]
    BY DEF ProducerDrained
  <1>2. CASE r = hand[c]
    BY <1>1, <1>2, Bounds DEF MovesOn, Stays
  <1>3. CASE r # hand[c]
    BY <1>1, <1>3 DEF Stays
  <1> QED BY <1>2, <1>3

\* The requests in a step of the client.
LEMMA NextMoves ==
    ASSUME RequestType, [Next]_vars, NEW r \in Requests
    PROVE  MovesOn(r) \/ Begins(r) \/ Stays(r)
  <1>1. ASSUME NEW q \in Requests, RequestStep(q) PROVE MovesOn(r) \/ Stays(r)
    BY <1>1, StepMoves
  <1>2. ASSUME NEW q \in Requests, Call(q) PROVE Begins(r) \/ Stays(r)
    BY <1>2 DEF RequestType, Call, BeginTry, Put, Begins, Stays
  <1>3. ASSUME NEW q \in Requests, CallerCancelled(q) PROVE MovesOn(r) \/ Stays(r)
    BY <1>3 DEF RequestType, CallerCancelled, End, MovesOn, Stays, Suspended, Ended
  <1>4. CASE BeginClose
    BY <1>4, CloseMoves
  <1>5. CASE \E c \in Connections : ProducerDrained(c)
    BY <1>5, DrainMoves
  <1>6. CASE UNCHANGED <<pc, tries>>
    BY <1>6 DEF Stays
  <1>7. CASE \E c \in Connections : ProducerStep(c)
    BY <1>4, <1>6, <1>7
       DEF ProducerStep, ProducerWrites, ProducerFails, DrainFails, ProducerWakes, requestVars
  <1>8. CASE \E c \in Connections : ConsumerStep(c) \/ ConsumerHeartbeat(c) \/ ConsumerDies(c)
    BY <1>4, <1>6, <1>8 DEF ConsumerStep, ConsumerHeartbeat, ConsumerDies, ConsumerPutResumes,
                            ConsumerLoops, ConsumerCloseEnds, FinishClose, requestVars
  <1>9. CASE \E c \in Connections, s \in Shapes, outcome \in {"ok", "error"} :
                ConsumerAnswers(c, s, outcome)
    BY <1>6, <1>9 DEF ConsumerAnswers
  <1>10. CASE \E c \in Connections : PeerEnds(c) \/ ConnectionResets(c) \/ SocketCloses(c)
    BY <1>6, <1>10 DEF PeerEnds, ConnectionResets, SocketCloses, SocketChanges, requestVars
  <1>11. CASE OwnerStep
    BY <1>4, <1>6, <1>11
       DEF OwnerStep, Connect, OwnerCloses, OwnerCloseEnds, OwnerAbandons, FinishClose, requestVars
  <1>12. CASE UNCHANGED vars
    BY <1>6, <1>12 DEF vars
  <1> QED BY <1>1, <1>2, <1>3, <1>5, <1>7, <1>8, <1>9, <1>10, <1>11, <1>12 DEF Next

LEMMA CountedStep == RequestType /\ TriesCounted /\ [Next]_vars => TriesCounted'
  <1> SUFFICES ASSUME RequestType, TriesCounted, [Next]_vars, NEW r \in Requests, pc'[r] \in Suspended
               PROVE  tries'[r] >= 1
    BY DEF TriesCounted
  <1>1. tries[r] \in Nat
    BY DEF RequestType
  <1> QED BY <1>1, NextMoves DEF MovesOn, Begins, Stays, TriesCounted, Suspended, Ended

LEMMA LeftBound == RequestType /\ TriesCounted => LeftIsBounded
  <1> SUFFICES ASSUME RequestType, TriesCounted, NEW r \in Requests
               PROVE  StepsLeft(r) \in 0..(3 * Tries[r])
    BY DEF LeftIsBounded
  <1>1. PICK t \in Nat, n \in Nat : t = Tries[r] /\ n = tries[r] /\ n <= t
    BY Bounds DEF RequestType
  <1>2. CASE pc[r] \in Suspended
    <2>1. n >= 1
      BY <1>1, <1>2 DEF TriesCounted
    <2>2. AwaitsLeft(pc[r]) \in 1..3
      BY <1>2 DEF AwaitsLeft, Suspended
    <2> QED BY <1>1, <1>2, <2>1, <2>2 DEF StepsLeft
  <1>3. CASE pc[r] \notin Suspended
    BY <1>1, <1>3 DEF StepsLeft
  <1> QED BY <1>2, <1>3

LEMMA AdvanceStep ==
    ASSUME RequestType, RequestType', TriesCounted, [Next]_vars, NEW r \in Requests
    PROVE  /\ pc[r] # "idle" => StepsLeft(r)' <= StepsLeft(r)
           /\ RequestStep(r) => StepsLeft(r)' < StepsLeft(r)
  <1>1. PICK t \in Nat, n \in Nat : t = Tries[r] /\ n = tries[r] /\ n <= t
    BY Bounds DEF RequestType
  <1>2. StepsLeft(r) \in Nat
    BY <1>1, LeftBound DEF LeftIsBounded
  <1>3. CASE MovesOn(r)
    <2> SUFFICES StepsLeft(r)' < StepsLeft(r) /\ StepsLeft(r)' \in Int
      BY <1>2
    <2>1. CASE pc[r] \in Suspended /\ pc'[r] \in Ended
      <3>1. StepsLeft(r)' = 0
        BY <2>1 DEF StepsLeft, Suspended, Ended
      <3>2. AwaitsLeft(pc[r]) \in 1..3
        BY <2>1 DEF AwaitsLeft, Suspended
      <3>3. StepsLeft(r) >= 1
        BY <1>1, <2>1, <3>2 DEF StepsLeft
      <3> QED BY <1>2, <3>1, <3>3
    <2>2. CASE pc[r] = "put" /\ pc'[r] = "send" /\ tries'[r] = tries[r]
      BY <1>1, <2>2 DEF StepsLeft, AwaitsLeft, Suspended
    <2>3. CASE pc[r] = "send" /\ pc'[r] = "wait" /\ tries'[r] = tries[r]
      BY <1>1, <2>3 DEF StepsLeft, AwaitsLeft, Suspended
    <2>4. CASE /\ pc[r] = "wait" /\ pc'[r] \in {"put", "send"}
               /\ tries[r] < Tries[r] /\ tries'[r] = tries[r] + 1
      BY <1>1, <2>4 DEF StepsLeft, AwaitsLeft, Suspended
    <2> QED BY <1>3, <2>1, <2>2, <2>3, <2>4 DEF MovesOn
  <1>4. CASE Stays(r)
    <2>1. StepsLeft(r)' = StepsLeft(r)
      BY <1>4 DEF Stays, StepsLeft
    <2>2. ~RequestStep(r)
      BY <1>1, <1>4, StepMoves DEF Stays, MovesOn, Suspended, Ended
    <2> QED BY <1>2, <2>1, <2>2
  <1>5. CASE Begins(r)
    BY <1>5, StepMoves DEF Begins, MovesOn, Suspended
  <1> QED BY <1>3, <1>4, <1>5, NextMoves

\* A request takes at most three steps for each of its tries, whatever is answered, closed or
\* dies meanwhile: RequestsEnd but for the fairness of the event loop and the timers (client.py:
\* send_request_and_await_response).
THEOREM RequestsAreBounded == Spec => []LeftIsBounded /\ RequestAdvances
  <1>1. Init => TriesCounted
    BY DEF Init, TriesCounted, Suspended
  <1>2. IInv /\ TriesCounted /\ [Next]_vars => TriesCounted'
    BY CountedStep DEF IInv, RequestPart
  <1>3. IInv /\ TriesCounted => LeftIsBounded
    BY LeftBound DEF IInv, RequestPart
  <1>4. IInv /\ IInv' /\ TriesCounted /\ [Next]_vars
        => [\A r \in Requests :
              /\ pc[r] # "idle" => StepsLeft(r)' <= StepsLeft(r)
              /\ RequestStep(r) => StepsLeft(r)' < StepsLeft(r)]_vars
    BY AdvanceStep DEF IInv, RequestPart
  <1> QED BY <1>1, <1>2, <1>3, <1>4, Invariance, PTL DEF Spec, RequestAdvances

=============================================================================
