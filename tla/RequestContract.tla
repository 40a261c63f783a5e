-------------------------- MODULE RequestContract --------------------------
(***************************************************************************)
(* What a caller of Client.execute may rely on for each request, whatever  *)
(* happens to connections: it ends at most once; a request that succeeds   *)
(* was written to a socket; no request is written more often than it is    *)
(* tried; after the caller has been told of a failure at most the frame    *)
(* that was queued by then is still written.                               *)
(***************************************************************************)
EXTENDS Integers

CONSTANTS Requests, Tries

VARIABLES
    status,  \* "idle", "active", or how the request ended
    queued,  \* requests of which a frame is queued
    sends    \* frames written

vars == <<status, queued, sends>>

Init ==
    /\ status = [r \in Requests |-> "idle"]
    /\ queued = {}
    /\ sends = [r \in Requests |-> 0]

Begin(r) ==
    /\ status[r] = "idle"
    /\ status' = [status EXCEPT ![r] = "active"]
    /\ queued' \in {queued, queued \cup {r}}
    /\ UNCHANGED sends

\* A try queues a frame; only an active request tries.
Enqueue(r) ==
    /\ status[r] = "active" /\ r \notin queued /\ sends[r] < Tries[r]
    /\ queued' = queued \cup {r}
    /\ UNCHANGED <<status, sends>>

\* The frame leaves the queue, to the socket or lost with the task that took it.
Take(r) ==
    /\ r \in queued
    /\ queued' = queued \ {r}
    /\ UNCHANGED status
    /\ \/ UNCHANGED sends
       \/ sends[r] < Tries[r] /\ sends' = [sends EXCEPT ![r] = @ + 1]

Finish(r) ==
    /\ status[r] = "active"
    /\ \/ status' = [status EXCEPT ![r] = "failed"]
       \/ sends[r] > 0 /\ r \notin queued /\ status' = [status EXCEPT ![r] = "ok"]
    /\ UNCHANGED <<queued, sends>>

\* A close empties the queue and fails the active requests in it.
Drain ==
    /\ queued' = {}
    /\ status' = [r \in Requests |->
                     IF r \in queued /\ status[r] = "active" THEN "failed" ELSE status[r]]
    /\ UNCHANGED sends

Next == Drain \/ \E r \in Requests : Begin(r) \/ Enqueue(r) \/ Take(r) \/ Finish(r)

Spec == Init /\ [][Next]_vars

=============================================================================
