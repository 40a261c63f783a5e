------------------------------ MODULE Control ------------------------------
(***************************************************************************)
(* From a command of the user to what the user sees of it: execute() of    *)
(* the coordinator sends a batch of writes that the client retries and     *)
(* the inverter applies, answers update the register cache, and a refresh  *)
(* publishes that cache.  Commands overlap each other and refreshes.       *)
(*                                                                         *)
(* Frames and answers keep their order; either may be lost.  A timeout may *)
(* fire at any time.  Connections come and go in Client and Coordinator;   *)
(* here there is one, and a refresh whose last try times out, which would  *)
(* close it, is not followed further.  Status (input) registers, and with  *)
(* them the exchange of a partial refresh, are left out.                   *)
(***************************************************************************)
EXTENDS Commands

CONSTANTS
    Scripts,       \* bound: what users ask for, in which order: a set of sequences of operations
    Tries,         \* of each request: its retries + 1
    MaxRefreshes,  \* bound: refreshes started
    Budget         \* bound: refreshes plus twice the faults, which are frames and answers lost
                   \* or late, and refreshes of improbable data

ASSUME ControlAssumption ==
    /\ Scripts \subseteq Seq(Operations)
    /\ Tries \in Nat \ {0} /\ MaxRefreshes \in Nat /\ Budget \in Nat

VARIABLES
    script,    \* the operations still and already asked for
    device,    \* the inverter's holding registers
    wrote,     \* for each, the last call that wrote it, in the order of calls; 0 at first
    wire,      \* frames on their way: tx_queue and the socket
    replies,   \* answers on their way
    pending,   \* requests that await an answer
    expected,  \* expected_responses: whose future is registered for a shape
    calls,     \* the calls of execute()
    cache,     \* the holding registers of client.plant
    shown,     \* those of the published plant
    refresh,   \* the refresh under way: "idle", "partial" or "full"
    needFull,  \* require_full_refresh
    healthy,   \* recovery.state is HEALTHY
    refreshes, \* how many were started
    faults,    \* how many there were
    lost       \* calls that lost a frame

vars == <<script, device, wrote, wire, replies, pending, expected, calls, cache, shown, refresh,
          needFull, healthy, refreshes, faults, lost>>
deviceVars == <<device, wrote>>
plantVars == <<cache, shown, refresh, needFull, healthy, refreshes>>
faultVars == <<faults, lost>>

\* Within the bounds
MayRefresh == refreshes < MaxRefreshes /\ refreshes + 2 * faults + 1 <= Budget
Fault == refreshes + 2 * faults + 2 <= Budget /\ faults' = faults + 1

Blocks == {0, 60}
InBlock(base, reg) == base <= reg /\ reg < base + 60
RegistersOf(op) == {w.reg : w \in ToSet(op.batch)}
\* Those that matter; the others stay as they are.
RegistersFor(ops) ==
    LET written == UNION {RegistersOf(op) : op \in ToSet(ops)}
        defs == {RegisterLut[key] : key \in DOMAIN RegisterLut}
    IN written \cup UNION {ToSet(d.regs) : d \in {e \in defs : ToSet(e.regs) \cap written # {}}}
Registers == DOMAIN device
WriteShape(reg) == <<"write", reg>>
ReadShape(base) == <<"read", base>>
Shapes == {WriteShape(r) : r \in Registers} \cup {ReadShape(b) : b \in Blocks}
\* The update task, among those who call the client
Updater == 0
\* of calls; "reading" and "shown": a full refresh began since, and was published
Statuses == {"running", "failed", "ok", "reading", "shown"}
Succeeded == {"ok", "reading", "shown"}

(***************************************************************************)
(* Requests                                                                *)
(***************************************************************************)
\* _dedupe_requests: later entries win, in the place of the first.
Dedupe(batch) ==
    LET same(i) == {j \in DOMAIN batch : batch[j].reg = batch[i].reg}
    IN FlattenSeq([i \in DOMAIN batch |->
                     IF \E j \in same(i) : j < i THEN <<>>
                     ELSE <<batch[CHOOSE j \in same(i) : \A k \in same(i) : k <= j]>>])

\* Mutant: encode() refuses nothing.
MutEncodes(w) == TRUE

Encodes(w) == w.reg \in WriteSafeRegisters

Request(call, shape, val) == [call |-> call, shape |-> shape, val |-> val, tries |-> 1]
ShapesOf(requests) == {r.shape : r \in requests}

\* Mutant: nobody is cancelled.
MutDisplaced(among, shapes) == {}

\* The requests whose futures are cancelled by new ones of these shapes
Displaced(among, shapes) ==
    {p \in among : p.shape \in shapes /\ expected[p.shape] = p.call}

\* send_request_and_await_response up to its wait for the answer, by requests in this order
Send(requests, among) ==
    LET new == ToSet(requests)
    IN /\ pending' = (among \ Displaced(among, ShapesOf(new))) \cup new
       /\ expected' = [s \in DOMAIN expected \cup ShapesOf(new) |->
                         IF s \in ShapesOf(new) THEN requests[1].call ELSE expected[s]]
       /\ wire' = wire \o requests

\* gather() ends with the first exception; the rest of the batch goes on.
Fail(cs, numbers) ==
    [n \in DOMAIN cs |-> IF n \in numbers /\ cs[n].status = "running"
                         THEN [cs[n] EXCEPT !.status = "failed"] ELSE cs[n]]
Callers(requests) == {r.call : r \in requests}

UnderWay == ShapesOf(ToSet(wire)) \cup ShapesOf(ToSet(replies))

\* A timeout is a fault of the network when the answer would still have come.
TimesOut(requests) ==
    IF ShapesOf(requests) \cap UnderWay # {} THEN Fault
                                             ELSE UNCHANGED faults

(***************************************************************************)
(* execute()                                                               *)
(***************************************************************************)
\* Something of an earlier call is still under way on one of the shapes.
Contested(shapes) == shapes \cap (ShapesOf(pending) \cup UnderWay) # {}

\* All requests of a batch are sent at once.  encode() raises before anything is sent of a
\* write that is not safe, and fails the call.
Execute(n) ==
    LET batch == Dedupe(script[n].batch)
        requests ==
            FlattenSeq([i \in DOMAIN batch |->
                          IF Encodes(batch[i])
                          THEN <<Request(n, WriteShape(batch[i].reg), batch[i].val)>> ELSE <<>>])
        shapes == ShapesOf(ToSet(requests))
        call == [contested |-> Contested(shapes),
                 status |-> IF \A w \in ToSet(batch) : Encodes(w) THEN "running" ELSE "failed"]
    IN /\ n = Len(calls) + 1 /\ healthy /\ batch # <<>>
       /\ IF requests = <<>> THEN UNCHANGED <<pending, expected, wire>> ELSE Send(requests, pending)
       /\ calls' = Append(Fail(calls, Callers(Displaced(pending, shapes))), call)
       /\ UNCHANGED <<deviceVars, replies, plantVars, faultVars>>

\* Every request was answered: the next refresh shall read the settings.
ExecuteOk(n) ==
    /\ calls[n].status = "running" /\ n \notin Callers(pending)
    /\ calls' = [calls EXCEPT ![n].status = "ok"]
    /\ needFull' = TRUE
    /\ UNCHANGED <<deviceVars, wire, replies, pending, expected, cache, shown, refresh,
                   healthy, refreshes, faultVars>>

\* asyncio.timeout(_EXECUTE_TIMEOUT) cancels what is left of the batch.
ExecuteTimeout(n) ==
    /\ calls[n].status = "running" /\ n \in Callers(pending)
    /\ calls' = Fail(calls, {n})
    /\ pending' = {p \in pending : p.call # n}
    /\ TimesOut(pending \ pending')
    /\ UNCHANGED <<deviceVars, wire, replies, expected, plantVars, lost>>

\* No answer in time: the request is sent again.
Retry(p) ==
    /\ p \in pending /\ p.tries < Tries
    /\ Send(<<[p EXCEPT !.tries = @ + 1]>>, pending \ {p})
    /\ calls' = Fail(calls, Callers(Displaced(pending \ {p}, {p.shape})))
    /\ TimesOut({p})
    /\ UNCHANGED <<deviceVars, replies, plantVars, lost>>

\* Mutant: a request that gives up returns instead of raising.
MutGiveUp(p) ==
    /\ p \in pending /\ p.tries = Tries /\ p.call # Updater
    /\ pending' = pending \ {p}
    /\ TimesOut({p})
    /\ UNCHANGED <<deviceVars, calls, wire, replies, expected, plantVars, lost>>

GiveUp(p) ==
    /\ p \in pending /\ p.tries = Tries /\ p.call # Updater
    /\ pending' = pending \ {p}
    /\ calls' = Fail(calls, {p.call})
    /\ TimesOut({p})
    /\ UNCHANGED <<deviceVars, wire, replies, expected, plantVars, lost>>

(***************************************************************************)
(* The inverter and the way to it                                          *)
(***************************************************************************)
Answer(shape, regs) == [shape |-> shape, regs |-> regs]
BlockOf(base) == [r \in {q \in Registers : InBlock(base, q)} |-> device[r]]

\* The inverter answers a write by repeating it.
Inverts ==
    /\ wire # <<>> /\ wire' = Tail(wire)
    /\ LET f == Head(wire)
       IN IF f.shape[1] = "write"
          THEN /\ device' = [device EXCEPT ![f.shape[2]] = f.val]
               /\ wrote' = [wrote EXCEPT ![f.shape[2]] = f.call]
               /\ replies' = Append(replies, Answer(f.shape, [r \in {f.shape[2]} |-> f.val]))
          ELSE /\ replies' = Append(replies, Answer(f.shape, BlockOf(f.shape[2])))
               /\ UNCHANGED deviceVars
    /\ UNCHANGED <<pending, expected, calls, plantVars, faultVars>>

FrameLost ==
    /\ wire # <<>> /\ wire' = Tail(wire)
    /\ Fault
    /\ lost' = lost \cup {Head(wire).call}
    /\ UNCHANGED <<deviceVars, replies, pending, expected, calls, plantVars>>

ReplyLost ==
    /\ replies # <<>> /\ replies' = Tail(replies)
    /\ Fault
    /\ UNCHANGED <<deviceVars, wire, pending, expected, calls, plantVars, lost>>

\* Mutant: the shape of an answer leaves its registers out.
MutAnswers(p, reply) == p.shape[1] = reply.shape[1] /\ expected[p.shape] = p.call

Answers(p, reply) == p.shape = reply.shape /\ expected[p.shape] = p.call

\* Plant.update
Update(known, regs) ==
    [r \in DOMAIN known \cup DOMAIN regs |-> IF r \in DOMAIN regs THEN regs[r] ELSE known[r]]

\* The consumer takes an answer; its value is not compared with the request's.
Receive ==
    /\ replies # <<>> /\ replies' = Tail(replies)
    /\ pending' = {p \in pending : ~Answers(p, Head(replies))}
    /\ cache' = Update(cache, Head(replies).regs)
    /\ UNCHANGED <<deviceVars, wire, expected, calls, shown, refresh, needFull, healthy,
                   refreshes, faultVars>>

\* Settings an inverter may come with
Factory(r) ==
    CASE r \in {BatterySocReserve, BatteryDischargeMinPowerReserve} -> 4
      [] r = ChargeTargetSoc -> 100
      [] r \in {BatteryChargeLimit, BatteryDischargeLimit} -> 50
      [] r = BatteryPowerMode -> 1
      [] OTHER -> 0

(***************************************************************************)
(* A refresh                                                               *)
(***************************************************************************)
Progress(from, to) ==
    calls' = [n \in DOMAIN calls |-> IF calls[n].status = from THEN [calls[n] EXCEPT !.status = to]
                                     ELSE calls[n]]

StartPartial ==
    /\ refresh = "idle" /\ MayRefresh /\ ~needFull
    /\ refresh' = "partial" /\ refreshes' = refreshes + 1
    /\ UNCHANGED <<deviceVars, wire, replies, pending, expected, calls, cache, shown, needFull,
                   healthy, faultVars>>

\* refresh_plant's reads of holding registers
SettingsRequests ==
    LET reads == RefreshPlantData(InverterModel, TRUE, 0, 5, <<>>)
    IN FlattenSeq([i \in DOMAIN reads |->
                     IF reads[i].fn = "holding"
                     THEN <<Request(Updater, ReadShape(reads[i].base), 0)>> ELSE <<>>])

\* Because it is needed, or because the last one is five minutes old
StartFull ==
    /\ refresh = "idle" /\ MayRefresh
    /\ refresh' = "full" /\ refreshes' = refreshes + 1
    /\ needFull' = TRUE
    /\ Send(SettingsRequests, pending)
    /\ Progress("ok", "reading")
    /\ UNCHANGED <<deviceVars, replies, cache, shown, healthy, faultVars>>

Answered == refresh # "idle" /\ Updater \notin Callers(pending)

\* _is_data_valid, of the settings; the ranges of status values are RefuseData's choice.
DataIsValid(raw) ==
    \A key \in DOMAIN RegisterLut :
        ToSet(RegisterLut[key].regs) \subseteq DOMAIN raw => Decodes(raw, key)

\* _accept_trusted_plant, which clears require_full_refresh after a partial refresh too
AcceptTrustedPlant ==
    /\ Answered /\ refresh' = "idle"
    /\ DataIsValid(cache)
    /\ shown' = cache
    /\ needFull' = FALSE /\ healthy' = TRUE
    /\ Progress("reading", "shown")
    /\ UNCHANGED <<deviceVars, wire, replies, pending, expected, cache, refreshes, faultVars>>

\* Mutant: accepted data do not become the trusted snapshot, the first ones stay it.
MutRestored == {cache, [r \in DOMAIN cache |-> Factory(r)]}

\* _restore_client_to_trusted_snapshot: a clone of it, unless it is too old
Restored == {cache, shown}

RefuseData ==
    /\ Answered /\ refresh' = "idle"
    /\ Fault
    /\ cache' \in Restored
    /\ healthy' = FALSE
    /\ Progress("reading", "ok")
    /\ UNCHANGED <<deviceVars, wire, replies, pending, expected, shown, needFull, refreshes, lost>>

Init ==
    /\ script \in Scripts
    /\ device = [r \in RegistersFor(script) |-> Factory(r)]
    /\ cache = device /\ shown = device
    /\ wrote = [r \in Registers |-> 0]
    /\ wire = <<>> /\ replies = <<>> /\ pending = {} /\ calls = <<>>
    /\ expected = <<>>
    /\ refresh = "idle" /\ needFull = FALSE /\ healthy = TRUE
    /\ refreshes = 0 /\ faults = 0 /\ lost = {}

Next ==
    /\ \/ \E n \in DOMAIN script : Execute(n)
       \/ \E n \in DOMAIN calls : ExecuteOk(n) \/ ExecuteTimeout(n)
       \/ \E p \in pending : Retry(p) \/ GiveUp(p)
       \/ Inverts \/ FrameLost \/ ReplyLost \/ Receive
       \/ StartPartial \/ StartFull \/ AcceptTrustedPlant \/ RefuseData
    /\ UNCHANGED script

Spec == Init /\ [][Next]_vars

(***************************************************************************)
(* Properties                                                              *)
(***************************************************************************)
\* Types, and that what the inverter holds can always be decoded and only ever changed in
\* registers that are safe to write.
TypeOK ==
    /\ {device, cache, shown} \subseteq [Registers -> Word]
    /\ wrote \in [Registers -> {Updater} \cup DOMAIN calls]
    /\ \A p \in pending \cup ToSet(wire) :
          /\ p.call \in {Updater} \cup DOMAIN calls /\ p.shape \in Shapes
          /\ p.tries \in 1..Tries /\ p.val \in Word
    /\ \A reply \in ToSet(replies) : reply.shape \in Shapes
    /\ \A n \in DOMAIN calls : calls[n].status \in Statuses
    /\ \A r \in Registers : wrote[r] # 0 => r \in WriteSafeRegisters
    /\ DataIsValid(device)

\* Call n is alone with its registers: no call before it was still under way on one of them,
\* and none since has written one.
Alone(n) ==
    /\ ~calls[n].contested
    /\ \A m \in DOMAIN calls : m > n => RegistersOf(script[m]) \cap RegistersOf(script[n]) = {}

\* A call that returns without an error has taken effect as the user meant it, whatever was
\* lost, retried or went on beside it.
AcknowledgedTakesEffect ==
    \A n \in DOMAIN calls :
        calls[n].status \in Succeeded /\ Alone(n) => Shows(device, script[n])

\* Once a full refresh that began after the call is published, the entities show its effect:
\* no late answer, restored snapshot or partial refresh brings the old settings back.
ReadShowsAcknowledged ==
    \A n \in DOMAIN calls :
        calls[n].status = "shown" /\ Alone(n) => Shows(shown, script[n])

\* No register goes back to a call older than the last that wrote it: retries of a call that
\* was replaced or has failed come to an end before they can undo a newer one.
OlderNeverOverwrites ==
    [][\A r \in Registers : wrote'[r] >= wrote[r]]_vars

\* What register r holds once the calls so far have been carried out one after the other
Serially(r) ==
    LET last(S) == CHOOSE n \in S : \A m \in S : m <= n
        writers == {n \in DOMAIN calls : r \in RegistersOf(script[n])}
        batch == script[last(writers)].batch
    IN IF writers = {} THEN Factory(r)
       ELSE batch[last({i \in DOMAIN batch : batch[i].reg = r})].val

\* Calls that all succeed leave the inverter as if they had been carried out one after the
\* other, unless one took the late answer to an older call for its own and its frame was lost.
SuccessIsSerial ==
    (/\ wire = <<>>
     /\ \A n \in DOMAIN calls :
           calls[n].status \in Succeeded /\ (calls[n].contested => n \notin lost))
    => device = [r \in Registers |-> Serially(r)]

=============================================================================
