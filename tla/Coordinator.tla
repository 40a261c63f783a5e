---------------------------- MODULE Coordinator ----------------------------
(***************************************************************************)
(* GivEnergyUpdateCoordinator (coordinator.py): the task that polls one    *)
(* inverter, decides which data to trust and publish, when to reconnect,   *)
(* when to give up, and which commands to accept.                          *)
(*                                                                         *)
(* The update task is one control point, pc, and every place where the     *)
(* code awaits (a read, a sleep, a connection, a close) is a value of pc,  *)
(* so commands, the unloading of the entry, the clock and the link act     *)
(* between any two awaits.  Time is counted in units of the constants:     *)
(* Tick is one unit, and no await outlives its timeout.                    *)
(***************************************************************************)
EXTENDS Integers

CONSTANTS
    Commands,             \* concurrent callers of execute()
    Attempts,             \* _REFRESH_ATTEMPTS
    RetryDelay,           \* _REFRESH_DELAY_BETWEEN_ATTEMPTS
    RefreshTimeout,       \* asyncio.timeout(10) around refresh_plant
    CloseTimeout,         \* _CLOSE_TIMEOUT
    ConnectTimeout,       \* _CONNECT_TIMEOUT
    PollInterval,         \* update_interval
    BackoffInitial,       \* _RECONNECT_BACKOFF_INITIAL
    BackoffMax,           \* _RECONNECT_BACKOFF_MAX
    SnapshotMaxAge,       \* _TRUSTED_SNAPSHOT_MAX_AGE
    MaxUnhealthy,         \* _MAX_UNHEALTHY_DURATION
    FullRefreshInterval,  \* _FULL_REFRESH_INTERVAL
    MaxWrites,            \* bound: register writes the device applies
    AgeCap,               \* bound: ages are counted up to AgeCap
    MayCancel             \* whether Client.close() may cancel a waiting request

ASSUME CoordinatorAssumption ==
    /\ Attempts \in Nat \ {0} /\ MaxWrites \in Nat /\ MayCancel \in BOOLEAN
    /\ {RetryDelay, RefreshTimeout, CloseTimeout, ConnectTimeout, PollInterval}
           \subseteq Nat \ {0}
    /\ BackoffInitial \in Nat \ {0} /\ BackoffMax \in Nat /\ BackoffInitial <= BackoffMax
    /\ SnapshotMaxAge \in Nat /\ MaxUnhealthy \in Nat /\ FullRefreshInterval \in Nat
    /\ MaxUnhealthy <= SnapshotMaxAge
    /\ AgeCap \in Nat /\ AgeCap > SnapshotMaxAge /\ AgeCap > FullRefreshInterval

VARIABLES
    phase,          \* life of the config entry's coordinator
    pc,             \* where the update task awaits ("idle": no update runs)
    task,           \* its local variables, see Task
    elapsed,        \* time since the current await, or the last update, began
    wanted,         \* a debounced refresh request is waiting
    connected,      \* client.connected
    cache,          \* client.plant
    link,           \* whether calls over the network may go wrong
    recovery,       \* recovery.state
    lastFailure,    \* recovery.last_failure_category
    trusted,        \* last_trusted_plant, also the published data
    trustedAge,     \* time since recovery.last_trusted_update
    requireFull,    \* require_full_refresh
    fullAge,        \* time since last_full_refresh
    backoff,        \* _reconnect_backoff
    untilReconnect, \* time left until _next_reconnect_attempt
    available,      \* last_update_success
    notified,       \* the persistent notification is shown
    device,         \* writes the inverter has applied so far
    cmd,            \* progress of each execute() call
    unanswered,     \* its writes that were applied and whose answers are still on the way
    acked,          \* its writes that were answered
    owed            \* the writes of the calls that succeeded, which they asked to be re-read

entryVars    == <<phase, wanted>>
taskVars     == <<pc, task, elapsed>>
clientVars   == <<connected, cache>>
verdictVars  == <<recovery, lastFailure, notified>>
trustVars    == <<trusted, trustedAge>>
refreshVars  == <<requireFull, fullAge>>
backoffVars  == <<backoff, untilReconnect>>
writeVars    == <<unanswered, acked>>
commandVars  == <<device, cmd, writeVars, owed>>
memoryVars   == <<trustVars, refreshVars, backoffVars>>
envVars      == <<link, commandVars>>
coordinatorVars == <<entryVars, taskVars, verdictVars, memoryVars, available>>
vars == <<coordinatorVars, clientVars, envVars>>

RecoveryState   == {"healthy", "recovering", "unavailable"}
FailureCategory == {"timeout", "communication", "validation", "unexpected"}
NoFailure       == "none"
Never           == -1     \* the age of what has not happened yet
Closing         == {"closeFailedConnect", "closeGiveUp", "closeToReconnect",
                    "closeFailedReconnect", "closeUnexpected"}
Sleeping        == {"retrySleep", "reconnectSleep"}
Connecting      == {"connecting", "detecting", "reconnecting", "redetecting"}
Labels          == {"idle", "reading"} \cup Sleeping \cup Connecting \cup Closing

\* A plant: has model detection filled it, does it pass _is_data_valid, and which of the
\* device's writes do its holding registers reflect; each counts as of a register of its own.
Plants     == [detected : BOOLEAN, sound : BOOLEAN, settings : SUBSET (1..MaxWrites)]
EmptyPlant == [detected |-> FALSE, sound |-> FALSE, settings |-> {}]

Older(age) == IF age \in {Never, AgeCap} THEN age ELSE age + 1

\* The locals of an update: whether async_request_refresh started it; the attempt; the
\* full_refresh argument of its read, and the device's writes when that read began;
\* whether the close in progress has a socket to wait for; "replaced" of
\* _reconnect_after_failure; and the category of the error that a failed connect raised.
Task   == [requested : BOOLEAN, attempt : 0..Attempts, full : BOOLEAN, from : 0..MaxWrites,
           hanging : BOOLEAN, redetect : BOOLEAN,
           cause : {"timeout", "communication", NoFailure}]
NoTask == [requested |-> FALSE, attempt |-> 0, full |-> FALSE, from |-> 0,
           hanging |-> FALSE, redetect |-> FALSE, cause |-> NoFailure]

\* What goes well over a good link may fail over a bad one.
Perhaps == IF link = "bad" THEN BOOLEAN ELSE {TRUE}

(***************************************************************************)
(* Recovery policy.                                                        *)
(***************************************************************************)
MutUnhealthyDurationExceeded == FALSE   \* mutant: the check is left out
UnhealthyDurationExceeded == trustedAge > MaxUnhealthy

MutTrustedSnapshotIsUsable == trustedAge # Never /\ trustedAge < SnapshotMaxAge   \* mutant
TrustedSnapshotIsUsable == trustedAge # Never /\ trustedAge <= SnapshotMaxAge

\* Mutants: the notification is never dismissed; "unavailable" is never left.
MutTransitionTo(s) == recovery' = s /\ notified' = (s = "unavailable" \/ notified)
MutLatchedTransitionTo(s) ==
    /\ recovery' = IF recovery = "unavailable" THEN recovery ELSE s
    /\ notified' = (s = "unavailable" \/ (notified /\ s = recovery))

TransitionTo(s) ==
    /\ recovery' = s
    /\ notified' = (s = "unavailable" \/ (notified /\ s = recovery))

\* Mutants: the category is not stored; every failure goes to "recovering".
MutRecordFailure(category) ==
    /\ recovery' = IF recovery = "healthy" THEN "recovering" ELSE recovery
    /\ UNCHANGED <<notified, lastFailure>>
MutAlwaysRecovering(category) ==
    /\ lastFailure' = category /\ recovery' = "recovering" /\ notified' = notified

RecordFailure(category) ==
    /\ lastFailure' = category
    /\ recovery' = IF recovery = "healthy" THEN "recovering" ELSE recovery
    /\ notified' = notified

RecordFailureAndGiveUp(category) ==
    /\ lastFailure' = category
    /\ TransitionTo("unavailable")

\* _accept_trusted_plant, where isFull is require_full_refresh as the code finds it.
AcceptTrustedPlant(plant, isFull) ==
    /\ trusted' = plant
    /\ cache' = plant
    /\ trustedAge' = 0
    /\ lastFailure' = NoFailure
    /\ TransitionTo("healthy")
    /\ requireFull' = FALSE
    /\ fullAge' = IF isFull THEN 0 ELSE fullAge

\* Mutant: the delay doubles without its maximum.
MutScheduleReconnectBackoff == untilReconnect' = backoff /\ backoff' = 2 * backoff

ScheduleReconnectBackoff ==
    /\ untilReconnect' = backoff
    /\ backoff' = IF 2 * backoff < BackoffMax THEN 2 * backoff ELSE BackoffMax

ResetReconnectBackoff ==
    /\ untilReconnect' = 0
    /\ backoff' = BackoffInitial

(***************************************************************************)
(* The update task.                                                        *)
(***************************************************************************)
\* Go on to the await at l with locals t.
Await(l, t) == pc' = l /\ task' = t /\ elapsed' = 0

\* refresh_plant is called with require_full_refresh as it is now.
BeginRead(t, isFull) ==
    Await("reading", [t EXCEPT !.full = isFull, !.from = device, !.hanging = FALSE,
                               !.redetect = FALSE])

\* _async_update_data has returned or raised; success is what HA makes of it.
EndUpdate(success) ==
    /\ Await("idle", NoTask)
    /\ available' = success

\* UpdateFailed.  HA discards a coordinator whose first refresh fails.
MutFailUpdate == EndUpdate(available) /\ UNCHANGED phase   \* mutant: old data is returned
FailUpdate ==
    /\ EndUpdate(FALSE)
    /\ phase' = IF phase = "setup" THEN "stopped" ELSE phase

\* The loop has ended without valid data (the code's last two statements).
GiveUp == TransitionTo("unavailable") /\ FailUpdate

\* _close_client up to its await; a client that is not connected closes at once.
MutBeginClose(l, t) == Await(l, [t EXCEPT !.hanging = connected]) /\ UNCHANGED connected
BeginClose(l, t) ==
    /\ Await(l, [t EXCEPT !.hanging = connected])
    /\ connected' = FALSE

\* The rest of _close_client: only a socket can fail to close, and then a new Client
\* replaces the old one.
MutEndClose(clean) ==   \* mutant: no timeout, so a socket that hangs is waited for
    /\ clean /\ (task.hanging => link = "good")
    /\ UNCHANGED clientVars
EndClose(clean) ==
    /\ ~clean => task.hanging
    /\ cache' = IF clean THEN cache ELSE EmptyPlant
    /\ connected' = (clean /\ connected)

\* "replaced" of _reconnect_after_failure.
MutReplaced(clean) == FALSE   \* mutant: a new client is not told from the old one
Replaced(clean) == ~clean

\* Settings the cache may hold once a read has had the answers that tell of the writes in
\* fresh: one connection delivers in order, so none is older than what the cache holds.
SettingsWith(fresh) ==
    IF task.full THEN {s \in SUBSET (1..device) : cache.settings \cup fresh \subseteq s}
                 ELSE {cache.settings}

\* A read that has had all its answers knows the writes that preceded it.
SettingsRead == SettingsWith(1..task.from)

\* A failed read may have stored some of its answers.
PartlyRead == \E s \in SettingsWith({}) : cache' = [cache EXCEPT !.settings = s]

\* A call over the network may fail.
MayFail == link = "bad" \/ (pc \notin {"connecting", "reconnecting"} /\ ~connected)

\* The loop's next iteration, or its end.
NextAttempt(isFull) ==
    IF task.attempt < Attempts
    THEN /\ BeginRead([task EXCEPT !.attempt = @ + 1], isFull)
         /\ UNCHANGED <<phase, recovery, notified, available>>
    ELSE GiveUp

MutFullRefreshDue == requireFull   \* mutant: no periodic full refresh
FullRefreshDue == requireFull \/ fullAge > FullRefreshInterval

StartRefresh(isRequested) ==
    /\ connected
    /\ requireFull' = FullRefreshDue
    /\ BeginRead([NoTask EXCEPT !.requested = isRequested, !.attempt = 1], FullRefreshDue)
    /\ UNCHANGED <<phase, fullAge, available>>

StartConnect(isRequested) ==
    /\ ~connected /\ untilReconnect = 0
    /\ Await("connecting", [NoTask EXCEPT !.requested = isRequested])
    /\ UNCHANGED <<phase, refreshVars, available>>

WaitForBackoff ==
    /\ ~connected /\ untilReconnect > 0
    /\ FailUpdate
    /\ UNCHANGED refreshVars

\* HA calls _async_update_data: for the first refresh, on its timer, or for a request.
StartUpdate ==
    /\ pc = "idle" /\ phase \in {"setup", "loaded"}
    /\ wanted' = FALSE
    /\ \E r \in {FALSE, wanted} : StartRefresh(r) \/ StartConnect(r) \/ WaitForBackoff
    /\ UNCHANGED <<clientVars, verdictVars, trustVars, backoffVars, envVars>>

\* client.connect() has returned and detect_plant begins: here one long full read, whose end is an
\* action of its own.
DetectPlant ==
    /\ \/ pc = "connecting" /\ pc' = "detecting"
       \/ pc = "reconnecting" /\ task.redetect /\ pc' = "redetecting"
    /\ task' = [task EXCEPT !.full = TRUE, !.from = device]
    /\ connected' = TRUE
    /\ UNCHANGED <<entryVars, elapsed, cache, verdictVars, memoryVars, available, envVars>>

\* _connect(detect=True) returns to _async_update_data, which publishes without validating.
ConnectOk ==
    /\ pc = "detecting" /\ connected
    /\ \E sound \in Perhaps, s \in SettingsRead :
          AcceptTrustedPlant([detected |-> TRUE, sound |-> sound, settings |-> s], TRUE)
    /\ ResetReconnectBackoff
    /\ EndUpdate(TRUE)
    /\ phase' = IF phase = "setup" THEN "loaded" ELSE phase
    /\ UNCHANGED <<wanted, connected, envVars>>

\* _connect returns to _reconnect_after_failure, which returns True.
ReconnectOk ==
    /\ \/ /\ pc = "reconnecting" /\ ~task.redetect
          /\ connected' = TRUE
          /\ UNCHANGED <<cache, requireFull>>
       \/ /\ pc = "redetecting" /\ connected
          /\ \E sound \in Perhaps, s \in SettingsRead :
                cache' = [detected |-> TRUE, sound |-> sound, settings |-> s]
          /\ requireFull' = TRUE
          /\ UNCHANGED connected
    /\ ResetReconnectBackoff
    /\ NextAttempt(requireFull')
    /\ UNCHANGED <<wanted, lastFailure, trustVars, fullAge, envVars>>

\* _connect raises TimeoutError, or any other error.
ConnectFailed ==
    /\ pc \in Connecting /\ MayFail
    /\ \/ /\ pc \in {"connecting", "detecting"}
          /\ \E category \in {"timeout", "communication"} :
                BeginClose("closeFailedConnect", [task EXCEPT !.cause = category])
       \/ /\ pc \in {"reconnecting", "redetecting"}
          /\ BeginClose("closeFailedReconnect", task)
    /\ IF pc \in {"detecting", "redetecting"} THEN PartlyRead ELSE UNCHANGED cache
    /\ UNCHANGED <<entryVars, verdictVars, memoryVars, available, envVars>>

ClosedFailedConnect ==
    /\ pc = "closeFailedConnect"
    /\ \E clean \in Perhaps : EndClose(clean)
    /\ RecordFailureAndGiveUp(task.cause)
    /\ ScheduleReconnectBackoff
    /\ FailUpdate
    /\ UNCHANGED <<wanted, trustVars, refreshVars, envVars>>

ClosedFailedReconnect ==
    /\ pc = "closeFailedReconnect"
    /\ \E clean \in Perhaps : EndClose(clean)
    /\ ScheduleReconnectBackoff
    /\ GiveUp
    /\ UNCHANGED <<wanted, lastFailure, trustVars, refreshVars, envVars>>

\* A read answers with data that _is_data_valid accepts.
ReadOk ==
    /\ pc = "reading" /\ connected
    /\ \E s \in SettingsRead :
          AcceptTrustedPlant([cache EXCEPT !.sound = TRUE, !.settings = s], requireFull)
    /\ EndUpdate(TRUE)
    /\ UNCHANGED <<entryVars, connected, backoffVars, envVars>>

\* A read raises ValueError, or answers with data that _is_data_valid refuses.
ReadCorrupt ==
    /\ pc = "reading" /\ connected /\ link = "bad"
    /\ IF TrustedSnapshotIsUsable
       THEN cache' = trusted
       ELSE \E s \in SettingsWith({}) : cache' = [cache EXCEPT !.sound = FALSE, !.settings = s]
    /\ IF UnhealthyDurationExceeded
       THEN /\ RecordFailureAndGiveUp("validation")
            /\ FailUpdate
       ELSE /\ RecordFailure("validation")
            /\ Await("retrySleep", task)
            /\ UNCHANGED <<phase, available>>
    /\ UNCHANGED <<wanted, connected, memoryVars, envVars>>

\* A read raises TimeoutError or CommunicationError.
ReadFailed ==
    /\ pc = "reading" /\ MayFail
    /\ PartlyRead
    /\ \E category \in {"timeout", "communication"} : RecordFailure(category)
    /\ BeginClose(IF UnhealthyDurationExceeded THEN "closeGiveUp" ELSE "closeToReconnect", task)
    /\ UNCHANGED <<entryVars, memoryVars, available, envVars>>

\* A read raises anything else.
ReadUnexpected ==
    /\ pc = "reading" /\ link = "bad"
    /\ PartlyRead
    /\ RecordFailureAndGiveUp("unexpected")
    /\ BeginClose("closeUnexpected", task)
    /\ UNCHANGED <<entryVars, memoryVars, available, envVars>>

ClosedGiveUp ==
    /\ pc = "closeGiveUp"
    /\ \E clean \in Perhaps : EndClose(clean)
    /\ GiveUp
    /\ UNCHANGED <<wanted, lastFailure, memoryVars, envVars>>

ClosedUnexpected ==
    /\ pc = "closeUnexpected"
    /\ \E clean \in Perhaps : EndClose(clean)
    /\ FailUpdate
    /\ UNCHANGED <<wanted, verdictVars, memoryVars, envVars>>

ClosedToReconnect ==
    /\ pc = "closeToReconnect"
    /\ \E clean \in Perhaps :
          /\ EndClose(clean)
          /\ Await("reconnectSleep", [task EXCEPT !.redetect = Replaced(clean)])
    /\ UNCHANGED <<entryVars, verdictVars, memoryVars, available, envVars>>

ReconnectWake ==
    /\ pc = "reconnectSleep" /\ elapsed = RetryDelay
    /\ Await("reconnecting", task)
    /\ UNCHANGED <<entryVars, clientVars, verdictVars, memoryVars, available, envVars>>

RetryWake ==
    /\ pc = "retrySleep" /\ elapsed = RetryDelay
    /\ NextAttempt(requireFull)
    /\ UNCHANGED <<wanted, clientVars, lastFailure, memoryVars, envVars>>

\* The client's close() cancels a request that waits in its queue (or a leftover request
\* cancels this one): CancelledError is no Exception, no handler runs, and the update ends
\* without a verdict.
UpdateCancelled ==
    /\ MayCancel /\ link = "bad"
    /\ pc \in {"reading", "detecting", "redetecting"}
    /\ PartlyRead
    /\ connected' \in {FALSE, pc = "reading" /\ connected}
    /\ EndUpdate(available)
    /\ phase' = IF phase = "setup" THEN "stopped" ELSE phase
    /\ UNCHANGED <<wanted, verdictVars, memoryVars, envVars>>

UpdateStep ==
    \/ StartUpdate \/ DetectPlant \/ ConnectOk \/ ReconnectOk \/ ConnectFailed
    \/ ClosedFailedConnect \/ ClosedFailedReconnect
    \/ ReadOk \/ ReadCorrupt \/ ReadFailed \/ ReadUnexpected
    \/ ClosedGiveUp \/ ClosedUnexpected \/ ClosedToReconnect
    \/ ReconnectWake \/ RetryWake \/ UpdateCancelled

(***************************************************************************)
(* Commands: execute(), and what Client.execute does for it.               *)
(***************************************************************************)
\* execute() is called; unless the coordinator is healthy it raises and changes nothing.
Execute(c) ==
    /\ phase = "loaded" /\ recovery = "healthy" /\ cmd[c] = "none"
    /\ cmd' = [cmd EXCEPT ![c] = "sending"]
    /\ UNCHANGED <<coordinatorVars, clientVars, link, device, writeVars, owed>>

\* A write frame, of the batch or of one that has already failed, is sent and the inverter
\* applies it.  (A retry that changes nothing is no write of its own.)
ApplyWrite(c) ==
    /\ cmd[c] \in {"sending", "sent", "leftover"} /\ connected /\ device < MaxWrites
    /\ device' = device + 1
    /\ cmd' = [cmd EXCEPT ![c] = IF @ = "sending" THEN "sent" ELSE @]
    /\ unanswered' = [unanswered EXCEPT ![c] = @ \cup {device'}]
    /\ UNCHANGED <<coordinatorVars, clientVars, link, acked, owed>>

\* The consumer resolves the future of a write that was answered and stores its register in
\* the plant; that may have been the last answer the call was waiting for.
WriteAnswered(c) ==
    /\ connected /\ cmd[c] \in {"sent", "leftover"}
    /\ \E w \in unanswered[c] :
          /\ unanswered' = [unanswered EXCEPT ![c] = @ \ {w}]
          /\ acked' = [acked EXCEPT ![c] = @ \cup {w}]
          /\ cache' = [cache EXCEPT !.settings = @ \cup {w}]
    /\ \/ cmd' = cmd
       \/ /\ cmd[c] = "sent" /\ unanswered'[c] = {}
          /\ cmd' = [cmd EXCEPT ![c] = "answered"]
    /\ UNCHANGED <<coordinatorVars, connected, link, device, owed>>

\* The writes of a call are forgotten with it.
ForgetWrites(c) ==
    /\ unanswered' = [unanswered EXCEPT ![c] = {}]
    /\ acked' = [acked EXCEPT ![c] = {}]

\* Every request was answered: ask for a full read, and for an update.  HA drops the
\* request for an update while one is running, or keeps it for its debouncer.
ExecuteOk(c) ==
    /\ cmd[c] = "answered"
    /\ cmd' = [cmd EXCEPT ![c] = "none"]
    /\ requireFull' = TRUE
    /\ wanted' \in {TRUE, pc = "idle" \/ wanted}
    /\ owed' = owed \cup acked[c]
    /\ ForgetWrites(c)
    /\ UNCHANGED <<phase, taskVars, clientVars, link, verdictVars, trustVars, fullAge, backoffVars, available, device>>

\* A request failed (its encoding may refuse it), or _EXECUTE_TIMEOUT passed: the caller gets
\* an error at once.  After a failure gather leaves the rest of the batch running.  An answer
\* that comes when no call waits for it is one of RelayedRead's.
ExecuteFailed(c) ==
    /\ cmd[c] \in {"sending", "sent", "answered"}
    /\ \/ /\ cmd' = [cmd EXCEPT ![c] = "leftover"]
          /\ UNCHANGED writeVars
       \/ /\ cmd' = [cmd EXCEPT ![c] = "none"]
          /\ ForgetWrites(c)
    /\ UNCHANGED <<coordinatorVars, clientVars, link, device, owed>>

LeftoverEnds(c) ==
    /\ cmd[c] = "leftover"
    /\ cmd' = [cmd EXCEPT ![c] = "none"]
    /\ ForgetWrites(c)
    /\ UNCHANGED <<coordinatorVars, clientVars, link, device, owed>>

CommandStep ==
    \E c \in Commands : \/ Execute(c) \/ ApplyWrite(c) \/ WriteAnswered(c)
                       \/ ExecuteOk(c) \/ ExecuteFailed(c) \/ LeftoverEnds(c)

(***************************************************************************)
(* Unloading the entry, the client's own tasks, the network and time.      *)
(***************************************************************************)
\* async_shutdown has closed the client.  HA runs it once more, as an on-unload callback of
\* the entry, and cancels an update that its timer, not a request, started.
UnloadEnds(clean) ==
    /\ phase' = "stopped"
    /\ cache' = IF clean THEN cache ELSE EmptyPlant
    /\ connected' = FALSE
    /\ IF task.requested THEN UNCHANGED <<taskVars, available>> ELSE EndUpdate(available)

\* async_unload_entry calls async_shutdown: no further update starts; the client closes.
Shutdown ==
    /\ phase = "loaded"
    /\ IF connected
       THEN /\ phase' = "stopping"
            /\ connected' = FALSE
            /\ UNCHANGED <<taskVars, cache, available>>
       ELSE UnloadEnds(TRUE)
    /\ UNCHANGED <<wanted, verdictVars, memoryVars, envVars>>

ShutdownClosed ==
    /\ phase = "stopping"
    /\ \E clean \in Perhaps : UnloadEnds(clean)
    /\ UNCHANGED <<wanted, verdictVars, memoryVars, envVars>>

\* The client's tasks find the connection at its end and close it.
ConnectionLost ==
    /\ connected /\ link = "bad"
    /\ connected' = FALSE
    /\ UNCHANGED <<coordinatorVars, cache, envVars>>

\* The dongle also relays reads of the cloud and the app, which update client.plant, as
\* late answers do.
RelayedRead ==
    /\ connected
    /\ \E s \in SUBSET ((1..device) \ cache.settings) \ {{}} :
          cache' = [cache EXCEPT !.settings = @ \cup s]
    /\ UNCHANGED <<coordinatorVars, connected, envVars>>

LinkChanges ==
    /\ link' = IF link = "good" THEN "bad" ELSE "good"
    /\ UNCHANGED <<coordinatorVars, clientVars, commandVars>>

Limit ==
    CASE pc = "reading"       -> RefreshTimeout
      [] pc \in Sleeping      -> RetryDelay
      [] pc \in Connecting    -> ConnectTimeout
      [] pc \in Closing       -> IF task.hanging THEN CloseTimeout ELSE 0
      [] pc = "idle"          -> IF phase = "loaded" THEN PollInterval ELSE 0

Stopped == pc = "idle" /\ phase \in {"stopping", "stopped"}

\* A call whose last answer has come resumes before time passes.
Tick ==
    /\ elapsed < Limit \/ Stopped
    /\ \A c \in Commands : cmd[c] # "answered"
    /\ elapsed' = IF Stopped THEN elapsed ELSE elapsed + 1
    /\ trustedAge' = Older(trustedAge)
    /\ fullAge' = Older(fullAge)
    /\ untilReconnect' = IF untilReconnect = 0 THEN 0 ELSE untilReconnect - 1
    /\ UNCHANGED <<entryVars, pc, task, clientVars, verdictVars, trusted, requireFull, backoff, available, envVars>>

Init ==
    /\ phase = "setup" /\ wanted = FALSE
    /\ pc = "idle" /\ task = NoTask /\ elapsed = 0
    /\ connected = FALSE /\ cache = EmptyPlant
    /\ link \in {"good", "bad"}
    /\ recovery = "unavailable" /\ lastFailure = NoFailure
    /\ notified \in BOOLEAN   \* one of an earlier coordinator of the entry may remain
    /\ trusted = EmptyPlant /\ trustedAge = Never
    /\ requireFull = TRUE /\ fullAge = Never
    /\ backoff = BackoffInitial /\ untilReconnect = 0
    /\ available = TRUE
    /\ device = 0 /\ owed = {}
    /\ cmd = [c \in Commands |-> "none"]
    /\ unanswered = [c \in Commands |-> {}] /\ acked = [c \in Commands |-> {}]

Next == UpdateStep \/ CommandStep \/ Shutdown \/ ShutdownClosed \/ ConnectionLost
          \/ RelayedRead \/ LinkChanges \/ Tick

\* The event loop runs every task that can run, and time passes.
Fairness ==
    /\ WF_vars(UpdateStep) /\ WF_vars(ShutdownClosed) /\ WF_vars(Tick)
    /\ WF_vars(\E c \in Commands : ExecuteOk(c))

Spec == Init /\ [][Next]_vars /\ Fairness

(***************************************************************************)
(* Properties.                                                             *)
(***************************************************************************)
TaskOK ==
    /\ phase \in {"setup", "loaded", "stopping", "stopped"} /\ wanted \in BOOLEAN
    /\ pc \in Labels /\ task \in Task /\ task.from <= device /\ elapsed \in Nat

ClientOK == connected \in BOOLEAN /\ cache \in Plants /\ cache.settings \subseteq 1..device

VerdictOK ==
    /\ recovery \in RecoveryState /\ lastFailure \in FailureCategory \cup {NoFailure}
    /\ notified \in BOOLEAN /\ available \in BOOLEAN

MemoryOK ==
    /\ trusted \in Plants /\ trusted.settings \subseteq 1..device
    /\ trustedAge \in {Never} \cup 0..AgeCap
    /\ requireFull \in BOOLEAN /\ fullAge \in {Never} \cup 0..AgeCap
    /\ backoff \in 1..BackoffMax /\ untilReconnect \in 0..BackoffMax

CommandOK ==
    /\ link \in {"good", "bad"} /\ device \in 0..MaxWrites /\ owed \subseteq 1..device
    /\ cmd \in [Commands -> {"none", "sending", "sent", "answered", "leftover"}]
    /\ unanswered \in [Commands -> SUBSET (1..device)] /\ acked \in [Commands -> SUBSET (1..device)]

TypeOK == TaskOK /\ ClientOK /\ VerdictOK /\ MemoryOK /\ CommandOK

\* No socket is handed to the dongle while a backoff delay runs: nothing is connected, no
\* update is connecting, and the coordinator counts as unavailable.
BackoffIsQuiet ==
    untilReconnect > 0 => ~connected /\ pc \notin Connecting /\ recovery = "unavailable"

\* A refresh only ever reads through a client whose plant has been detected, also after a
\* client was abandoned and replaced; and it never compares the initial last_full_refresh
\* (a naive datetime, which Python refuses to compare) with the clock.
ReadsKnownPlant ==
    phase = "loaded" /\ pc \in {"reading", "retrySleep"} => cache.detected /\ trusted.detected /\ fullAge # Never

\* Whenever no update runs, the entities are unavailable exactly while the recovery state
\* is "unavailable", however the last update ended.
AvailabilityMatchesState ==
    phase = "loaded" /\ pc = "idle" => (available <=> recovery # "unavailable")

\* Once loaded, the troubleshooting notification is shown exactly while the state is
\* "unavailable", whatever an earlier coordinator of the entry left behind.
NotificationMatchesState ==
    phase = "loaded" => (notified <=> recovery = "unavailable")

\* A reason is recorded exactly while the coordinator is not healthy, and a recovering
\* coordinator has data it once trusted.
FailureMatchesState ==
    phase = "loaded" =>
        /\ lastFailure = NoFailure <=> recovery = "healthy"
        /\ trustedAge # Never

\* docs/troubleshooting.md:42 "If recovery does not succeed within the retry window, entities
\* become `unavailable`."  How old published data may become before that: a failure within
\* _MAX_UNHEALTHY_DURATION may still be followed by a close, a sleep, a connection, one
\* more read and a close, each as long as its timeout.
StaleDataBounded ==
    phase = "loaded" /\ available =>
        \/ trustedAge <= MaxUnhealthy + CloseTimeout + RetryDelay + ConnectTimeout
                           + RefreshTimeout + CloseTimeout
        \/ trustedAge <= PollInterval + RefreshTimeout + CloseTimeout
        \/ trustedAge <= PollInterval + ConnectTimeout + CloseTimeout

\* Published settings never go back to older ones, whatever snapshot was restored and
\* whichever client was replaced.
SettingsNeverRegress == [][phase = "loaded" => trusted.settings \subseteq trusted'.settings]_vars

\* A read that is retried after corrupt data starts again from the trusted snapshot.
RetryFromSnapshot == [][pc = "reading" /\ pc' = "retrySleep" => cache' = trusted]_vars

\* Every update ends, however the network behaves.
UpdateTerminates == pc # "idle" ~> pc = "idle"

GoodForever == <>[](link = "good" /\ phase = "loaded")

\* When the network stays good the coordinator returns to healthy, and stays there.
Recovers == GoodForever => <>[](recovery = "healthy" /\ available)

\* When the network stays good, the published settings converge to the device's, also if
\* the full read that a command asked for was lost.
SettingsConverge == GoodForever => <>[](trusted.settings = 1..device)

Policy == INSTANCE RecoveryPolicy WITH
    stage  <- CASE phase = "setup" -> "starting" [] phase = "loaded" -> "serving"
                [] OTHER -> "ended",
    status <- recovery, shown <- available, alert <- notified

\* The coordinator implements the policy its users see: see RecoveryPolicy.
ImplementsPolicy == Policy!PolicySpec

\* coordinator.py:349 "Accept a fully validated plant as the trusted coordinator snapshot."
PublishedIsValidated == phase = "loaded" => trusted.sound

\* coordinator.py:611 "force an update to read any new values": a full read stays required
\* until the published settings show every write of the commands that succeeded.
ForcedReadIsKept == phase = "loaded" => requireFull \/ owed \subseteq trusted.settings

\* coordinator.py:167 "Terminate the modbus connection and shut down the coordinator."
ShutdownDisconnects == phase = "stopped" /\ pc = "idle" => ~connected

=============================================================================
