------------------------- MODULE CoordinatorProofs -------------------------
(***************************************************************************)
(* Theorems about Coordinator, for every number of commands, attempts and  *)
(* writes and every choice of the durations that CoordinatorAssumption     *)
(* allows.                                                                 *)
(*                                                                         *)
(* None of the properties is inductive by itself: whether entities match   *)
(* the state depends on no update ever waiting out a backoff while it is   *)
(* healthy, which depends on where the update can be when a backoff is     *)
(* scheduled, and so on.  IInv collects what holds at each await.          *)
(***************************************************************************)
EXTENDS Coordinator, TLAPS

\* Awaits at which the running update has already recorded a failure.
Failed == {"retrySleep", "closeGiveUp", "closeToReconnect", "reconnectSleep", "reconnecting",
           "redetecting", "closeFailedReconnect"}

\* Before the first publication only the first connection has run.
SetupInv ==
    phase = "setup" =>
        /\ pc \in {"idle", "connecting", "detecting", "closeFailedConnect"}
        /\ pc # "detecting" => ~connected
        /\ recovery = "unavailable"

\* Nothing is connected while a close is in progress, and a failed connect has a category.
CloseInv ==
    /\ pc \in Closing => ~connected
    /\ pc = "closeFailedConnect" => task.cause # NoFailure
    /\ pc = "closeUnexpected" => recovery = "unavailable"

\* A delay is only ever scheduled as an update ends, and outlives no connection.
BackoffInv == untilReconnect > 0 => pc = "idle" /\ ~connected /\ recovery = "unavailable"

\* The verdict, its reason, its notification and the entities agree.
VerdictInv ==
    /\ pc \in Failed => recovery # "healthy"
    /\ pc \in Failed \cup {"reading"} => trustedAge # Never
    /\ phase = "loaded" =>
          /\ notified <=> recovery = "unavailable"
          /\ lastFailure = NoFailure <=> recovery = "healthy"
          /\ trustedAge # Never
          /\ pc # "closeUnexpected" => (available <=> recovery # "unavailable")

\* The client's plant is detected and at least as new as the published one.
CacheCurrent == cache.detected /\ trusted.settings \subseteq cache.settings

CacheInv ==
    /\ trusted.settings \subseteq 1..device /\ cache.settings \subseteq 1..device
    /\ pc \in {"detecting", "redetecting"} => task.full /\ trusted.settings \subseteq 1..task.from
    /\ phase = "loaded" =>
          /\ trusted.detected /\ fullAge # Never
          /\ pc \in {"reading", "retrySleep", "closeToReconnect"} => CacheCurrent
          /\ pc \in {"reconnectSleep", "reconnecting"} /\ ~task.redetect => CacheCurrent
          /\ pc = "idle" /\ connected => CacheCurrent

IInv == TypeOK /\ SetupInv /\ CloseInv /\ BackoffInv /\ VerdictInv /\ CacheInv



(***************************************************************************)
(* Lemmas about the constants and the records.                             *)
(***************************************************************************)
LEMMA Bounds ==
    /\ MaxWrites \in Nat /\ AgeCap \in Nat /\ AgeCap > 0 /\ Attempts \in Nat /\ Attempts > 0
    /\ BackoffMax \in Nat /\ BackoffInitial \in 1..BackoffMax
    /\ MaxUnhealthy \in Nat /\ SnapshotMaxAge \in Nat /\ MaxUnhealthy <= SnapshotMaxAge
  BY CoordinatorAssumption

LEMMA EmptyPlantType == EmptyPlant \in Plants /\ EmptyPlant.settings = {}
  BY Bounds DEF Plants, EmptyPlant

LEMMA PlantSettings == ASSUME NEW p \in Plants PROVE p.settings \in SUBSET (1..MaxWrites)
  BY DEF Plants

LEMMA NewPlant ==
    ASSUME NEW o \in BOOLEAN, NEW n \in SUBSET (1..MaxWrites)
    PROVE  /\ [detected |-> TRUE, sound |-> o, settings |-> n] \in Plants
           /\ [detected |-> TRUE, sound |-> o, settings |-> n].settings = n
           /\ [detected |-> TRUE, sound |-> o, settings |-> n].detected
  <1>1. [detected |-> TRUE, sound |-> o, settings |-> n] \in Plants
    BY DEF Plants
  <1> QED  BY <1>1

LEMMA PlantUpdate ==
    ASSUME NEW p \in Plants, NEW o \in BOOLEAN, NEW n \in SUBSET (1..MaxWrites)
    PROVE  /\ [p EXCEPT !.settings = n] \in Plants
           /\ [p EXCEPT !.settings = n].settings = n
           /\ [p EXCEPT !.settings = n].detected = p.detected
           /\ [p EXCEPT !.sound = o, !.settings = n] \in Plants
           /\ [p EXCEPT !.sound = o, !.settings = n].settings = n
           /\ [p EXCEPT !.sound = o, !.settings = n].detected = p.detected
  BY DEF Plants

LEMMA NoTaskType == NoTask \in Task /\ NoTask.from = 0 /\ NoTask.attempt = 0
  <1>1. NoTask \in Task
    BY Bounds DEF Task, NoTask, NoFailure
  <1> QED  BY <1>1 DEF NoTask

LEMMA TaskFields ==
    ASSUME NEW t \in Task
    PROVE  t.from \in 0..MaxWrites /\ t.attempt \in 0..Attempts
  BY DEF Task

LEMMA NewTask ==
    ASSUME NEW r \in BOOLEAN
    PROVE  /\ [NoTask EXCEPT !.requested = r] \in Task
           /\ [NoTask EXCEPT !.requested = r].from = 0
           /\ [NoTask EXCEPT !.requested = r, !.attempt = 1] \in Task
  <1>1. [NoTask EXCEPT !.requested = r] \in Task /\ [NoTask EXCEPT !.requested = r].from = 0
    BY NoTaskType DEF Task
  <1>2. [NoTask EXCEPT !.requested = r, !.attempt = 1] \in Task
    <2>1. 1 \in 0..Attempts
      BY Bounds
    <2> QED  BY <2>1, NoTaskType DEF Task
  <1> QED  BY <1>1, <1>2

LEMMA TaskReading ==
    ASSUME NEW t \in Task, NEW f \in BOOLEAN, NEW n \in 0..MaxWrites
    PROVE  /\ [t EXCEPT !.full = f, !.from = n, !.hanging = FALSE, !.redetect = FALSE] \in Task
           /\ [t EXCEPT !.full = f, !.from = n, !.hanging = FALSE, !.redetect = FALSE].from = n
  BY DEF Task

LEMMA TaskDetecting ==
    ASSUME NEW t \in Task, NEW n \in 0..MaxWrites
    PROVE  /\ [t EXCEPT !.full = TRUE, !.from = n] \in Task
           /\ [t EXCEPT !.full = TRUE, !.from = n].from = n
           /\ [t EXCEPT !.full = TRUE, !.from = n].full
           /\ [t EXCEPT !.full = TRUE, !.from = n].redetect = t.redetect
  BY DEF Task

LEMMA TaskClosing ==
    ASSUME NEW t \in Task, NEW h \in BOOLEAN
    PROVE  /\ [t EXCEPT !.hanging = h] \in Task
           /\ [t EXCEPT !.hanging = h].from = t.from
           /\ [t EXCEPT !.hanging = h].cause = t.cause
  BY DEF Task

LEMMA TaskRedetect ==
    ASSUME NEW t \in Task, NEW r \in BOOLEAN
    PROVE  /\ [t EXCEPT !.redetect = r] \in Task
           /\ [t EXCEPT !.redetect = r].from = t.from
           /\ [t EXCEPT !.redetect = r].redetect = r
  BY DEF Task

LEMMA TaskCause ==
    ASSUME NEW t \in Task, NEW c \in {"timeout", "communication"}
    PROVE  /\ [t EXCEPT !.cause = c] \in Task
           /\ [t EXCEPT !.cause = c].from = t.from
           /\ [t EXCEPT !.cause = c].cause = c
  BY DEF Task

LEMMA TaskAttempt ==
    ASSUME NEW t \in Task, t.attempt < Attempts
    PROVE  [t EXCEPT !.attempt = @ + 1] \in Task
  BY Bounds DEF Task

(***************************************************************************)
(* Lemmas about the operators the actions are built from.                  *)
(***************************************************************************)
\* What a read delivers lies between what the client's plant holds and the device.
LEMMA SettingsWithRange ==
    ASSUME CommandOK, NEW fresh, ClientOK, NEW s \in SettingsWith(fresh)
    PROVE  /\ s \subseteq 1..device /\ s \in SUBSET (1..MaxWrites) /\ cache.settings \subseteq s
           /\ task.full => fresh \subseteq s
  <1>1. cache.settings \subseteq 1..device
    BY DEF ClientOK
  <1>2. 1..device \subseteq 1..MaxWrites
    BY Bounds DEF CommandOK
  <1>3. s \subseteq 1..device /\ cache.settings \subseteq s /\ (task.full => fresh \subseteq s)
    BY <1>1 DEF SettingsWith
  <1> QED  BY <1>2, <1>3

LEMMA SettingsReadRange ==
    ASSUME TaskOK, ClientOK, CommandOK, NEW s \in SettingsRead
    PROVE  /\ s \subseteq 1..device /\ s \in SUBSET (1..MaxWrites) /\ cache.settings \subseteq s
           /\ task.full => 1..task.from \subseteq s
  BY SettingsWithRange DEF SettingsRead

\* A failed read leaves a detected plant detected, and never takes settings back.
LEMMA PartlyReadEffect ==
    ASSUME TaskOK, ClientOK, CommandOK, PartlyRead
    PROVE  /\ cache' \in Plants /\ cache'.settings \subseteq 1..device
           /\ cache.settings \subseteq cache'.settings
           /\ cache'.detected = cache.detected
  <1>1. PICK s \in SettingsWith({}) : cache' = [cache EXCEPT !.settings = s]
    BY DEF PartlyRead
  <1>2. s \in SUBSET (1..MaxWrites) /\ s \subseteq 1..device /\ cache.settings \subseteq s
    BY SettingsWithRange
  <1>3. [cache EXCEPT !.settings = s] \in Plants /\ [cache EXCEPT !.settings = s].settings = s
          /\ [cache EXCEPT !.settings = s].detected = cache.detected
    BY <1>2, PlantUpdate DEF ClientOK
  <1> QED  BY <1>1, <1>2, <1>3

\* The next attempt reads again, or the update ends unavailable.
LEMMA NextAttemptEffect ==
    ASSUME TaskOK, CommandOK, NEW f \in BOOLEAN, NextAttempt(f)
    PROVE  /\ elapsed' = 0 /\ task' \in Task /\ task'.from <= device
           /\ \/ pc' = "reading" /\ UNCHANGED <<phase, recovery, notified, available>>
              \/ /\ pc' = "idle" /\ recovery' = "unavailable" /\ notified' = TRUE
                 /\ available' = FALSE
                 /\ phase' = IF phase = "setup" THEN "stopped" ELSE phase
  <1>1. device \in 0..MaxWrites /\ task \in Task
    BY DEF TaskOK, CommandOK
  <1>2. CASE task.attempt < Attempts
    <2> DEFINE t == [task EXCEPT !.attempt = @ + 1]
    <2>1. t \in Task
      BY <1>1, <1>2, TaskAttempt
    <2>2. task' = [t EXCEPT !.full = f, !.from = device, !.hanging = FALSE, !.redetect = FALSE]
            /\ pc' = "reading" /\ elapsed' = 0
            /\ UNCHANGED <<phase, recovery, notified, available>>
      BY <1>2 DEF NextAttempt, BeginRead, Await
    <2> HIDE DEF t
    <2>3. task' \in Task /\ task'.from = device
      BY <1>1, <2>1, <2>2, TaskReading
    <2> QED  BY <1>1, <2>2, <2>3, Bounds
  <1>3. CASE ~(task.attempt < Attempts)
    <2>1. GiveUp
      BY <1>3 DEF NextAttempt
    <2>2. pc' = "idle" /\ task' = NoTask /\ elapsed' = 0 /\ available' = FALSE
            /\ phase' = IF phase = "setup" THEN "stopped" ELSE phase
      BY <2>1 DEF GiveUp, FailUpdate, EndUpdate, Await
    <2>3. recovery' = "unavailable" /\ notified' = TRUE
      BY <2>1 DEF GiveUp, TransitionTo
    <2> QED  BY <1>1, <2>2, <2>3, NoTaskType, Bounds
  <1> QED  BY <1>2, <1>3

\* A close in progress ends with nothing connected and the plant kept or dropped.
LEMMA EndCloseEffect ==
    ASSUME ClientOK, CommandOK, ~connected, NEW clean \in BOOLEAN, EndClose(clean)
    PROVE  /\ connected' = FALSE /\ cache' \in Plants /\ cache'.settings \subseteq 1..device
           /\ clean => cache' = cache
  <1>1. connected' = FALSE /\ (clean => cache' = cache)
    BY DEF EndClose
  <1>2. CASE cache' = cache
    BY <1>1, <1>2 DEF ClientOK
  <1>3. CASE cache' = EmptyPlant
    BY <1>1, <1>3, EmptyPlantType, Bounds DEF CommandOK
  <1>4. cache' = cache \/ cache' = EmptyPlant
    BY DEF EndClose
  <1> QED  BY <1>2, <1>3, <1>4

(***************************************************************************)
(* Every action preserves IInv.  Each lemma first states what the action   *)
(* does to the variables, then why each part of the invariant survives.    *)
(***************************************************************************)
\* Steps of commands, of the link and of nobody leave the coordinator and its client alone.
LEMMA OutsideStep ==
    ASSUME IInv, UNCHANGED <<coordinatorVars, clientVars>>, device' >= device, CommandOK'
    PROVE  IInv'
  <1>1. UNCHANGED <<phase, wanted, pc, task, elapsed, connected, cache, recovery, lastFailure,
                    notified, trusted, trustedAge, requireFull, fullAge, backoff,
                    untilReconnect, available>>
    BY DEF coordinatorVars, clientVars, entryVars, taskVars, verdictVars, memoryVars, trustVars,
           refreshVars, backoffVars
  <1>2. device \in Nat /\ device' \in Nat
    BY Bounds DEF IInv, TypeOK, CommandOK
  <1>3. task.from \in Nat /\ 1..device \subseteq 1..device'
    BY <1>2, Bounds, TaskFields DEF IInv, TypeOK, TaskOK
  <1>4. TaskOK'
    BY <1>1, <1>2, <1>3 DEF IInv, TypeOK, TaskOK
  <1>5. ClientOK' /\ MemoryOK'
    BY <1>1, <1>2, <1>3 DEF IInv, TypeOK, ClientOK, MemoryOK
  <1>6. VerdictOK' /\ SetupInv' /\ CloseInv' /\ BackoffInv' /\ VerdictInv'
    BY <1>1 DEF IInv, TypeOK, VerdictOK, SetupInv, CloseInv, BackoffInv, VerdictInv
  <1>7. CacheInv'
    BY <1>1, <1>2, <1>3 DEF IInv, CacheInv, CacheCurrent
  <1> QED  BY <1>4, <1>5, <1>6, <1>7 DEF IInv, TypeOK

\* The settings an answer or a relayed read adds are the device's: the plant stays current.
LEMMA KnownSettingsInv ==
    ASSUME IInv, NEW w \in SUBSET (1..device),
           cache' = [cache EXCEPT !.settings = @ \cup w], CommandOK',
           UNCHANGED <<coordinatorVars, connected, device>>
    PROVE  IInv'
  <1>1. UNCHANGED <<phase, pc, task, elapsed, available, wanted, recovery, lastFailure,
                    notified, trusted, trustedAge, requireFull, fullAge, backoff,
                    untilReconnect>>
    BY DEF coordinatorVars, entryVars, taskVars, verdictVars, memoryVars, trustVars,
           refreshVars, backoffVars
  <1>2. cache.settings \cup w \in SUBSET (1..device)
    BY DEF IInv, TypeOK, ClientOK
  <1>3. cache.settings \cup w \in SUBSET (1..MaxWrites)
    BY <1>2, Bounds DEF IInv, TypeOK, CommandOK
  <1>4. cache' = [cache EXCEPT !.settings = cache.settings \cup w] /\ cache \in Plants
    BY DEF IInv, TypeOK, ClientOK, Plants
  <1>5. cache' \in Plants /\ cache'.settings = cache.settings \cup w
          /\ cache'.detected = cache.detected
    <2> DEFINE n == cache.settings \cup w
    <2>1. n \in SUBSET (1..MaxWrites) /\ cache' = [cache EXCEPT !.settings = n]
      BY <1>3, <1>4
    <2> HIDE DEF n
    <2>2. [cache EXCEPT !.settings = n] \in Plants /\ [cache EXCEPT !.settings = n].settings = n
            /\ [cache EXCEPT !.settings = n].detected = cache.detected
      BY <1>4, <2>1, PlantUpdate
    <2> QED  BY <2>1, <2>2 DEF n
  <1>6. ClientOK'
    BY <1>2, <1>5 DEF IInv, TypeOK, ClientOK
  <1>7. TaskOK' /\ VerdictOK' /\ MemoryOK'
    BY <1>1 DEF IInv, TypeOK, TaskOK, VerdictOK, MemoryOK
  <1>8. SetupInv' /\ CloseInv' /\ BackoffInv' /\ VerdictInv'
    BY <1>1 DEF IInv, SetupInv, CloseInv, BackoffInv, VerdictInv
  <1>9. CacheInv'
    <2>1. CacheCurrent => CacheCurrent'
      BY <1>1, <1>5 DEF CacheCurrent
    <2>2. trusted'.settings \subseteq 1..device' /\ cache'.settings \subseteq 1..device'
      BY <1>1, <1>2, <1>5 DEF IInv, CacheInv
    <2> QED  BY <1>1, <2>1, <2>2 DEF IInv, CacheInv
  <1> QED  BY <1>6, <1>7, <1>8, <1>9 DEF IInv, TypeOK

LEMMA CommandStepInv == ASSUME IInv, CommandStep PROVE IInv'
  <1>1. PICK c \in Commands : \/ Execute(c) \/ ApplyWrite(c) \/ WriteAnswered(c)
                              \/ ExecuteOk(c) \/ ExecuteFailed(c) \/ LeftoverEnds(c)
    BY DEF CommandStep
  <1>2. CommandOK /\ device \in Nat /\ device \in 0..MaxWrites
    BY Bounds DEF IInv, TypeOK, CommandOK
  <1>3. CASE Execute(c) \/ ExecuteFailed(c) \/ LeftoverEnds(c)
    <2>1. device' = device /\ owed' = owed /\ link' = link
      BY <1>3 DEF Execute, ExecuteFailed, LeftoverEnds
    <2>2. cmd' \in [Commands -> {"none", "sending", "sent", "answered", "leftover"}]
      BY <1>2, <1>3 DEF Execute, ExecuteFailed, LeftoverEnds, CommandOK
    <2>3. unanswered' \in [Commands -> SUBSET (1..device)]
            /\ acked' \in [Commands -> SUBSET (1..device)]
      BY <1>2, <1>3
      DEF Execute, ExecuteFailed, LeftoverEnds, ForgetWrites, writeVars, CommandOK
    <2>4. CommandOK'
      BY <1>2, <2>1, <2>2, <2>3 DEF CommandOK
    <2> QED  BY <1>2, <1>3, <2>1, <2>4, OutsideStep DEF Execute, ExecuteFailed, LeftoverEnds
  <1>4. CASE ApplyWrite(c)
    <2>1. device' = device + 1 /\ device' \in 0..MaxWrites /\ link' = link /\ owed' = owed
            /\ acked' = acked
      BY <1>2, <1>4, Bounds DEF ApplyWrite
    <2>2. 1..device \subseteq 1..device' /\ device' \in 1..device'
      BY <1>2, <2>1
    <2>3. cmd' \in [Commands -> {"none", "sending", "sent", "answered", "leftover"}]
      BY <1>2, <1>4 DEF ApplyWrite, CommandOK
    <2>4. unanswered' \in [Commands -> SUBSET (1..device')]
            /\ acked' \in [Commands -> SUBSET (1..device')]
      <3>1. unanswered \in [Commands -> SUBSET (1..device')]
              /\ acked \in [Commands -> SUBSET (1..device')]
        BY <1>2, <2>2 DEF CommandOK
      <3>2. unanswered' = [unanswered EXCEPT ![c] = unanswered[c] \cup {device'}]
        BY <1>4 DEF ApplyWrite
      <3>3. unanswered[c] \cup {device'} \in SUBSET (1..device')
        BY <2>2, <3>1
      <3> QED  BY <2>1, <3>1, <3>2, <3>3
    <2>5. CommandOK'
      BY <1>2, <2>1, <2>2, <2>3, <2>4 DEF CommandOK
    <2> QED  BY <1>2, <1>4, <2>1, <2>5, OutsideStep DEF ApplyWrite
  <1>5. CASE WriteAnswered(c)
    <2>1. PICK w \in unanswered[c] :
             /\ unanswered' = [unanswered EXCEPT ![c] = @ \ {w}]
             /\ acked' = [acked EXCEPT ![c] = @ \cup {w}]
             /\ cache' = [cache EXCEPT !.settings = @ \cup {w}]
      BY <1>5 DEF WriteAnswered
    <2>2. UNCHANGED <<coordinatorVars, connected, link, device, owed>>
      BY <1>5 DEF WriteAnswered
    <2>3. {w} \in SUBSET (1..device)
      BY <1>2, <2>1 DEF CommandOK
    <2>4. cmd' \in [Commands -> {"none", "sending", "sent", "answered", "leftover"}]
      BY <1>2, <1>5 DEF WriteAnswered, CommandOK
    <2>5. unanswered' \in [Commands -> SUBSET (1..device)]
            /\ acked' \in [Commands -> SUBSET (1..device)]
      BY <1>2, <2>1, <2>3 DEF CommandOK
    <2>6. CommandOK'
      BY <1>2, <2>2, <2>4, <2>5 DEF CommandOK
    <2> QED  BY <2>1, <2>2, <2>3, <2>6, KnownSettingsInv
  <1>6. CASE ExecuteOk(c)
    <2>1. /\ cmd' = [cmd EXCEPT ![c] = "none"] /\ owed' = owed \cup acked[c]
          /\ requireFull' = TRUE /\ wanted' \in {TRUE, pc = "idle" \/ wanted}
          /\ unanswered' = [unanswered EXCEPT ![c] = {}] /\ acked' = [acked EXCEPT ![c] = {}]
          /\ UNCHANGED <<phase, pc, task, elapsed, connected, cache, link, recovery, lastFailure,
                         notified, trusted, trustedAge, fullAge, backoff, untilReconnect,
                         available, device>>
      BY <1>6 DEF ExecuteOk, ForgetWrites, taskVars, clientVars, verdictVars, trustVars,
                  backoffVars
    <2>2. CommandOK'
      BY <1>2, <2>1 DEF CommandOK
    <2>3. TaskOK' /\ ClientOK' /\ VerdictOK' /\ MemoryOK'
      BY <2>1 DEF IInv, TypeOK, TaskOK, ClientOK, VerdictOK, MemoryOK
    <2>4. SetupInv' /\ CloseInv' /\ BackoffInv' /\ VerdictInv' /\ CacheInv'
      BY <2>1 DEF IInv, SetupInv, CloseInv, BackoffInv, VerdictInv, CacheInv, CacheCurrent
    <2> QED  BY <2>2, <2>3, <2>4 DEF IInv, TypeOK
  <1> QED  BY <1>1, <1>3, <1>4, <1>5, <1>6

LEMMA ReadOkInv == ASSUME IInv, ReadOk PROVE IInv'
  <1>1. PICK s \in SettingsRead :
           AcceptTrustedPlant([cache EXCEPT !.sound = TRUE, !.settings = s], requireFull)
    BY DEF ReadOk
  <1> DEFINE p == [cache EXCEPT !.sound = TRUE, !.settings = s]
  <1>2. s \subseteq 1..device /\ s \in SUBSET (1..MaxWrites)
    BY SettingsReadRange DEF IInv, TypeOK
  <1>3. p \in Plants /\ p.settings = s /\ p.detected = cache.detected
    BY <1>2, PlantUpdate DEF IInv, TypeOK, ClientOK
  <1>4. trusted' = p /\ cache' = p /\ trustedAge' = 0 /\ fullAge' \in {0, fullAge}
          /\ requireFull' = FALSE
    BY <1>1 DEF AcceptTrustedPlant
  <1>5. recovery' = "healthy" /\ lastFailure' = NoFailure
          /\ notified' = (notified /\ recovery = "healthy")
    BY <1>1 DEF AcceptTrustedPlant, TransitionTo
  <1>6. pc = "reading" /\ pc' = "idle" /\ task' = NoTask /\ elapsed' = 0 /\ available' = TRUE
    BY DEF ReadOk, EndUpdate, Await
  <1>7. UNCHANGED <<phase, wanted, connected, link, device, cmd, unanswered, acked, owed, backoff, untilReconnect>>
    BY DEF ReadOk, entryVars, backoffVars, envVars, commandVars, writeVars
  <1> HIDE DEF p
  <1>8. TypeOK'
    <2>1. TaskOK'
      BY <1>6, <1>7, NoTaskType, Bounds DEF IInv, TypeOK, TaskOK, CommandOK, Labels
    <2>2. ClientOK'
      BY <1>2, <1>3, <1>4, <1>7 DEF IInv, TypeOK, ClientOK
    <2>3. VerdictOK'
      BY <1>5, <1>6 DEF IInv, TypeOK, VerdictOK, RecoveryState
    <2>4. MemoryOK'
      <3>1. trusted' \in Plants /\ trusted'.settings \subseteq 1..device'
        BY <1>2, <1>3, <1>4, <1>7
      <3>2. trustedAge' \in {Never} \cup 0..AgeCap /\ fullAge' \in {Never} \cup 0..AgeCap
        BY <1>4, Bounds DEF IInv, TypeOK, MemoryOK
      <3>3. backoff' \in 1..BackoffMax /\ untilReconnect' \in 0..BackoffMax
        BY <1>7, Bounds DEF IInv, TypeOK, MemoryOK
      <3>4. requireFull' \in BOOLEAN
        BY <1>4
      <3> QED  BY <3>1, <3>2, <3>3, <3>4 DEF MemoryOK
    <2> QED  BY <1>7, <2>1, <2>2, <2>3, <2>4 DEF IInv, TypeOK, CommandOK
  <1>9. SetupInv' /\ CloseInv' /\ BackoffInv'
    BY <1>6, <1>7 DEF IInv, SetupInv, CloseInv, BackoffInv, Closing
  <1>10. VerdictInv'
    BY <1>4, <1>5, <1>6, <1>7 DEF IInv, TypeOK, VerdictOK, SetupInv, VerdictInv, Failed, Never
  <1>11. CacheInv'
    <2>1. trusted'.settings \subseteq 1..device' /\ cache'.settings \subseteq 1..device'
      BY <1>2, <1>3, <1>4, <1>7
    <2>2. phase = "loaded" => cache.detected /\ fullAge # Never
      BY <1>6 DEF IInv, CacheInv, CacheCurrent
    <2>3. phase = "loaded" => trusted'.detected /\ fullAge' # Never /\ CacheCurrent'
      BY <1>2, <1>3, <1>4, <2>2 DEF Never, CacheCurrent
    <2> QED  BY <1>6, <1>7, <2>1, <2>3 DEF CacheInv
  <1> QED  BY <1>8, <1>9, <1>10, <1>11 DEF IInv

LEMMA ConnectOkInv == ASSUME IInv, ConnectOk PROVE IInv'
  <1>1. PICK sound \in Perhaps, s \in SettingsRead :
           AcceptTrustedPlant([detected |-> TRUE, sound |-> sound, settings |-> s], TRUE)
    BY DEF ConnectOk
  <1> DEFINE p == [detected |-> TRUE, sound |-> sound, settings |-> s]
  <1>2. s \subseteq 1..device /\ s \in SUBSET (1..MaxWrites)
    BY SettingsReadRange DEF IInv, TypeOK
  <1>3. p \in Plants /\ p.settings = s /\ p.detected
    BY <1>2, NewPlant DEF Perhaps
  <1>4. trusted' = p /\ cache' = p /\ trustedAge' = 0 /\ fullAge' = 0 /\ requireFull' = FALSE
    BY <1>1 DEF AcceptTrustedPlant
  <1>5. recovery' = "healthy" /\ lastFailure' = NoFailure
          /\ notified' = (notified /\ recovery = "healthy")
    BY <1>1 DEF AcceptTrustedPlant, TransitionTo
  <1>6. pc = "detecting" /\ pc' = "idle" /\ task' = NoTask /\ elapsed' = 0 /\ available' = TRUE
          /\ phase' = IF phase = "setup" THEN "loaded" ELSE phase
    BY DEF ConnectOk, EndUpdate, Await
  <1>7. UNCHANGED <<wanted, connected, link, device, cmd, unanswered, acked, owed>>
          /\ backoff' = BackoffInitial /\ untilReconnect' = 0
    BY DEF ConnectOk, ResetReconnectBackoff, envVars, commandVars, writeVars
  <1> HIDE DEF p
  <1>8. TypeOK'
    <2>1. TaskOK'
      BY <1>6, <1>7, NoTaskType, Bounds DEF IInv, TypeOK, TaskOK, CommandOK, Labels
    <2>2. ClientOK'
      BY <1>2, <1>3, <1>4, <1>7 DEF IInv, TypeOK, ClientOK
    <2>3. VerdictOK'
      BY <1>5, <1>6 DEF IInv, TypeOK, VerdictOK, RecoveryState
    <2>4. MemoryOK'
      <3>1. trusted' \in Plants /\ trusted'.settings \subseteq 1..device'
        BY <1>2, <1>3, <1>4, <1>7
      <3>2. trustedAge' \in {Never} \cup 0..AgeCap /\ fullAge' \in {Never} \cup 0..AgeCap
        BY <1>4, Bounds DEF IInv, TypeOK, MemoryOK
      <3>3. backoff' \in 1..BackoffMax /\ untilReconnect' \in 0..BackoffMax
        BY <1>7, Bounds DEF IInv, TypeOK, MemoryOK
      <3>4. requireFull' \in BOOLEAN
        BY <1>4
      <3> QED  BY <3>1, <3>2, <3>3, <3>4 DEF MemoryOK
    <2> QED  BY <1>7, <2>1, <2>2, <2>3, <2>4 DEF IInv, TypeOK, CommandOK
  <1>9. SetupInv' /\ CloseInv' /\ BackoffInv'
    BY <1>6, <1>7 DEF IInv, SetupInv, CloseInv, BackoffInv, Closing
  <1>10. VerdictInv'
    <2>1. phase \in {"setup", "loaded"} => ~notified'
      BY <1>5 DEF IInv, SetupInv, VerdictInv
    <2> QED  BY <1>4, <1>5, <1>6, <2>1 DEF VerdictInv, Failed, Never
  <1>11. CacheInv'
    <2>1. trusted'.settings \subseteq 1..device' /\ cache'.settings \subseteq 1..device'
      BY <1>2, <1>3, <1>4, <1>7
    <2>2. trusted'.detected /\ fullAge' # Never /\ CacheCurrent'
      BY <1>2, <1>3, <1>4 DEF Never, CacheCurrent
    <2> QED  BY <1>6, <1>7, <2>1, <2>2 DEF CacheInv
  <1> QED  BY <1>8, <1>9, <1>10, <1>11 DEF IInv

\* An update that ends without data keeps the invariant, whichever way it came to its end.
LEMMA FailedUpdateInv ==
    ASSUME IInv,
           pc' = "idle", task' = NoTask, elapsed' = 0, available' = FALSE,
           recovery' = "unavailable", phase' = IF phase = "setup" THEN "stopped" ELSE phase,
           wanted' \in BOOLEAN, notified' \in BOOLEAN, requireFull' \in BOOLEAN,
           lastFailure' \in FailureCategory \cup {NoFailure},
           phase = "loaded" => notified' /\ lastFailure' # NoFailure,
           ClientOK', phase = "loaded" /\ connected' => CacheCurrent',
           UNCHANGED <<trusted, trustedAge, fullAge, link, device, cmd, unanswered, acked, owed>>,
           backoff' \in 1..BackoffMax, untilReconnect' \in 0..BackoffMax,
           untilReconnect' > 0 => ~connected'
    PROVE  IInv'
  <1>1. TaskOK'
    BY NoTaskType, Bounds DEF IInv, TypeOK, TaskOK, CommandOK, Labels
  <1>2. VerdictOK' /\ MemoryOK' /\ CommandOK'
    BY DEF IInv, TypeOK, VerdictOK, MemoryOK, CommandOK, RecoveryState
  <1>3. SetupInv' /\ CloseInv' /\ BackoffInv'
    BY DEF IInv, TypeOK, TaskOK, SetupInv, CloseInv, BackoffInv, Closing
  <1>4. VerdictInv'
    BY DEF IInv, VerdictInv, Failed
  <1>5. CacheInv'
    BY DEF IInv, CacheInv, TypeOK, ClientOK
  <1> QED  BY <1>1, <1>2, <1>3, <1>4, <1>5 DEF IInv, TypeOK

\* So does going on to a read of a plant that is detected and current.
LEMMA ReadingInv ==
    ASSUME IInv,
           pc' = "reading", elapsed' = 0, task' \in Task, task'.from <= device,
           wanted' \in BOOLEAN, requireFull' \in BOOLEAN,
           pc # "closeUnexpected", phase # "setup", trustedAge # Never,
           ClientOK', phase = "loaded" => CacheCurrent',
           UNCHANGED <<phase, recovery, lastFailure, notified, available, trusted, trustedAge,
                       fullAge, link, device, cmd, unanswered, acked, owed>>,
           backoff' \in 1..BackoffMax, untilReconnect' = 0
    PROVE  IInv'
  <1>1. TaskOK' /\ VerdictOK' /\ CommandOK'
    BY DEF IInv, TypeOK, TaskOK, VerdictOK, CommandOK, Labels
  <1>2. MemoryOK'
    BY Bounds DEF IInv, TypeOK, MemoryOK
  <1>3. SetupInv' /\ CloseInv' /\ BackoffInv'
    BY DEF SetupInv, CloseInv, BackoffInv, Closing
  <1>4. VerdictInv'
    BY DEF IInv, VerdictInv, Failed
  <1>5. CacheInv'
    BY DEF IInv, CacheInv, TypeOK, ClientOK
  <1> QED  BY <1>1, <1>2, <1>3, <1>4, <1>5 DEF IInv, TypeOK

LEMMA StartUpdateInv == ASSUME IInv, StartUpdate PROVE IInv'
  <1>1. PICK r \in {FALSE, wanted} : StartRefresh(r) \/ StartConnect(r) \/ WaitForBackoff
    BY DEF StartUpdate
  <1>2. pc = "idle" /\ phase \in {"setup", "loaded"} /\ wanted' = FALSE /\ r \in BOOLEAN
    BY DEF StartUpdate, IInv, TypeOK, TaskOK
  <1>3. UNCHANGED <<connected, cache, recovery, lastFailure, notified, trusted, trustedAge,
                    backoff, untilReconnect, link, device, cmd, unanswered, acked, owed>>
    BY DEF StartUpdate, clientVars, verdictVars, trustVars, backoffVars, envVars, commandVars, writeVars
  <1>4. device \in 0..MaxWrites /\ device \in Nat
    BY Bounds DEF IInv, TypeOK, CommandOK
  <1>5. ClientOK' /\ CommandOK'
    BY <1>3 DEF IInv, TypeOK, ClientOK, CommandOK
  <1>6. CASE StartRefresh(r)
    <2> DEFINE t == [NoTask EXCEPT !.requested = r, !.attempt = 1]
    <2>1. connected /\ FullRefreshDue \in BOOLEAN
      BY <1>6 DEF StartRefresh, FullRefreshDue, IInv, TypeOK, MemoryOK
    <2>2. task' = [t EXCEPT !.full = FullRefreshDue, !.from = device, !.hanging = FALSE,
                            !.redetect = FALSE]
            /\ pc' = "reading" /\ elapsed' = 0 /\ requireFull' = FullRefreshDue
            /\ UNCHANGED <<phase, fullAge, available>>
      BY <1>6 DEF StartRefresh, BeginRead, Await
    <2>11. requireFull' \in BOOLEAN /\ wanted' \in BOOLEAN
      BY <1>2, <2>1, <2>2
    <2>3. t \in Task
      BY <1>2, NewTask
    <2> HIDE DEF t
    <2>4. task' \in Task /\ task'.from = device
      BY <1>4, <2>1, <2>2, <2>3, TaskReading
    <2>5. phase = "loaded"
      BY <1>2, <2>1 DEF IInv, SetupInv
    <2>6. trustedAge # Never /\ CacheCurrent'
      BY <1>2, <1>3, <2>1, <2>5 DEF IInv, VerdictInv, CacheInv, CacheCurrent
    <2>7. untilReconnect' = 0 /\ backoff' \in 1..BackoffMax
      BY <1>3, <2>1, Bounds DEF IInv, TypeOK, MemoryOK, BackoffInv
    <2>8. task'.from <= device
      BY <1>4, <2>4
    <2>9. UNCHANGED <<phase, recovery, lastFailure, notified, available, trusted, trustedAge,
                      fullAge, link, device, cmd, unanswered, acked, owed>>
      BY <1>3, <2>2
    <2>10. pc # "closeUnexpected" /\ phase # "setup" /\ pc' = "reading" /\ elapsed' = 0
      BY <1>2, <2>2, <2>5
    <2> QED  BY <1>5, <2>4, <2>6, <2>7, <2>8, <2>9, <2>10, <2>11, ReadingInv
  <1>7. CASE StartConnect(r)
    <2>1. pc' = "connecting" /\ elapsed' = 0 /\ ~connected /\ untilReconnect = 0
            /\ UNCHANGED <<phase, requireFull, fullAge, available>>
      BY <1>7 DEF StartConnect, Await, refreshVars
    <2>2. task' \in Task /\ task'.from = 0
      BY <1>2, <1>7, NewTask DEF StartConnect, Await
    <2>3. TaskOK'
      <3>1. task'.from <= device'
        BY <1>3, <1>4, <2>2
      <3>2. pc' \in Labels
        BY <2>1 DEF Labels, Connecting
      <3>3. wanted' \in BOOLEAN
        BY <1>2
      <3> QED  BY <1>2, <2>1, <2>2, <3>1, <3>2, <3>3 DEF TaskOK
    <2>4. VerdictOK' /\ MemoryOK'
      BY <1>3, <2>1 DEF IInv, TypeOK, VerdictOK, MemoryOK
    <2>5. SetupInv' /\ CloseInv' /\ BackoffInv'
      BY <1>2, <1>3, <2>1 DEF IInv, SetupInv, CloseInv, BackoffInv, Closing
    <2>6. VerdictInv' /\ CacheInv'
      BY <1>2, <1>3, <2>1 DEF IInv, VerdictInv, CacheInv, Failed
    <2> QED  BY <1>5, <2>3, <2>4, <2>5, <2>6 DEF IInv, TypeOK
  <1>8. CASE WaitForBackoff
    <2>1. pc' = "idle" /\ task' = NoTask /\ elapsed' = 0 /\ available' = FALSE
            /\ phase' = IF phase = "setup" THEN "stopped" ELSE phase
      BY <1>8 DEF WaitForBackoff, FailUpdate, EndUpdate, Await
    <2>a. UNCHANGED <<requireFull, fullAge>>
      BY <1>8 DEF WaitForBackoff, refreshVars
    <2>b. ~connected /\ untilReconnect > 0
      BY <1>8 DEF WaitForBackoff
    <2>2. recovery = "unavailable" 
      BY <2>b DEF IInv, BackoffInv
    <2>c. recovery' = "unavailable" /\ ~connected'
      BY <2>2, <2>b, <1>3
    <2>3. phase = "loaded" => notified' /\ lastFailure' # NoFailure
      BY <1>3, <2>2 DEF IInv, VerdictInv
    <2>4. notified' \in BOOLEAN /\ lastFailure' \in FailureCategory \cup {NoFailure}
      BY <1>3 DEF IInv, TypeOK, VerdictOK
    <2>5. backoff' \in 1..BackoffMax /\ untilReconnect' \in 0..BackoffMax
            /\ requireFull' \in BOOLEAN
      BY <1>3, <2>a DEF IInv, TypeOK, MemoryOK
    <2>6. UNCHANGED <<trusted, trustedAge, fullAge, link, device, cmd, unanswered, acked, owed>>
      BY <1>3, <2>a
    <2> QED  BY <1>2, <1>5, <2>1, <2>c, <2>3, <2>4, <2>5, <2>6, FailedUpdateInv
  <1> QED  BY <1>1, <1>6, <1>7, <1>8

LEMMA DetectPlantInv == ASSUME IInv, DetectPlant PROVE IInv'
  <1>1. /\ \/ pc = "connecting" /\ pc' = "detecting"
           \/ pc = "reconnecting" /\ pc' = "redetecting"
        /\ task' = [task EXCEPT !.full = TRUE, !.from = device] /\ connected' = TRUE
    BY DEF DetectPlant
  <1>2. UNCHANGED <<phase, wanted, elapsed, cache, recovery, lastFailure, notified, trusted,
                    trustedAge, requireFull, fullAge, backoff, untilReconnect, available, link,
                    device, cmd, unanswered, acked, owed>>
    BY DEF DetectPlant, entryVars, verdictVars, memoryVars, trustVars, refreshVars, backoffVars,
           envVars, commandVars, writeVars
  <1>3. device \in 0..MaxWrites /\ device \in Nat
    BY Bounds DEF IInv, TypeOK, CommandOK
  <1>4. task' \in Task /\ task'.from = device /\ task'.full
    BY <1>1, <1>3, TaskDetecting DEF IInv, TypeOK, TaskOK
  <1>5. TaskOK'
    BY <1>1, <1>2, <1>3, <1>4 DEF IInv, TypeOK, TaskOK, Labels, Connecting
  <1>6. ClientOK' /\ VerdictOK' /\ MemoryOK' /\ CommandOK'
    BY <1>1, <1>2 DEF IInv, TypeOK, ClientOK, VerdictOK, MemoryOK, CommandOK
  <1>7. SetupInv' /\ CloseInv' /\ BackoffInv'
    BY <1>1, <1>2 DEF IInv, SetupInv, CloseInv, BackoffInv, Closing
  <1>8. VerdictInv'
    BY <1>1, <1>2 DEF IInv, VerdictInv, Failed
  <1>9. CacheInv'
    BY <1>1, <1>2, <1>4 DEF IInv, CacheInv
  <1> QED  BY <1>5, <1>6, <1>7, <1>8, <1>9 DEF IInv, TypeOK

\* A next attempt keeps the invariant if the plant it reads is detected and current.
LEMMA NextAttemptInv ==
    ASSUME IInv, NEW f \in BOOLEAN, NextAttempt(f), requireFull' = f,
           wanted' = wanted, pc \in Failed, phase # "setup",
           ClientOK', phase = "loaded" => CacheCurrent',
           UNCHANGED <<lastFailure, trusted, trustedAge, fullAge, link, device, cmd, unanswered, acked, owed>>,
           backoff' \in 1..BackoffMax, untilReconnect' = 0
    PROVE  IInv'
  <1>1. /\ elapsed' = 0 /\ task' \in Task /\ task'.from <= device
        /\ \/ pc' = "reading" /\ UNCHANGED <<phase, recovery, notified, available>>
           \/ NextAttempt(f) /\ ~(task.attempt < Attempts)
    BY NextAttemptEffect DEF NextAttempt, BeginRead, Await, IInv, TypeOK
  <1>2. wanted' \in BOOLEAN /\ pc # "closeUnexpected" /\ trustedAge # Never
    BY DEF IInv, TypeOK, TaskOK, VerdictInv, Failed
  <1>3. CASE pc' = "reading" /\ UNCHANGED <<phase, recovery, notified, available>>
    <2>1. UNCHANGED <<phase, recovery, lastFailure, notified, available, trusted, trustedAge,
                      fullAge, link, device, cmd, unanswered, acked, owed>>
      BY <1>3
    <2> QED  BY <1>1, <1>2, <1>3, <2>1, ReadingInv
  <1>4. CASE ~(task.attempt < Attempts)
    <2>1. GiveUp
      BY <1>4 DEF NextAttempt
    <2>2. pc' = "idle" /\ task' = NoTask /\ elapsed' = 0 /\ available' = FALSE
            /\ phase' = IF phase = "setup" THEN "stopped" ELSE phase
      BY <2>1 DEF GiveUp, FailUpdate, EndUpdate, Await
    <2>3. recovery' = "unavailable" /\ notified' = TRUE
      BY <2>1 DEF GiveUp, TransitionTo
    <2>4. lastFailure' \in FailureCategory \cup {NoFailure}
      BY DEF IInv, TypeOK, VerdictOK
    <2>5. phase = "loaded" => lastFailure' # NoFailure
      BY DEF IInv, VerdictInv
    <2>6. untilReconnect' \in 0..BackoffMax
      BY Bounds
    <2>7. ~(untilReconnect' > 0)
      OBVIOUS
    <2> QED  BY <1>2, <2>2, <2>3, <2>4, <2>5, <2>6, <2>7, FailedUpdateInv
  <1> QED  BY <1>1, <1>3, <1>4

LEMMA RetryWakeInv == ASSUME IInv, RetryWake PROVE IInv'
  <1>1. pc = "retrySleep" /\ NextAttempt(requireFull) /\ requireFull \in BOOLEAN
    BY DEF RetryWake, IInv, TypeOK, MemoryOK
  <1>2. UNCHANGED <<wanted, connected, cache, lastFailure, trusted, trustedAge, requireFull,
                    fullAge, backoff, untilReconnect, link, device, cmd, unanswered, acked, owed>>
    BY DEF RetryWake, clientVars, memoryVars, trustVars, refreshVars, backoffVars, envVars,
           commandVars, writeVars
  <1>3. ClientOK'
    BY <1>2 DEF IInv, TypeOK, ClientOK
  <1>4. pc \in Failed /\ phase # "setup"
    BY <1>1 DEF Failed, IInv, SetupInv
  <1>5. phase = "loaded" => CacheCurrent'
    BY <1>1, <1>2 DEF IInv, CacheInv, CacheCurrent
  <1>6. backoff' \in 1..BackoffMax /\ untilReconnect \in Nat
    BY <1>2, Bounds DEF IInv, TypeOK, MemoryOK
  <1>7. untilReconnect' = 0
    BY <1>1, <1>2, <1>6 DEF IInv, BackoffInv
  <1>8. UNCHANGED <<lastFailure, trusted, trustedAge, fullAge, link, device, cmd, unanswered, acked, owed>>
    BY <1>2
  <1> QED  BY <1>1, <1>2, <1>3, <1>4, <1>5, <1>6, <1>7, <1>8, NextAttemptInv

LEMMA ReconnectOkInv == ASSUME IInv, ReconnectOk PROVE IInv'
  <1>1. NextAttempt(requireFull') /\ backoff' = BackoffInitial /\ untilReconnect' = 0
    BY DEF ReconnectOk, ResetReconnectBackoff
  <1>2. UNCHANGED <<wanted, lastFailure, trusted, trustedAge, fullAge, link, device, cmd, unanswered, acked, owed>>
    BY DEF ReconnectOk, trustVars, envVars, commandVars, writeVars
  <1>3. /\ ClientOK' /\ requireFull' \in BOOLEAN
        /\ phase = "loaded" => CacheCurrent'
        /\ pc \in {"reconnecting", "redetecting"}
    <2>1. CASE pc = "reconnecting"
      <3>1. connected' = TRUE /\ cache' = cache /\ requireFull' = requireFull /\ ~task.redetect
        BY <2>1 DEF ReconnectOk
      <3>2. ClientOK' /\ requireFull' \in BOOLEAN
        BY <1>2, <3>1 DEF IInv, TypeOK, ClientOK, MemoryOK
      <3> QED  BY <1>2, <2>1, <3>1, <3>2 DEF IInv, CacheInv, CacheCurrent
    <2>2. CASE pc = "redetecting"
      <3>1. connected' = connected /\ requireFull' = TRUE
        BY <2>2 DEF ReconnectOk
      <3>2. PICK sound \in Perhaps, s \in SettingsRead :
               cache' = [detected |-> TRUE, sound |-> sound, settings |-> s]
        BY <2>2 DEF ReconnectOk
      <3>3. s \in SUBSET (1..MaxWrites) /\ s \subseteq 1..device /\ 1..task.from \subseteq s
        BY <2>2, SettingsReadRange, Bounds DEF IInv, TypeOK, CacheInv
      <3>4. cache' \in Plants /\ cache'.settings = s /\ cache'.detected
        BY <3>2, <3>3, NewPlant DEF Perhaps
      <3>5. trusted.settings \subseteq 1..task.from
        BY <2>2 DEF IInv, CacheInv
      <3>6. trusted'.settings \subseteq cache'.settings
        BY <1>2, <3>3, <3>4, <3>5
      <3>7. ClientOK'
        BY <1>2, <3>1, <3>3, <3>4 DEF IInv, TypeOK, ClientOK
      <3>8. requireFull' \in BOOLEAN
        BY <3>1
      <3> QED  BY <2>2, <3>4, <3>6, <3>7, <3>8 DEF CacheCurrent
    <2> QED  BY <2>1, <2>2 DEF ReconnectOk
  <1>4. pc \in Failed /\ phase # "setup"
    BY <1>3 DEF Failed, IInv, SetupInv
  <1>5. backoff' \in 1..BackoffMax
    BY <1>1, Bounds
  <1>6. UNCHANGED <<lastFailure, trusted, trustedAge, fullAge, link, device, cmd, unanswered, acked, owed>>
    BY <1>2
  <1> QED  BY <1>1, <1>2, <1>3, <1>4, <1>5, <1>6, NextAttemptInv

LEMMA ConnectFailedInv == ASSUME IInv, ConnectFailed PROVE IInv'
  <1>1. UNCHANGED <<phase, wanted, recovery, lastFailure, notified, trusted, trustedAge,
                    requireFull, fullAge, backoff, untilReconnect, available, link, device, cmd,
                    unanswered, acked, owed>>
    BY DEF ConnectFailed, entryVars, verdictVars, memoryVars, trustVars, refreshVars,
           backoffVars, envVars, commandVars, writeVars
  <1>2. /\ cache' \in Plants /\ cache'.settings \subseteq 1..device
    <2>1. CASE PartlyRead
      BY <2>1, PartlyReadEffect DEF IInv, TypeOK
    <2>2. CASE cache' = cache
      BY <2>2 DEF IInv, TypeOK, ClientOK
    <2> QED  BY <2>1, <2>2 DEF ConnectFailed
  <1>3. task \in Task /\ connected \in BOOLEAN /\ task.from <= device
    BY DEF IInv, TypeOK, TaskOK, ClientOK
  <1>4. /\ elapsed' = 0 /\ connected' = FALSE /\ task' \in Task /\ task'.from <= device
        /\ \/ /\ pc \in {"connecting", "detecting"} /\ pc' = "closeFailedConnect"
              /\ task'.cause # NoFailure
           \/ /\ pc \in {"reconnecting", "redetecting"} /\ pc' = "closeFailedReconnect"
    <2>1. CASE pc \in {"connecting", "detecting"}
      <3>1. PICK category \in {"timeout", "communication"} :
               BeginClose("closeFailedConnect", [task EXCEPT !.cause = category])
        BY <2>1 DEF ConnectFailed
      <3> DEFINE t == [task EXCEPT !.cause = category]
      <3>2. t \in Task /\ t.from = task.from /\ t.cause = category
        BY <1>3, TaskCause
      <3>3. task' = [t EXCEPT !.hanging = connected]
              /\ pc' = "closeFailedConnect" /\ elapsed' = 0 /\ connected' = FALSE
        BY <3>1 DEF BeginClose, Await
      <3> HIDE DEF t
      <3>4. task' \in Task /\ task'.from = t.from /\ task'.cause = t.cause
        BY <1>3, <3>2, <3>3, TaskClosing
      <3>5. task'.cause # NoFailure
        BY <3>2, <3>4 DEF NoFailure
      <3> QED  BY <1>3, <2>1, <3>2, <3>3, <3>4, <3>5
    <2>2. CASE pc \in {"reconnecting", "redetecting"}
      <3>1. task' = [task EXCEPT !.hanging = connected]
              /\ pc' = "closeFailedReconnect" /\ elapsed' = 0 /\ connected' = FALSE
        BY <2>2 DEF ConnectFailed, BeginClose, Await
      <3>2. task' \in Task /\ task'.from = task.from
        BY <1>3, <3>1, TaskClosing
      <3> QED  BY <1>3, <2>2, <3>1, <3>2
    <2> QED  BY <2>1, <2>2 DEF ConnectFailed, Connecting
  <1>5. TaskOK'
    BY <1>1, <1>4 DEF IInv, TypeOK, TaskOK, Labels, Closing
  <1>6. ClientOK'
    BY <1>1, <1>2, <1>4 DEF ClientOK
  <1>7. VerdictOK' /\ MemoryOK' /\ CommandOK'
    BY <1>1 DEF IInv, TypeOK, VerdictOK, MemoryOK, CommandOK
  <1>8. SetupInv' /\ CloseInv' /\ BackoffInv'
    BY <1>1, <1>4 DEF IInv, SetupInv, CloseInv, BackoffInv
  <1>9. VerdictInv'
    BY <1>1, <1>4 DEF IInv, VerdictInv, Failed
  <1>10. CacheInv'
    BY <1>1, <1>2, <1>4 DEF IInv, CacheInv
  <1> QED  BY <1>5, <1>6, <1>7, <1>8, <1>9, <1>10 DEF IInv, TypeOK

\* What is left of a close that an update waits for.
LEMMA ClosedEffect ==
    ASSUME IInv, pc \in Closing, \E clean \in Perhaps : EndClose(clean),
           UNCHANGED <<device>>
    PROVE  ~connected' /\ ClientOK'
  <1>1. PICK clean \in Perhaps : EndClose(clean)
    OBVIOUS
  <1>2. clean \in BOOLEAN
    BY DEF Perhaps
  <1>3. ClientOK /\ CommandOK /\ ~connected
    BY DEF IInv, TypeOK, CloseInv
  <1>4. connected' = FALSE /\ cache' \in Plants /\ cache'.settings \subseteq 1..device
    BY <1>1, <1>2, <1>3, EndCloseEffect
  <1> QED  BY <1>4 DEF ClientOK

LEMMA ClosedFailedConnectInv == ASSUME IInv, ClosedFailedConnect PROVE IInv'
  <1>1. pc = "closeFailedConnect" /\ pc \in Closing
    BY DEF ClosedFailedConnect, Closing
  <1>2. UNCHANGED <<trusted, trustedAge, fullAge, link, device, cmd, unanswered, acked, owed>>
          /\ requireFull' = requireFull /\ wanted' = wanted
    BY DEF ClosedFailedConnect, trustVars, refreshVars, envVars, commandVars, writeVars
  <1>3. ~connected' /\ ClientOK'
    BY <1>1, <1>2, ClosedEffect DEF ClosedFailedConnect
  <1>4. pc' = "idle" /\ task' = NoTask /\ elapsed' = 0 /\ available' = FALSE
          /\ phase' = IF phase = "setup" THEN "stopped" ELSE phase
    BY DEF ClosedFailedConnect, FailUpdate, EndUpdate, Await
  <1>5. lastFailure' = task.cause /\ recovery' = "unavailable" /\ notified' = TRUE
    BY DEF ClosedFailedConnect, RecordFailureAndGiveUp, TransitionTo
  <1>6. task.cause \in {"timeout", "communication"}
    BY <1>1 DEF IInv, TypeOK, TaskOK, Task, CloseInv
  <1>7. lastFailure' \in FailureCategory \cup {NoFailure} /\ lastFailure' # NoFailure
    BY <1>5, <1>6 DEF FailureCategory, NoFailure
  <1>8. backoff' \in 1..BackoffMax /\ untilReconnect' \in 0..BackoffMax
    BY Bounds DEF ClosedFailedConnect, ScheduleReconnectBackoff, IInv, TypeOK, MemoryOK
  <1>9. wanted' \in BOOLEAN /\ requireFull' \in BOOLEAN
    BY <1>2 DEF IInv, TypeOK, TaskOK, MemoryOK
  <1> QED  BY <1>2, <1>3, <1>4, <1>5, <1>7, <1>8, <1>9, FailedUpdateInv

LEMMA ClosedFailedReconnectInv == ASSUME IInv, ClosedFailedReconnect PROVE IInv'
  <1>1. pc = "closeFailedReconnect" /\ pc \in Closing
    BY DEF ClosedFailedReconnect, Closing
  <1>2. UNCHANGED <<trusted, trustedAge, fullAge, link, device, cmd, unanswered, acked, owed>>
          /\ requireFull' = requireFull /\ wanted' = wanted /\ lastFailure' = lastFailure
    BY DEF ClosedFailedReconnect, trustVars, refreshVars, envVars, commandVars, writeVars
  <1>3. ~connected' /\ ClientOK'
    BY <1>1, <1>2, ClosedEffect DEF ClosedFailedReconnect
  <1>4. pc' = "idle" /\ task' = NoTask /\ elapsed' = 0 /\ available' = FALSE
          /\ phase' = IF phase = "setup" THEN "stopped" ELSE phase
    BY DEF ClosedFailedReconnect, GiveUp, FailUpdate, EndUpdate, Await
  <1>5. recovery' = "unavailable" /\ notified' = TRUE
    BY DEF ClosedFailedReconnect, GiveUp, TransitionTo
  <1>6. lastFailure' \in FailureCategory \cup {NoFailure}
    BY <1>2 DEF IInv, TypeOK, VerdictOK
  <1>7. phase = "loaded" => lastFailure' # NoFailure
    BY <1>1, <1>2 DEF IInv, VerdictInv, Failed
  <1>8. backoff' \in 1..BackoffMax /\ untilReconnect' \in 0..BackoffMax
    BY Bounds DEF ClosedFailedReconnect, ScheduleReconnectBackoff, IInv, TypeOK, MemoryOK
  <1>9. wanted' \in BOOLEAN /\ requireFull' \in BOOLEAN
    BY <1>2 DEF IInv, TypeOK, TaskOK, MemoryOK
  <1> QED  BY <1>2, <1>3, <1>4, <1>5, <1>6, <1>7, <1>8, <1>9, FailedUpdateInv

LEMMA ClosedGiveUpInv == ASSUME IInv, ClosedGiveUp PROVE IInv'
  <1>1. pc = "closeGiveUp" /\ pc \in Closing
    BY DEF ClosedGiveUp, Closing
  <1>2. UNCHANGED <<trusted, trustedAge, fullAge, link, device, cmd, unanswered, acked, owed>>
          /\ requireFull' = requireFull /\ wanted' = wanted /\ lastFailure' = lastFailure
          /\ backoff' = backoff /\ untilReconnect' = untilReconnect
    BY DEF ClosedGiveUp, memoryVars, trustVars, refreshVars, backoffVars, envVars, commandVars, writeVars
  <1>3. ~connected' /\ ClientOK'
    BY <1>1, <1>2, ClosedEffect DEF ClosedGiveUp
  <1>4. pc' = "idle" /\ task' = NoTask /\ elapsed' = 0 /\ available' = FALSE
          /\ phase' = IF phase = "setup" THEN "stopped" ELSE phase
    BY DEF ClosedGiveUp, GiveUp, FailUpdate, EndUpdate, Await
  <1>5. recovery' = "unavailable" /\ notified' = TRUE
    BY DEF ClosedGiveUp, GiveUp, TransitionTo
  <1>6. lastFailure' \in FailureCategory \cup {NoFailure}
    BY <1>2 DEF IInv, TypeOK, VerdictOK
  <1>7. phase = "loaded" => lastFailure' # NoFailure
    BY <1>1, <1>2 DEF IInv, VerdictInv, Failed
  <1>8. backoff' \in 1..BackoffMax /\ untilReconnect' \in 0..BackoffMax
    BY <1>2 DEF IInv, TypeOK, MemoryOK
  <1>9. wanted' \in BOOLEAN /\ requireFull' \in BOOLEAN
    BY <1>2 DEF IInv, TypeOK, TaskOK, MemoryOK
  <1> QED  BY <1>2, <1>3, <1>4, <1>5, <1>6, <1>7, <1>8, <1>9, FailedUpdateInv

LEMMA ClosedUnexpectedInv == ASSUME IInv, ClosedUnexpected PROVE IInv'
  <1>1. pc = "closeUnexpected" /\ pc \in Closing
    BY DEF ClosedUnexpected, Closing
  <1>2. UNCHANGED <<trusted, trustedAge, fullAge, link, device, cmd, unanswered, acked, owed>>
          /\ requireFull' = requireFull /\ wanted' = wanted
          /\ backoff' = backoff /\ untilReconnect' = untilReconnect
          /\ recovery' = recovery /\ lastFailure' = lastFailure /\ notified' = notified
    BY DEF ClosedUnexpected, verdictVars, memoryVars, trustVars, refreshVars, backoffVars,
           envVars, commandVars, writeVars
  <1>3. ~connected' /\ ClientOK'
    BY <1>1, <1>2, ClosedEffect DEF ClosedUnexpected
  <1>4. pc' = "idle" /\ task' = NoTask /\ elapsed' = 0 /\ available' = FALSE
          /\ phase' = IF phase = "setup" THEN "stopped" ELSE phase
    BY DEF ClosedUnexpected, FailUpdate, EndUpdate, Await
  <1>5. recovery' = "unavailable"
    BY <1>1, <1>2 DEF IInv, CloseInv
  <1>6. lastFailure' \in FailureCategory \cup {NoFailure} /\ notified' \in BOOLEAN
    BY <1>2 DEF IInv, TypeOK, VerdictOK
  <1>7. phase = "loaded" => notified' /\ lastFailure' # NoFailure
    BY <1>2, <1>5 DEF IInv, VerdictInv
  <1>8. backoff' \in 1..BackoffMax /\ untilReconnect' \in 0..BackoffMax
    BY <1>2 DEF IInv, TypeOK, MemoryOK
  <1>9. wanted' \in BOOLEAN /\ requireFull' \in BOOLEAN
    BY <1>2 DEF IInv, TypeOK, TaskOK, MemoryOK
  <1> QED  BY <1>2, <1>3, <1>4, <1>5, <1>6, <1>7, <1>8, <1>9, FailedUpdateInv

LEMMA ClosedToReconnectInv == ASSUME IInv, ClosedToReconnect PROVE IInv'
  <1>1. PICK clean \in Perhaps :
           EndClose(clean) /\ Await("reconnectSleep", [task EXCEPT !.redetect = Replaced(clean)])
    BY DEF ClosedToReconnect
  <1>2. pc = "closeToReconnect" /\ pc' = "reconnectSleep" /\ elapsed' = 0
    BY <1>1 DEF ClosedToReconnect, Await
  <1>3. UNCHANGED <<phase, wanted, recovery, lastFailure, notified, trusted, trustedAge,
                    requireFull, fullAge, backoff, untilReconnect, available, link, device, cmd,
                    unanswered, acked, owed>>
    BY DEF ClosedToReconnect, entryVars, verdictVars, memoryVars, trustVars, refreshVars,
           backoffVars, envVars, commandVars, writeVars
  <1>4. clean \in BOOLEAN /\ Replaced(clean) \in BOOLEAN
    BY DEF Perhaps, Replaced
  <1>5. task' \in Task /\ task'.from = task.from /\ task'.redetect = Replaced(clean)
    <2>1. task' = [task EXCEPT !.redetect = Replaced(clean)] /\ task \in Task
      BY <1>1 DEF Await, IInv, TypeOK, TaskOK
    <2> QED  BY <1>4, <2>1, TaskRedetect
  <1>6. connected' = FALSE /\ cache' \in Plants /\ cache'.settings \subseteq 1..device
          /\ (clean => cache' = cache)
    <2>1. ClientOK /\ CommandOK /\ ~connected
      BY <1>2 DEF IInv, TypeOK, CloseInv, Closing
    <2> QED  BY <1>1, <1>4, <2>1, EndCloseEffect
  <1>7. ~task'.redetect => cache' = cache
    BY <1>4, <1>5, <1>6 DEF Replaced
  <1>8. TaskOK'
    BY <1>2, <1>3, <1>5 DEF IInv, TypeOK, TaskOK, Labels, Sleeping
  <1>9. ClientOK' /\ VerdictOK' /\ MemoryOK' /\ CommandOK'
    BY <1>3, <1>6 DEF IInv, TypeOK, ClientOK, VerdictOK, MemoryOK, CommandOK
  <1>10. SetupInv' /\ CloseInv' /\ BackoffInv'
    BY <1>2, <1>3, <1>6 DEF IInv, SetupInv, CloseInv, BackoffInv, Closing
  <1>11. VerdictInv'
    BY <1>2, <1>3 DEF IInv, VerdictInv, Failed
  <1>12. CacheInv'
    BY <1>2, <1>3, <1>6, <1>7 DEF IInv, CacheInv, CacheCurrent
  <1> QED  BY <1>8, <1>9, <1>10, <1>11, <1>12 DEF IInv, TypeOK

LEMMA ReadCorruptInv == ASSUME IInv, ReadCorrupt PROVE IInv'
  <1>1. pc = "reading" /\ connected' = connected /\ wanted' = wanted
    BY DEF ReadCorrupt
  <1>2. UNCHANGED <<trusted, trustedAge, requireFull, fullAge, backoff, untilReconnect, link,
                    device, cmd, unanswered, acked, owed>>
    BY DEF ReadCorrupt, memoryVars, trustVars, refreshVars, backoffVars, envVars, commandVars, writeVars
  <1>3. /\ cache' \in Plants /\ cache'.settings \subseteq 1..device
        /\ phase = "loaded" => CacheCurrent'
    <2>1. CASE TrustedSnapshotIsUsable
      <3>1. cache' = trusted
        BY <2>1 DEF ReadCorrupt
      <3>2. trusted \in Plants /\ trusted.settings \subseteq 1..device
        BY DEF IInv, TypeOK, MemoryOK
      <3>3. phase = "loaded" => trusted.detected
        BY DEF IInv, CacheInv
      <3> QED  BY <1>2, <3>1, <3>2, <3>3 DEF CacheCurrent
    <2>2. CASE ~TrustedSnapshotIsUsable
      <3>1. PICK s \in SettingsWith({}) : cache' = [cache EXCEPT !.sound = FALSE, !.settings = s]
        BY <2>2 DEF ReadCorrupt
      <3>2. s \in SUBSET (1..MaxWrites) /\ s \subseteq 1..device /\ cache.settings \subseteq s
        BY <3>1, SettingsWithRange DEF IInv, TypeOK
      <3>3. cache' \in Plants /\ cache'.settings = s /\ cache'.detected = cache.detected
        BY <3>1, <3>2, PlantUpdate DEF IInv, TypeOK, ClientOK
      <3>4. phase = "loaded" => cache.detected /\ trusted.settings \subseteq cache.settings
        BY <1>1 DEF IInv, CacheInv, CacheCurrent
      <3> QED  BY <1>2, <3>2, <3>3, <3>4 DEF CacheCurrent
    <2> QED  BY <2>1, <2>2
  <1>4. ClientOK'
    BY <1>1, <1>2, <1>3 DEF IInv, TypeOK, ClientOK
  <1>5. wanted' \in BOOLEAN /\ requireFull' \in BOOLEAN /\ backoff' \in 1..BackoffMax
          /\ untilReconnect' \in 0..BackoffMax
    BY <1>1, <1>2 DEF IInv, TypeOK, TaskOK, MemoryOK
  <1>6. ~(untilReconnect' > 0)
    BY <1>1, <1>2 DEF IInv, BackoffInv
  <1>7. lastFailure' = "validation"
    BY DEF ReadCorrupt, RecordFailureAndGiveUp, RecordFailure
  <1>8. lastFailure' \in FailureCategory \cup {NoFailure} /\ lastFailure' # NoFailure
    BY <1>7 DEF FailureCategory, NoFailure
  <1>9. CASE UnhealthyDurationExceeded
    <2>1. RecordFailureAndGiveUp("validation") /\ FailUpdate
      BY <1>9 DEF ReadCorrupt
    <2>2. pc' = "idle" /\ task' = NoTask /\ elapsed' = 0 /\ available' = FALSE
            /\ phase' = IF phase = "setup" THEN "stopped" ELSE phase
      BY <2>1 DEF FailUpdate, EndUpdate, Await
    <2>3. recovery' = "unavailable" /\ notified' = TRUE
      BY <2>1 DEF RecordFailureAndGiveUp, TransitionTo
    <2>4. UNCHANGED <<trusted, trustedAge, fullAge, link, device, cmd, unanswered, acked, owed>>
      BY <1>2
    <2> QED  BY <1>3, <1>4, <1>5, <1>6, <1>8, <2>2, <2>3, <2>4, FailedUpdateInv
  <1>10. CASE ~UnhealthyDurationExceeded
    <2>1. /\ pc' = "retrySleep" /\ task' = task /\ elapsed' = 0
          /\ recovery' = IF recovery = "healthy" THEN "recovering" ELSE recovery
          /\ UNCHANGED <<phase, available, notified>>
      BY <1>10 DEF ReadCorrupt, RecordFailure, Await
    <2>2. TaskOK'
      BY <1>1, <1>2, <1>5, <2>1 DEF IInv, TypeOK, TaskOK, Labels, Sleeping
    <2>3. VerdictOK'
      BY <1>8, <2>1 DEF IInv, TypeOK, VerdictOK, RecoveryState
    <2>4. MemoryOK' /\ CommandOK'
      BY <1>2 DEF IInv, TypeOK, MemoryOK, CommandOK
    <2>5. SetupInv' /\ CloseInv' /\ BackoffInv'
      BY <1>1, <1>6, <2>1 DEF IInv, SetupInv, CloseInv, BackoffInv, Closing
    <2>6. VerdictInv'
      BY <1>1, <1>2, <1>8, <2>1 DEF IInv, VerdictInv, Failed
    <2>7. CacheInv'
      BY <1>2, <1>3, <2>1 DEF IInv, CacheInv
    <2> QED  BY <1>4, <2>2, <2>3, <2>4, <2>5, <2>6, <2>7 DEF IInv, TypeOK
  <1> QED  BY <1>9, <1>10

LEMMA ReadFailedInv == ASSUME IInv, ReadFailed PROVE IInv'
  <1>1. pc = "reading" /\ pc' \in {"closeGiveUp", "closeToReconnect"}
          /\ elapsed' = 0 /\ connected' = FALSE
    BY DEF ReadFailed, BeginClose, Await
  <1>2. task' \in Task /\ task'.from = task.from
    <2>1. task' = [task EXCEPT !.hanging = connected] /\ task \in Task /\ connected \in BOOLEAN
      BY DEF ReadFailed, BeginClose, Await, IInv, TypeOK, TaskOK, ClientOK
    <2> QED  BY <2>1, TaskClosing
  <1>3. UNCHANGED <<phase, wanted, trusted, trustedAge, requireFull, fullAge, backoff,
                    untilReconnect, available, link, device, cmd, unanswered, acked, owed>>
    BY DEF ReadFailed, entryVars, memoryVars, trustVars, refreshVars, backoffVars, envVars,
           commandVars, writeVars
  <1>4. /\ cache' \in Plants /\ cache'.settings \subseteq 1..device
        /\ cache.settings \subseteq cache'.settings /\ cache'.detected = cache.detected
    BY PartlyReadEffect DEF ReadFailed, IInv, TypeOK
  <1>5. /\ lastFailure' \in {"timeout", "communication"} /\ notified' = notified
        /\ recovery' = IF recovery = "healthy" THEN "recovering" ELSE recovery
    BY DEF ReadFailed, RecordFailure
  <1>6. lastFailure' \in FailureCategory \cup {NoFailure} /\ lastFailure' # NoFailure
    BY <1>5 DEF FailureCategory, NoFailure
  <1>7. phase = "loaded" => CacheCurrent'
    <2>1. phase = "loaded" => cache.detected /\ trusted.settings \subseteq cache.settings
      BY <1>1 DEF IInv, CacheInv, CacheCurrent
    <2> QED  BY <1>3, <1>4, <2>1 DEF CacheCurrent
  <1>8. TaskOK'
    BY <1>1, <1>2, <1>3 DEF IInv, TypeOK, TaskOK, Labels, Closing
  <1>9. VerdictOK'
    BY <1>3, <1>5, <1>6 DEF IInv, TypeOK, VerdictOK, RecoveryState
  <1>10. ClientOK' /\ MemoryOK' /\ CommandOK'
    BY <1>1, <1>3, <1>4 DEF IInv, TypeOK, ClientOK, MemoryOK, CommandOK
  <1>11. SetupInv' /\ CloseInv' /\ BackoffInv'
    BY <1>1, <1>3 DEF IInv, SetupInv, CloseInv, BackoffInv
  <1>12. VerdictInv'
    BY <1>1, <1>3, <1>5, <1>6 DEF IInv, VerdictInv, Failed
  <1>13. CacheInv'
    BY <1>1, <1>3, <1>4, <1>7 DEF IInv, CacheInv
  <1> QED  BY <1>8, <1>9, <1>10, <1>11, <1>12, <1>13 DEF IInv, TypeOK

LEMMA ReadUnexpectedInv == ASSUME IInv, ReadUnexpected PROVE IInv'
  <1>1. pc = "reading" /\ pc' = "closeUnexpected" /\ elapsed' = 0 /\ connected' = FALSE
    BY DEF ReadUnexpected, BeginClose, Await
  <1>2. task' \in Task /\ task'.from = task.from
    <2>1. task' = [task EXCEPT !.hanging = connected] /\ task \in Task /\ connected \in BOOLEAN
      BY DEF ReadUnexpected, BeginClose, Await, IInv, TypeOK, TaskOK, ClientOK
    <2> QED  BY <2>1, TaskClosing
  <1>3. UNCHANGED <<phase, wanted, trusted, trustedAge, requireFull, fullAge, backoff,
                    untilReconnect, available, link, device, cmd, unanswered, acked, owed>>
    BY DEF ReadUnexpected, entryVars, memoryVars, trustVars, refreshVars, backoffVars, envVars,
           commandVars, writeVars
  <1>4. cache' \in Plants /\ cache'.settings \subseteq 1..device
    BY PartlyReadEffect DEF ReadUnexpected, IInv, TypeOK
  <1>5. lastFailure' = "unexpected" /\ recovery' = "unavailable" /\ notified' = TRUE
    BY DEF ReadUnexpected, RecordFailureAndGiveUp, TransitionTo
  <1>6. lastFailure' \in FailureCategory \cup {NoFailure} /\ lastFailure' # NoFailure
    BY <1>5 DEF FailureCategory, NoFailure
  <1>7. TaskOK'
    BY <1>1, <1>2, <1>3 DEF IInv, TypeOK, TaskOK, Labels, Closing
  <1>8. VerdictOK'
    BY <1>3, <1>5, <1>6 DEF IInv, TypeOK, VerdictOK, RecoveryState
  <1>9. ClientOK' /\ MemoryOK' /\ CommandOK'
    BY <1>1, <1>3, <1>4 DEF IInv, TypeOK, ClientOK, MemoryOK, CommandOK
  <1>10. SetupInv' /\ CloseInv' /\ BackoffInv'
    BY <1>1, <1>3, <1>5 DEF IInv, SetupInv, CloseInv, BackoffInv
  <1>11. VerdictInv'
    BY <1>1, <1>3, <1>5, <1>6 DEF IInv, VerdictInv, Failed
  <1>12. CacheInv'
    BY <1>1, <1>3, <1>4 DEF IInv, CacheInv
  <1> QED  BY <1>7, <1>8, <1>9, <1>10, <1>11, <1>12 DEF IInv, TypeOK

LEMMA ReconnectWakeInv == ASSUME IInv, ReconnectWake PROVE IInv'
  <1>1. pc = "reconnectSleep" /\ pc' = "reconnecting" /\ task' = task /\ elapsed' = 0
    BY DEF ReconnectWake, Await
  <1>2. UNCHANGED <<phase, wanted, connected, cache, recovery, lastFailure, notified, trusted,
                    trustedAge, requireFull, fullAge, backoff, untilReconnect, available, link,
                    device, cmd, unanswered, acked, owed>>
    BY DEF ReconnectWake, entryVars, clientVars, verdictVars, memoryVars, trustVars,
           refreshVars, backoffVars, envVars, commandVars, writeVars
  <1>3. TaskOK'
    BY <1>1, <1>2 DEF IInv, TypeOK, TaskOK, Labels, Connecting
  <1>4. ClientOK' /\ VerdictOK' /\ MemoryOK' /\ CommandOK'
    BY <1>2 DEF IInv, TypeOK, ClientOK, VerdictOK, MemoryOK, CommandOK
  <1>5. SetupInv' /\ CloseInv' /\ BackoffInv'
    BY <1>1, <1>2 DEF IInv, SetupInv, CloseInv, BackoffInv, Closing
  <1>6. VerdictInv' /\ CacheInv'
    BY <1>1, <1>2 DEF IInv, VerdictInv, Failed, CacheInv, CacheCurrent
  <1> QED  BY <1>3, <1>4, <1>5, <1>6 DEF IInv, TypeOK

LEMMA UpdateCancelledInv == ASSUME IInv, UpdateCancelled PROVE IInv'
  <1>1. pc \in {"reading", "detecting", "redetecting"} /\ pc' = "idle" /\ task' = NoTask
          /\ elapsed' = 0 /\ available' = available
    BY DEF UpdateCancelled, EndUpdate, Await
  <1>2. phase' = IF phase = "setup" THEN "stopped" ELSE phase
    BY DEF UpdateCancelled
  <1>3. UNCHANGED <<wanted, recovery, lastFailure, notified, trusted, trustedAge, requireFull,
                    fullAge, backoff, untilReconnect, link, device, cmd, unanswered, acked, owed>>
    BY DEF UpdateCancelled, verdictVars, memoryVars, trustVars, refreshVars, backoffVars,
           envVars, commandVars, writeVars
  <1>4. /\ cache' \in Plants /\ cache'.settings \subseteq 1..device
        /\ cache.settings \subseteq cache'.settings /\ cache'.detected = cache.detected
    BY PartlyReadEffect DEF UpdateCancelled, IInv, TypeOK
  <1>5. connected' \in BOOLEAN /\ (connected' => pc = "reading" /\ connected)
    BY DEF UpdateCancelled, IInv, TypeOK, ClientOK
  <1>6. phase = "loaded" /\ pc = "reading" => CacheCurrent'
    <2>1. phase = "loaded" /\ pc = "reading"
            => cache.detected /\ trusted.settings \subseteq cache.settings
      BY DEF IInv, CacheInv, CacheCurrent
    <2> QED  BY <1>3, <1>4, <2>1 DEF CacheCurrent
  <1>7. TaskOK'
    <2>1. device \in Nat
      BY Bounds DEF IInv, TypeOK, CommandOK
    <2> QED  BY <1>1, <1>2, <1>3, <2>1, NoTaskType DEF IInv, TypeOK, TaskOK, Labels
  <1>8. ClientOK' /\ VerdictOK' /\ MemoryOK' /\ CommandOK'
    BY <1>1, <1>3, <1>4, <1>5 DEF IInv, TypeOK, ClientOK, VerdictOK, MemoryOK, CommandOK
  <1>9. SetupInv' /\ CloseInv' /\ BackoffInv'
    BY <1>1, <1>2, <1>3, <1>5 DEF IInv, TypeOK, TaskOK, SetupInv, CloseInv, BackoffInv, Closing
  <1>10. VerdictInv'
    BY <1>1, <1>2, <1>3 DEF IInv, VerdictInv, Failed
  <1>11. CacheInv'
    BY <1>1, <1>2, <1>3, <1>4, <1>5, <1>6 DEF IInv, CacheInv
  <1> QED  BY <1>7, <1>8, <1>9, <1>10, <1>11 DEF IInv, TypeOK

\* A client that closes, or whose plant is replaced by an empty one, once nobody refreshes it.
LEMMA UnloadEndsInv ==
    ASSUME IInv, NEW clean \in BOOLEAN, UnloadEnds(clean),
           UNCHANGED <<wanted, verdictVars, memoryVars, envVars>>
    PROVE  IInv'
  <1>1. phase' = "stopped" /\ connected' = FALSE
    BY DEF UnloadEnds
  <1>2. UNCHANGED <<wanted, recovery, lastFailure, notified, trusted, trustedAge, requireFull,
                    fullAge, backoff, untilReconnect, link, device, cmd, unanswered, acked, owed>>
    BY DEF verdictVars, memoryVars, trustVars, refreshVars, backoffVars, envVars, commandVars, writeVars
  <1>3. /\ available' = available
        /\ \/ pc' = pc /\ task' = task /\ elapsed' = elapsed
           \/ pc' = "idle" /\ task' = NoTask /\ elapsed' = 0
    BY DEF UnloadEnds, taskVars, EndUpdate, Await
  <1>4. cache' \in Plants /\ cache'.settings \subseteq 1..device
    <2>1. CASE cache' = cache
      BY <2>1 DEF IInv, TypeOK, ClientOK
    <2>2. CASE cache' = EmptyPlant
      BY <2>2, EmptyPlantType, Bounds DEF IInv, TypeOK, CommandOK
    <2>3. cache' = cache \/ cache' = EmptyPlant
      BY DEF UnloadEnds
    <2> QED  BY <2>1, <2>2, <2>3
  <1>5. TaskOK'
    <2>1. device \in Nat
      BY Bounds DEF IInv, TypeOK, CommandOK
    <2>2. CASE pc' = pc /\ task' = task /\ elapsed' = elapsed
      BY <1>1, <1>2, <2>2 DEF IInv, TypeOK, TaskOK
    <2>3. CASE pc' = "idle" /\ task' = NoTask /\ elapsed' = 0
      BY <1>1, <1>2, <2>1, <2>3, NoTaskType DEF IInv, TypeOK, TaskOK, Labels
    <2> QED  BY <1>3, <2>2, <2>3
  <1>6. ClientOK' /\ VerdictOK' /\ MemoryOK' /\ CommandOK'
    BY <1>1, <1>2, <1>3, <1>4 DEF IInv, TypeOK, ClientOK, VerdictOK, MemoryOK, CommandOK
  <1>7. SetupInv' /\ CloseInv' /\ BackoffInv'
    BY <1>1, <1>2, <1>3 DEF IInv, SetupInv, CloseInv, BackoffInv, Closing
  <1>8. VerdictInv'
    BY <1>1, <1>2, <1>3 DEF IInv, VerdictInv, Failed
  <1>9. CacheInv'
    BY <1>1, <1>2, <1>3, <1>4 DEF IInv, CacheInv
  <1> QED  BY <1>5, <1>6, <1>7, <1>8, <1>9 DEF IInv, TypeOK

LEMMA ShutdownInv == ASSUME IInv, Shutdown PROVE IInv'
  <1>1. CASE connected
    <2>1. phase = "loaded" /\ phase' = "stopping" /\ connected' = FALSE
            /\ UNCHANGED <<pc, task, elapsed, cache, available, wanted, recovery, lastFailure,
                           notified, trusted, trustedAge, requireFull, fullAge, backoff,
                           untilReconnect, link, device, cmd, unanswered, acked, owed>>
      BY <1>1 DEF Shutdown, taskVars, verdictVars, memoryVars, trustVars, refreshVars,
                  backoffVars, envVars, commandVars, writeVars
    <2>2. TypeOK'
      BY <2>1 DEF IInv, TypeOK, TaskOK, ClientOK, VerdictOK, MemoryOK, CommandOK
    <2>3. SetupInv' /\ CloseInv' /\ BackoffInv' /\ VerdictInv' /\ CacheInv'
      BY <2>1 DEF IInv, SetupInv, CloseInv, BackoffInv, VerdictInv, CacheInv
    <2> QED  BY <2>2, <2>3 DEF IInv
  <1>2. CASE ~connected
    BY <1>2, UnloadEndsInv DEF Shutdown
  <1> QED  BY <1>1, <1>2

LEMMA ShutdownClosedInv == ASSUME IInv, ShutdownClosed PROVE IInv'
  <1>1. PICK clean \in Perhaps : UnloadEnds(clean)
    BY DEF ShutdownClosed
  <1>2. clean \in BOOLEAN
    BY DEF Perhaps
  <1> QED  BY <1>1, <1>2, UnloadEndsInv DEF ShutdownClosed

LEMMA ConnectionLostInv == ASSUME IInv, ConnectionLost PROVE IInv'
  <1>1. connected' = FALSE
          /\ UNCHANGED <<phase, pc, task, elapsed, cache, available, wanted, recovery,
                         lastFailure, notified, trusted, trustedAge, requireFull, fullAge,
                         backoff, untilReconnect, link, device, cmd, unanswered, acked, owed>>
    BY DEF ConnectionLost, coordinatorVars, entryVars, taskVars, verdictVars, memoryVars,
           trustVars, refreshVars, backoffVars, envVars, commandVars, writeVars
  <1>2. TypeOK'
    BY ZenonT(30), <1>1 DEF IInv, TypeOK, TaskOK, ClientOK, VerdictOK, MemoryOK, CommandOK
  <1>3. SetupInv' /\ CloseInv' /\ BackoffInv' /\ VerdictInv'
    BY <1>1 DEF IInv, SetupInv, CloseInv, BackoffInv, VerdictInv
  <1>4. CacheInv'
    BY <1>1 DEF IInv, CacheInv, CacheCurrent
  <1> QED  BY <1>2, <1>3, <1>4 DEF IInv

LEMMA RelayedReadInv == ASSUME IInv, RelayedRead PROVE IInv'
  <1>1. UNCHANGED <<coordinatorVars, connected, link, device, cmd, unanswered, acked, owed>>
    BY DEF RelayedRead, envVars, commandVars, writeVars
  <1>2. PICK w \in SUBSET ((1..device) \ cache.settings) \ {{}} :
           cache' = [cache EXCEPT !.settings = @ \cup w]
    BY DEF RelayedRead
  <1>3. w \in SUBSET (1..device)
    BY <1>2
  <1>4. CommandOK'
    BY <1>1 DEF IInv, TypeOK, CommandOK
  <1> QED  BY <1>1, <1>2, <1>3, <1>4, KnownSettingsInv

LEMMA TickInv == ASSUME IInv, Tick PROVE IInv'
  <1>1. UNCHANGED <<phase, pc, task, connected, cache, available, wanted, recovery, lastFailure,
                    notified, trusted, requireFull, backoff, link, device, cmd, unanswered, acked, owed>>
    BY DEF Tick, entryVars, clientVars, verdictVars, envVars, commandVars, writeVars
  <1>2. elapsed' \in Nat
    BY DEF Tick, IInv, TypeOK, TaskOK
  <1>3. /\ trustedAge' \in {Never} \cup 0..AgeCap /\ fullAge' \in {Never} \cup 0..AgeCap
        /\ (trustedAge # Never => trustedAge' # Never)
        /\ (fullAge # Never => fullAge' # Never)
    BY Bounds DEF Tick, Older, Never, IInv, TypeOK, MemoryOK
  <1>4. untilReconnect' \in 0..BackoffMax /\ (untilReconnect' > 0 => untilReconnect > 0)
    BY Bounds DEF Tick, IInv, TypeOK, MemoryOK
  <1>5. TaskOK' /\ ClientOK' /\ VerdictOK' /\ CommandOK'
    BY <1>1, <1>2 DEF IInv, TypeOK, TaskOK, ClientOK, VerdictOK, CommandOK
  <1>6. MemoryOK'
    BY <1>1, <1>3, <1>4 DEF IInv, TypeOK, MemoryOK
  <1>7. SetupInv' /\ CloseInv' /\ BackoffInv'
    BY <1>1, <1>4 DEF IInv, SetupInv, CloseInv, BackoffInv
  <1>8. VerdictInv'
    BY <1>1, <1>3 DEF IInv, VerdictInv
  <1>9. CacheInv'
    BY <1>1, <1>3 DEF IInv, CacheInv, CacheCurrent
  <1> QED  BY <1>5, <1>6, <1>7, <1>8, <1>9 DEF IInv, TypeOK

(***************************************************************************)
(* The inductive invariant.                                                *)
(***************************************************************************)
LEMMA InitInv == Init => IInv
  <1> SUFFICES ASSUME Init PROVE IInv
    OBVIOUS
  <1>1. TaskOK
    <2>1. phase = "setup" /\ wanted = FALSE /\ pc = "idle" /\ task = NoTask /\ elapsed = 0
            /\ device = 0
      BY DEF Init
    <2>2. task.from = 0
      BY <2>1, NoTaskType
    <2>3. task.from <= device
      BY <2>1, <2>2
    <2> QED  BY <2>1, <2>3, NoTaskType DEF TaskOK, Labels
  <1>2. ClientOK
    <2>1. connected = FALSE /\ cache = EmptyPlant /\ device = 0
      BY DEF Init
    <2>2. cache.settings \subseteq 1..device
      BY <2>1, EmptyPlantType
    <2> QED  BY <2>1, <2>2, EmptyPlantType DEF ClientOK
  <1>3. VerdictOK
    BY DEF Init, VerdictOK, RecoveryState
  <1>4. MemoryOK
    <2>1. trusted \in Plants /\ trusted.settings \subseteq 1..device
      BY EmptyPlantType DEF Init
    <2>2. backoff \in 1..BackoffMax /\ untilReconnect \in 0..BackoffMax
      BY Bounds DEF Init
    <2> QED  BY <2>1, <2>2 DEF Init, MemoryOK
  <1>5. CommandOK
    BY Bounds DEF Init, CommandOK
  <1>6. SetupInv /\ CloseInv /\ BackoffInv
    BY DEF Init, SetupInv, CloseInv, BackoffInv, Closing
  <1>7. VerdictInv
    BY DEF Init, VerdictInv, Failed
  <1>8. CacheInv
    BY EmptyPlantType DEF Init, CacheInv
  <1> QED  BY <1>1, <1>2, <1>3, <1>4, <1>5, <1>6, <1>7, <1>8 DEF IInv, TypeOK

LEMMA NextInv == IInv /\ [Next]_vars => IInv'
  <1> SUFFICES ASSUME IInv, [Next]_vars PROVE IInv'
    OBVIOUS
  <1>1. CASE UpdateStep
    BY <1>1, StartUpdateInv, DetectPlantInv, ConnectOkInv, ReconnectOkInv, ConnectFailedInv,
       ClosedFailedConnectInv, ClosedFailedReconnectInv, ReadOkInv, ReadCorruptInv,
       ReadFailedInv, ReadUnexpectedInv, ClosedGiveUpInv, ClosedUnexpectedInv,
       ClosedToReconnectInv, ReconnectWakeInv, RetryWakeInv, UpdateCancelledInv DEF UpdateStep
  <1>2. CASE CommandStep
    BY <1>2, CommandStepInv
  <1>3. CASE Shutdown \/ ShutdownClosed
    BY <1>3, ShutdownInv, ShutdownClosedInv
  <1>4. CASE ConnectionLost \/ RelayedRead
    BY <1>4, ConnectionLostInv, RelayedReadInv
  <1>5. CASE Tick
    BY <1>5, TickInv
  <1>6. CASE LinkChanges
    <2>1. link' \in {"good", "bad"} /\ UNCHANGED <<coordinatorVars, clientVars, commandVars>>
      BY <1>6 DEF LinkChanges
    <2>2. CommandOK' /\ device' >= device
      BY <2>1, Bounds DEF commandVars, writeVars, IInv, TypeOK, CommandOK
    <2> QED  BY <2>1, <2>2, OutsideStep
  <1>7. CASE UNCHANGED vars
    <2>1. UNCHANGED <<coordinatorVars, clientVars>> /\ UNCHANGED <<link, device, cmd, unanswered, acked, owed>>
      BY <1>7 DEF vars, envVars, commandVars, writeVars
    <2>2. CommandOK' /\ device' >= device
      BY <2>1, Bounds DEF IInv, TypeOK, CommandOK
    <2> QED  BY <2>1, <2>2, OutsideStep
  <1> QED  BY <1>1, <1>2, <1>3, <1>4, <1>5, <1>6, <1>7 DEF Next

THEOREM Inductive == Spec => []IInv
  BY InitInv, NextInv, PTL DEF Spec

(***************************************************************************)
(* The properties.                                                         *)
(***************************************************************************)
\* Every variable keeps its type, and no plant and no running read is newer than the device:
\* in particular the backoff never exceeds _RECONNECT_BACKOFF_MAX, whatever its value.
THEOREM TypeCorrect == Spec => []TypeOK
  <1>1. IInv => TypeOK
    BY DEF IInv
  <1> QED  BY <1>1, Inductive, PTL

\* While a backoff delay runs the dongle is left alone (_schedule_reconnect_backoff).
THEOREM BackoffQuiet == Spec => []BackoffIsQuiet
  <1>1. IInv => BackoffIsQuiet
    BY DEF IInv, BackoffInv, BackoffIsQuiet, Connecting
  <1> QED  BY <1>1, Inductive, PTL

\* A refresh reads through a client whose plant is detected, also after a replacement of the
\* client by _close_client, and never compares the initial last_full_refresh.
THEOREM KnownPlant == Spec => []ReadsKnownPlant
  <1>1. IInv => ReadsKnownPlant
    BY DEF IInv, CacheInv, CacheCurrent, ReadsKnownPlant
  <1> QED  BY <1>1, Inductive, PTL

\* Between updates, available (last_update_success) and recovery.state agree.
THEOREM AvailabilityMatches == Spec => []AvailabilityMatchesState
  <1>1. IInv => AvailabilityMatchesState
    BY DEF IInv, VerdictInv, AvailabilityMatchesState
  <1> QED  BY <1>1, Inductive, PTL

\* The notification that _transition_to creates and dismisses agrees with recovery.state.
THEOREM NotificationMatches == Spec => []NotificationMatchesState
  <1>1. IInv => NotificationMatchesState
    BY DEF IInv, VerdictInv, NotificationMatchesState
  <1> QED  BY <1>1, Inductive, PTL

\* last_failure_category is set exactly while recovery.state is not healthy.
THEOREM FailureMatches == Spec => []FailureMatchesState
  <1>1. IInv => FailureMatchesState
    BY DEF IInv, VerdictInv, FailureMatchesState
  <1> QED  BY <1>1, Inductive, PTL

\* Whatever snapshot is restored and whichever client is replaced, the published plant never
\* goes back to older settings.
THEOREM NoRegress == Spec => SettingsNeverRegress
  <1>1. IInv /\ [Next]_vars => [phase = "loaded" => trusted.settings \subseteq trusted'.settings]_vars
    <2> SUFFICES ASSUME IInv, Next, phase = "loaded"
                 PROVE  trusted.settings \subseteq trusted'.settings
      BY DEF vars
    <2>2. CASE trusted' = trusted
      BY <2>2
    <2>3. CASE ReadOk
      <3>1. PICK s \in SettingsRead :
               AcceptTrustedPlant([cache EXCEPT !.sound = TRUE, !.settings = s], requireFull)
        BY <2>3 DEF ReadOk
      <3>2. s \in SUBSET (1..MaxWrites) /\ cache.settings \subseteq s
        BY SettingsReadRange DEF IInv, TypeOK
      <3>3. trusted'.settings = s
        BY <3>1, <3>2, PlantUpdate DEF AcceptTrustedPlant, IInv, TypeOK, ClientOK
      <3>4. trusted.settings \subseteq cache.settings
        BY <2>3 DEF ReadOk, IInv, CacheInv, CacheCurrent
      <3> QED  BY <3>2, <3>3, <3>4
    <2>4. CASE ConnectOk
      <3>1. PICK sound \in Perhaps, s \in SettingsRead :
               AcceptTrustedPlant([detected |-> TRUE, sound |-> sound, settings |-> s], TRUE)
        BY <2>4 DEF ConnectOk
      <3>2. task.full /\ trusted.settings \subseteq 1..task.from
        BY <2>4 DEF ConnectOk, IInv, CacheInv
      <3>3. s \in SUBSET (1..MaxWrites) /\ 1..task.from \subseteq s
        BY <3>2, SettingsReadRange DEF IInv, TypeOK
      <3>4. trusted'.settings = s
        BY <3>1, <3>3, NewPlant DEF AcceptTrustedPlant, Perhaps
      <3> QED  BY <3>2, <3>3, <3>4
    <2> QED
      BY <2>2, <2>3, <2>4
      DEF Next, UpdateStep, StartUpdate, DetectPlant, ReconnectOk, ConnectFailed,
          ClosedFailedConnect, ClosedFailedReconnect, ReadCorrupt, ReadFailed, ReadUnexpected,
          ClosedGiveUp, ClosedUnexpected, ClosedToReconnect, ReconnectWake, RetryWake,
          UpdateCancelled, CommandStep, Execute, ApplyWrite, WriteAnswered, ExecuteOk, ExecuteFailed,
          LeftoverEnds, Shutdown, ShutdownClosed, ConnectionLost, RelayedRead, LinkChanges, Tick,
          coordinatorVars, memoryVars, trustVars
  <1> QED  BY <1>1, Inductive, PTL DEF Spec, SettingsNeverRegress

\* A retry after corrupt data starts from the trusted snapshot: _MAX_UNHEALTHY_DURATION ends
\* the update before the snapshot is older than _TRUSTED_SNAPSHOT_MAX_AGE.
THEOREM RetriesFromSnapshot == Spec => RetryFromSnapshot
  <1>1. IInv /\ [Next]_vars
          => [pc = "reading" /\ pc' = "retrySleep" => cache' = trusted]_vars
    <2> SUFFICES ASSUME IInv, Next, pc = "reading", pc' = "retrySleep"
                 PROVE  cache' = trusted
      BY DEF vars
    <2>1. ReadCorrupt
      <3>1. pc' # pc
        OBVIOUS
      <3>2. ~CommandStep /\ ~ConnectionLost /\ ~RelayedRead /\ ~LinkChanges /\ ~Tick
        BY <3>1 DEF CommandStep, Execute, ApplyWrite, WriteAnswered, ExecuteOk, ExecuteFailed, LeftoverEnds,
                    ConnectionLost, RelayedRead, LinkChanges, Tick, coordinatorVars, taskVars
      <3>3. ~Shutdown /\ ~ShutdownClosed
        BY <3>1 DEF Shutdown, ShutdownClosed, UnloadEnds, EndUpdate, Await, taskVars
      <3>4. ~StartUpdate /\ ~DetectPlant /\ ~ConnectOk /\ ~ReconnectOk /\ ~ConnectFailed
              /\ ~ClosedFailedConnect /\ ~ClosedFailedReconnect /\ ~ClosedGiveUp
              /\ ~ClosedUnexpected /\ ~ClosedToReconnect /\ ~ReconnectWake /\ ~RetryWake
        BY DEF StartUpdate, DetectPlant, ConnectOk, ReconnectOk, ConnectFailed, Connecting,
               ClosedFailedConnect, ClosedFailedReconnect, ClosedGiveUp, ClosedUnexpected,
               ClosedToReconnect, ReconnectWake, RetryWake
      <3>5. ~ReadOk /\ ~ReadFailed /\ ~ReadUnexpected /\ ~UpdateCancelled
        BY DEF ReadOk, ReadFailed, ReadUnexpected, UpdateCancelled, EndUpdate, BeginClose, Await
      <3> QED  BY <3>2, <3>3, <3>4, <3>5 DEF Next, UpdateStep
    <2>2. ~UnhealthyDurationExceeded
      BY <2>1 DEF ReadCorrupt, FailUpdate, EndUpdate, Await
    <2>3. trustedAge # Never
      BY DEF IInv, VerdictInv
    <2>4. trustedAge \in Nat
      BY <2>3, Bounds DEF IInv, TypeOK, MemoryOK
    <2>5. TrustedSnapshotIsUsable
      BY <2>2, <2>3, <2>4, Bounds DEF UnhealthyDurationExceeded, TrustedSnapshotIsUsable
    <2> QED  BY <2>1, <2>5 DEF ReadCorrupt
  <1> QED  BY <1>1, Inductive, PTL DEF Spec, RetryFromSnapshot

====
