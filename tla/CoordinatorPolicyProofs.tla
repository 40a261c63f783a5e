---------------------- MODULE CoordinatorPolicyProofs ----------------------
(***************************************************************************)
(* What Coordinator promises its users, on top of the invariant of         *)
(* CoordinatorProofs: it takes no step that RecoveryPolicy does not allow, *)
(* published data that is still shown is never older than the awaits of    *)
(* one update can make it, and an update is bounded in time and steps.     *)
(***************************************************************************)
EXTENDS CoordinatorProofs

(***************************************************************************)
(* The steps of the policy.                                                *)
(***************************************************************************)
\* Also while the entry unloads and an update still runs.
AlertInv ==
    /\ notified => recovery = "unavailable"
    /\ phase = "setup" => untilReconnect = 0

\* What users see, by the steps of the coordinator.
LEMMA PublishStep ==
    ASSUME AlertInv, TypeOK, recovery' = "healthy", available' = TRUE,
           notified' = (notified /\ recovery = "healthy"),
           phase' = IF phase = "setup" THEN "loaded" ELSE phase
    PROVE  Policy!Publish
  <1>1. notified' = FALSE
    BY DEF AlertInv
  <1> QED BY <1>1 DEF Policy!Publish, TypeOK, TaskOK

LEMMA FalterStep ==
    ASSUME NEW c, RecordFailure(c), UNCHANGED <<phase, available>>
    PROVE  Policy!Falter \/ UNCHANGED Policy!policyVars
  BY DEF RecordFailure, Policy!Falter, Policy!policyVars

LEMMA SurrenderStep ==
    ASSUME TypeOK, TransitionTo("unavailable"), available' \in {available, FALSE},
           phase' = IF phase = "setup" THEN "stopped" ELSE phase
    PROVE  Policy!Surrender
  <1>1. recovery' = "unavailable" /\ notified' = TRUE
    BY DEF TransitionTo
  <1> QED BY <1>1 DEF Policy!Surrender, TypeOK, TaskOK

LEMMA GiveUpStep == ASSUME TypeOK, GiveUp PROVE Policy!Surrender
  BY SurrenderStep DEF GiveUp, FailUpdate, EndUpdate

LEMMA WithdrawStep ==
    ASSUME FailUpdate, phase # "setup", recovery = "unavailable", available \in BOOLEAN,
           UNCHANGED <<recovery, notified>>
    PROVE  Policy!Withdraw \/ UNCHANGED Policy!policyVars
  BY DEF FailUpdate, EndUpdate, Policy!Withdraw, Policy!policyVars

LEMMA StutterStep ==
    ASSUME UNCHANGED <<phase, recovery, available, notified>>
    PROVE  UNCHANGED Policy!policyVars
  BY DEF Policy!policyVars

LEMMA RetireStep ==
    ASSUME phase' \in {"stopping", "stopped"}, UNCHANGED <<recovery, available, notified>>
    PROVE  Policy!Retire
  BY DEF Policy!Retire

LEMMA NextAttemptStep ==
    ASSUME TypeOK, NEW f, NextAttempt(f)
    PROVE  Policy!Surrender \/ UNCHANGED Policy!policyVars
  BY GiveUpStep, StutterStep DEF NextAttempt

LEMMA StartUpdatePolicy ==
    ASSUME IInv, AlertInv, StartUpdate
    PROVE  Policy!Withdraw \/ UNCHANGED Policy!policyVars
  <1>1. /\ \/ \E r \in {FALSE, wanted} : StartRefresh(r) \/ StartConnect(r)
           \/ WaitForBackoff
        /\ UNCHANGED <<recovery, notified>>
    BY DEF StartUpdate, verdictVars
  <1>2. CASE \E r \in {FALSE, wanted} : StartRefresh(r) \/ StartConnect(r)
    BY <1>1, <1>2, StutterStep DEF StartRefresh, StartConnect
  <1>3. CASE WaitForBackoff
    <2>1. phase # "setup" /\ recovery = "unavailable" /\ FailUpdate
      BY <1>3 DEF WaitForBackoff, AlertInv, IInv, BackoffInv
    <2> QED BY <1>1, <2>1, WithdrawStep DEF IInv, TypeOK, VerdictOK
  <1> QED BY <1>1, <1>2, <1>3

LEMMA ConnectPolicy ==
    ASSUME IInv, AlertInv,
           DetectPlant \/ ConnectOk \/ ReconnectOk \/ ConnectFailed \/ ClosedFailedConnect
             \/ ClosedFailedReconnect
    PROVE  Policy!Publish \/ Policy!Surrender \/ UNCHANGED Policy!policyVars
  <1>1. CASE DetectPlant \/ ConnectFailed
    BY <1>1, StutterStep DEF DetectPlant, ConnectFailed, entryVars, verdictVars
  <1>2. CASE ConnectOk
    BY <1>2, PublishStep DEF ConnectOk, AcceptTrustedPlant, TransitionTo, EndUpdate, IInv
  <1>3. CASE ReconnectOk
    BY <1>3, NextAttemptStep DEF ReconnectOk, IInv
  <1>4. CASE ClosedFailedConnect
    BY <1>4, SurrenderStep
       DEF ClosedFailedConnect, RecordFailureAndGiveUp, FailUpdate, EndUpdate, IInv
  <1>5. CASE ClosedFailedReconnect
    BY <1>5, GiveUpStep DEF ClosedFailedReconnect, IInv
  <1> QED BY <1>1, <1>2, <1>3, <1>4, <1>5

LEMMA ReadPolicy ==
    ASSUME IInv, AlertInv, ReadOk \/ ReadCorrupt \/ ReadFailed \/ ReadUnexpected
    PROVE  Policy!Publish \/ Policy!Falter \/ Policy!Surrender \/ UNCHANGED Policy!policyVars
  <1>1. pc = "reading" /\ phase # "setup"
    BY DEF ReadOk, ReadCorrupt, ReadFailed, ReadUnexpected, IInv, SetupInv
  <1>2. CASE ReadOk
    <2>1. UNCHANGED phase
      BY <1>2 DEF ReadOk, entryVars
    <2> QED BY <1>1, <1>2, <2>1, PublishStep
            DEF ReadOk, AcceptTrustedPlant, TransitionTo, EndUpdate, IInv
  <1>3. CASE ReadCorrupt /\ UnhealthyDurationExceeded
    BY <1>3, SurrenderStep
       DEF ReadCorrupt, RecordFailureAndGiveUp, FailUpdate, EndUpdate, IInv
  <1>4. CASE ReadCorrupt /\ ~UnhealthyDurationExceeded
    BY <1>4, FalterStep DEF ReadCorrupt
  <1>5. CASE ReadFailed
    <2>1. PICK c \in {"timeout", "communication"} : RecordFailure(c)
      BY <1>5 DEF ReadFailed
    <2> QED BY <1>5, <2>1, FalterStep DEF ReadFailed, entryVars
  <1>6. CASE ReadUnexpected
    BY <1>1, <1>6, SurrenderStep DEF ReadUnexpected, RecordFailureAndGiveUp, entryVars, IInv
  <1> QED BY <1>2, <1>3, <1>4, <1>5, <1>6

LEMMA RestPolicy ==
    ASSUME IInv, AlertInv,
           ClosedGiveUp \/ ClosedUnexpected \/ ClosedToReconnect \/ ReconnectWake \/ RetryWake
             \/ UpdateCancelled
    PROVE  Policy!Surrender \/ Policy!Withdraw \/ Policy!Retire \/ UNCHANGED Policy!policyVars
  <1>1. CASE ClosedGiveUp
    BY <1>1, GiveUpStep DEF ClosedGiveUp, IInv
  <1>2. CASE ClosedUnexpected
    <2>1. phase # "setup" /\ recovery = "unavailable"
      BY <1>2 DEF ClosedUnexpected, IInv, SetupInv, CloseInv
    <2> QED BY <1>2, <2>1, WithdrawStep DEF ClosedUnexpected, verdictVars, IInv, TypeOK, VerdictOK
  <1>3. CASE ClosedToReconnect \/ ReconnectWake
    BY <1>3, StutterStep DEF ClosedToReconnect, ReconnectWake, entryVars, verdictVars
  <1>4. CASE RetryWake
    BY <1>4, NextAttemptStep DEF RetryWake, IInv
  <1>5. CASE UpdateCancelled
    <2>1. UNCHANGED <<recovery, notified, available>>
            /\ phase' = IF phase = "setup" THEN "stopped" ELSE phase
      BY <1>5 DEF UpdateCancelled, EndUpdate, verdictVars
    <2> QED BY <2>1, RetireStep, StutterStep
  <1> QED BY <1>1, <1>2, <1>3, <1>4, <1>5

LEMMA OthersPolicy ==
    ASSUME CommandStep \/ Shutdown \/ ShutdownClosed \/ ConnectionLost \/ RelayedRead
             \/ LinkChanges \/ Tick
    PROVE  Policy!Retire \/ UNCHANGED Policy!policyVars
  <1>1. CASE Shutdown \/ ShutdownClosed
    <2>1. UNCHANGED <<recovery, available, notified>> /\ phase' \in {"stopping", "stopped"}
      BY <1>1 DEF Shutdown, ShutdownClosed, UnloadEnds, EndUpdate, verdictVars
    <2> QED BY <2>1, RetireStep
  <1>2. CASE CommandStep \/ ConnectionLost \/ RelayedRead \/ LinkChanges \/ Tick
    BY <1>2, StutterStep
       DEF CommandStep, Execute, ApplyWrite, WriteAnswered, ExecuteOk, ExecuteFailed, LeftoverEnds,
           ConnectionLost, RelayedRead, LinkChanges, Tick, coordinatorVars, entryVars, verdictVars
  <1> QED BY <1>1, <1>2

LEMMA PolicyStep ==
    ASSUME IInv, AlertInv, [Next]_vars
    PROVE  [Policy!PolicyNext]_Policy!policyVars
  <1>1. CASE UpdateStep
    BY <1>1, StartUpdatePolicy, ConnectPolicy, ReadPolicy, RestPolicy
       DEF UpdateStep, Policy!PolicyNext
  <1>2. CASE ~UpdateStep /\ Next
    BY <1>2, OthersPolicy DEF Next, Policy!PolicyNext
  <1>3. CASE UNCHANGED vars
    BY <1>3, StutterStep DEF vars, coordinatorVars, entryVars, verdictVars
  <1> QED BY <1>1, <1>2, <1>3

\* An alert is only raised together with the state that calls for it.
LEMMA AlertStep == ASSUME IInv, AlertInv, [Next]_vars PROVE AlertInv'
  <1>1. notified' => recovery' = "unavailable"
    BY PolicyStep
       DEF AlertInv, Policy!PolicyNext, Policy!Publish, Policy!Falter, Policy!Surrender,
           Policy!Withdraw, Policy!Retire, Policy!policyVars
  <1>2. ASSUME phase' = "setup"
        PROVE  untilReconnect' = 0
    <2>1. ~ClosedFailedConnect /\ ~ClosedFailedReconnect /\ ~ConnectOk /\ ~Shutdown /\ ~ShutdownClosed
      BY <1>2 DEF ClosedFailedConnect, ClosedFailedReconnect, GiveUp, FailUpdate, ConnectOk,
                  Shutdown, ShutdownClosed, UnloadEnds
    <2>2. CASE ReconnectOk
      BY <2>2 DEF ReconnectOk, ResetReconnectBackoff
    <2>3. CASE Tick
      BY <1>2, <2>3 DEF Tick, AlertInv, entryVars
    <2>4. CASE ~ReconnectOk /\ ~Tick
      <3>1. CASE UpdateStep
        <4>1. UNCHANGED untilReconnect
          BY <2>1, <2>4, <3>1
             DEF UpdateStep, StartUpdate, DetectPlant, ConnectFailed, ReadOk, ReadCorrupt,
                 ReadFailed, ReadUnexpected, ClosedGiveUp, ClosedUnexpected, ClosedToReconnect,
                 ReconnectWake, RetryWake, UpdateCancelled, memoryVars, backoffVars
        <4>2. phase = "setup"
          BY <1>2, <2>1, <2>4, <3>1
             DEF UpdateStep, StartUpdate, StartRefresh, StartConnect, WaitForBackoff, DetectPlant,
                 ConnectFailed, ReadOk, ReadCorrupt, ReadFailed, ReadUnexpected, ClosedGiveUp,
                 ClosedUnexpected, ClosedToReconnect, ReconnectWake, RetryWake, NextAttempt,
                 GiveUp, FailUpdate, UpdateCancelled, entryVars
        <4> QED BY <4>1, <4>2 DEF AlertInv
      <3>2. CASE ~UpdateStep
        <4>1. UNCHANGED <<phase, untilReconnect>>
          BY <2>1, <2>4, <3>2
             DEF Next, vars, CommandStep, Execute, ApplyWrite, WriteAnswered, ExecuteOk, ExecuteFailed,
                 LeftoverEnds, ConnectionLost, RelayedRead, LinkChanges, coordinatorVars,
                 entryVars, memoryVars, backoffVars
        <4> QED BY <1>2, <4>1 DEF AlertInv
      <3> QED BY <3>1, <3>2
    <2> QED BY <2>2, <2>3, <2>4
  <1> QED BY <1>1, <1>2 DEF AlertInv

\* The safety part of ImplementsPolicy: the coordinator starts as RecoveryPolicy says, and
\* each of its steps is one the policy allows, or none its users see: a failure first only
\* falters, an alert comes with the withdrawal of the entities, and all of it ends at once
\* with the next publication.
THEOREM PolicyIsKept == Spec => Policy!PolicyInit /\ [][Policy!PolicyNext]_Policy!policyVars
  <1>1. Init => AlertInv /\ Policy!PolicyInit
    BY DEF Init, AlertInv, Policy!PolicyInit
  <1>2. IInv /\ AlertInv /\ [Next]_vars => AlertInv'
    BY AlertStep
  <1>3. IInv /\ AlertInv /\ [Next]_vars => [Policy!PolicyNext]_Policy!policyVars
    BY PolicyStep
  <1> QED BY <1>1, <1>2, <1>3, Inductive, PTL DEF Spec

(***************************************************************************)
(* How old published data may become.                                      *)
(***************************************************************************)
AfterReconnect == MaxUnhealthy + CloseTimeout + RetryDelay + ConnectTimeout
ReadBy == IF PollInterval <= AfterReconnect THEN AfterReconnect ELSE PollInterval

\* How old it may be when the await at l begins.
AgeAt(l) ==
    CASE l = "idle"                                 -> 0
      [] l \in {"connecting", "detecting"}          -> PollInterval
      [] l = "closeFailedConnect"                   -> PollInterval + ConnectTimeout
      [] l = "reading"                              -> ReadBy
      [] l \in {"retrySleep", "closeToReconnect"}   -> MaxUnhealthy
      [] l = "reconnectSleep"                       -> MaxUnhealthy + CloseTimeout
      [] l \in {"reconnecting", "redetecting"}      -> MaxUnhealthy + CloseTimeout + RetryDelay
      [] l = "closeFailedReconnect"                 -> AfterReconnect
      [] l \in {"closeGiveUp", "closeUnexpected"}   -> ReadBy + RefreshTimeout

\* No await outlives its timeout, and data that is still shown was no older when it began.
AgeInv ==
    phase = "loaded" =>
        /\ elapsed <= Limit
        /\ available => trustedAge <= AgeAt(pc) + elapsed

LEMMA Durations ==
    /\ RetryDelay \in Nat /\ RefreshTimeout \in Nat /\ CloseTimeout \in Nat
    /\ ConnectTimeout \in Nat /\ PollInterval \in Nat /\ MaxUnhealthy \in Nat
    /\ AfterReconnect \in Nat /\ ReadBy \in Nat /\ PollInterval <= ReadBy /\ AfterReconnect <= ReadBy
  <1>1. /\ RetryDelay \in Nat /\ RefreshTimeout \in Nat /\ CloseTimeout \in Nat
        /\ ConnectTimeout \in Nat /\ PollInterval \in Nat /\ MaxUnhealthy \in Nat
    BY CoordinatorAssumption
  <1>2. AfterReconnect \in Nat
    BY <1>1 DEF AfterReconnect
  <1> QED BY <1>1, <1>2 DEF ReadBy

\* The two tables, label by label.
LEMMA Ages ==
    /\ AgeAt("idle") = 0
    /\ AgeAt("connecting") = PollInterval /\ AgeAt("detecting") = PollInterval
    /\ AgeAt("closeFailedConnect") = PollInterval + ConnectTimeout
    /\ AgeAt("reading") = ReadBy
    /\ AgeAt("retrySleep") = MaxUnhealthy /\ AgeAt("closeToReconnect") = MaxUnhealthy
    /\ AgeAt("reconnectSleep") = MaxUnhealthy + CloseTimeout
    /\ AgeAt("reconnecting") = MaxUnhealthy + CloseTimeout + RetryDelay
    /\ AgeAt("redetecting") = MaxUnhealthy + CloseTimeout + RetryDelay
    /\ AgeAt("closeFailedReconnect") = AfterReconnect
    /\ AgeAt("closeGiveUp") = ReadBy + RefreshTimeout
    /\ AgeAt("closeUnexpected") = ReadBy + RefreshTimeout
  BY DEF AgeAt

LEMMA Limits ==
    ASSUME TaskOK, phase = "loaded"
    PROVE  /\ Limit \in Nat
           /\ pc = "idle" => Limit = PollInterval
           /\ pc = "reading" => Limit = RefreshTimeout
           /\ pc \in Sleeping => Limit = RetryDelay
           /\ pc \in Connecting => Limit = ConnectTimeout
           /\ pc \in Closing => Limit <= CloseTimeout
  BY Durations DEF Limit, TaskOK, Labels, Sleeping, Connecting, Closing

\* The next await begins with data no older than its label allows.
LEMMA NewAwait ==
    ASSUME TaskOK', elapsed' = 0, available' => trustedAge' <= AgeAt(pc')
    PROVE  AgeInv'
  <1> SUFFICES ASSUME phase' = "loaded"
               PROVE  elapsed' <= Limit' /\ (available' => trustedAge' <= AgeAt(pc') + elapsed')
    BY DEF AgeInv, AgeAt
  <1>1. 0 <= Limit'
    BY Durations DEF Limit, TaskOK, Labels, Sleeping, Connecting, Closing
  <1>2. available' => trustedAge' <= AgeAt(pc') + 0
    <2>1. AgeAt(pc') \in Int
      BY Ages, Durations DEF TaskOK, Labels, Sleeping, Connecting, Closing
    <2> QED BY <2>1
  <1> QED BY <1>1, <1>2

\* What is known of a loaded coordinator at each await.
LEMMA AgeNow ==
    ASSUME IInv, AgeInv, phase = "loaded", available
    PROVE  /\ trustedAge \in Int
           /\ pc = "idle" => trustedAge <= PollInterval
           /\ pc \in {"connecting", "detecting"} => trustedAge <= PollInterval + ConnectTimeout
           /\ pc = "reading" => trustedAge <= ReadBy + RefreshTimeout
           /\ pc = "retrySleep" => trustedAge <= MaxUnhealthy + RetryDelay
           /\ pc = "closeToReconnect" => trustedAge <= MaxUnhealthy + CloseTimeout
           /\ pc = "reconnectSleep" => trustedAge <= MaxUnhealthy + CloseTimeout + RetryDelay
           /\ pc \in {"reconnecting", "redetecting"} => trustedAge <= AfterReconnect
           /\ pc = "closeFailedConnect" => trustedAge <= PollInterval + ConnectTimeout + CloseTimeout
           /\ pc = "closeFailedReconnect" => trustedAge <= AfterReconnect + CloseTimeout
           /\ pc \in {"closeGiveUp", "closeUnexpected"}
                => trustedAge <= ReadBy + RefreshTimeout + CloseTimeout
  <1>1. trustedAge \in Int /\ elapsed \in Nat
    BY Bounds DEF IInv, TypeOK, TaskOK, MemoryOK, Never
  <1>2. Limit \in Nat /\ elapsed <= Limit /\ trustedAge <= AgeAt(pc) + elapsed
    BY Limits DEF AgeInv, IInv, TypeOK
  <1> USE Ages, Durations, Limits, <1>1, <1>2 DEF IInv, TypeOK
  <1>3. pc \in {"idle", "reading"} \cup Sleeping \cup Connecting =>
          /\ pc = "idle" => trustedAge <= PollInterval
          /\ pc \in {"connecting", "detecting"} => trustedAge <= PollInterval + ConnectTimeout
          /\ pc = "reading" => trustedAge <= ReadBy + RefreshTimeout
          /\ pc = "retrySleep" => trustedAge <= MaxUnhealthy + RetryDelay
          /\ pc = "reconnectSleep" => trustedAge <= MaxUnhealthy + CloseTimeout + RetryDelay
          /\ pc \in {"reconnecting", "redetecting"} => trustedAge <= AfterReconnect
    BY DEF Sleeping, Connecting, AfterReconnect
  <1>4. pc \in Closing =>
          /\ pc = "closeToReconnect" => trustedAge <= MaxUnhealthy + CloseTimeout
          /\ pc = "closeFailedConnect" => trustedAge <= PollInterval + ConnectTimeout + CloseTimeout
          /\ pc = "closeFailedReconnect" => trustedAge <= AfterReconnect + CloseTimeout
          /\ pc \in {"closeGiveUp", "closeUnexpected"}
               => trustedAge <= ReadBy + RefreshTimeout + CloseTimeout
    BY DEF Closing
  <1> QED BY <1>1, <1>3, <1>4 DEF Sleeping, Connecting, Closing

\* No step loads an entry but the first publication.
LEMMA LoadedStays ==
    ASSUME Next, phase' = "loaded", ~ConnectOk
    PROVE  phase = "loaded"
  <1>1. CASE UpdateStep
    BY <1>1
       DEF UpdateStep, StartUpdate, StartRefresh, StartConnect, WaitForBackoff, DetectPlant,
           ReconnectOk, ConnectFailed, ClosedFailedConnect, ClosedFailedReconnect, ReadOk,
           ReadCorrupt, ReadFailed, ReadUnexpected, ClosedGiveUp, ClosedUnexpected,
           ClosedToReconnect, ReconnectWake, RetryWake, UpdateCancelled, NextAttempt, GiveUp,
           FailUpdate, entryVars
  <1>2. CASE ~UpdateStep
    BY <1>2
       DEF Next, CommandStep, Execute, ApplyWrite, WriteAnswered, ExecuteOk, ExecuteFailed, LeftoverEnds, Shutdown,
           ShutdownClosed, UnloadEnds, ConnectionLost, RelayedRead, LinkChanges, Tick,
           coordinatorVars, entryVars
  <1> QED BY <1>1, <1>2

LEMMA NextAttemptAge ==
    ASSUME IInv, TaskOK', NEW f, NextAttempt(f), trustedAge' = trustedAge,
           available => trustedAge <= ReadBy
    PROVE  AgeInv'
  <1>1. CASE task.attempt < Attempts
    BY <1>1, Ages, NewAwait DEF NextAttempt, BeginRead, Await
  <1>2. CASE ~(task.attempt < Attempts)
    BY <1>2, NewAwait DEF NextAttempt, GiveUp, FailUpdate, EndUpdate, Await
  <1> QED BY <1>1, <1>2

LEMMA UpdateStepAge ==
    ASSUME IInv, TaskOK', AgeInv, phase = "loaded", UpdateStep, ~UpdateCancelled, ~ConnectOk
    PROVE  AgeInv'
  <1>1. CASE StartUpdate
    <2>1. pc = "idle" /\ trustedAge' = trustedAge
      BY <1>1 DEF StartUpdate, trustVars
    <2>2. elapsed' = 0 /\ (\/ pc' = "reading" /\ available' = available
                           \/ pc' = "connecting" /\ available' = available
                           \/ available' = FALSE)
      BY <1>1 DEF StartUpdate, StartRefresh, StartConnect, WaitForBackoff, FailUpdate, EndUpdate,
                  BeginRead, Await
    <2>3. available => trustedAge <= PollInterval /\ trustedAge <= ReadBy
      BY <2>1, AgeNow, Durations
    <2> QED BY <2>1, <2>2, <2>3, NewAwait, Ages
  <1>2. CASE DetectPlant
    <2>1. /\ \/ pc = "connecting" /\ pc' = "detecting"
             \/ pc = "reconnecting" /\ pc' = "redetecting"
          /\ UNCHANGED <<phase, elapsed, available, trustedAge>>
      BY <1>2 DEF DetectPlant, entryVars, memoryVars, trustVars
    <2>2. AgeAt(pc') = AgeAt(pc)
      BY <2>1, Ages
    <2>3. Limit = ConnectTimeout /\ Limit' = ConnectTimeout
      BY <2>1 DEF Limit, Sleeping, Connecting, Closing
    <2> QED BY <2>1, <2>2, <2>3 DEF AgeInv, AgeAt
  <1>3. CASE ReconnectOk
    <2>1. pc \in {"reconnecting", "redetecting"} /\ trustedAge' = trustedAge /\ NextAttempt(requireFull')
      BY <1>3 DEF ReconnectOk, trustVars
    <2>2. available => trustedAge <= ReadBy
      BY <2>1, AgeNow, Durations
    <2> QED BY <2>1, <2>2, NextAttemptAge
  <1>4. CASE ConnectFailed
    <2>1. trustedAge' = trustedAge /\ available' = available /\ elapsed' = 0
          /\ \/ pc \in {"connecting", "detecting"} /\ pc' = "closeFailedConnect"
             \/ pc \in {"reconnecting", "redetecting"} /\ pc' = "closeFailedReconnect"
      BY <1>4 DEF ConnectFailed, BeginClose, Await, memoryVars, trustVars
    <2> QED BY <2>1, NewAwait, Ages, AgeNow
  <1>5. CASE ClosedFailedConnect \/ ClosedFailedReconnect \/ ClosedGiveUp \/ ClosedUnexpected
    BY <1>5, NewAwait
       DEF ClosedFailedConnect, ClosedFailedReconnect, ClosedGiveUp, ClosedUnexpected, GiveUp,
           FailUpdate, EndUpdate, Await
  <1>6. CASE ReadOk
    <2>1. pc' = "idle" /\ elapsed' = 0 /\ trustedAge' = 0
      BY <1>6 DEF ReadOk, AcceptTrustedPlant, EndUpdate, Await
    <2> QED BY <2>1, NewAwait, Ages
  <1>7. CASE ReadCorrupt
    <2>1. trustedAge' = trustedAge /\ elapsed' = 0
          /\ \/ available' = FALSE
             \/ pc' = "retrySleep" /\ available' = available /\ ~UnhealthyDurationExceeded
      BY <1>7 DEF ReadCorrupt, FailUpdate, EndUpdate, Await, memoryVars, trustVars
    <2>2. trustedAge \in Int /\ MaxUnhealthy \in Int
      BY Bounds DEF IInv, TypeOK, MemoryOK, Never
    <2> QED BY <2>1, <2>2, NewAwait, Ages DEF UnhealthyDurationExceeded
  <1>8. CASE ReadFailed
    <2>1. trustedAge' = trustedAge /\ elapsed' = 0 /\ available' = available /\ pc = "reading"
          /\ pc' = IF UnhealthyDurationExceeded THEN "closeGiveUp" ELSE "closeToReconnect"
      BY <1>8 DEF ReadFailed, BeginClose, Await, memoryVars, trustVars
    <2>2. trustedAge \in Int /\ MaxUnhealthy \in Int
      BY Bounds DEF IInv, TypeOK, MemoryOK, Never
    <2> QED BY <2>1, <2>2, NewAwait, Ages, AgeNow DEF UnhealthyDurationExceeded
  <1>9. CASE ReadUnexpected
    <2>1. trustedAge' = trustedAge /\ elapsed' = 0 /\ available' = available /\ pc = "reading"
          /\ pc' = "closeUnexpected"
      BY <1>9 DEF ReadUnexpected, BeginClose, Await, memoryVars, trustVars
    <2> QED BY <2>1, NewAwait, Ages, AgeNow
  <1>10. CASE ClosedToReconnect
    <2>1. trustedAge' = trustedAge /\ elapsed' = 0 /\ available' = available
          /\ pc = "closeToReconnect" /\ pc' = "reconnectSleep"
      BY <1>10 DEF ClosedToReconnect, Await, memoryVars, trustVars
    <2> QED BY <2>1, NewAwait, Ages, AgeNow
  <1>11. CASE ReconnectWake
    <2>1. trustedAge' = trustedAge /\ elapsed' = 0 /\ available' = available
          /\ pc = "reconnectSleep" /\ pc' = "reconnecting"
      BY <1>11 DEF ReconnectWake, Await, memoryVars, trustVars
    <2> QED BY <2>1, NewAwait, Ages, AgeNow
  <1>12. CASE RetryWake
    <2>1. pc = "retrySleep" /\ trustedAge' = trustedAge /\ NextAttempt(requireFull)
      BY <1>12 DEF RetryWake, memoryVars, trustVars
    <2>2. available => trustedAge <= ReadBy
      <3>1. MaxUnhealthy + RetryDelay <= AfterReconnect
        BY Durations DEF AfterReconnect
      <3> QED BY <2>1, <3>1, AgeNow, Durations
    <2> QED BY <2>1, <2>2, NextAttemptAge
  <1> QED BY <1>1, <1>2, <1>3, <1>4, <1>5, <1>6, <1>7, <1>8, <1>9, <1>10, <1>11, <1>12
          DEF UpdateStep

LEMMA AgeStep ==
    ASSUME IInv, IInv', AgeInv, [Next]_vars, ~UpdateCancelled
    PROVE  AgeInv'
  <1> SUFFICES ASSUME phase' = "loaded" PROVE AgeInv'
    BY DEF AgeInv
  <1>1. TaskOK'
    BY DEF IInv, TypeOK
  <1>2. CASE ConnectOk
    <2>1. pc' = "idle" /\ elapsed' = 0 /\ trustedAge' = 0
      BY <1>2 DEF ConnectOk, AcceptTrustedPlant, EndUpdate, Await
    <2> QED BY <1>1, <2>1, NewAwait, Ages
  <1>3. CASE UpdateStep /\ ~ConnectOk
    BY <1>1, <1>3, LoadedStays, UpdateStepAge DEF Next
  <1>4. CASE Tick
    <2>1. phase = "loaded" /\ elapsed < Limit /\ elapsed' = elapsed + 1 /\ trustedAge' = Older(trustedAge)
          /\ UNCHANGED <<pc, task, available>>
      BY <1>4 DEF Tick, Stopped, entryVars
    <2>2. trustedAge \in Int /\ elapsed \in Nat /\ AgeAt(pc) \in Int /\ Limit \in Nat
      BY <2>1, Bounds, Ages, Durations, Limits
         DEF IInv, TypeOK, TaskOK, MemoryOK, Never, Labels, Sleeping, Connecting, Closing
    <2>3. trustedAge' <= trustedAge + 1
      BY <2>1, <2>2 DEF Older
    <2>4. Limit' = Limit /\ AgeAt(pc)' = AgeAt(pc)
      BY <2>1 DEF Limit, AgeAt
    <2>5. elapsed' <= Limit'
      BY <2>1, <2>2, <2>4 DEF AgeInv
    <2>6. available' => trustedAge' <= AgeAt(pc)' + elapsed'
      BY <2>1, <2>2, <2>3, <2>4 DEF AgeInv, Older
    <2> QED BY <2>5, <2>6 DEF AgeInv
  <1>5. CASE (Next /\ ~UpdateStep /\ ~Tick) \/ UNCHANGED vars
    <2>1. ~Shutdown /\ ~ShutdownClosed
      BY <1>5 DEF Shutdown, ShutdownClosed, UnloadEnds, vars, coordinatorVars, entryVars
    <2>2. UNCHANGED <<phase, pc, task, elapsed, available, trustedAge>>
      BY <1>5, <2>1
         DEF Next, vars, CommandStep, Execute, ApplyWrite, WriteAnswered, ExecuteOk, ExecuteFailed, LeftoverEnds,
             ConnectionLost, RelayedRead, LinkChanges, coordinatorVars, entryVars, taskVars,
             memoryVars, trustVars
    <2> QED BY <2>2 DEF AgeInv, AgeAt, Limit
  <1> QED BY <1>2, <1>3, <1>4, <1>5 DEF UpdateStep

LEMMA AgeBounds == ASSUME IInv, AgeInv PROVE StaleDataBounded
  <1> SUFFICES ASSUME phase = "loaded", available
               PROVE  \/ trustedAge <= AfterReconnect + RefreshTimeout + CloseTimeout
                      \/ trustedAge <= PollInterval + RefreshTimeout + CloseTimeout
                      \/ trustedAge <= PollInterval + ConnectTimeout + CloseTimeout
    BY DEF StaleDataBounded, AfterReconnect
  <1>1. \/ trustedAge <= ReadBy + RefreshTimeout + CloseTimeout
        \/ trustedAge <= PollInterval + ConnectTimeout + CloseTimeout
    <2>1. pc \in Labels
      BY DEF IInv, TypeOK, TaskOK
    <2>2. MaxUnhealthy + RetryDelay <= ReadBy /\ MaxUnhealthy + CloseTimeout + RetryDelay <= ReadBy
            /\ MaxUnhealthy + CloseTimeout <= ReadBy
      BY Durations DEF AfterReconnect
    <2> QED BY <2>1, <2>2, AgeNow, Durations DEF Labels, Sleeping, Connecting, Closing
  <1> QED BY <1>1, Durations, AgeNow DEF ReadBy

\* An update that ends otherwise than by a cancellation publishes fresh data or withdraws the
\* entities: the ages are in order again.
LEMMA EndRestoresAge ==
    ASSUME IInv', [Next]_vars, pc # "idle", pc' = "idle", ~UpdateCancelled
    PROVE  AgeInv'
  <1> SUFFICES ASSUME phase' = "loaded" PROVE AgeInv'
    BY DEF AgeInv
  <1>1. UpdateStep
    <2>1. ~CommandStep /\ ~ConnectionLost /\ ~RelayedRead /\ ~LinkChanges /\ ~Tick
      BY DEF CommandStep, Execute, ApplyWrite, WriteAnswered, ExecuteOk, ExecuteFailed,
             LeftoverEnds, ConnectionLost, RelayedRead, LinkChanges, Tick, coordinatorVars,
             taskVars
    <2>2. ~Shutdown /\ ~ShutdownClosed
      BY DEF Shutdown, ShutdownClosed, UnloadEnds
    <2>3. ~UNCHANGED vars
      BY DEF vars, coordinatorVars, taskVars
    <2> QED BY <2>1, <2>2, <2>3 DEF Next
  <1>2. elapsed' = 0 /\ (available' => trustedAge' = 0)
    <2>1. CASE ReadOk \/ ConnectOk
      BY <2>1 DEF ReadOk, ConnectOk, AcceptTrustedPlant, EndUpdate, Await
    <2>2. CASE RetryWake \/ ReconnectOk
      BY <2>2 DEF RetryWake, ReconnectOk, NextAttempt, BeginRead, GiveUp, FailUpdate, EndUpdate, Await
    <2>3. CASE ~ReadOk /\ ~ConnectOk /\ ~RetryWake /\ ~ReconnectOk
      BY <1>1, <2>3
         DEF UpdateStep, StartUpdate, DetectPlant, ConnectFailed, ClosedFailedConnect,
             ClosedFailedReconnect, ReadCorrupt, ReadFailed, ReadUnexpected, ClosedGiveUp,
             ClosedUnexpected, ClosedToReconnect, ReconnectWake, BeginClose, GiveUp, FailUpdate,
             EndUpdate, Await
    <2> QED BY <2>1, <2>2, <2>3
  <1>3. TaskOK' /\ AgeAt(pc') = 0
    BY Ages DEF IInv, TypeOK
  <1> QED BY <1>2, <1>3, NewAwait

\* How old published data may get while it is shown, whatever the durations are and whatever
\* close() cancels.  StaleDataBounded, what a failure within _MAX_UNHEALTHY_DURATION, a close,
\* a sleep, a connection, a read and a close, or a poll and one update, can add up to, holds
\* as long as AgeInv does, and that it does from the start until Client.close cancels the
\* update's own request; and it does again as soon as an update ends in any other way.
THEOREM StaleDataIsBounded ==
    Spec => /\ AgeInv
            /\ [](AgeInv => StaleDataBounded)
            /\ [][AgeInv /\ ~AgeInv' => UpdateCancelled]_vars
            /\ [][pc # "idle" /\ pc' = "idle" /\ ~UpdateCancelled => AgeInv']_vars
  <1>1. Init => AgeInv
    BY DEF Init, AgeInv
  <1>2. IInv => (AgeInv => StaleDataBounded)
    BY AgeBounds
  <1>3. IInv /\ IInv' /\ [Next]_vars => [AgeInv /\ ~AgeInv' => UpdateCancelled]_vars
    BY AgeStep
  <1>4. IInv /\ IInv' /\ [Next]_vars
          => [pc # "idle" /\ pc' = "idle" /\ ~UpdateCancelled => AgeInv']_vars
    BY EndRestoresAge
  <1> QED BY <1>1, <1>2, <1>3, <1>4, Inductive, PTL DEF Spec

(***************************************************************************)
(* How long an update takes.                                               *)
(***************************************************************************)
\* One pass of the loop that reads, closes, sleeps and connects again.
Round == RefreshTimeout + CloseTimeout + RetryDelay + ConnectTimeout
LongestUpdate == Attempts * Round + CloseTimeout

\* Awaits of the loop, after which it may go on to its next pass.
InLoop == {"reading", "retrySleep", "closeToReconnect", "reconnectSleep", "reconnecting", "redetecting"}
\* Closes after which the update ends.
LastClose == Closing \ {"closeToReconnect"}
PassesLeft == Attempts - task.attempt

\* How long the update can still run, and how many of its own steps it can take: what is left
\* of this pass, all of those that may follow, and the close of a connection that fails.
TimeAt(l) ==
    CASE l \in {"connecting", "detecting"}     -> ConnectTimeout
      [] l = "reading"                         -> Round
      [] l = "closeToReconnect"                -> CloseTimeout + RetryDelay + ConnectTimeout
      [] l = "reconnectSleep"                  -> RetryDelay + ConnectTimeout
      [] l \in {"reconnecting", "redetecting"} -> ConnectTimeout
      [] l = "retrySleep"                      -> RetryDelay
      [] OTHER                                 -> 0

StepsAt(l) ==
    CASE l = "reading"                           -> 6
      [] l \in {"retrySleep", "closeToReconnect"} -> 5
      [] l = "reconnectSleep"                    -> 4
      [] l \in {"connecting", "reconnecting"}    -> 3
      [] l \in {"detecting", "redetecting"}      -> 2
      [] l \in LastClose                         -> 1
      [] l = "idle"                              -> 0

TimeLeft ==
    IF pc = "idle" THEN 0
    ELSE TimeAt(pc) + CloseTimeout - elapsed + (IF pc \in InLoop THEN PassesLeft * Round ELSE 0)

StepsLeft == StepsAt(pc) + (IF pc \in InLoop THEN 6 * PassesLeft ELSE 0)

\* No await of an update outlives its timeout, and a pass of the loop is counted.
LimitInv ==
    /\ pc # "idle" => elapsed <= Limit
    /\ pc \in InLoop => task.attempt >= 1

LeftIsBounded ==
    /\ TimeLeft \in 0..LongestUpdate
    /\ StepsLeft \in 0..(6 * Attempts)
    /\ StepsLeft = 0 => pc = "idle"

\* Each step of the update leaves it fewer to take, time that passes leaves it less, and nothing
\* gives it back.
UpdateAdvances ==
    [][pc # "idle" =>
          /\ TimeLeft' <= TimeLeft /\ StepsLeft' <= StepsLeft
          /\ UpdateStep => StepsLeft' < StepsLeft
          /\ Tick => TimeLeft' < TimeLeft]_vars

LEMMA Passes ==
    ASSUME NEW n \in Nat
    PROVE  /\ Round \in Nat /\ n * Round \in Nat
           /\ n > 0 => (n - 1) * Round = n * Round - Round
  <1>1. Round \in Nat
    BY Durations DEF Round
  <1>2. PICK r \in Nat : r = Round
    BY <1>1
  <1>3. n * r \in Nat /\ (n > 0 => (n - 1) * r = n * r - r)
    OBVIOUS
  <1> QED BY <1>2, <1>3

LEMMA PassesBound ==
    ASSUME NEW n \in Nat, n < Attempts
    PROVE  n * Round + Round <= Attempts * Round /\ Attempts * Round \in Nat
  <1>1. PICK r \in Nat, a \in Nat : r = Round /\ a = Attempts /\ n + 1 <= a
    BY Passes, Bounds
  <1>2. n * r + r = (n + 1) * r
    OBVIOUS
  <1>3. (n + 1) * r <= a * r /\ a * r \in Nat
    <2>1. PICK d \in Nat : a = (n + 1) + d
      <3>1. a - (n + 1) \in Nat /\ a = (n + 1) + (a - (n + 1))
        BY <1>1
      <3> QED BY <3>1
    <2>2. a * r = (n + 1) * r + d * r /\ d * r \in Nat /\ (n + 1) * r \in Nat
      BY <2>1
    <2> QED BY <2>2
  <1> QED BY <1>1, <1>2, <1>3

\* The tables, label by label.
LEMMA Lefts ==
    /\ TimeAt("connecting") = ConnectTimeout /\ TimeAt("detecting") = ConnectTimeout
    /\ TimeAt("reconnecting") = ConnectTimeout /\ TimeAt("redetecting") = ConnectTimeout
    /\ TimeAt("reading") = Round /\ TimeAt("retrySleep") = RetryDelay
    /\ TimeAt("closeToReconnect") = CloseTimeout + RetryDelay + ConnectTimeout
    /\ TimeAt("reconnectSleep") = RetryDelay + ConnectTimeout
    /\ \A l \in LastClose : TimeAt(l) = 0 /\ StepsAt(l) = 1 /\ l \notin InLoop
    /\ StepsAt("reading") = 6 /\ StepsAt("retrySleep") = 5 /\ StepsAt("closeToReconnect") = 5
    /\ StepsAt("reconnectSleep") = 4
    /\ StepsAt("connecting") = 3 /\ StepsAt("reconnecting") = 3
    /\ StepsAt("detecting") = 2 /\ StepsAt("redetecting") = 2
    /\ StepsAt("idle") = 0
    /\ "connecting" \notin InLoop /\ "detecting" \notin InLoop /\ "idle" \notin InLoop
  BY DEF TimeAt, StepsAt, LastClose, Closing, InLoop

\* An update moves from one await to another, forward in its pass or to the next pass.
Moves ==
    \/ pc' = "idle" /\ task'.attempt = 0
    \/ /\ \/ pc = "connecting" /\ pc' = "detecting"
          \/ pc = "reconnecting" /\ pc' = "redetecting"
       /\ elapsed' = elapsed /\ task'.attempt = task.attempt
    \/ /\ \/ pc \in {"connecting", "detecting", "reading", "reconnecting", "redetecting"}
             /\ pc' \in LastClose
          \/ pc = "reading" /\ pc' \in {"retrySleep", "closeToReconnect"}
          \/ pc = "closeToReconnect" /\ pc' = "reconnectSleep"
          \/ pc = "reconnectSleep" /\ pc' = "reconnecting"
       /\ elapsed' = 0 /\ task'.attempt = task.attempt
    \/ /\ pc \in {"reconnecting", "redetecting", "retrySleep"} /\ pc' = "reading"
       /\ elapsed' = 0 /\ task.attempt < Attempts /\ task'.attempt = task.attempt + 1

LEMMA NextPass ==
    ASSUME TaskOK, NEW f, NextAttempt(f), pc \in {"reconnecting", "redetecting", "retrySleep"}
    PROVE  Moves
  <1>1. task \in Task
    BY DEF TaskOK
  <1>2. CASE task.attempt < Attempts
    <2>1. task'.attempt = task.attempt + 1 /\ pc' = "reading" /\ elapsed' = 0
      BY <1>1, <1>2 DEF NextAttempt, BeginRead, Await, Task
    <2> QED BY <1>2, <2>1 DEF Moves
  <1>3. CASE ~(task.attempt < Attempts)
    BY <1>3 DEF NextAttempt, GiveUp, FailUpdate, EndUpdate, Await, NoTask, Moves
  <1> QED BY <1>2, <1>3

LEMMA UpdateMoves ==
    ASSUME TaskOK, UpdateStep, pc # "idle"
    PROVE  Moves
  <1>1. task \in Task
    BY DEF TaskOK
  <1>2. CASE ConnectOk \/ ClosedFailedConnect \/ ClosedFailedReconnect \/ ReadOk \/ ClosedGiveUp
             \/ ClosedUnexpected \/ UpdateCancelled
    <2>1. pc' = "idle" /\ task' = NoTask
      BY <1>2 DEF ConnectOk, ClosedFailedConnect, ClosedFailedReconnect, ReadOk, ClosedGiveUp,
                  ClosedUnexpected, UpdateCancelled, GiveUp, FailUpdate, EndUpdate, Await
    <2> QED BY <2>1, NoTaskType DEF Moves
  <1>3. CASE DetectPlant
    <2>1. task'.attempt = task.attempt
      BY <1>1, <1>3 DEF DetectPlant, Task
    <2> QED BY <1>3, <2>1 DEF DetectPlant, Moves
  <1>4. CASE ConnectFailed
    BY <1>1, <1>4 DEF ConnectFailed, BeginClose, Await, Moves, Task, LastClose, Closing
  <1>5. CASE ReadFailed
    BY <1>1, <1>5 DEF ReadFailed, BeginClose, Await, Moves, Task, LastClose, Closing
  <1>6. CASE ReadUnexpected
    BY <1>1, <1>6 DEF ReadUnexpected, BeginClose, Await, Moves, Task, LastClose, Closing
  <1>7. CASE ReadCorrupt
    <2>1. \/ pc' = "idle" /\ task' = NoTask
          \/ pc = "reading" /\ pc' = "retrySleep" /\ elapsed' = 0 /\ task' = task
      BY <1>7 DEF ReadCorrupt, FailUpdate, EndUpdate, Await
    <2> QED BY <2>1, NoTaskType DEF Moves
  <1>8. CASE ClosedToReconnect
    BY <1>1, <1>8 DEF ClosedToReconnect, Await, Moves, Task
  <1>9. CASE ReconnectWake
    BY <1>9 DEF ReconnectWake, Await, Moves
  <1>10. CASE ReconnectOk
    BY <1>10, NextPass DEF ReconnectOk
  <1>11. CASE RetryWake
    BY <1>11, NextPass DEF RetryWake
  <1>12. ~StartUpdate
    BY DEF StartUpdate
  <1> QED BY <1>2, <1>3, <1>4, <1>5, <1>6, <1>7, <1>8, <1>9, <1>10, <1>11, <1>12 DEF UpdateStep

\* What else happens leaves the update where it is or ends it.
LEMMA OthersMove ==
    ASSUME [Next]_vars, ~UpdateStep, ~Tick
    PROVE  UNCHANGED <<pc, task, elapsed>> \/ (pc' = "idle" /\ task'.attempt = 0)
  <1>1. CASE Shutdown \/ ShutdownClosed
    <2>1. UNCHANGED taskVars \/ (pc' = "idle" /\ task' = NoTask)
      BY <1>1 DEF Shutdown, ShutdownClosed, UnloadEnds, EndUpdate, Await
    <2> QED BY <2>1, NoTaskType DEF taskVars
  <1>2. CASE CommandStep
    BY <1>2 DEF CommandStep, Execute, ApplyWrite, WriteAnswered, ExecuteOk, ExecuteFailed, LeftoverEnds,
                coordinatorVars, taskVars
  <1>3. CASE ConnectionLost \/ RelayedRead \/ LinkChanges \/ UNCHANGED vars
    BY <1>3 DEF ConnectionLost, RelayedRead, LinkChanges, vars, coordinatorVars, taskVars
  <1> QED BY <1>1, <1>2, <1>3 DEF Next

LEMMA StartMoves ==
    ASSUME [Next]_vars, pc = "idle", pc' # "idle"
    PROVE  /\ elapsed' = 0
           /\ pc' = "connecting" \/ (pc' = "reading" /\ task'.attempt = 1)
  <1>1. StartUpdate
    <2>1. CASE UpdateStep
      BY <2>1 DEF UpdateStep, DetectPlant, ConnectOk, ReconnectOk, ConnectFailed, ClosedFailedConnect,
                  ClosedFailedReconnect, ReadOk, ReadCorrupt, ReadFailed, ReadUnexpected,
                  ClosedGiveUp, ClosedUnexpected, ClosedToReconnect, ReconnectWake, RetryWake,
                  UpdateCancelled, Connecting
    <2>2. CASE ~UpdateStep
      BY <2>2, OthersMove DEF Tick
    <2> QED BY <2>1, <2>2
  <1>2. PICK r : StartRefresh(r) \/ StartConnect(r)
    <2>1. ~WaitForBackoff
      BY DEF WaitForBackoff, FailUpdate, EndUpdate, Await
    <2> QED BY <1>1, <2>1 DEF StartUpdate
  <1> QED BY <1>2 DEF StartRefresh, StartConnect, BeginRead, Await, NoTask

\* What is known of the awaits of an update.
LEMMA AwaitNow ==
    ASSUME TaskOK, LimitInv
    PROVE  /\ elapsed \in Nat /\ task.attempt \in Nat /\ PassesLeft \in Nat
           /\ pc \in InLoop => PassesLeft < Attempts
           /\ pc \in {"connecting", "detecting", "reconnecting", "redetecting"} => elapsed <= ConnectTimeout
           /\ pc = "reading" => elapsed <= RefreshTimeout
           /\ pc \in {"retrySleep", "reconnectSleep"} => elapsed <= RetryDelay
           /\ pc \in LastClose \cup {"closeToReconnect"} => elapsed <= CloseTimeout
  <1>1. task.attempt \in 0..Attempts /\ elapsed \in Nat
    BY DEF TaskOK, Task
  <1>2. PassesLeft \in Nat /\ (pc \in InLoop => PassesLeft < Attempts)
    BY <1>1, Bounds DEF PassesLeft, LimitInv
  <1>3. /\ pc = "reading" => Limit = RefreshTimeout
        /\ pc \in Sleeping => Limit = RetryDelay
        /\ pc \in Connecting => Limit = ConnectTimeout
        /\ pc \in Closing => Limit \in {0, CloseTimeout}
    BY DEF Limit, TaskOK, Labels, Sleeping, Connecting, Closing
  <1>4. pc # "idle" => elapsed <= Limit
    BY DEF LimitInv
  <1>5. pc \in Closing => elapsed <= CloseTimeout
    <2>1. pc \in Closing => Limit <= CloseTimeout /\ Limit \in Nat /\ elapsed <= Limit
      BY <1>3, <1>4, Durations DEF Closing
    <2> QED BY <1>1, <2>1, Durations
  <1> QED BY <1>1, <1>2, <1>3, <1>4, <1>5 DEF Connecting, Sleeping, LastClose, Closing

LEMMA LabelsOf ==
    /\ Labels = {"idle", "connecting", "detecting"} \cup InLoop \cup LastClose
    /\ "idle" \notin LastClose
  BY DEF Labels, Sleeping, Connecting, Closing, InLoop, LastClose

LEMMA LimitStep ==
    ASSUME TaskOK, TaskOK', LimitInv, [Next]_vars
    PROVE  LimitInv'
  <1>1. ASSUME pc' # "idle", elapsed' = 0 PROVE elapsed' <= Limit'
    <2>1. 0 <= Limit'
      BY Durations DEF Limit, TaskOK, Labels, Sleeping, Connecting, Closing
    <2> QED BY <1>1, <2>1
  <1>2. task.attempt \in Nat
    BY AwaitNow
  <1>3. CASE pc' = "idle"
    BY <1>3 DEF LimitInv, InLoop
  <1>4. CASE pc = "idle" /\ pc' # "idle"
    <2>1. /\ elapsed' = 0
          /\ pc' = "connecting" \/ (pc' = "reading" /\ task'.attempt = 1)
      BY <1>4, StartMoves
    <2> QED BY <1>1, <1>4, <2>1 DEF LimitInv, InLoop
  <1>5. CASE UpdateStep /\ pc # "idle" /\ pc' # "idle"
    <2>1. Moves
      BY <1>5, UpdateMoves
    <2>2. CASE elapsed' = 0
      <3>1. pc' \in InLoop => task'.attempt >= 1
        BY <1>2, <1>5, <2>1, LabelsOf DEF Moves, LimitInv, InLoop, LastClose, Closing
      <3> QED BY <1>1, <1>5, <2>2, <3>1 DEF LimitInv
    <2>3. CASE elapsed' # 0
      <3>1. /\ \/ pc = "connecting" /\ pc' = "detecting"
               \/ pc = "reconnecting" /\ pc' = "redetecting"
            /\ elapsed' = elapsed /\ task'.attempt = task.attempt
        BY <1>5, <2>1, <2>3 DEF Moves
      <3>2. Limit = ConnectTimeout /\ Limit' = ConnectTimeout
        BY <3>1 DEF Limit, Sleeping, Connecting, Closing
      <3> QED BY <3>1, <3>2 DEF LimitInv, InLoop
    <2> QED BY <2>2, <2>3
  <1>6. CASE Tick /\ pc # "idle"
    <2>1. elapsed < Limit /\ elapsed' = elapsed + 1 /\ UNCHANGED <<phase, pc, task>>
      BY <1>6 DEF Tick, Stopped, entryVars
    <2>2. elapsed' <= Limit
      <3>1. Limit \in Int /\ elapsed \in Int
        BY Durations DEF Limit, TaskOK, Labels, Sleeping, Connecting, Closing
      <3> QED BY <2>1, <3>1
    <2>3. Limit' = Limit
      BY <2>1 DEF Limit
    <2> QED BY <2>1, <2>2, <2>3 DEF LimitInv
  <1>7. CASE ~UpdateStep /\ ~Tick /\ pc # "idle" /\ pc' # "idle"
    <2>1. UNCHANGED <<pc, task, elapsed>>
      BY <1>7, OthersMove
    <2>2. Limit' = Limit
      BY <1>7, <2>1 DEF Limit
    <2> QED BY <2>1, <2>2 DEF LimitInv
  <1> QED BY <1>3, <1>4, <1>5, <1>6, <1>7 DEF Next

LEMMA LeftIn ==
    /\ LongestUpdate = Attempts * Round + CloseTimeout
    /\ pc \notin InLoop /\ pc # "idle" => TimeLeft = TimeAt(pc) + CloseTimeout - elapsed + 0
    /\ pc \in InLoop => TimeLeft = TimeAt(pc) + CloseTimeout - elapsed + PassesLeft * Round
    /\ pc = "idle" => TimeLeft = 0 /\ StepsLeft = 0
    /\ pc \notin InLoop => StepsLeft = StepsAt(pc) + 0
    /\ pc \in InLoop => StepsLeft = StepsAt(pc) + 6 * PassesLeft
  <1>1. pc = "idle" => StepsLeft = 0
    BY Lefts DEF StepsLeft
  <1> QED BY <1>1 DEF LongestUpdate, TimeLeft, StepsLeft, InLoop

LEMMA LeftBound == ASSUME TaskOK, LimitInv PROVE LeftIsBounded
  <1>1. PICK R \in Nat, C \in Nat, D \in Nat, K \in Nat :
           /\ R = RefreshTimeout /\ C = CloseTimeout /\ D = RetryDelay /\ K = ConnectTimeout
           /\ Round = R + C + D + K
    BY Durations DEF Round
  <1>2. PICK a \in Nat, e \in Nat, n \in Nat :
           /\ a = Attempts /\ e = elapsed /\ n = PassesLeft /\ a > 0
           /\ pc \in InLoop => n < a
    BY AwaitNow, Bounds
  <1>3. PICK Q \in Nat : Q = Attempts * Round /\ Round <= Q
    BY <1>1, Bounds, PassesBound, Passes
  <1>4. PICK P \in Nat : P = PassesLeft * Round /\ (pc \in InLoop => P + Round <= Q)
    BY <1>2, <1>3, Passes, PassesBound
  <1>5. LongestUpdate = Q + C
    BY <1>1, <1>3 DEF LongestUpdate
  <1>6. pc \in Labels
    BY DEF TaskOK
  <1>7. CASE pc = "idle"
    BY <1>2, <1>5, <1>7, LeftIn DEF LeftIsBounded
  <1>8. CASE pc \in LastClose
    <2>1. TimeLeft = C - e /\ e <= C /\ StepsLeft = 1
      <3>1. pc \notin InLoop /\ pc # "idle" /\ TimeAt(pc) = 0 /\ StepsAt(pc) = 1
        BY <1>8, Lefts, LabelsOf
      <3>2. TimeLeft = 0 + C - e + 0 /\ StepsLeft = 1 + 0 /\ e <= C
        BY <1>1, <1>2, <1>8, <3>1, LeftIn, AwaitNow
      <3> QED BY <3>2
    <2> QED BY <1>2, <1>5, <2>1 DEF LeftIsBounded
  <1>9. CASE pc \in {"connecting", "detecting"}
    <2>1. TimeLeft = K + C - e + 0 /\ e <= K
      BY <1>1, <1>2, <1>9, Lefts, LeftIn, AwaitNow
    <2>2. StepsLeft \in {2, 3}
      BY <1>9, Lefts, LeftIn
    <2>3. K + C - e \in 0..(Q + C)
      BY <1>1, <1>3, <2>1
    <2> QED BY <1>2, <1>5, <2>1, <2>2, <2>3 DEF LeftIsBounded
  <1>10. CASE pc \in InLoop
    <2>1. TimeLeft = TimeAt(pc) + C - e + P /\ StepsLeft = StepsAt(pc) + 6 * n
      BY <1>1, <1>2, <1>4, <1>10, LeftIn
    <2>2. PICK t \in Nat, u \in 1..6 :
             /\ t = TimeAt(pc) /\ u = StepsAt(pc) /\ t <= R + C + D + K /\ e <= t + C
      <3>1. CASE pc = "reading"
        BY <1>1, <1>2, <3>1, Lefts, AwaitNow
      <3>2. CASE pc = "retrySleep"
        BY <1>1, <1>2, <3>2, Lefts, AwaitNow
      <3>3. CASE pc = "closeToReconnect"
        BY <1>1, <1>2, <3>3, Lefts, AwaitNow
      <3>4. CASE pc = "reconnectSleep"
        BY <1>1, <1>2, <3>4, Lefts, AwaitNow
      <3>5. CASE pc \in {"reconnecting", "redetecting"}
        BY <1>1, <1>2, <3>5, Lefts, AwaitNow
      <3> QED BY <1>10, <3>1, <3>2, <3>3, <3>4, <3>5 DEF InLoop
    <2>3. TimeLeft \in 0..(Q + C)
      <3>1. P + (R + C + D + K) <= Q
        BY <1>1, <1>4, <1>10
      <3> QED BY <2>1, <2>2, <3>1
    <2>4. StepsLeft \in 1..(6 * a)
      BY <1>2, <1>10, <2>1, <2>2
    <2> QED BY <1>2, <1>5, <2>3, <2>4 DEF LeftIsBounded
  <1> QED BY <1>6, <1>7, <1>8, <1>9, <1>10, LabelsOf

\* The same of the state that follows an await begun anew, in terms of where the update was.
LEMMA LeftNext ==
    ASSUME NEW k \in Nat, Attempts - task'.attempt = k
    PROVE  /\ pc' \notin InLoop /\ pc' # "idle" => TimeLeft' = TimeAt(pc') + CloseTimeout - elapsed' + 0
           /\ pc' \in InLoop => TimeLeft' = TimeAt(pc') + CloseTimeout - elapsed' + k * Round
           /\ pc' = "idle" => TimeLeft' = 0 /\ StepsLeft' = 0
           /\ pc' \notin InLoop => StepsLeft' = StepsAt(pc') + 0
           /\ pc' \in InLoop => StepsLeft' = StepsAt(pc') + 6 * k
  <1>1. PassesLeft' = k
    BY DEF PassesLeft
  <1>2. pc' = "idle" => StepsLeft' = 0
    BY Lefts DEF StepsLeft, StepsAt
  <1> QED BY <1>1, <1>2 DEF TimeLeft, StepsLeft, InLoop, TimeAt, StepsAt

LEMMA MovesAdvance ==
    ASSUME TaskOK, LimitInv, Moves, pc # "idle"
    PROVE  TimeLeft' <= TimeLeft /\ StepsLeft' < StepsLeft
  <1>1. PICK R \in Nat, C \in Nat, D \in Nat, K \in Nat :
           /\ R = RefreshTimeout /\ C = CloseTimeout /\ D = RetryDelay /\ K = ConnectTimeout
           /\ Round = R + C + D + K
    BY Durations DEF Round
  <1>2. PICK e \in Nat, n \in Nat, P \in Nat :
           /\ e = elapsed /\ n = PassesLeft /\ P = n * Round
           /\ n > 0 => (n - 1) * Round = P - Round
    BY AwaitNow, Passes
  <1>3. task.attempt \in Nat /\ Attempts \in Nat /\ Attempts - task.attempt = n
    BY <1>2, AwaitNow, Bounds DEF PassesLeft
  <1>4. CASE pc' = "idle" /\ task'.attempt = 0
    <2>1. Attempts - task'.attempt = Attempts
      BY <1>3, <1>4
    <2>2. TimeLeft' = 0 /\ StepsLeft' = 0
      BY <1>3, <1>4, <2>1, LeftNext
    <2>3. TimeLeft >= 0 /\ StepsLeft > 0
      BY LeftBound DEF LeftIsBounded
    <2> QED BY <2>2, <2>3
  <1>5. ASSUME task'.attempt = task.attempt
        PROVE  /\ pc' \notin InLoop /\ pc' # "idle" => TimeLeft' = TimeAt(pc') + C - elapsed' + 0
               /\ pc' \in InLoop => TimeLeft' = TimeAt(pc') + C - elapsed' + P
               /\ pc' \notin InLoop => StepsLeft' = StepsAt(pc') + 0
               /\ pc' \in InLoop => StepsLeft' = StepsAt(pc') + 6 * n
    BY <1>1, <1>2, <1>3, <1>5, LeftNext
  <1>6. CASE /\ pc = "connecting" /\ pc' = "detecting"
             /\ elapsed' = elapsed /\ task'.attempt = task.attempt
    <2>1. TimeLeft' = K + C - e + 0 /\ StepsLeft' = 2 + 0
      BY <1>1, <1>2, <1>5, <1>6, Lefts
    <2>2. TimeLeft = K + C - e + 0 /\ StepsLeft = 3 + 0
      BY <1>1, <1>2, <1>6, Lefts, LeftIn
    <2> QED BY <2>1, <2>2
  <1>7. CASE /\ pc = "reconnecting" /\ pc' = "redetecting"
             /\ elapsed' = elapsed /\ task'.attempt = task.attempt
    <2>1. TimeLeft' = K + C - e + P /\ StepsLeft' = 2 + 6 * n
      BY <1>1, <1>2, <1>5, <1>7, Lefts DEF InLoop
    <2>2. TimeLeft = K + C - e + P /\ StepsLeft = 3 + 6 * n
      BY <1>1, <1>2, <1>7, Lefts, LeftIn DEF InLoop
    <2> QED BY <2>1, <2>2
  <1>8. CASE /\ pc \in {"connecting", "detecting", "reading", "reconnecting", "redetecting"}
             /\ pc' \in LastClose /\ elapsed' = 0 /\ task'.attempt = task.attempt
    <2>1. TimeLeft' = 0 + C - 0 + 0 /\ StepsLeft' = 1 + 0
      BY <1>5, <1>8, Lefts, LabelsOf
    <2>2. CASE pc \in {"connecting", "detecting"}
      <3>1. TimeLeft = K + C - e + 0 /\ StepsLeft \in {2 + 0, 3 + 0} /\ e <= K
        BY <1>1, <1>2, <2>2, Lefts, LeftIn, AwaitNow
      <3> QED BY <2>1, <3>1
    <2>3. CASE pc \in {"reconnecting", "redetecting"}
      <3>1. TimeLeft = K + C - e + P /\ StepsLeft \in {2 + 6 * n, 3 + 6 * n} /\ e <= K
        BY <1>1, <1>2, <2>3, Lefts, LeftIn, AwaitNow DEF InLoop
      <3> QED BY <2>1, <3>1
    <2>4. CASE pc = "reading"
      <3>1. TimeLeft = (R + C + D + K) + C - e + P /\ StepsLeft = 6 + 6 * n /\ e <= R
        BY <1>1, <1>2, <2>4, Lefts, LeftIn, AwaitNow DEF InLoop
      <3> QED BY <2>1, <3>1
    <2> QED BY <1>8, <2>2, <2>3, <2>4
  <1>9. CASE /\ pc = "reading" /\ pc' \in {"retrySleep", "closeToReconnect"}
             /\ elapsed' = 0 /\ task'.attempt = task.attempt
    <2>1. TimeLeft' \in {D + C - 0 + P, (C + D + K) + C - 0 + P} /\ StepsLeft' = 5 + 6 * n
      BY <1>1, <1>5, <1>9, Lefts DEF InLoop
    <2>2. TimeLeft = (R + C + D + K) + C - e + P /\ StepsLeft = 6 + 6 * n /\ e <= R
      BY <1>1, <1>2, <1>9, Lefts, LeftIn, AwaitNow DEF InLoop
    <2> QED BY <2>1, <2>2
  <1>10. CASE /\ pc = "closeToReconnect" /\ pc' = "reconnectSleep"
              /\ elapsed' = 0 /\ task'.attempt = task.attempt
    <2>1. TimeLeft' = (D + K) + C - 0 + P /\ StepsLeft' = 4 + 6 * n
      BY <1>1, <1>5, <1>10, Lefts DEF InLoop
    <2>2. TimeLeft = (C + D + K) + C - e + P /\ StepsLeft = 5 + 6 * n /\ e <= C
      BY <1>1, <1>2, <1>10, Lefts, LeftIn, AwaitNow DEF InLoop
    <2> QED BY <2>1, <2>2
  <1>11. CASE /\ pc = "reconnectSleep" /\ pc' = "reconnecting"
              /\ elapsed' = 0 /\ task'.attempt = task.attempt
    <2>1. TimeLeft' = K + C - 0 + P /\ StepsLeft' = 3 + 6 * n
      BY <1>1, <1>5, <1>11, Lefts DEF InLoop
    <2>2. TimeLeft = (D + K) + C - e + P /\ StepsLeft = 4 + 6 * n /\ e <= D
      BY <1>1, <1>2, <1>11, Lefts, LeftIn, AwaitNow DEF InLoop
    <2> QED BY <2>1, <2>2
  <1>12. CASE /\ pc \in {"reconnecting", "redetecting", "retrySleep"} /\ pc' = "reading"
              /\ elapsed' = 0 /\ task.attempt < Attempts /\ task'.attempt = task.attempt + 1
    <2>1. n > 0 /\ n - 1 \in Nat /\ Attempts - task'.attempt = n - 1
      BY <1>2, <1>3, <1>12
    <2>2. TimeLeft' = (R + C + D + K) + C - 0 + (P - (R + C + D + K)) /\ StepsLeft' = 6 + 6 * (n - 1)
      BY <1>1, <1>2, <1>12, <2>1, LeftNext, Lefts DEF InLoop
    <2>3. /\ TimeLeft \in {K + C - e + P, D + C - e + P} /\ TimeLeft >= C + P
          /\ StepsLeft \in {2 + 6 * n, 3 + 6 * n, 5 + 6 * n}
      <3>1. CASE pc = "retrySleep"
        <4>1. TimeLeft = D + C - e + P /\ StepsLeft = 5 + 6 * n /\ e <= D
          BY <1>1, <1>2, <3>1, Lefts, LeftIn, AwaitNow DEF InLoop
        <4> QED BY <4>1
      <3>2. CASE pc \in {"reconnecting", "redetecting"}
        <4>1. TimeLeft = K + C - e + P /\ StepsLeft \in {2 + 6 * n, 3 + 6 * n} /\ e <= K
          BY <1>1, <1>2, <3>2, Lefts, LeftIn, AwaitNow DEF InLoop
        <4> QED BY <4>1
      <3> QED BY <1>12, <3>1, <3>2
    <2>4. TimeLeft' = C + P /\ TimeLeft \in Int
      BY <2>2, <2>3
    <2>5. StepsLeft' < StepsLeft
      BY <2>1, <2>2, <2>3
    <2> QED BY <2>3, <2>4, <2>5
  <1> QED BY <1>4, <1>6, <1>7, <1>8, <1>9, <1>10, <1>11, <1>12 DEF Moves

LEMMA StepAdvances ==
    ASSUME TaskOK, LimitInv, LeftIsBounded', [Next]_vars, pc # "idle"
    PROVE  /\ TimeLeft' <= TimeLeft /\ StepsLeft' <= StepsLeft
           /\ UpdateStep => StepsLeft' < StepsLeft
           /\ Tick => TimeLeft' < TimeLeft
  <1>1. TimeLeft \in Int /\ StepsLeft \in Int /\ TimeLeft' \in Int /\ StepsLeft' \in Int
    BY LeftBound DEF LeftIsBounded
  <1>2. ~(UpdateStep /\ Tick)
    <2>1. Moves => pc' # pc
      BY DEF Moves, LastClose, Closing
    <2> QED BY <2>1, UpdateMoves DEF Tick
  <1>3. CASE UpdateStep
    <2>1. TimeLeft' <= TimeLeft /\ StepsLeft' < StepsLeft
      BY <1>3, UpdateMoves, MovesAdvance
    <2> QED BY <1>1, <1>2, <1>3, <2>1
  <1>4. CASE Tick
    <2>1. elapsed' = elapsed + 1 /\ pc' = pc /\ task' = task
      BY <1>4 DEF Tick, Stopped
    <2>2. StepsLeft' = StepsLeft
      BY <2>1 DEF StepsLeft, PassesLeft
    <2>3. PICK t \in Int, e \in Int, c \in Int, P \in Int :
             /\ t = TimeAt(pc) /\ e = elapsed /\ c = CloseTimeout
             /\ P = IF pc \in InLoop THEN PassesLeft * Round ELSE 0
      <3>1. TimeAt(pc) \in Int
        <4>1. {Round, RetryDelay, ConnectTimeout, RetryDelay + ConnectTimeout,
               CloseTimeout + RetryDelay + ConnectTimeout, 0} \subseteq Int
          BY Durations DEF Round
        <4>2. TimeAt(pc) \in {Round, RetryDelay, ConnectTimeout, RetryDelay + ConnectTimeout,
                              CloseTimeout + RetryDelay + ConnectTimeout, 0}
          BY Lefts, LabelsOf DEF TaskOK, InLoop
        <4> QED BY <4>1, <4>2
      <3> QED BY <3>1, Durations, AwaitNow, Passes
    <2>4. TimeLeft = t + c - e + P
      BY <2>3 DEF TimeLeft
    <2>5. TimeLeft' = t + c - (e + 1) + P
      <3>1. TimeAt(pc') = t
        BY <2>1, <2>3
      <3>2. P = IF pc' \in InLoop THEN PassesLeft' * Round ELSE 0
        BY <2>1, <2>3 DEF PassesLeft
      <3>3. TimeLeft' = TimeAt(pc') + CloseTimeout - elapsed' + P
        BY <2>1, <3>2 DEF TimeLeft, TimeAt
      <3> QED BY <2>1, <2>3, <3>1, <3>3
    <2>6. TimeLeft' < TimeLeft
      BY <2>3, <2>4, <2>5
    <2> QED BY <1>1, <1>2, <1>4, <2>2, <2>3, <2>5, <2>6
  <1>5. CASE ~UpdateStep /\ ~Tick
    <2>1. CASE UNCHANGED <<pc, task, elapsed>>
      <3>1. TimeLeft' = TimeLeft /\ StepsLeft' = StepsLeft
        BY <2>1 DEF TimeLeft, StepsLeft, PassesLeft
      <3> QED BY <1>1, <1>5, <3>1
    <2>2. CASE pc' = "idle" /\ task'.attempt = 0
      <3>1. TimeLeft' <= TimeLeft /\ StepsLeft' < StepsLeft
        BY <2>2, MovesAdvance DEF Moves
      <3> QED BY <1>1, <1>5, <3>1
    <2> QED BY <1>5, <2>1, <2>2, OthersMove
  <1> QED BY <1>3, <1>4, <1>5

\* An update lasts at most LongestUpdate and takes at most six steps of its own for each attempt,
\* however reads, closes and connections go wrong: UpdateTerminates but for the fairness that the
\* event loop runs the update and time passes (coordinator.py: _async_update_data).
THEOREM UpdatesAreBounded == Spec => []LeftIsBounded /\ UpdateAdvances
  <1>1. Init => LimitInv
    BY DEF Init, LimitInv, InLoop
  <1>2. IInv /\ IInv' /\ LimitInv /\ [Next]_vars => LimitInv'
    BY LimitStep DEF IInv, TypeOK
  <1>3. IInv /\ LimitInv => LeftIsBounded
    BY LeftBound DEF IInv, TypeOK
  <1>4. IInv /\ LimitInv /\ LeftIsBounded' /\ [Next]_vars
        => [pc # "idle" =>
              /\ TimeLeft' <= TimeLeft /\ StepsLeft' <= StepsLeft
              /\ UpdateStep => StepsLeft' < StepsLeft
              /\ Tick => TimeLeft' < TimeLeft]_vars
    BY StepAdvances DEF IInv, TypeOK
  <1> QED BY <1>1, <1>2, <1>3, <1>4, Inductive, PTL DEF Spec, UpdateAdvances

=============================================================================
