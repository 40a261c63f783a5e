------------------------- MODULE IntegrationProofs -------------------------
(***************************************************************************)
(* Theorems about Integration, for any entries, serial numbers and flows,  *)
(* any length of the day and any slots.                                    *)
(*                                                                         *)
(* EntryInv says which entries have runtime data at each point of their    *)
(* life.  SlotInv says that the sensor shows the right state not only now  *)
(* but at every instant before its timer is due.                           *)
(***************************************************************************)
EXTENDS Integration, FiniteSetTheorems, TLAPS

WithData == {"forwarding", "loaded", "unloading", "closing", "failed_unload"}

\* No two entries are for one inverter.
DistinctInverters ==
    \A s \in Serials : \A d, e \in Entries :
        Exists(d) /\ Exists(e) /\ uniqueId[d] = s /\ uniqueId[e] = s => d = e

EntryInv ==
    /\ EntryTypeOK
    /\ \A e \in Entries :
          /\ life[e] \in WithData => e \in data
          /\ life[e] \in {"absent", "not_loaded"} => e \notin data
          /\ life[e] \in {"loaded", "unloading"} => services
    /\ OneListener
    /\ DistinctInverters

\* Until a timer is due the state shown is the one to show.
ShownUntilTimer ==
    added => \A t \in Nat : t >= now /\ (\A d \in timers : t < d) => shown = IsOn(slot, t)

SlotInv ==
    /\ SlotTypeOK
    /\ timers \subseteq {handle}
    /\ ~added => timers = {}
    /\ ShownUntilTimer

\* The sensor is there while its platform is.
SensorInv == added <=> life[Inverter] \in {"loaded", "unloading", "failed_unload"}

IInv == EntryInv /\ SlotInv /\ SensorInv

(***************************************************************************)
(* Time of day.                                                            *)
(***************************************************************************)
LEMMA DivMod ==
    ASSUME NEW a \in Nat, NEW d \in Nat, d > 0
    PROVE  (a % d) \in 0..(d - 1) /\ (a \div d) \in Int /\ a = d * (a \div d) + (a % d)
  <1>1. (a % d) \in 0..(d - 1)
    OBVIOUS
  <1>2. (a \div d) \in Int
    OBVIOUS
  <1>3. a = d * (a \div d) + (a % d)
    OBVIOUS
  <1> QED BY <1>1, <1>2, <1>3

LEMMA UniqueRemainder ==
    ASSUME NEW d \in Nat, d > 0, NEW q \in Int, NEW r \in 0..(d - 1), NEW p \in Int, NEW s \in 0..(d - 1),
           d * q + r = d * p + s
    PROVE  r = s
  OBVIOUS

\* Instants of day q.
LEMMA WithinDay ==
    ASSUME NEW t \in Nat, NEW q \in Int, DayLength * q <= t, t < DayLength * q + DayLength
    PROVE  TimeOfDay(t) = t - DayLength * q
  <1>0. DayLength \in Nat /\ DayLength > 0
    BY SlotAssumption
  <1> DEFINE m == DayLength * q
             p == t \div DayLength
             s == t % DayLength
  <1>1. s \in 0..(DayLength - 1) /\ p \in Int /\ t = DayLength * p + s
    BY <1>0, DivMod
  <1>2. t - m \in 0..(DayLength - 1) /\ m + (t - m) = t
    BY <1>0
  <1>3. DayLength * q + (t - m) = DayLength * p + s
    BY <1>1, <1>2
  <1> HIDE DEF p, s, m
  <1>4. t - m = s
    BY <1>0, <1>1, <1>2, <1>3, UniqueRemainder
  <1> QED BY <1>4 DEF m, s, TimeOfDay

\* The time of day of an instant, of a later one on the same day and of one on the next.
LEMMA TimeOfDayLater ==
    ASSUME NEW a \in Nat, NEW t \in Nat, a <= t
    PROVE  /\ TimeOfDay(a) \in 0..(DayLength - 1)
           /\ Midnight(a) \in Nat /\ a = Midnight(a) + TimeOfDay(a)
           /\ t < Midnight(a) + DayLength => TimeOfDay(t) = t - Midnight(a)
           /\ Midnight(a) + DayLength <= t /\ t < Midnight(a) + 2 * DayLength
                => TimeOfDay(t) = t - Midnight(a) - DayLength
  <1>0. DayLength \in Nat /\ DayLength > 0
    BY SlotAssumption
  <1> DEFINE q == a \div DayLength
             m == DayLength * q
  <1>1. TimeOfDay(a) \in 0..(DayLength - 1) /\ q \in Int /\ a = m + TimeOfDay(a)
    BY <1>0, DivMod DEF TimeOfDay
  <1>2. m \in Int /\ Midnight(a) = m
    BY <1>0, <1>1 DEF Midnight
  <1> HIDE DEF q
  <1>3. m >= 0
    <2>1. CASE q >= 0
      BY <1>0, <1>1, <2>1
    <2>2. CASE q <= -1
      <3>1. m <= -DayLength
        BY <1>0, <1>1, <2>2
      <3> QED BY <1>0, <1>1, <3>1
    <2> QED BY <1>1, <2>1, <2>2
  <1>4. t < m + DayLength => TimeOfDay(t) = t - m
    BY <1>0, <1>1, <1>2, WithinDay
  <1>5. q + 1 \in Int /\ DayLength * (q + 1) = m + DayLength
    BY <1>0, <1>1
  <1>6. ASSUME m + DayLength <= t, t < m + 2 * DayLength
        PROVE  TimeOfDay(t) = t - (m + DayLength)
    <2>1. DayLength * (q + 1) <= t /\ t < DayLength * (q + 1) + DayLength
      BY <1>0, <1>2, <1>5, <1>6
    <2>2. TimeOfDay(t) = t - DayLength * (q + 1)
      BY <1>5, <2>1, WithinDay
    <2> QED BY <1>5, <2>2
  <1> QED BY <1>0, <1>1, <1>2, <1>3, <1>4, <1>6

(***************************************************************************)
(* The sensor.                                                             *)
(***************************************************************************)
\* A slot that needs a timer keeps its state until the boundary the timer is set for.
LEMMA ConstantUntilChange ==
    ASSUME NEW s \in Slots, s # NoSlot, NEW a \in Nat, NEW t \in Nat, a <= t, t < NextChange(s, a)
    PROVE  IsOn(s, t) <=> IsOn(s, a)
  <1>1. DayLength \in Nat /\ DayLength > 0 /\ s.start \in 0..(DayLength - 1) /\ s.end \in 0..(DayLength - 1)
    BY SlotAssumption
  <1>2. /\ TimeOfDay(a) \in 0..(DayLength - 1)
        /\ Midnight(a) \in Nat /\ a = Midnight(a) + TimeOfDay(a)
        /\ t < Midnight(a) + DayLength => TimeOfDay(t) = t - Midnight(a)
        /\ Midnight(a) + DayLength <= t /\ t < Midnight(a) + 2 * DayLength
             => TimeOfDay(t) = t - Midnight(a) - DayLength
    BY TimeOfDayLater
  <1>3. CASE TimeOfDay(a) < s.start
    BY <1>1, <1>2, <1>3 DEF NextChange, IsOn
  <1>4. CASE ~(TimeOfDay(a) < s.start) /\ TimeOfDay(a) < s.end
    BY <1>1, <1>2, <1>4 DEF NextChange, IsOn
  <1>5. CASE ~(TimeOfDay(a) < s.start) /\ ~(TimeOfDay(a) < s.end)
    <2>1. ~IsOn(s, a) /\ t < Midnight(a) + DayLength + s.start
      BY <1>1, <1>2, <1>5 DEF NextChange, IsOn
    <2>2. CASE t < Midnight(a) + DayLength
      BY <1>1, <1>2, <1>5, <2>1, <2>2 DEF IsOn
    <2>3. CASE Midnight(a) + DayLength <= t
      BY <1>1, <1>2, <1>5, <2>1, <2>3 DEF IsOn
    <2> QED BY <1>1, <1>2, <2>2, <2>3
  <1> QED BY <1>3, <1>4, <1>5

LEMMA NextChangeRange ==
    ASSUME NEW s \in Slots, s # NoSlot, NEW a \in 0..LastTime
    PROVE  NextChange(s, a) \in 0..(LastTime + 2 * DayLength)
  <1>1. /\ DayLength \in Nat /\ LastTime \in Nat
        /\ s.start \in 0..(DayLength - 1) /\ s.end \in 0..(DayLength - 1)
    BY SlotAssumption
  <1>2. TimeOfDay(a) \in 0..(DayLength - 1) /\ Midnight(a) \in Nat /\ a = Midnight(a) + TimeOfDay(a)
    BY <1>1, TimeOfDayLater
  <1> QED BY <1>1, <1>2 DEF NextChange

\* Scheduling right after the state is written, whatever slot there is now.
LEMMA Scheduled ==
    ASSUME SlotTypeOK, NEW s \in Slots, ScheduleNextUpdate(s, {}), now' = now, slot' = s,
           shown' = IsOn(s, now), added'
    PROVE  SlotInv'
  <1>0. now \in 0..LastTime /\ now \in Nat
    BY SlotAssumption DEF SlotTypeOK
  <1>1. CASE s = NoSlot \/ (s # NoSlot /\ s.start = s.end)
    <2>1. timers' = {} /\ handle' = handle
      BY <1>1 DEF ScheduleNextUpdate
    <2>2. \A t \in Nat : ~IsOn(s, t)
      <3> SUFFICES ASSUME NEW t \in Nat, s # NoSlot, s.start = s.end PROVE ~IsOn(s, t)
        BY <1>1 DEF IsOn
      <3>1. TimeOfDay(t) \in Int /\ s.start \in Int
        BY SlotAssumption, TimeOfDayLater
      <3> QED BY <3>1 DEF IsOn
    <2>3. shown' = FALSE
      BY <1>0, <2>2
    <2>4. SlotTypeOK'
      BY <2>1, <2>3 DEF SlotTypeOK
    <2>5. ShownUntilTimer'
      <3> SUFFICES ASSUME NEW t \in Nat PROVE shown' = IsOn(slot', t)
        BY DEF ShownUntilTimer, IsOn, TimeOfDay
      <3> QED BY <2>2, <2>3 DEF IsOn, TimeOfDay
    <2> QED BY <2>1, <2>4, <2>5 DEF SlotInv
  <1>2. CASE ~(s = NoSlot \/ (s # NoSlot /\ s.start = s.end))
    <2>1. timers' = {NextChange(s, now)} /\ handle' = NextChange(s, now)
      BY <1>2 DEF ScheduleNextUpdate
    <2>2. NextChange(s, now) \in 0..(LastTime + 2 * DayLength)
      BY <1>0, <1>2, NextChangeRange
    <2>3. SlotTypeOK'
      <3>1. shown' \in BOOLEAN
        BY DEF IsOn
      <3>2. LastTime + 2 * DayLength \in Nat
        BY SlotAssumption
      <3> QED BY <2>1, <2>2, <3>1, <3>2 DEF SlotTypeOK
    <2>4. ShownUntilTimer'
      <3> SUFFICES ASSUME NEW t \in Nat, now <= t, t < NextChange(s, now)
                   PROVE  shown' = IsOn(slot', t)
        BY <2>1 DEF ShownUntilTimer
      <3>1. IsOn(s, t) <=> IsOn(s, now)
        BY <1>0, <1>2, ConstantUntilChange
      <3>2. IsOn(s, t) \in BOOLEAN /\ IsOn(s, now) \in BOOLEAN
        BY DEF IsOn
      <3> QED BY <3>1, <3>2
    <2>5. timers' \subseteq {handle'}
      BY <2>1
    <2>6. ~added' => timers' = {}
      OBVIOUS
    <2> QED BY <2>3, <2>4, <2>5, <2>6 DEF SlotInv
  <1> QED BY <1>1, <1>2

LEMMA AddedInv == ASSUME SlotInv, Added PROVE SlotInv'
  <1>1. timers = {} /\ slot \in Slots /\ slot' = slot /\ now' = now
    BY DEF SlotInv, SlotTypeOK, Added
  <1> QED BY <1>1, Scheduled DEF Added, SlotInv

LEMMA TimerFiresInv ==
    ASSUME SlotInv, NEW t \in timers, TimerFires(t)
    PROVE  SlotInv'
  <1>1. timers \ {t} = {} /\ slot \in Slots /\ slot' = slot /\ now' = now /\ added
    BY DEF SlotInv, SlotTypeOK, TimerFires
  <1> QED BY <1>1, Scheduled DEF TimerFires, SlotInv

LEMMA HandleCoordinatorUpdateInv ==
    ASSUME SlotInv, NEW s \in Slots, HandleCoordinatorUpdate(s)
    PROVE  SlotInv'
  <1>1. CASE added
    <2>1. timers \ {handle} = {}
      BY DEF SlotInv
    <2> QED BY <1>1, <2>1, Scheduled DEF HandleCoordinatorUpdate, SlotInv
  <1>2. CASE ~added
    BY <1>2 DEF HandleCoordinatorUpdate, SlotInv, SlotTypeOK, ShownUntilTimer
  <1> QED BY <1>1, <1>2

LEMMA RemovedInv == ASSUME SlotInv, Removed PROVE SlotInv'
  <1>1. timers' = {} /\ handle' = -1 /\ added' = FALSE /\ UNCHANGED <<now, slot, shown>>
    BY DEF SlotInv, Removed
  <1>2. handle' \in -1..(LastTime + 2 * DayLength)
    BY <1>1, SlotAssumption
  <1>3. SlotTypeOK'
    BY <1>1, <1>2 DEF SlotInv, SlotTypeOK
  <1>4. ShownUntilTimer'
    BY <1>1 DEF ShownUntilTimer
  <1> QED BY <1>1, <1>3, <1>4 DEF SlotInv

LEMMA TickInv == ASSUME SlotInv, Tick PROVE SlotInv'
  <1>1. /\ now' = now + 1 /\ UNCHANGED <<slot, added, timers, handle, shown>>
        /\ now \in Nat /\ now < LastTime
    BY SlotAssumption DEF Tick, SlotInv, SlotTypeOK
  <1>2. SlotTypeOK'
    BY <1>1, SlotAssumption DEF SlotInv, SlotTypeOK
  <1>3. ShownUntilTimer'
    BY <1>1 DEF SlotInv, ShownUntilTimer
  <1> QED BY <1>1, <1>2, <1>3 DEF SlotInv

(***************************************************************************)
(* The entries.                                                            *)
(***************************************************************************)
\* Only creation and reconfiguration give an entry an inverter, which no other may have.
LEMMA StillDistinct ==
    ASSUME EntryInv, NEW s \in Serials, NEW e \in Entries,
           \A d \in Entries \ {e} : Exists(d) => uniqueId[d] # s,
           uniqueId' = [uniqueId EXCEPT ![e] = s],
           \A d \in Entries \ {e} : Exists(d)' => Exists(d)
    PROVE  DistinctInverters'
  BY DEF EntryInv, EntryTypeOK, DistinctInverters

\* A step of one entry that changes no unique id, no listener and no flow.
LEMMA LifeInv ==
    ASSUME EntryInv, NEW e \in Entries, NEW l \in Lives, Becomes(e, l), Exists(e), l # "absent",
           UNCHANGED <<uniqueId, listeners, services, flow>>,
           data' \in {data, data \cup {e}},
           l \in WithData => e \in data',
           l = "not_loaded" => e \notin data',
           l \in {"loaded", "unloading"} => life[e] \in {"loaded", "unloading"},
           l \in {"closing", "failed_unload"} <=> life[e] = "unloading",
           l = "unloading" <=> life[e] = "loaded",
           life[e] \notin {"closing", "failed_unload"}
    PROVE  EntryInv'
  <1>1. life' = [life EXCEPT ![e] = l] /\ life \in [Entries -> Lives]
    BY DEF Becomes, EntryInv, EntryTypeOK
  <1>2. EntryTypeOK'
    BY <1>1 DEF EntryInv, EntryTypeOK
  <1>3. \A d \in Entries :
          /\ life'[d] \in WithData => d \in data'
          /\ life'[d] \in {"absent", "not_loaded"} => d \notin data'
          /\ life'[d] \in {"loaded", "unloading"} => services'
    BY <1>1 DEF EntryInv
  <1>4. OneListener'
    BY <1>1 DEF EntryInv, OneListener
  <1>5. DistinctInverters'
    BY <1>1 DEF EntryInv, DistinctInverters, Exists
  <1> QED BY <1>2, <1>3, <1>4, <1>5 DEF EntryInv

LEMMA ForwardOkInv == ASSUME EntryInv, NEW e \in Entries, ForwardOk(e) PROVE EntryInv'
  <1>1. /\ life[e] = "forwarding" /\ life' = [life EXCEPT ![e] = "loaded"] /\ services' = TRUE
        /\ listeners' = [listeners EXCEPT ![e] = @ + 1] /\ UNCHANGED <<data, uniqueId, flow>>
    BY DEF ForwardOk, Becomes
  <1>2. listeners[e] = 0
    BY <1>1 DEF EntryInv, OneListener
  <1>3. EntryTypeOK'
    BY <1>1, <1>2 DEF EntryInv, EntryTypeOK, Lives
  <1>4. \A d \in Entries :
          /\ life'[d] \in WithData => d \in data'
          /\ life'[d] \in {"absent", "not_loaded"} => d \notin data'
    BY <1>1 DEF EntryInv, EntryTypeOK, WithData
  <1>5. OneListener'
    BY <1>1, <1>2 DEF EntryInv, EntryTypeOK, OneListener
  <1>6. DistinctInverters'
    BY <1>1 DEF EntryInv, EntryTypeOK, DistinctInverters, Exists
  <1> QED BY <1>1, <1>3, <1>4, <1>5, <1>6 DEF EntryInv

LEMMA ShutdownDoneInv == ASSUME EntryInv, NEW e \in Entries, ShutdownDone(e) PROVE EntryInv'
  <1>1. /\ life[e] = "closing" /\ life' = [life EXCEPT ![e] = "not_loaded"] /\ data' = data \ {e}
        /\ services' = (services /\ Remaining(e) # {})
        /\ listeners' = [listeners EXCEPT ![e] = 0] /\ UNCHANGED <<uniqueId, flow>>
    BY DEF ShutdownDone, Becomes
  <1>2. EntryTypeOK'
    BY <1>1 DEF EntryInv, EntryTypeOK, Lives
  <1>3. ASSUME NEW d \in Entries
        PROVE  /\ life'[d] \in WithData => d \in data'
               /\ life'[d] \in {"absent", "not_loaded"} => d \notin data'
               /\ life'[d] \in {"loaded", "unloading"} => services'
    <2>1. CASE d = e
      BY <1>1, <2>1 DEF EntryInv, EntryTypeOK, WithData
    <2>2. CASE d # e
      <3>1. life'[d] = life[d] /\ (d \in data' <=> d \in data)
        BY <1>1, <2>2 DEF EntryInv, EntryTypeOK
      <3>2. life[d] \in {"loaded", "unloading"} => d \in Remaining(e) /\ services
        BY <2>2 DEF EntryInv, WithData, Remaining, Exists
      <3> QED BY <1>1, <3>1, <3>2 DEF EntryInv
    <2> QED BY <2>1, <2>2
  <1>4. OneListener'
    BY <1>1 DEF EntryInv, EntryTypeOK, OneListener
  <1>5. DistinctInverters'
    BY <1>1 DEF EntryInv, EntryTypeOK, DistinctInverters, Exists
  <1> QED BY <1>2, <1>3, <1>4, <1>5 DEF EntryInv

LEMMA RemoveInv == ASSUME EntryInv, NEW e \in Entries, Remove(e) PROVE EntryInv'
  <1>1. /\ life[e] \in {"not_loaded", "failed"} /\ life' = [life EXCEPT ![e] = "absent"]
        /\ data' = data \ {e} /\ uniqueId' = [uniqueId EXCEPT ![e] = None]
        /\ flow' = [f \in Flows |-> IF flow[f] = e THEN "idle" ELSE flow[f]]
        /\ UNCHANGED <<listeners, services>>
    BY DEF Remove, Becomes
  <1>2. EntryTypeOK'
    BY <1>1 DEF EntryInv, EntryTypeOK, Lives
  <1>3. \A d \in Entries :
          /\ life'[d] \in WithData => d \in data'
          /\ life'[d] \in {"absent", "not_loaded"} => d \notin data'
          /\ life'[d] \in {"loaded", "unloading"} => services'
    BY <1>1 DEF EntryInv, EntryTypeOK, WithData
  <1>4. OneListener'
    BY <1>1 DEF EntryInv, EntryTypeOK, OneListener
  <1>5. DistinctInverters'
    BY <1>1 DEF EntryInv, EntryTypeOK, DistinctInverters, Exists
  <1> QED BY <1>2, <1>3, <1>4, <1>5 DEF EntryInv

LEMMA EntryStepInv == ASSUME EntryInv, NEW e \in Entries, EntryStep(e) PROVE EntryInv'
  <1>1. CASE Setup(e)
    BY <1>1, LifeInv DEF Setup, Lives, WithData, Exists
  <1>2. CASE FirstRefreshFails(e)
    BY <1>2, LifeInv DEF FirstRefreshFails, Lives, WithData, Exists
  <1>3. CASE FirstRefreshOk(e)
    BY <1>3, LifeInv DEF FirstRefreshOk, Lives, WithData, Exists
  <1>4. CASE ForwardFails(e)
    BY <1>4, LifeInv DEF ForwardFails, Lives, WithData, Exists
  <1>5. CASE Unload(e) \/ UnloadPlatformsFails(e)
    <2>1. e \in data
      BY <1>5 DEF Unload, UnloadPlatformsFails, EntryInv, WithData
    <2> QED BY <1>5, <2>1, LifeInv DEF Unload, UnloadPlatformsFails, Lives, WithData, Exists
  <1> QED BY <1>1, <1>2, <1>3, <1>4, <1>5, ShutdownDoneInv, RemoveInv DEF EntryStep

LEMMA UnloadPlatformsOkInv == ASSUME EntryInv, NEW e \in Entries, UnloadPlatformsOk(e) PROVE EntryInv'
  <1>1. e \in data
    BY DEF UnloadPlatformsOk, EntryInv, WithData
  <1> QED BY <1>1, LifeInv DEF UnloadPlatformsOk, Lives, WithData, Exists

LEMMA FlowStepInv == ASSUME EntryInv, NEW f \in Flows, FlowStep(f) PROVE EntryInv'
  <1>1. CASE FlowStarts(f) \/ FlowFails(f)
    <2>1. flow' \in [Flows -> {"idle", "new"} \cup Entries]
          /\ UNCHANGED <<life, data, uniqueId, listeners, services>>
      BY <1>1 DEF FlowStarts, FlowFails, FlowEnds, EntryInv, EntryTypeOK
    <2> QED BY <2>1 DEF EntryInv, EntryTypeOK, OneListener, DistinctInverters, Exists
  <1>2. ASSUME NEW s \in Serials, FlowCreates(f, s)
        PROVE  EntryInv'
    <2>1. PICK e \in Entries :
             /\ life[e] = "absent" /\ life' = [life EXCEPT ![e] = "not_loaded"]
             /\ uniqueId' = [uniqueId EXCEPT ![e] = s]
      BY <1>2 DEF FlowCreates, Becomes, Exists
    <2>2. /\ Holders(s) = {} /\ flow' = [flow EXCEPT ![f] = "idle"]
          /\ UNCHANGED <<data, listeners, services>>
      BY <1>2 DEF FlowCreates, FlowEnds
    <2>3. EntryTypeOK'
      BY <2>1, <2>2 DEF EntryInv, EntryTypeOK, Lives
    <2>4. \A d \in Entries :
            /\ life'[d] \in WithData => d \in data'
            /\ life'[d] \in {"absent", "not_loaded"} => d \notin data'
            /\ life'[d] \in {"loaded", "unloading"} => services'
      BY <2>1, <2>2 DEF EntryInv, EntryTypeOK, WithData
    <2>5. OneListener'
      BY <2>1, <2>2 DEF EntryInv, EntryTypeOK, OneListener
    <2>6. DistinctInverters'
      BY <2>1, <2>2, StillDistinct DEF Holders, Exists, EntryInv, EntryTypeOK
    <2> QED BY <2>3, <2>4, <2>5, <2>6 DEF EntryInv
  <1>3. ASSUME NEW s \in Serials, FlowReconfigures(f, s)
        PROVE  EntryInv'
    <2>1. /\ flow[f] \in Entries /\ flow' = [flow EXCEPT ![f] = "idle"]
          /\ Holders(s) \subseteq {flow[f]}
          /\ uniqueId' = [uniqueId EXCEPT ![flow[f]] = s]
          /\ UNCHANGED <<life, data, listeners, services>>
      BY <1>3 DEF FlowReconfigures, FlowEnds
    <2>2. EntryTypeOK'
      BY <2>1 DEF EntryInv, EntryTypeOK
    <2>3. DistinctInverters'
      BY <2>1, StillDistinct DEF Holders, Exists
    <2> QED BY <2>1, <2>2, <2>3 DEF EntryInv, OneListener
  <1> QED BY <1>1, <1>2, <1>3 DEF FlowStep

(***************************************************************************)
(* The steps of Next.                                                      *)
(***************************************************************************)
\* An entry that does not enter or leave its platforms keeps the sensor as it is.
LEMMA SensorKept ==
    ASSUME IInv, UNCHANGED slotVars, NEW e \in Entries, EntryStep(e)
    PROVE  SensorInv'
  <1>1. /\ added' = added /\ Inverter \in Entries /\ life \in [Entries -> Lives]
        /\ added <=> life[Inverter] \in {"loaded", "unloading", "failed_unload"}
    BY InverterAssumption DEF IInv, EntryInv, EntryTypeOK, SensorInv, slotVars
  <1>2. CASE Setup(e) \/ FirstRefreshFails(e) \/ FirstRefreshOk(e) \/ ForwardFails(e)
    BY <1>1, <1>2
       DEF Setup, FirstRefreshFails, FirstRefreshOk, ForwardFails, Becomes, SensorInv
  <1>3. CASE Unload(e) \/ UnloadPlatformsFails(e) \/ ShutdownDone(e) \/ Remove(e)
    BY <1>1, <1>3
       DEF Unload, UnloadPlatformsFails, ShutdownDone, Remove, Becomes, SensorInv
  <1> QED BY <1>2, <1>3 DEF EntryStep

LEMMA SetUpPlatformsInv == ASSUME IInv, NEW e \in Entries, SetUpPlatforms(e) PROVE IInv'
  <1>1. EntryInv'
    BY ForwardOkInv DEF SetUpPlatforms, IInv
  <1>2. /\ life[e] = "forwarding" /\ life' = [life EXCEPT ![e] = "loaded"]
        /\ life \in [Entries -> Lives] /\ Inverter \in Entries
    BY InverterAssumption DEF SetUpPlatforms, ForwardOk, Becomes, IInv, EntryInv, EntryTypeOK
  <1>3. CASE e = Inverter
    <2>1. Added /\ added'
      BY <1>3 DEF SetUpPlatforms, Added
    <2> QED BY <1>1, <1>2, <1>3, <2>1, AddedInv DEF IInv, SensorInv
  <1>4. CASE e # Inverter
    <2>1. UNCHANGED slotVars
      BY <1>4 DEF SetUpPlatforms
    <2>2. SlotInv'
      BY <2>1 DEF IInv, SlotInv, SlotTypeOK, ShownUntilTimer, slotVars, IsOn, TimeOfDay
    <2>3. SensorInv'
      BY <1>2, <1>4, <2>1 DEF IInv, SensorInv, slotVars
    <2> QED BY <1>1, <2>2, <2>3 DEF IInv
  <1> QED BY <1>3, <1>4

LEMMA UnloadPlatformsInv == ASSUME IInv, NEW e \in Entries, UnloadPlatforms(e) PROVE IInv'
  <1>1. EntryInv'
    BY UnloadPlatformsOkInv DEF UnloadPlatforms, IInv
  <1>2. /\ life[e] = "unloading" /\ life' = [life EXCEPT ![e] = "closing"]
        /\ life \in [Entries -> Lives] /\ Inverter \in Entries
    BY InverterAssumption DEF UnloadPlatforms, UnloadPlatformsOk, Becomes, IInv, EntryInv, EntryTypeOK
  <1>3. CASE e = Inverter
    <2>1. Removed /\ ~added'
      BY <1>3 DEF UnloadPlatforms, Removed
    <2> QED BY <1>1, <1>2, <1>3, <2>1, RemovedInv DEF IInv, SensorInv
  <1>4. CASE e # Inverter
    <2>1. UNCHANGED slotVars
      BY <1>4 DEF UnloadPlatforms
    <2>2. SlotInv'
      BY <2>1 DEF IInv, SlotInv, SlotTypeOK, ShownUntilTimer, slotVars, IsOn, TimeOfDay
    <2>3. SensorInv'
      BY <1>2, <1>4, <2>1 DEF IInv, SensorInv, slotVars
    <2> QED BY <1>1, <2>2, <2>3 DEF IInv
  <1> QED BY <1>3, <1>4

\* A flow creates entries that are not loaded; it never loads or unloads one.
LEMMA FlowKeepsSensor ==
    ASSUME IInv, UNCHANGED slotVars, NEW f \in Flows, FlowStep(f)
    PROVE  SensorInv'
  <1>1. /\ added' = added /\ Inverter \in Entries /\ life \in [Entries -> Lives]
        /\ added <=> life[Inverter] \in {"loaded", "unloading", "failed_unload"}
    BY InverterAssumption DEF IInv, EntryInv, EntryTypeOK, SensorInv, slotVars
  <1>2. CASE \E s \in Serials : FlowCreates(f, s)
    <2>1. PICK e \in Entries : life[e] = "absent" /\ life' = [life EXCEPT ![e] = "not_loaded"]
      BY <1>2 DEF FlowCreates, Becomes, Exists
    <2> QED BY <1>1, <2>1 DEF SensorInv
  <1>3. CASE ~\E s \in Serials : FlowCreates(f, s)
    <2>1. life' = life
      BY <1>3 DEF FlowStep, FlowStarts, FlowFails, FlowReconfigures
    <2> QED BY <1>1, <2>1 DEF SensorInv
  <1> QED BY <1>2, <1>3

\* What the entries keep while the sensor moves, and the other way round.
LEMMA EntriesKept == ASSUME EntryInv, UNCHANGED entryVars PROVE EntryInv'
  BY DEF EntryInv, EntryTypeOK, OneListener, DistinctInverters, Exists, entryVars

LEMMA SlotKept == ASSUME SlotInv, UNCHANGED slotVars PROVE SlotInv'
  BY DEF SlotInv, SlotTypeOK, ShownUntilTimer, slotVars, IsOn, TimeOfDay

LEMMA InitInv == ASSUME Init PROVE IInv
  <1>1. EntryTypeOK
    <2>1. life \in [Entries -> Lives]
      BY DEF Init, EntryInit, Lives
    <2>2. /\ uniqueId \in [Entries -> Serials \cup {None}]
          /\ listeners \in [Entries -> 0..1]
          /\ flow \in [Flows -> {"idle", "new"} \cup Entries]
      BY DEF Init, EntryInit
    <2>3. data \subseteq Entries /\ services \in BOOLEAN
      BY DEF Init, EntryInit
    <2> QED BY <2>1, <2>2, <2>3 DEF EntryTypeOK
  <1>2. DistinctInverters
    BY EntryAssumption DEF Init, EntryInit, DistinctInverters
  <1>3. EntryInv
    BY <1>1, <1>2 DEF Init, EntryInit, EntryInv, WithData, OneListener
  <1>4. SlotTypeOK
    <2>1. 0 \in 0..LastTime /\ -1 \in -1..(LastTime + 2 * DayLength)
      BY SlotAssumption
    <2> QED BY <2>1 DEF Init, SlotInit, SlotTypeOK
  <1>5. timers = {} /\ added = FALSE
    BY DEF Init, SlotInit
  <1>6. SlotInv
    BY <1>4, <1>5 DEF SlotInv, ShownUntilTimer
  <1>7. SensorInv
    BY <1>5, InverterAssumption DEF Init, EntryInit, SensorInv
  <1> QED BY <1>3, <1>6, <1>7 DEF IInv

LEMMA NextInv == ASSUME IInv, [Next]_vars PROVE IInv'
  <1>1. ASSUME NEW e \in Entries, EntryStep(e), UNCHANGED slotVars
        PROVE  IInv'
    BY <1>1, EntryStepInv, SlotKept, SensorKept DEF IInv
  <1>2. ASSUME NEW e \in Entries, SetUpPlatforms(e) \/ UnloadPlatforms(e)
        PROVE  IInv'
    BY <1>2, SetUpPlatformsInv, UnloadPlatformsInv
  <1>3. ASSUME NEW f \in Flows, FlowStep(f), UNCHANGED slotVars
        PROVE  IInv'
    BY <1>3, FlowStepInv, SlotKept, FlowKeepsSensor DEF IInv
  <1>4. ASSUME NEW s \in Slots, DataArrives(s)
        PROVE  IInv'
    <2>1. SlotInv' /\ EntryInv'
      BY <1>4, HandleCoordinatorUpdateInv, EntriesKept DEF DataArrives, IInv
    <2>2. SensorInv'
      BY <1>4 DEF DataArrives, HandleCoordinatorUpdate, entryVars, IInv, SensorInv
    <2> QED BY <2>1, <2>2 DEF IInv
  <1>5. CASE TimePasses
    <2>1. SlotInv' /\ EntryInv'
      BY <1>5, TickInv, TimerFiresInv, EntriesKept DEF TimePasses, IInv
    <2>2. added' = added /\ life' = life
      BY <1>5 DEF TimePasses, Tick, TimerFires, entryVars
    <2>3. SensorInv'
      BY <2>2 DEF IInv, SensorInv
    <2> QED BY <2>1, <2>3 DEF IInv
  <1>6. CASE UNCHANGED vars
    BY <1>6, EntriesKept, SlotKept DEF vars, entryVars, slotVars, IInv, SensorInv
  <1> QED BY <1>1, <1>2, <1>3, <1>4, <1>5, <1>6 DEF Next

\* What each reachable state satisfies: entries, sensor, and the sensor's place in its
\* entry's life.
THEOREM Invariance == Spec => []IInv
  <1>1. Init => IInv
    BY InitInv
  <1>2. IInv /\ [Next]_vars => IInv'
    BY NextInv
  <1> QED BY <1>1, <1>2, PTL DEF Spec

(***************************************************************************)
(* Invariants of Entry and ChargeSlot.                                     *)
(***************************************************************************)
\* Variables keep their types, and the charge slot sensor is in Home Assistant from
\* async_forward_entry_setups to async_unload_platforms.
THEOREM TypeCorrect == Spec => []TypeOK
  <1>1. IInv => TypeOK
    BY DEF IInv, EntryInv, SlotInv, SensorInv, TypeOK
  <1> QED BY <1>1, Invariance, PTL

\* While an entry is loaded the services are registered and _resolve_coordinator finds its
\* coordinator: async_unregister_services of another entry never takes them away.
THEOREM ServicesStay == Spec => []ServicesWhileLoaded
  <1>1. IInv => ServicesWhileLoaded
    <2> SUFFICES ASSUME IInv, NEW e \in Entries, life[e] \in {"loaded", "unloading"}
                 PROVE  services /\ Resolve({e}) = {e}
      BY DEF ServicesWhileLoaded
    <2>1. services /\ e \in data
      BY DEF IInv, EntryInv, WithData
    <2>2. {o \in {e} : Exists(o) /\ o \in data} = {e}
      BY <2>1 DEF Exists
    <2>3. Cardinality({e}) = 1
      BY FS_Singleton
    <2> QED BY <2>1, <2>2, <2>3 DEF Resolve
  <1> QED BY <1>1, Invariance, PTL

\* async_setup_entry adds the one update listener and async_unload_entry's clean-up takes it.
THEOREM ListenerPerEntry == Spec => []OneListener
  <1>1. IInv => OneListener
    BY DEF IInv, EntryInv
  <1> QED BY <1>1, Invariance, PTL

\* Concurrent config flows leave at most one entry for an inverter.
THEOREM EntryPerInverter == Spec => []UniqueInverters
  <1>1. IInv => UniqueInverters
    <2> SUFFICES ASSUME IInv, NEW s \in Serials PROVE Cardinality(Holders(s)) <= 1
      BY DEF UniqueInverters
    <2>1. CASE Holders(s) = {}
      BY <2>1, FS_EmptySet
    <2>2. CASE Holders(s) # {}
      <3>1. PICK e \in Entries : e \in Holders(s)
        BY <2>2 DEF Holders
      <3>2. Holders(s) = {e}
        BY <3>1 DEF Holders, IInv, EntryInv, DistinctInverters
      <3>3. Cardinality({e}) = 1
        BY FS_Singleton
      <3> QED BY <3>2, <3>3
    <2> QED BY <2>1, <2>2
  <1> QED BY <1>1, Invariance, PTL

\* The charge slot sensor shows what is_on computes now, unless its timer is due.
THEOREM SensorIsCurrent == Spec => []ShownIsCurrent
  <1>1. IInv => ShownIsCurrent
    <2> SUFFICES ASSUME IInv, added, \A t \in timers : now < t PROVE shown = IsOn(slot, now)
      BY DEF ShownIsCurrent
    <2>1. now \in Nat
      BY SlotAssumption DEF IInv, SlotInv, SlotTypeOK
    <2> QED BY <2>1 DEF IInv, SlotInv, ShownUntilTimer
  <1> QED BY <1>1, Invariance, PTL

\* However often the slot changes, _cancel_scheduled_update knows the only timer there is.
THEOREM OneTimer == Spec => []TimersBelongToSensor
  <1>1. IInv => TimersBelongToSensor
    <2> SUFFICES ASSUME IInv PROVE Cardinality(timers) <= IF added THEN 1 ELSE 0
      BY DEF TimersBelongToSensor
    <2>1. CASE timers = {}
      BY <2>1, FS_EmptySet
    <2>2. CASE timers # {}
      <3>1. timers = {handle} /\ added
        BY <2>2 DEF IInv, SlotInv
      <3>2. Cardinality({handle}) = 1
        BY FS_Singleton
      <3> QED BY <3>1, <3>2
    <2> QED BY <2>1, <2>2
  <1> QED BY <1>1, Invariance, PTL

(***************************************************************************)
(* What a step may not do.                                                 *)
(***************************************************************************)
\* async_unload_entry of the last entry with runtime data takes the services along; only
\* the deletion of an entry whose setup failed leaves them.
THEOREM ServicesLeave == Spec => ServicesLeaveWithLastEntry
  <1>1. ASSUME IInv, [Next]_vars, ~UNCHANGED entryVars,
               services, data # {}, data' = {}, services'
        PROVE  \E e \in Entries : life[e] = "failed" /\ life'[e] = "absent"
    <2>1. \E e \in Entries : EntryStep(e)
      BY <1>1
         DEF Next, vars, SetUpPlatforms, ForwardOk, UnloadPlatforms, UnloadPlatformsOk, FlowStep,
             FlowStarts, FlowFails, FlowCreates, FlowReconfigures, DataArrives, TimePasses
    <2>2. PICK e \in Entries : ShutdownDone(e) \/ Remove(e)
      BY <1>1, <2>1
         DEF EntryStep, Setup, FirstRefreshFails, FirstRefreshOk, ForwardFails, Unload,
             UnloadPlatformsFails
    <2>3. data \ {e} = {} /\ e \in data
      BY <1>1, <2>2 DEF ShutdownDone, Remove
    <2>4. ~ShutdownDone(e)
      BY <1>1, <2>3 DEF ShutdownDone, Remaining
    <2>5. life[e] = "failed" /\ life'[e] = "absent"
      BY <1>1, <2>2, <2>3, <2>4 DEF Remove, Becomes, IInv, EntryInv, EntryTypeOK
    <2> QED BY <2>5
  <1>2. IInv /\ [Next]_vars
          => [services /\ data # {} /\ data' = {} /\ services'
                => \E e \in Entries : life[e] = "failed" /\ life'[e] = "absent"]_entryVars
    BY <1>1
  <1> QED BY <1>2, Invariance, PTL DEF Spec, ServicesLeaveWithLastEntry

\* async_step_reconfigure refuses another inverter, so an entry keeps its own.
THEOREM InverterIsKept == Spec => EntryKeepsInverter
  <1>1. ASSUME IInv, [Next]_vars, NEW e \in Entries,
               Exists(e), life'[e] # "absent", uniqueId[e] # None
        PROVE  uniqueId'[e] = uniqueId[e]
    <2>1. life \in [Entries -> Lives] /\ uniqueId \in [Entries -> Serials \cup {None}]
      BY <1>1 DEF IInv, EntryInv, EntryTypeOK
    <2>2. CASE \E d \in Entries : Remove(d)
      BY <1>1, <2>1, <2>2 DEF Remove, Becomes
    <2>3. CASE \E f \in Flows, s \in Serials : FlowCreates(f, s)
      BY <1>1, <2>1, <2>3 DEF FlowCreates, Becomes, Exists
    <2>4. CASE \E f \in Flows, s \in Serials : FlowReconfigures(f, s)
      BY <1>1, <2>1, <2>4 DEF FlowReconfigures
    <2>5. CASE UNCHANGED uniqueId
      BY <2>5
    <2>6. \/ \E d \in Entries : Remove(d)
          \/ \E f \in Flows, s \in Serials : FlowCreates(f, s) \/ FlowReconfigures(f, s)
          \/ UNCHANGED uniqueId
      BY <1>1
         DEF Next, vars, entryVars, EntryStep, Setup, FirstRefreshFails, FirstRefreshOk,
             ForwardFails, Unload, UnloadPlatformsFails, ShutdownDone, SetUpPlatforms, ForwardOk,
             UnloadPlatforms, UnloadPlatformsOk, FlowStep, FlowStarts, FlowFails, DataArrives,
             TimePasses
    <2> QED BY <2>2, <2>3, <2>4, <2>5, <2>6
  <1>2. IInv /\ [Next]_vars
          => [\A e \in Entries :
                Exists(e) /\ life'[e] # "absent" /\ uniqueId[e] # None
                  => uniqueId'[e] = uniqueId[e]]_entryVars
    BY <1>1
  <1> QED BY <1>2, Invariance, PTL DEF Spec, EntryKeepsInverter

=============================================================================
