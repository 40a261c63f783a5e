----------------------------- MODULE ChargeSlot -----------------------------
(***************************************************************************)
(* InverterChargeSlotBinarySensor (binary_sensor.py): a sensor that must   *)
(* change with the clock although data only arrives now and then, so it    *)
(* keeps a timer for the next boundary of its slot.                        *)
(*                                                                         *)
(* Time is counted in units of a day of DayLength units.  A timer never    *)
(* fires early and may fire late.  cancel() of a timer that has fired does *)
(* nothing, and the code forgets no handle it has cancelled.               *)
(***************************************************************************)
EXTENDS Integers, FiniteSets

CONSTANTS
    DayLength,  \* units of a day
    LastTime,   \* bound: the clock stops there
    Slots,      \* values of the slot: NoSlot or [start, end]
    NoSlot      \* the inverter has no such slot

\* The bounds of a slot are times of a day.
ASSUME SlotAssumption ==
    /\ DayLength \in Nat \ {0} /\ LastTime \in Nat
    /\ \A s \in Slots \ {NoSlot} : s.start \in 0..(DayLength - 1) /\ s.end \in 0..(DayLength - 1)

VARIABLES
    now,     \* the clock, from midnight of the first day
    slot,    \* the slot in the published data
    added,   \* the entity is in Home Assistant
    timers,  \* due times of the timers that are set
    handle,  \* what _cancel_scheduled_update cancels; -1 at first
    shown    \* the state last written to Home Assistant

slotVars == <<now, slot, added, timers, handle, shown>>

TimeOfDay(t) == t % DayLength
Midnight(t) == t - TimeOfDay(t)

IsOn(s, t) == s # NoSlot /\ s.start <= TimeOfDay(t) /\ TimeOfDay(t) < s.end

\* Mutant: the end of a slot is not a boundary.
MutNextChange(s, t) ==
    IF TimeOfDay(t) < s.start THEN Midnight(t) + s.start ELSE Midnight(t) + DayLength + s.start

NextChange(s, t) ==
    IF TimeOfDay(t) < s.start THEN Midnight(t) + s.start
    ELSE IF TimeOfDay(t) < s.end THEN Midnight(t) + s.end
    ELSE Midnight(t) + DayLength + s.start

\* _schedule_next_update, with the timers that are left
ScheduleNextUpdate(s, left) ==
    IF s = NoSlot \/ (s # NoSlot /\ s.start = s.end)
    THEN timers' = left /\ UNCHANGED handle
    ELSE timers' = left \cup {NextChange(s, now)} /\ handle' = NextChange(s, now)

Added ==
    /\ ~added /\ added' = TRUE
    /\ ScheduleNextUpdate(slot, timers)
    /\ shown' = IsOn(slot, now)
    /\ UNCHANGED <<now, slot>>

\* _async_scheduled_update
TimerFires(t) ==
    /\ t \in timers /\ t <= now
    /\ ScheduleNextUpdate(slot, timers \ {t})
    /\ shown' = IsOn(slot, now)
    /\ UNCHANGED <<now, slot, added>>

\* Mutant: the old timer is not cancelled.
MutHandleCoordinatorUpdate(s) ==
    /\ slot' = s
    /\ IF added THEN ScheduleNextUpdate(s, timers) /\ shown' = IsOn(s, now)
                ELSE UNCHANGED <<timers, handle, shown>>
    /\ UNCHANGED <<now, added>>

\* _handle_coordinator_update, with the data that has just been published
HandleCoordinatorUpdate(s) ==
    /\ slot' = s
    /\ IF added THEN ScheduleNextUpdate(s, timers \ {handle}) /\ shown' = IsOn(s, now)
                ELSE UNCHANGED <<timers, handle, shown>>
    /\ UNCHANGED <<now, added>>

\* async_will_remove_from_hass; a new setup makes a new entity.
Removed ==
    /\ added /\ added' = FALSE
    /\ timers' = timers \ {handle}
    /\ handle' = -1
    /\ UNCHANGED <<now, slot, shown>>

Tick == now < LastTime /\ now' = now + 1 /\ UNCHANGED <<slot, added, timers, handle, shown>>

SlotInit ==
    /\ now = 0 /\ slot \in Slots /\ added = FALSE
    /\ timers = {} /\ handle = -1 /\ shown = FALSE

(***************************************************************************)
(* Properties                                                              *)
(***************************************************************************)
SlotTypeOK ==
    /\ now \in 0..LastTime /\ slot \in Slots
    /\ added \in BOOLEAN /\ shown \in BOOLEAN
    /\ timers \subseteq 0..(LastTime + 2 * DayLength)
    /\ handle \in -1..(LastTime + 2 * DayLength)

\* Unless a timer is due, the sensor shows what it would compute now: the timer is set for
\* the first instant at which that changes, also when the slot changes under it.
ShownIsCurrent ==
    added /\ (\A t \in timers : now < t) => shown = IsOn(slot, now)

\* A sensor has at most one timer, however its slot changes, and leaves none behind.
TimersBelongToSensor == Cardinality(timers) <= IF added THEN 1 ELSE 0

=============================================================================
