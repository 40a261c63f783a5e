---------------------------- MODULE Integration ----------------------------
(***************************************************************************)
(* The config entries with the charge slot sensor of one of them: the      *)
(* sensor lives from the forwarding of the platforms to their unloading,   *)
(* and follows the coordinator's data in between.                          *)
(***************************************************************************)
EXTENDS Entry, ChargeSlot

CONSTANT Inverter  \* the entry whose sensor is modelled

ASSUME InverterAssumption == Inverter \in Entries

vars == <<entryVars, slotVars>>

Init == EntryInit /\ SlotInit

SetUpPlatforms(e) == ForwardOk(e) /\ IF e = Inverter THEN Added ELSE UNCHANGED slotVars

UnloadPlatforms(e) == UnloadPlatformsOk(e) /\ IF e = Inverter THEN Removed ELSE UNCHANGED slotVars

\* The coordinator publishes data from its first refresh until it is shut down.
DataArrives(s) ==
    /\ life[Inverter] \in {"forwarding", "loaded", "unloading", "closing", "failed_unload"}
    /\ HandleCoordinatorUpdate(s)
    /\ UNCHANGED entryVars

TimePasses == (Tick \/ \E t \in timers : TimerFires(t)) /\ UNCHANGED entryVars

Next ==
    \/ \E e \in Entries : EntryStep(e) /\ UNCHANGED slotVars
    \/ \E e \in Entries : SetUpPlatforms(e) \/ UnloadPlatforms(e)
    \/ \E f \in Flows : FlowStep(f) /\ UNCHANGED slotVars
    \/ \E s \in Slots : DataArrives(s)
    \/ TimePasses

Spec == Init /\ [][Next]_vars

\* Types, and that the sensor is there exactly while its platform is.
TypeOK ==
    /\ EntryTypeOK /\ SlotTypeOK
    /\ added <=> life[Inverter] \in {"loaded", "unloading", "failed_unload"}

=============================================================================
