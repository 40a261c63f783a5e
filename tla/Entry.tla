------------------------------- MODULE Entry -------------------------------
(***************************************************************************)
(* The life of the config entries of the integration: async_setup_entry    *)
(* and async_unload_entry (__init__.py) with their runtime data            *)
(* (runtime.py, compat.py), the services all entries share (services.py)   *)
(* and the config flow that creates and changes entries (config_flow.py).  *)
(*                                                                         *)
(* Home Assistant sets up and unloads several entries at a time, one thing *)
(* per entry; every await of the two functions is a state of the entry.  A *)
(* reload is an unload and a setup.                                        *)
(***************************************************************************)
EXTENDS Integers, FiniteSets

CONSTANTS
    Entries,   \* config entries that exist or may be created
    Serials,   \* inverter serial numbers
    None,      \* no unique id: an entry of an older version of the integration
    Flows      \* config flows that may be open at a time

ASSUME EntryAssumption == None \notin Serials

VARIABLES
    life,      \* where each entry is in its life
    data,      \* entries that have runtime data
    uniqueId,  \* unique id of each entry
    listeners, \* update listeners of each entry
    services,  \* the services are registered
    flow       \* what each config flow validates: nothing, a new entry, or an entry

entryVars == <<life, data, uniqueId, listeners, services, flow>>

Lives == {"absent", "not_loaded", "refreshing", "forwarding", "loaded", "unloading",
          "closing", "failed", "failed_unload"}
Exists(e) == life[e] # "absent"
Becomes(e, l) == life' = [life EXCEPT ![e] = l]

(***************************************************************************)
(* async_setup_entry                                                       *)
(***************************************************************************)
Setup(e) ==
    /\ life[e] \in {"not_loaded", "failed"}
    /\ Becomes(e, "refreshing")
    /\ UNCHANGED <<data, uniqueId, listeners, services, flow>>

FirstRefreshFails(e) ==
    /\ life[e] = "refreshing"
    /\ Becomes(e, "failed")
    /\ UNCHANGED <<data, uniqueId, listeners, services, flow>>

FirstRefreshOk(e) ==
    /\ life[e] = "refreshing"
    /\ Becomes(e, "forwarding")
    /\ data' = data \cup {e}
    /\ UNCHANGED <<uniqueId, listeners, services, flow>>

\* Nothing takes the runtime data back.
ForwardFails(e) ==
    /\ life[e] = "forwarding"
    /\ Becomes(e, "failed")
    /\ UNCHANGED <<data, uniqueId, listeners, services, flow>>

\* The platforms are set up; the rest of the setup follows without an await.
ForwardOk(e) ==
    /\ life[e] = "forwarding"
    /\ Becomes(e, "loaded")
    /\ services' = TRUE
    /\ listeners' = [listeners EXCEPT ![e] = @ + 1]
    /\ UNCHANGED <<data, uniqueId, flow>>

(***************************************************************************)
(* async_unload_entry                                                      *)
(***************************************************************************)
Unload(e) ==
    /\ life[e] = "loaded"
    /\ Becomes(e, "unloading")
    /\ UNCHANGED <<data, uniqueId, listeners, services, flow>>

UnloadPlatformsFails(e) ==
    /\ life[e] = "unloading"
    /\ Becomes(e, "failed_unload")
    /\ UNCHANGED <<data, uniqueId, listeners, services, flow>>

UnloadPlatformsOk(e) ==
    /\ life[e] = "unloading"
    /\ Becomes(e, "closing")
    /\ UNCHANGED <<data, uniqueId, listeners, services, flow>>

\* Mutants: the entries left are those that are loaded; the update listener stays, as when
\* a reload calls the two functions itself.
MutRemaining(e) == {o \in Entries \ {e} : life[o] = "loaded"}

\* Other entries with runtime data: has_entry_runtime_data.
Remaining(e) == {o \in Entries \ {e} : Exists(o) /\ o \in data}

MutShutdownDone(e) ==
    /\ life[e] = "closing"
    /\ Becomes(e, "not_loaded")
    /\ data' = data \ {e}
    /\ services' = (services /\ Remaining(e) # {})
    /\ UNCHANGED <<uniqueId, listeners, flow>>

MutShutdownKeepsServices(e) ==
    /\ life[e] = "closing"
    /\ Becomes(e, "not_loaded")
    /\ data' = data \ {e}
    /\ services' = (services /\ \E o \in Entries \ {e} : Exists(o))
    /\ listeners' = [listeners EXCEPT ![e] = 0]
    /\ UNCHANGED <<uniqueId, flow>>

\* After async_shutdown; Home Assistant then runs the entry's on-unload callbacks.
ShutdownDone(e) ==
    /\ life[e] = "closing"
    /\ Becomes(e, "not_loaded")
    /\ data' = data \ {e}
    /\ services' = (services /\ Remaining(e) # {})
    /\ listeners' = [listeners EXCEPT ![e] = 0]
    /\ UNCHANGED <<uniqueId, flow>>

\* The user deletes an entry; flows that reconfigure it are aborted with it.
Remove(e) ==
    /\ life[e] \in {"not_loaded", "failed"}
    /\ Becomes(e, "absent")
    /\ data' = data \ {e}
    /\ uniqueId' = [uniqueId EXCEPT ![e] = None]
    /\ flow' = [f \in Flows |-> IF flow[f] = e THEN "idle" ELSE flow[f]]
    /\ UNCHANGED <<listeners, services>>

(***************************************************************************)
(* The config flow                                                         *)
(***************************************************************************)
FlowStarts(f) ==
    /\ flow[f] = "idle"
    /\ \E target \in {"new"} \cup {e \in Entries : Exists(e)} : flow' = [flow EXCEPT ![f] = target]
    /\ UNCHANGED <<life, data, uniqueId, listeners, services>>

\* _validate_input raised, or the flow aborts: the entries stay as they are.
FlowEnds(f) == flow' = [flow EXCEPT ![f] = "idle"]

FlowFails(f) ==
    /\ flow[f] # "idle" /\ FlowEnds(f)
    /\ UNCHANGED <<life, data, uniqueId, listeners, services>>

Holders(s) == {e \in Entries : Exists(e) /\ uniqueId[e] = s}

\* async_step_user, after the inverter has told its serial number
FlowCreates(f, s) ==
    /\ flow[f] = "new" /\ FlowEnds(f)
    /\ Holders(s) = {}
    /\ \E e \in Entries :
        /\ ~Exists(e)
        /\ Becomes(e, "not_loaded")
        /\ uniqueId' = [uniqueId EXCEPT ![e] = s]
    /\ UNCHANGED <<data, listeners, services>>

\* Mutants of the two checks of async_step_reconfigure.
MutFlowReconfigures(f, s) ==
    /\ flow[f] \in Entries /\ FlowEnds(f)
    /\ uniqueId[flow[f]] \in {None, s}
    /\ uniqueId' = [uniqueId EXCEPT ![flow[f]] = s]
    /\ UNCHANGED <<life, data, listeners, services>>

MutFlowReconfiguresAny(f, s) ==
    /\ flow[f] \in Entries /\ FlowEnds(f)
    /\ Holders(s) \subseteq {flow[f]}
    /\ uniqueId' = [uniqueId EXCEPT ![flow[f]] = s]
    /\ UNCHANGED <<life, data, listeners, services>>

\* async_step_reconfigure
FlowReconfigures(f, s) ==
    /\ flow[f] \in Entries /\ FlowEnds(f)
    /\ Holders(s) \subseteq {flow[f]}
    /\ uniqueId[flow[f]] \in {None, s}
    /\ uniqueId' = [uniqueId EXCEPT ![flow[f]] = s]
    /\ UNCHANGED <<life, data, listeners, services>>

\* _resolve_coordinator for a device linked to the given entries: {} stands for an error.
Resolve(linked) ==
    LET candidates == {e \in linked : Exists(e) /\ e \in data}
    IN IF Cardinality(candidates) = 1 THEN candidates ELSE {}

EntryInit ==
    /\ life \in [Entries -> {"absent", "not_loaded"}]
    /\ data = {}
    /\ uniqueId = [e \in Entries |-> None]
    /\ listeners = [e \in Entries |-> 0]
    /\ services = FALSE
    /\ flow = [f \in Flows |-> "idle"]

FlowStep(f) ==
    FlowStarts(f) \/ FlowFails(f) \/ \E s \in Serials : FlowCreates(f, s) \/ FlowReconfigures(f, s)

\* Steps that leave the platforms, and so the entities, alone.
EntryStep(e) ==
    \/ Setup(e) \/ FirstRefreshFails(e) \/ FirstRefreshOk(e) \/ ForwardFails(e)
    \/ Unload(e) \/ UnloadPlatformsFails(e) \/ ShutdownDone(e) \/ Remove(e)

(***************************************************************************)
(* Properties                                                              *)
(***************************************************************************)
EntryTypeOK ==
    /\ life \in [Entries -> Lives]
    /\ data \subseteq Entries
    /\ uniqueId \in [Entries -> Serials \cup {None}]
    /\ listeners \in [Entries -> 0..1]
    /\ services \in BOOLEAN
    /\ flow \in [Flows -> {"idle", "new"} \cup Entries]

\* While an entry is loaded the services exist, and a call for its device reaches its
\* coordinator, whatever other entries are being set up, unloaded or have failed.
ServicesWhileLoaded ==
    \A e \in Entries : life[e] \in {"loaded", "unloading"} => services /\ Resolve({e}) = {e}

\* The services go with the last entry; only an entry whose setup failed half way, and which
\* is then deleted, leaves them behind.
ServicesLeaveWithLastEntry ==
    [][services /\ data # {} /\ data' = {} /\ services'
          => \E e \in Entries : life[e] = "failed" /\ life'[e] = "absent"]_entryVars

\* An entry has one update listener while it is loaded and none before and after, so a change
\* reloads it once.
OneListener ==
    \A e \in Entries :
        listeners[e] = (IF life[e] \in {"loaded", "unloading", "closing", "failed_unload"}
                        THEN 1 ELSE 0)

\* No two entries are for one inverter, whatever flows are open at a time.
UniqueInverters == \A s \in Serials : Cardinality(Holders(s)) <= 1

\* An entry never turns to another inverter.
EntryKeepsInverter ==
    [][\A e \in Entries :
          Exists(e) /\ life'[e] # "absent" /\ uniqueId[e] # None => uniqueId'[e] = uniqueId[e]]_entryVars

=============================================================================
