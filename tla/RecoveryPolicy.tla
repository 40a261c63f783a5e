--------------------------- MODULE RecoveryPolicy ---------------------------
(***************************************************************************)
(* What the coordinator promises its users about a failing inverter,       *)
(* without the attempts, connections and timeouts that bring it about:     *)
(*                                                                         *)
(*   - a failure may leave a healthy coordinator recovering, with its      *)
(*     entities still available; it does not stay recovering;              *)
(*   - a coordinator that gives up raises one alert and then withdraws     *)
(*     its entities; it never goes back to recovering;                     *)
(*   - only trusted data, freshly published, ends an outage: it makes the  *)
(*     entities available and the alert go away, all at once.              *)
(*                                                                         *)
(* Coordinator implements this specification (Coordinator!PolicySpec).     *)
(***************************************************************************)

VARIABLES
    stage,    \* "starting" until the first publication, "serving", "ended"
    status,   \* the recovery state
    shown,    \* the entities are available
    alert     \* the troubleshooting notification is shown

policyVars == <<stage, status, shown, alert>>

\* A coordinator starts unavailable; an alert of an earlier one may still be shown.
PolicyInit ==
    /\ stage = "starting" /\ status = "unavailable" /\ shown = TRUE
    /\ alert \in BOOLEAN

Publish ==
    /\ status' = "healthy" /\ shown' = TRUE /\ alert' = FALSE
    /\ stage' = IF stage = "starting" THEN "serving" ELSE stage

Falter ==
    /\ status = "healthy" /\ status' = "recovering"
    /\ UNCHANGED <<stage, shown, alert>>

\* A coordinator that fails before it ever published is discarded.
Surrender ==
    /\ status' = "unavailable" /\ alert' = TRUE
    /\ shown' \in {shown, FALSE}
    /\ stage' = IF stage = "starting" THEN "ended" ELSE stage

Withdraw ==
    /\ status = "unavailable" /\ shown /\ shown' = FALSE
    /\ UNCHANGED <<stage, status, alert>>

Retire ==
    /\ stage' = "ended"
    /\ UNCHANGED <<status, shown, alert>>

PolicyNext == Publish \/ Falter \/ Surrender \/ Withdraw \/ Retire

\* While it serves, a recovering coordinator comes to a verdict and an unavailable one
\* withdraws its entities.
Verdict == stage = "serving" /\ status = "recovering" /\ (Publish \/ Surrender)

WithdrawWhileServing == stage = "serving" /\ Withdraw

PolicySpec ==
    /\ PolicyInit /\ [][PolicyNext]_policyVars
    /\ WF_policyVars(Verdict) /\ WF_policyVars(WithdrawWhileServing)

=============================================================================
