----------------------------- MODULE MCControl -----------------------------
(***************************************************************************)
(* An instance of Control for TLC: every operation by itself; commands     *)
(* that compete for a register, partly or wholly, one twice; and one of    *)
(* discharging beside one of charging.                                     *)
(***************************************************************************)
EXTENDS Control

Slot == <<75, 1439>>

Each ==
    {ActivateModeTimedDischarge(Slot), ActivateModeTimedExport(Slot),
     Storage(Slot, NoSlot, TRUE), EnableTimedCharge, EnableTimedChargeTo(99),
     EnableTimedChargeWithin(Slot),
     RebootInverter, SyncClock(1439), TurnEnableDischarge(TRUE),
     TurnEnableChargeTarget(TRUE), ACChargeLimit(4), ACChargeLimit(0), BatterySoCReserve(100),
     BatteryMinPowerReserve(5), BatteryChargeLimitW(3550), BatteryChargeLimitW(1638),
     BatteryDischargeLimitW(0), BatteryPauseModeSelect(1), BatteryPauseStart(75),
     BatteryPauseEnd(1439), NoChargeTarget, CalibrateBatterySoc}

MCScripts ==
    {<<op>> : op \in Each}
    \cup {<<ActivateModeEco, TurnEcoMode(FALSE)>>,
          <<TurnEcoMode(FALSE), TurnEcoMode(TRUE), TurnEcoMode(FALSE)>>,
          <<EnableTimedChargeTo(100), DisableTimedCharge>>,
          <<EnableTimedChargeWithinTo(Slot, 99), TurnEnableDischarge(TRUE)>>}

=============================================================================
