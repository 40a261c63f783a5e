------------------------------ MODULE Commands ------------------------------
(***************************************************************************)
(* What the user can ask for, from the entities and services down to the   *)
(* batch of register writes (givenergy_modbus/client/commands.py,          *)
(* services.py, number.py, switch.py, select.py, time.py), and back: what  *)
(* the entities show of a set of holding registers (model/register.py,     *)
(* model/inverter.py, sensor.py).                                          *)
(*                                                                         *)
(* A batch is a sequence of writes.  A builder that raises ValueError      *)
(* returns the empty one: nothing is executed.  Times of day are counted   *)
(* in minutes.                                                             *)
(***************************************************************************)
EXTENDS Integers, Sequences, SequencesExt, FiniteSets

CONSTANTS
    BatteryCapacity,    \* battery_capacity, HR(55), in Ah
    InverterModel,      \* model, from HR(0)
    ArmFirmwareVersion, \* arm_firmware_version, HR(21)
    Times,              \* bound: the times of day users choose from
    Percents,           \* bound: the states of charge
    Watts               \* bound: the battery powers

Models == {"HYBRID", "AC", "HYBRID_3PH", "AC_3PH", "EMS", "GATEWAY", "ALL_IN_ONE"}

(***************************************************************************)
(* Registers                                                               *)
(***************************************************************************)
EnableChargeTarget == 20
BatteryPowerMode == 27
SystemTimeHour == 38
SystemTimeMinute == 39
SocForceAdjust == 29
EnableDischarge == 59
EnableCharge == 96
BatterySocReserve == 110
BatteryChargeLimit == 111
BatteryDischargeLimit == 112
BatteryDischargeMinPowerReserve == 114
ChargeTargetSoc == 116
Reboot == 163
BatteryPauseMode == 318
BatteryPauseSlotStart == 319
BatteryPauseSlotEnd == 320

\* What a register holds: two bytes
Word == 0..(256 * 256 - 1)

\* Where a slot starts and ends: RegisterMap as _set_charge_slot looks it up.
SlotRegisters(discharge, idx) ==
    CASE ~discharge /\ idx = 1 -> <<94, 95>>
      [] ~discharge /\ idx = 2 -> <<31, 32>>
      [] discharge /\ idx = 1 -> <<56, 57>>
      [] discharge /\ idx = 2 -> <<44, 45>>

WriteSafeRegisters ==
    {20, 27, 29, 31, 32} \cup 35..40 \cup {44, 45, 50, 56, 57, 59}
    \cup {94, 95, 96, 110, 111, 112, 114, 116, 163}

(***************************************************************************)
(* Conversions.  Register 1234 is the time 12:34.                          *)
(***************************************************************************)
HHMM(t) == 100 * (t \div 60) + (t % 60)
IsTime(reg) == reg \div 100 < 24 /\ reg % 100 < 60
NoSlot == <<>>
Undecodable == <<-1>>

\* Converter.timeslot: 60 stands for no slot; what is no time of day raises a ConversionError.
TimeSlot(start, end) ==
    IF start = 60 \/ end = 60 THEN NoSlot
    ELSE IF ~IsTime(start) \/ ~IsTime(end) THEN Undecodable
    ELSE <<60 * (start \div 100) + (start % 100), 60 * (end \div 100) + (end % 100)>>

Bool(val) == val # 0

Generation(version) ==
    CASE version \div 100 = 3 -> "GEN3"
      [] version \div 100 \in {8, 9} -> "GEN2"
      [] OTHER -> "GEN1"

\* inverter_max_battery_power, in W
MaxBatteryPower ==
    LET first == Generation(ArmFirmwareVersion) = "GEN1"
    IN CASE first /\ InverterModel = "AC" -> 3000
         [] first /\ InverterModel = "ALL_IN_ONE" -> 6000
         [] first /\ InverterModel \notin {"AC", "ALL_IN_ONE"} -> 2600
         [] ~first /\ InverterModel = "AC" -> 5000
         [] OTHER -> 3600

\* battery_power_step is BatteryCapacity * 51.2 / 100 watts; here in 1/1000 W.
PowerStep == BatteryCapacity * 512
NativeMax == LET half == (BatteryCapacity * 256) \div 10
             IN IF half < MaxBatteryPower THEN half ELSE MaxBatteryPower

ASSUME CommandsAssumption ==
    /\ BatteryCapacity \in Nat \ {0} /\ ArmFirmwareVersion \in Nat
    /\ InverterModel \in Models
    /\ Times \subseteq 0..1439 /\ Percents \subseteq 0..100 /\ Watts \subseteq 0..NativeMax

\* watts_to_api_value
WattsToApiValue(watts) ==
    LET maxStep == (MaxBatteryPower * 1000) \div PowerStep
    IN IF watts * 1000 > maxStep * PowerStep THEN 50 ELSE (watts * 1000) \div PowerStep

\* native_value of a power limit
ApiValueToWatts(raw) ==
    LET watts == (raw * PowerStep) \div 1000
    IN IF watts < MaxBatteryPower THEN watts ELSE MaxBatteryPower

(***************************************************************************)
(* CommandBuilder                                                          *)
(***************************************************************************)
Write(reg, val) == <<[reg |-> reg, val |-> val]>>
WriteWithin(range, reg, val) == IF val \in range THEN Write(reg, val) ELSE <<>>
Flag(enabled) == IF enabled THEN 1 ELSE 0

SetChargeTarget(soc) == WriteWithin(4..100, ChargeTargetSoc, soc)
SetEnableCharge(enabled) == Write(EnableCharge, Flag(enabled))
SetEnableChargeTarget(enabled) == Write(EnableChargeTarget, Flag(enabled))
SetEnableDischarge(enabled) == Write(EnableDischarge, Flag(enabled))
DisableChargeTarget == SetEnableChargeTarget(FALSE) \o Write(ChargeTargetSoc, 100)
SetInverterReboot == Write(Reboot, 100)
SetCalibrateBatterySoc == Write(SocForceAdjust, 1)
SetDischargeModeMaxPower == Write(BatteryPowerMode, 0)
SetDischargeModeToMatchDemand == Write(BatteryPowerMode, 1)
SetBatterySocReserve(val) == WriteWithin(4..100, BatterySocReserve, val)
SetBatteryChargeLimit(val) == WriteWithin(0..50, BatteryChargeLimit, val)
SetBatteryDischargeLimit(val) == WriteWithin(0..50, BatteryDischargeLimit, val)
SetBatteryPowerReserve(val) == WriteWithin(4..100, BatteryDischargeMinPowerReserve, val)
SetBatteryPauseMode(val) == WriteWithin(0..3, BatteryPauseMode, val)
SetPauseSlotStart(t) == Write(BatteryPauseSlotStart, HHMM(t))
SetPauseSlotEnd(t) == Write(BatteryPauseSlotEnd, HHMM(t))

SetSlot(discharge, idx, slot) ==
    LET regs == SlotRegisters(discharge, idx)
    IN Write(regs[1], HHMM(slot[1])) \o Write(regs[2], HHMM(slot[2]))

\* A slot is cleared by making it empty at midnight.
ResetSlot(discharge, idx) == SetSlot(discharge, idx, <<0, 0>>)

\* The date is left out of the clock, and so are the seconds.
SetSystemDateTime(t) == Write(SystemTimeHour, t \div 60) \o Write(SystemTimeMinute, t % 60)

SetModeDynamic ==
    SetDischargeModeToMatchDemand \o SetBatterySocReserve(4) \o SetEnableDischarge(FALSE)

SetModeStorage(slot1, slot2, export) ==
    (IF export THEN SetDischargeModeMaxPower ELSE SetDischargeModeToMatchDemand)
    \o SetBatterySocReserve(100) \o SetEnableDischarge(TRUE) \o SetSlot(TRUE, 1, slot1)
    \o (IF slot2 = NoSlot THEN ResetSlot(TRUE, 2) ELSE SetSlot(TRUE, 2, slot2))

\* The reads of a refresh: function, slave address and base register
Read(fn, slave, base) == <<[fn |-> fn, slave |-> slave, base |-> base]>>
Limited == {"None", "ALL_IN_ONE"}   \* before detection, or without batteries of its own bus
MainSlaveAddress(model) == IF model \in Limited THEN 17 ELSE 50
RefreshAdditionalHoldingRegisters(model, base) == Read("holding", MainSlaveAddress(model), base)

RefreshPlantData(model, complete, numberBatteries, maxBatteries, additional) ==
    LET main == MainSlaveAddress(model)
        count == IF complete /\ model \notin Limited THEN maxBatteries ELSE numberBatteries
    IN Read("input", main, 0)
       \o (IF complete THEN Read("holding", main, 0) \o Read("holding", main, 60)
                             \o Read("input", main, 120) ELSE <<>>)
       \o FlattenSeq([i \in 1..count |-> Read("input", 50 + i - 1, 60)])
       \o FlattenSeq([i \in DOMAIN additional |->
                        RefreshAdditionalHoldingRegisters(model, additional[i])])

(***************************************************************************)
(* Operations: a batch, and what the entities then ought to show           *)
(***************************************************************************)
Op(batch, shows) == [batch |-> batch, shows |-> shows]

ActivateModeEco == Op(SetModeDynamic, [mode |-> "Eco"])

ActivateModeTimedDischarge(slot) ==
    Op(SetDischargeModeToMatchDemand \o SetEnableDischarge(TRUE) \o SetSlot(TRUE, 1, slot),
       [mode |-> "Timed Discharge", discharge_slot_1 |-> slot])

ActivateModeTimedExport(slot) ==
    Op(SetDischargeModeMaxPower \o SetEnableDischarge(TRUE) \o SetSlot(TRUE, 1, slot),
       [mode |-> "Timed Export", discharge_slot_1 |-> slot])

\* Without a slot or without a target, those stay as they are.  A target is enabled only
\* below 100 percent.
EnableTimedCharge == Op(SetEnableCharge(TRUE), [enable_charge |-> TRUE])
EnableTimedChargeWithin(slot) ==
    Op(SetEnableCharge(TRUE) \o SetSlot(FALSE, 1, slot),
       [enable_charge |-> TRUE, charge_slot_1 |-> slot])
EnableTimedChargeTo(soc) ==
    Op(SetEnableCharge(TRUE) \o SetChargeTarget(soc) \o SetEnableChargeTarget(soc < 100),
       [enable_charge |-> TRUE, charge_target_soc |-> soc, enable_charge_target |-> soc < 100])
EnableTimedChargeWithinTo(slot, soc) ==
    Op(SetEnableCharge(TRUE) \o SetSlot(FALSE, 1, slot) \o SetChargeTarget(soc)
           \o SetEnableChargeTarget(soc < 100),
       [enable_charge |-> TRUE, charge_slot_1 |-> slot, charge_target_soc |-> soc,
        enable_charge_target |-> soc < 100])

DisableTimedCharge == Op(SetEnableCharge(FALSE), [enable_charge |-> FALSE])
\* Nothing shows it.
RebootInverter == Op(SetInverterReboot, [key \in {} |-> {}])
SyncClock(t) == Op(SetSystemDateTime(t), [system_time |-> t])

TurnEcoMode(on) ==
    Op(IF on THEN SetDischargeModeToMatchDemand ELSE SetDischargeModeMaxPower,
       [battery_power_mode |-> on])
TurnEnableCharge(on) == Op(SetEnableCharge(on), [enable_charge |-> on])
TurnEnableChargeTarget(on) == Op(SetEnableChargeTarget(on), [enable_charge_target |-> on])
TurnEnableDischarge(on) == Op(SetEnableDischarge(on), [enable_discharge |-> on])

ACChargeLimit(soc) == Op(SetChargeTarget(soc), [charge_target_soc |-> soc])
BatterySoCReserve(soc) == Op(SetBatterySocReserve(soc), [battery_soc_reserve |-> soc])
BatteryMinPowerReserve(soc) ==
    Op(SetBatteryPowerReserve(soc), [battery_discharge_min_power_reserve |-> soc])

BatteryChargeLimitW(watts) ==
    Op(SetBatteryChargeLimit(WattsToApiValue(watts)), [battery_charge_limit |-> watts])
BatteryDischargeLimitW(watts) ==
    Op(SetBatteryDischargeLimit(WattsToApiValue(watts)), [battery_discharge_limit |-> watts])

BatteryPauseModeSelect(val) == Op(SetBatteryPauseMode(val), [battery_pause_mode |-> val])
BatteryPauseStart(t) == Op(SetPauseSlotStart(t), [battery_pause_slot_1_start |-> t])
BatteryPauseEnd(t) == Op(SetPauseSlotEnd(t), [battery_pause_slot_1_end |-> t])

\* What the client library offers beside the entities and services
Storage(slot1, slot2, export) ==
    Op(SetModeStorage(slot1, slot2, export),
       [mode |-> IF export THEN "Timed Export" ELSE "Timed Discharge",
        discharge_slot_1 |-> slot1, battery_soc_reserve |-> 100,
        discharge_slot_2 |-> IF slot2 = NoSlot THEN <<0, 0>> ELSE slot2])
NoChargeTarget ==
    Op(DisableChargeTarget, [enable_charge_target |-> FALSE, charge_target_soc |-> 100])
CalibrateBatterySoc == Op(SetCalibrateBatterySoc, [battery_calibration_stage |-> 1])

\* What users can ask for: buttons, switches, services on a slot, ...
ButtonOperations ==
    {ActivateModeEco, EnableTimedCharge, DisableTimedCharge, RebootInverter, NoChargeTarget,
     CalibrateBatterySoc}
SwitchOperations ==
    UNION {{TurnEcoMode(on), TurnEnableCharge(on), TurnEnableChargeTarget(on),
            TurnEnableDischarge(on)} : on \in BOOLEAN}
SlotOperations ==
    UNION {{ActivateModeTimedDischarge(slot), ActivateModeTimedExport(slot),
            EnableTimedChargeWithin(slot), Storage(slot, NoSlot, TRUE),
            Storage(slot, NoSlot, FALSE)} : slot \in Times \X Times}
ChargeOperations ==
    {EnableTimedChargeWithinTo(slot, soc) :
        slot \in Times \X Times, soc \in Percents \cap 4..100}
StorageOperations ==
    {Storage(slots[1], slots[2], export) :
        slots \in (Times \X Times) \X (Times \X Times), export \in BOOLEAN}
TimeOperations ==
    UNION {{SyncClock(t), BatteryPauseStart(t), BatteryPauseEnd(t)} : t \in Times}
PercentOperations ==
    (UNION {{ACChargeLimit(soc), BatterySoCReserve(soc), BatteryMinPowerReserve(soc)} :
            soc \in Percents})
    \cup {EnableTimedChargeTo(soc) : soc \in Percents \cap 4..100}
PowerOperations ==
    UNION {{BatteryChargeLimitW(w), BatteryDischargeLimitW(w)} : w \in Watts}
PauseOperations == {BatteryPauseModeSelect(val) : val \in 0..3}

Operations ==
    ButtonOperations \cup SwitchOperations \cup SlotOperations \cup ChargeOperations
    \cup StorageOperations \cup TimeOperations \cup PercentOperations \cup PowerOperations \cup PauseOperations

(***************************************************************************)
(* What the entities show of the holding registers                         *)
(***************************************************************************)
\* BatteryModeSensor
BatteryMode(powerMode, enableDischarge) ==
    CASE enableDischarge /\ powerMode = 1 -> "Timed Discharge"
      [] enableDischarge /\ powerMode # 1 -> "Timed Export"
      [] ~enableDischarge /\ powerMode = 1 -> "Eco"
      [] OTHER -> "Unknown"

\* REGISTER_LUT, for what can be set: the converter and the registers it takes
Def(converter, regs) == [converter |-> converter, regs |-> regs]
RegisterLut ==
    [enable_charge_target |-> Def("bool", <<EnableChargeTarget>>),
     battery_power_mode |-> Def("mode", <<BatteryPowerMode>>),
     battery_calibration_stage |-> Def("stage", <<SocForceAdjust>>),
     discharge_slot_2 |-> Def("timeslot", SlotRegisters(TRUE, 2)),
     discharge_slot_1 |-> Def("timeslot", SlotRegisters(TRUE, 1)),
     enable_discharge |-> Def("bool", <<EnableDischarge>>),
     charge_slot_1 |-> Def("timeslot", SlotRegisters(FALSE, 1)),
     charge_slot_2 |-> Def("timeslot", SlotRegisters(FALSE, 2)),
     enable_charge |-> Def("bool", <<EnableCharge>>),
     battery_soc_reserve |-> Def("uint16", <<BatterySocReserve>>),
     battery_charge_limit |-> Def("uint16", <<BatteryChargeLimit>>),
     battery_discharge_limit |-> Def("uint16", <<BatteryDischargeLimit>>),
     battery_discharge_min_power_reserve |-> Def("uint16", <<BatteryDischargeMinPowerReserve>>),
     charge_target_soc |-> Def("uint16", <<ChargeTargetSoc>>),
     battery_pause_mode |-> Def("pause", <<BatteryPauseMode>>),
     battery_pause_slot_1 |-> Def("timeslot", <<BatteryPauseSlotStart, BatteryPauseSlotEnd>>)]

\* RegisterGetter.get, where raw is what RegisterCache holds
Get(raw, key) ==
    LET regs == RegisterLut[key].regs
        one == raw[regs[1]]
    IN CASE RegisterLut[key].converter \in {"bool", "mode"} -> Bool(one)
         [] RegisterLut[key].converter = "timeslot" -> TimeSlot(one, raw[regs[2]])
         [] OTHER -> one

\* It does not raise ConversionError.
Decodes(raw, key) ==
    LET one == raw[RegisterLut[key].regs[1]]
    IN CASE RegisterLut[key].converter = "mode" -> one \in 0..1
         [] RegisterLut[key].converter = "stage" -> one \in 0..7
         [] RegisterLut[key].converter = "pause" -> one \in 0..3
         [] RegisterLut[key].converter = "timeslot" -> Get(raw, key) # Undecodable
         [] OTHER -> TRUE

\* What the limit numbers, the mode sensor, the clock and the time entities make of it
Value(raw, key) ==
    CASE key = "mode" -> BatteryMode(raw[BatteryPowerMode], Bool(raw[EnableDischarge]))
      [] key = "system_time" -> 60 * raw[SystemTimeHour] + raw[SystemTimeMinute]
      [] key \in {"battery_charge_limit", "battery_discharge_limit"} ->
            ApiValueToWatts(Get(raw, key))
      [] key = "battery_pause_slot_1_start" -> Get(raw, "battery_pause_slot_1")[1]
      [] key = "battery_pause_slot_1_end" -> Get(raw, "battery_pause_slot_1")[2]
      [] OTHER -> Get(raw, key)

\* A limit may differ from what was asked by less than a step and a watt.
Agrees(key, value, asked) ==
    IF key \in {"battery_charge_limit", "battery_discharge_limit"}
    THEN value <= NativeMax
         /\ (value - asked) * 1000 <= PowerStep /\ (asked - value - 1) * 1000 <= PowerStep
    ELSE value = asked

\* The entities show what an operation asked for.
Shows(raw, op) == \A key \in DOMAIN op.shows : Agrees(key, Value(raw, key), op.shows[key])

=============================================================================
