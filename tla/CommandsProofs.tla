--------------------------- MODULE CommandsProofs ---------------------------
(***************************************************************************)
(* What is proved of Commands: whatever a user asks for, of an inverter    *)
(* of whatever capacity, the registers of its batch, once written, are     *)
(* decoded to what the user asked for, and never to an error.              *)
(***************************************************************************)
EXTENDS Commands, SequenceLemmas

TimeRegisters ==
    {31, 32, 44, 45, 56, 57, 94, 95, BatteryPauseSlotStart, BatteryPauseSlotEnd}

TimeOfDay == 0..1439

\* What a register may hold without an error when it is decoded
Legal(reg, val) ==
    /\ val \in Word
    /\ reg \in TimeRegisters => IsTime(val)
    /\ reg = BatteryPowerMode => val \in 0..1
    /\ reg = SocForceAdjust => val \in 0..7
    /\ reg = BatteryPauseMode => val \in 0..3

W(reg, val) == [reg |-> reg, val |-> val]
Writes == {w \in [reg : Nat, val : Word] : Legal(w.reg, w.val)}

\* No register is given two values.
Functional(S) == \A v, w \in S : v.reg = w.reg => v = w

\* A full refresh reads the registers below 120; of those above, no entity shows any that is
\* safe to write.
Holds(raw, S) == \A w \in S : w.reg < 120 => raw[w.reg] = w.val

LEMMA WordIs == ASSUME NEW x \in Int PROVE x \in Word <=> 0 <= x /\ x < 256 * 256
  <1>1. PICK n \in Int : n = 256 * 256
    BY SMT
  <1>2. Word = 0..(n - 1)
    BY <1>1, SMT DEF Word
  <1>3. x \in 0..(n - 1) <=> 0 <= x /\ x < n
    BY SMT
  <1>4. x \in Word <=> 0 <= x /\ x < n
    BY <1>2, <1>3, Zenon
  <1> QED BY <1>1, <1>4, Zenon

IsBatch(s, S) == s \in Seq(Writes) /\ ToSet(s) = S

LEMMA Single ==
    ASSUME NEW r \in Nat, NEW v, Legal(r, v)
    PROVE  IsBatch(Write(r, v), {W(r, v)}) /\ W(r, v) \in Writes
  <1>1. W(r, v) \in Writes
    <2>1. W(r, v).reg = r /\ W(r, v).val = v
      BY DEF W
    <2>2. v \in Word
      BY DEF Legal
    <2>3. W(r, v) \in [reg : Nat, val : Word]
      BY <2>2 DEF W
    <2>4. Legal(W(r, v).reg, W(r, v).val)
      BY <2>1
    <2> HIDE DEF W
    <2> QED BY <2>3, <2>4 DEF Writes
  <1>2. Write(r, v) = <<W(r, v)>>
    BY DEF Write, W
  <1>3. <<W(r, v)>> \in Seq(Writes)
    BY <1>1
  <1> QED BY <1>1, <1>2, <1>3, SetOfOne DEF IsBatch

LEMMA Join ==
    ASSUME NEW s, NEW t, NEW S, NEW T, IsBatch(s, S), IsBatch(t, T)
    PROVE  IsBatch(s \o t, S \cup T)
  BY SetOfConcat DEF IsBatch

LEMMA Join2 ==
    ASSUME NEW s, NEW t, NEW v, NEW w, IsBatch(s, {v}), IsBatch(t, {w})
    PROVE  IsBatch(s \o t, {v, w})
  <1>1. {v} \cup {w} = {v, w}
    OBVIOUS
  <1>2. IsBatch(s \o t, {v} \cup {w})
    BY Join
  <1> QED BY <1>1, <1>2

LEMMA Join3 ==
    ASSUME NEW a, NEW b, NEW c, NEW A, NEW B, NEW C,
           IsBatch(a, A), IsBatch(b, B), IsBatch(c, C)
    PROVE  IsBatch(a \o b \o c, A \cup B \cup C)
  <1>1. IsBatch(a \o b, A \cup B)
    BY Join
  <1> QED BY <1>1, Join

LEMMA Join4 ==
    ASSUME NEW a, NEW b, NEW c, NEW d, NEW A, NEW B, NEW C, NEW D,
           IsBatch(a, A), IsBatch(b, B), IsBatch(c, C), IsBatch(d, D)
    PROVE  IsBatch(a \o b \o c \o d, (A \cup B \cup C) \cup D)
  <1>1. IsBatch(a \o b \o c, A \cup B \cup C)
    BY Join3
  <1> QED BY <1>1, Join

LEMMA Join5 ==
    ASSUME NEW a, NEW b, NEW c, NEW d, NEW e, NEW A, NEW B, NEW C, NEW D, NEW E,
           IsBatch(a, A), IsBatch(b, B), IsBatch(c, C), IsBatch(d, D), IsBatch(e, E)
    PROVE  IsBatch(a \o b \o c \o d \o e, (A \cup B \cup C) \cup D \cup E)
  <1>1. IsBatch(a \o b \o c, A \cup B \cup C)
    BY Join3
  <1> QED BY <1>1, Join3

LEMMA Nothing == IsBatch(<<>>, {})
  BY SetOfNone DEF IsBatch

(***************************************************************************)
(* Conversions                                                             *)
(***************************************************************************)
\* A time of day survives its encoding, and none is mistaken for the mark of no slot.
LEMMA TimesSurvive ==
    ASSUME NEW t \in TimeOfDay
    PROVE  /\ HHMM(t) \in Word /\ IsTime(HHMM(t)) /\ HHMM(t) # 60
           /\ 60 * (HHMM(t) \div 100) + (HHMM(t) % 100) = t
  <1>1. PICK h \in 0..23, m \in 0..59 : t = 60 * h + m
    <2>1. t \div 60 \in 0..23 /\ t % 60 \in 0..59 /\ t = 60 * (t \div 60) + (t % 60)
      BY DEF TimeOfDay
    <2> QED BY <2>1
  <1>2. t \div 60 = h /\ t % 60 = m
    BY <1>1
  <1>3. HHMM(t) = 100 * h + m
    BY <1>2 DEF HHMM
  <1>4. HHMM(t) \div 100 = h /\ HHMM(t) % 100 = m
    BY <1>3
  <1>5. IsTime(HHMM(t))
    BY <1>4 DEF IsTime
  <1>6. HHMM(t) \in Word /\ HHMM(t) # 60
    <2>1. 100 * h + m \in Nat /\ 100 * h + m < 256 * 256 /\ 100 * h + m # 60
      OBVIOUS
    <2> QED BY <1>3, <2>1, WordIs
  <1>7. 60 * (HHMM(t) \div 100) + (HHMM(t) % 100) = t
    BY <1>1, <1>4
  <1> QED BY <1>5, <1>6, <1>7

LEMMA SlotsSurvive ==
    ASSUME NEW s \in TimeOfDay, NEW e \in TimeOfDay
    PROVE  TimeSlot(HHMM(s), HHMM(e)) = <<s, e>>
  <1> DEFINE a == HHMM(s)
             b == HHMM(e)
  <1>1. IsTime(a) /\ a # 60 /\ 60 * (a \div 100) + (a % 100) = s
    BY TimesSurvive
  <1>2. IsTime(b) /\ b # 60 /\ 60 * (b \div 100) + (b % 100) = e
    BY TimesSurvive
  <1> HIDE DEF a, b
  <1>3. TimeSlot(a, b) = <<60 * (a \div 100) + (a % 100), 60 * (b \div 100) + (b % 100)>>
    BY <1>1, <1>2 DEF TimeSlot
  <1> QED BY <1>1, <1>2, <1>3 DEF a, b

LEMMA Division ==
    ASSUME NEW a \in Nat, NEW b \in Nat, b > 0
    PROVE  /\ a \div b \in Nat
           /\ (a \div b) * b <= a /\ a < (a \div b) * b + b
  OBVIOUS

LEMMA PowersTyped ==
    /\ PowerStep \in Nat /\ PowerStep > 0 /\ MaxBatteryPower \in Nat /\ NativeMax \in Nat
    /\ NativeMax <= MaxBatteryPower /\ 1000 * NativeMax <= 50 * PowerStep
    /\ NativeMax = IF (50 * PowerStep) \div 1000 < MaxBatteryPower
                   THEN (50 * PowerStep) \div 1000 ELSE MaxBatteryPower
  <1> DEFINE half == (BatteryCapacity * 256) \div 10
  <1>1. BatteryCapacity \in Nat /\ BatteryCapacity > 0
    BY CommandsAssumption
  <1>2. MaxBatteryPower \in {2600, 3000, 3600, 5000, 6000}
    <2>1. \A first \in BOOLEAN :
             (CASE first /\ InverterModel = "AC" -> 3000
                [] first /\ InverterModel = "ALL_IN_ONE" -> 6000
                [] first /\ InverterModel \notin {"AC", "ALL_IN_ONE"} -> 2600
                [] ~first /\ InverterModel = "AC" -> 5000
                [] OTHER -> 3600) \in {2600, 3000, 3600, 5000, 6000}
      OBVIOUS
    <2> QED BY <2>1 DEF MaxBatteryPower
  <1>3. PowerStep = BatteryCapacity * 512 /\ PowerStep \in Nat /\ PowerStep > 0
    BY <1>1 DEF PowerStep
  <1>4. half = (50 * PowerStep) \div 1000 /\ half \in Nat /\ 1000 * half <= 50 * PowerStep
    BY <1>1, <1>3
  <1>5. NativeMax = IF half < MaxBatteryPower THEN half ELSE MaxBatteryPower
    BY DEF NativeMax
  <1> HIDE DEF half
  <1> QED BY <1>2, <1>3, <1>4, <1>5

LEMMA Quotients ==
    ASSUME NEW a \in Nat, NEW b \in Nat, NEW P \in Nat, P > 0, a * P <= b * P
    PROVE  a <= b
  <1> SUFFICES ASSUME a > b PROVE FALSE
    OBVIOUS
  <1>1. PICK d \in Nat : a = b + 1 + d
    <2>1. a - b - 1 \in Nat /\ a = b + 1 + (a - b - 1)
      OBVIOUS
    <2> QED BY <2>1
  <1>2. a * P = b * P + P + d * P /\ d * P \in Nat /\ b * P \in Nat
    BY <1>1
  <1> QED BY <1>2

\* A limit that a user may set is one the register takes, and is shown with less than a step
\* and a watt of difference (number.py: watts_to_api_value and native_value).
LEMMA LimitsAgree ==
    ASSUME NEW w \in Nat, w <= NativeMax
    PROVE  /\ WattsToApiValue(w) \in 0..50
           /\ ApiValueToWatts(WattsToApiValue(w)) <= NativeMax
           /\ (ApiValueToWatts(WattsToApiValue(w)) - w) * 1000 <= PowerStep
           /\ (w - ApiValueToWatts(WattsToApiValue(w)) - 1) * 1000 <= PowerStep
  <1> DEFINE P == PowerStep
             M == MaxBatteryPower
             x == w * 1000
             maxStep == (M * 1000) \div P
             raw == WattsToApiValue(w)
             u == (raw * P) \div 1000
             v == ApiValueToWatts(raw)
  <1>1. /\ P \in Nat /\ P > 0 /\ M \in Nat /\ NativeMax \in Nat
        /\ NativeMax <= M /\ 1000 * NativeMax <= 50 * P
        /\ NativeMax = IF (50 * P) \div 1000 < M THEN (50 * P) \div 1000 ELSE M
    BY PowersTyped
  <1>2. raw = IF x > maxStep * P THEN 50 ELSE x \div P
    BY DEF WattsToApiValue
  <1>3. v = IF u < M THEN u ELSE M
    BY DEF ApiValueToWatts
  <1> HIDE DEF P, M, v, raw
  <1>4. CASE x > maxStep * P
    <2>1. raw = 50 /\ v = NativeMax
      BY <1>1, <1>2, <1>3, <1>4
    <2>2. M * 1000 < maxStep * P + P /\ maxStep * P \in Nat
      <3>1. M * 1000 \in Nat
        BY <1>1
      <3>2. maxStep \in Nat /\ M * 1000 < maxStep * P + P
        BY <1>1, <3>1, Division
      <3> HIDE DEF maxStep
      <3> QED BY <1>1, <3>2
    <2> HIDE DEF maxStep
    <2>3. (v - w) * 1000 <= P
      BY <1>1, <1>4, <2>1, <2>2
    <2>4. (w - v - 1) * 1000 <= P
      BY <1>1, <2>1
    <2> QED BY <1>1, <2>1, <2>3, <2>4 DEF raw, v, P
  <1>5. CASE ~(x > maxStep * P)
    <2>1. raw = x \div P
      BY <1>2, <1>5
    <2>2. x \in Nat /\ raw \in Nat /\ raw * P <= x /\ x < raw * P + P
      BY <1>1, <2>1, Division
    <2> DEFINE y == raw * P
    <2>3. y \in Nat
      BY <1>1, <2>2
    <2>4. u \in Nat /\ 1000 * u <= y /\ y < 1000 * u + 1000
      <3>1. u = y \div 1000
        OBVIOUS
      <3> HIDE DEF y, u
      <3> QED BY <2>3, <3>1
    <2>5. y <= 50 * P
      BY <1>1, <2>2
    <2>6. raw <= 50
      BY <1>1, <2>2, <2>5, Quotients
    <2>7. y <= x /\ x < y + P
      BY <2>2
    <2> HIDE DEF y, u
    <2>8. u <= w /\ v <= w /\ v \in Nat
      BY <1>1, <1>3, <2>3, <2>4, <2>7
    <2>9. (w - v - 1) * 1000 <= P
      BY <1>1, <1>3, <2>3, <2>4, <2>7
    <2>10. (v - w) * 1000 <= P /\ v <= NativeMax
      BY <1>1, <2>8
    <2> QED BY SMTT(30), <1>1, <2>2, <2>6, <2>9, <2>10 DEF raw, v, P
  <1> QED BY <1>4, <1>5

(***************************************************************************)
(* Operations                                                              *)
(***************************************************************************)
\* The batch can be encoded, and once it is in force the entities show what was asked for.
Proper(op) ==
    /\ op.batch \in Seq(Writes) /\ Functional(ToSet(op.batch))
    /\ (op.batch # <<>> /\ \A w \in ToSet(op.batch) : w.reg \in WriteSafeRegisters)
       => \A raw : Holds(raw, ToSet(op.batch)) => Shows(raw, op)

LEMMA FieldsOf == ASSUME NEW r, NEW v PROVE W(r, v).reg = r /\ W(r, v).val = v
  BY DEF W

LEMMA ProperIs ==
    ASSUME NEW op, NEW S, IsBatch(op.batch, S), Functional(S),
           (\A w \in S : w.reg \in WriteSafeRegisters)
              => \A raw : Holds(raw, S) => Shows(raw, op)
    PROVE  Proper(op)
  BY DEF Proper, IsBatch

LEMMA ProperOne ==
    ASSUME NEW op, NEW r \in Nat, NEW v, Legal(r, v), op.batch = Write(r, v),
           r \in WriteSafeRegisters => \A raw : (r < 120 => raw[r] = v) => Shows(raw, op)
    PROVE  Proper(op)
  <1> DEFINE S == {W(r, v)}
  <1>1. IsBatch(op.batch, S)
    BY Single
  <1>2. Functional(S)
    BY DEF Functional
  <1>3. ASSUME \A w \in S : w.reg \in WriteSafeRegisters, NEW raw, Holds(raw, S)
        PROVE  Shows(raw, op)
    <2>1. r \in WriteSafeRegisters
      BY <1>3, FieldsOf
    <2>2. r < 120 => raw[r] = v
      BY <1>3, FieldsOf DEF Holds
    <2> QED BY <2>1, <2>2
  <1> HIDE DEF S
  <1> QED BY <1>1, <1>2, <1>3, ProperIs

LEMMA ProperNone ==
    ASSUME NEW op, op.batch = <<>>
    PROVE  Proper(op)
  BY SetOfNone DEF Proper, Functional

LEMMA Flags ==
    ASSUME NEW on \in BOOLEAN
    PROVE  Flag(on) \in 0..1 /\ Bool(Flag(on)) = on
  BY DEF Flag, Bool

LEMMA Values ==
    ASSUME NEW raw
    PROVE  /\ Value(raw, "mode") = BatteryMode(raw[27], Bool(raw[59]))
           /\ Value(raw, "system_time") = 60 * raw[38] + raw[39]
           /\ Value(raw, "battery_charge_limit") = ApiValueToWatts(raw[111])
           /\ Value(raw, "battery_discharge_limit") = ApiValueToWatts(raw[112])
           /\ Value(raw, "battery_power_mode") = Bool(raw[27])
           /\ Value(raw, "enable_charge") = Bool(raw[96])
           /\ Value(raw, "enable_discharge") = Bool(raw[59])
           /\ Value(raw, "enable_charge_target") = Bool(raw[20])
           /\ Value(raw, "charge_target_soc") = raw[116]
           /\ Value(raw, "battery_soc_reserve") = raw[110]
           /\ Value(raw, "battery_discharge_min_power_reserve") = raw[114]
           /\ Value(raw, "battery_calibration_stage") = raw[29]
           /\ Value(raw, "charge_slot_1") = TimeSlot(raw[94], raw[95])
           /\ Value(raw, "discharge_slot_1") = TimeSlot(raw[56], raw[57])
           /\ Value(raw, "discharge_slot_2") = TimeSlot(raw[44], raw[45])
  <1> USE DEF Value, Get, RegisterLut, Def, SlotRegisters
  <1>1. /\ Value(raw, "mode") = BatteryMode(raw[27], Bool(raw[59]))
        /\ Value(raw, "system_time") = 60 * raw[38] + raw[39]
    BY DEF BatteryPowerMode, EnableDischarge, SystemTimeHour, SystemTimeMinute
  <1>2. /\ Value(raw, "battery_charge_limit") = ApiValueToWatts(raw[111])
        /\ Value(raw, "battery_discharge_limit") = ApiValueToWatts(raw[112])
    BY DEF BatteryChargeLimit, BatteryDischargeLimit
  <1>3. /\ Value(raw, "battery_power_mode") = Bool(raw[27])
        /\ Value(raw, "enable_charge") = Bool(raw[96])
        /\ Value(raw, "enable_discharge") = Bool(raw[59])
        /\ Value(raw, "enable_charge_target") = Bool(raw[20])
    BY DEF BatteryPowerMode, EnableCharge, EnableDischarge, EnableChargeTarget
  <1>4. /\ Value(raw, "charge_target_soc") = raw[116]
        /\ Value(raw, "battery_soc_reserve") = raw[110]
        /\ Value(raw, "battery_discharge_min_power_reserve") = raw[114]
        /\ Value(raw, "battery_calibration_stage") = raw[29]
    BY DEF ChargeTargetSoc, BatterySocReserve, BatteryDischargeMinPowerReserve, SocForceAdjust
  <1>5. /\ Value(raw, "charge_slot_1") = TimeSlot(raw[94], raw[95])
        /\ Value(raw, "discharge_slot_1") = TimeSlot(raw[56], raw[57])
        /\ Value(raw, "discharge_slot_2") = TimeSlot(raw[44], raw[45])
    OBVIOUS
  <1> HIDE DEF Value, Get, RegisterLut, Def, SlotRegisters
  <1> QED BY <1>1, <1>2, <1>3, <1>4, <1>5

Limits == {"battery_charge_limit", "battery_discharge_limit"}

LEMMA ShowsIs ==
    ASSUME NEW raw, NEW op,
           \A key \in DOMAIN op.shows : key \notin Limits /\ Value(raw, key) = op.shows[key]
    PROVE  Shows(raw, op)
  BY DEF Shows, Agrees, Limits

LEMMA FlagsShow ==
    ASSUME NEW raw, NEW on \in BOOLEAN
    PROVE  /\ raw[96] = Flag(on) => Value(raw, "enable_charge") = on
           /\ raw[59] = Flag(on) => Value(raw, "enable_discharge") = on
           /\ raw[20] = Flag(on) => Value(raw, "enable_charge_target") = on
           /\ raw[27] = Flag(on) => Value(raw, "battery_power_mode") = on
  <1>1. /\ Value(raw, "enable_charge") = Bool(raw[96])
        /\ Value(raw, "enable_discharge") = Bool(raw[59])
        /\ Value(raw, "enable_charge_target") = Bool(raw[20])
        /\ Value(raw, "battery_power_mode") = Bool(raw[27])
    BY ZenonT(30), Values
  <1>2. Bool(Flag(on)) = on
    BY Flags
  <1>3. raw[96] = Flag(on) => Value(raw, "enable_charge") = on
    BY <1>1, <1>2
  <1>4. raw[59] = Flag(on) => Value(raw, "enable_discharge") = on
    BY <1>1, <1>2
  <1>5. raw[20] = Flag(on) => Value(raw, "enable_charge_target") = on
    BY <1>1, <1>2
  <1>6. raw[27] = Flag(on) => Value(raw, "battery_power_mode") = on
    BY <1>1, <1>2
  <1> QED BY <1>3, <1>4, <1>5, <1>6

LEMMA ModesShow ==
    ASSUME NEW raw
    PROVE  /\ raw[59] = 0 /\ raw[27] = 1 => Value(raw, "mode") = "Eco"
           /\ raw[59] = 1 /\ raw[27] = 1 => Value(raw, "mode") = "Timed Discharge"
           /\ raw[59] = 1 /\ raw[27] = 0 => Value(raw, "mode") = "Timed Export"
  <1>1. Value(raw, "mode") = BatteryMode(raw[27], Bool(raw[59]))
    BY Values
  <1>2. Bool(1) = TRUE /\ Bool(0) = FALSE
    BY DEF Bool
  <1>3. /\ BatteryMode(1, FALSE) = "Eco" /\ BatteryMode(1, TRUE) = "Timed Discharge"
        /\ BatteryMode(0, TRUE) = "Timed Export"
    BY DEF BatteryMode
  <1> QED BY <1>1, <1>2, <1>3

LEMMA Plain ==
    ASSUME NEW r \in Nat \ TimeRegisters, r \notin {27, 29, 318}, NEW v \in 0..100
    PROVE  Legal(r, v)
  <1>1. v \in Word
    BY WordIs
  <1> QED BY <1>1 DEF Legal, BatteryPowerMode, SocForceAdjust, BatteryPauseMode

LEMMA Special ==
    /\ Legal(27, 0) /\ Legal(27, 1) /\ Legal(29, 1)
    /\ \A v \in 0..3 : Legal(318, v)
    /\ \A r \in TimeRegisters, t \in TimeOfDay : Legal(r, HHMM(t))
  <1> USE DEF TimeRegisters, BatteryPauseSlotStart, BatteryPauseSlotEnd, BatteryPowerMode,
              SocForceAdjust, BatteryPauseMode
  <1>1. 0 \in Word /\ 1 \in Word /\ \A v \in 0..3 : v \in Word
    BY WordIs
  <1>2. Legal(27, 0) /\ Legal(27, 1) /\ Legal(29, 1) /\ \A v \in 0..3 : Legal(318, v)
    BY <1>1 DEF Legal
  <1>3. ASSUME NEW r \in TimeRegisters, NEW t \in TimeOfDay PROVE Legal(r, HHMM(t))
    BY TimesSurvive DEF Legal
  <1> QED BY <1>2, <1>3

LEMMA Parts ==
    /\ IsBatch(SetDischargeModeToMatchDemand, {W(27, 1)})
    /\ IsBatch(SetDischargeModeMaxPower, {W(27, 0)})
    /\ \A on \in BOOLEAN : /\ IsBatch(SetEnableDischarge(on), {W(59, Flag(on))})
                           /\ IsBatch(SetEnableCharge(on), {W(96, Flag(on))})
                           /\ IsBatch(SetEnableChargeTarget(on), {W(20, Flag(on))})
    /\ \A soc \in 4..100 : /\ IsBatch(SetBatterySocReserve(soc), {W(110, soc)})
                           /\ IsBatch(SetChargeTarget(soc), {W(116, soc)})
  <1>1. /\ SetDischargeModeToMatchDemand = Write(27, 1)
        /\ SetDischargeModeMaxPower = Write(27, 0)
    BY DEF SetDischargeModeToMatchDemand, SetDischargeModeMaxPower, BatteryPowerMode
  <1>2. ASSUME NEW on \in BOOLEAN
        PROVE  /\ SetEnableDischarge(on) = Write(59, Flag(on)) /\ Legal(59, Flag(on))
               /\ SetEnableCharge(on) = Write(96, Flag(on)) /\ Legal(96, Flag(on))
               /\ SetEnableChargeTarget(on) = Write(20, Flag(on)) /\ Legal(20, Flag(on))
    <2>1. Flag(on) \in 0..100
      BY DEF Flag
    <2>2. {59, 96, 20} \subseteq Nat \ TimeRegisters
      BY DEF TimeRegisters, BatteryPauseSlotStart, BatteryPauseSlotEnd
    <2>3. Legal(59, Flag(on)) /\ Legal(96, Flag(on)) /\ Legal(20, Flag(on))
      BY <2>1, <2>2, Plain
    <2> QED BY <2>3 DEF SetEnableDischarge, SetEnableCharge, SetEnableChargeTarget,
                        EnableDischarge, EnableCharge, EnableChargeTarget
  <1>3. ASSUME NEW soc \in 4..100
        PROVE  /\ SetBatterySocReserve(soc) = Write(110, soc) /\ Legal(110, soc)
               /\ SetChargeTarget(soc) = Write(116, soc) /\ Legal(116, soc)
    <2>1. {110, 116} \subseteq Nat \ TimeRegisters /\ soc \in 0..100
      BY DEF TimeRegisters, BatteryPauseSlotStart, BatteryPauseSlotEnd
    <2>2. Legal(110, soc) /\ Legal(116, soc)
      BY <2>1, Plain
    <2> QED BY <2>2 DEF SetBatterySocReserve, SetChargeTarget, WriteWithin, BatterySocReserve,
                        ChargeTargetSoc
  <1> QED BY <1>1, <1>2, <1>3, Special, Single

\* Slots
LEMMA TimesPart ==
    ASSUME NEW p \in TimeRegisters, NEW r \in TimeRegisters, NEW s \in TimeOfDay, NEW e \in TimeOfDay
    PROVE  IsBatch(Write(p, HHMM(s)) \o Write(r, HHMM(e)), {W(p, HHMM(s)), W(r, HHMM(e))})
  <1>1. p \in Nat /\ r \in Nat
    BY DEF TimeRegisters, BatteryPauseSlotStart, BatteryPauseSlotEnd
  <1>2. IsBatch(Write(p, HHMM(s)), {W(p, HHMM(s))})
    BY <1>1, Special, Single
  <1>3. IsBatch(Write(r, HHMM(e)), {W(r, HHMM(e))})
    BY <1>1, Special, Single
  <1> QED BY <1>2, <1>3, Join2

LEMMA SlotPart ==
    ASSUME NEW s \in TimeOfDay, NEW e \in TimeOfDay
    PROVE  /\ IsBatch(SetSlot(FALSE, 1, <<s, e>>), {W(94, HHMM(s)), W(95, HHMM(e))})
           /\ IsBatch(SetSlot(TRUE, 1, <<s, e>>), {W(56, HHMM(s)), W(57, HHMM(e))})
           /\ IsBatch(SetSlot(TRUE, 2, <<s, e>>), {W(44, HHMM(s)), W(45, HHMM(e))})
  <1>1. /\ SetSlot(FALSE, 1, <<s, e>>) = Write(94, HHMM(s)) \o Write(95, HHMM(e))
        /\ SetSlot(TRUE, 1, <<s, e>>) = Write(56, HHMM(s)) \o Write(57, HHMM(e))
        /\ SetSlot(TRUE, 2, <<s, e>>) = Write(44, HHMM(s)) \o Write(45, HHMM(e))
    BY SMTT(30) DEF SetSlot, SlotRegisters
  <1>2. /\ 94 \in TimeRegisters /\ 95 \in TimeRegisters /\ 56 \in TimeRegisters
        /\ 57 \in TimeRegisters /\ 44 \in TimeRegisters /\ 45 \in TimeRegisters
    BY DEF TimeRegisters
  <1>3. IsBatch(Write(94, HHMM(s)) \o Write(95, HHMM(e)), {W(94, HHMM(s)), W(95, HHMM(e))})
    BY <1>2, TimesPart
  <1>4. IsBatch(Write(56, HHMM(s)) \o Write(57, HHMM(e)), {W(56, HHMM(s)), W(57, HHMM(e))})
    BY <1>2, TimesPart
  <1>5. IsBatch(Write(44, HHMM(s)) \o Write(45, HHMM(e)), {W(44, HHMM(s)), W(45, HHMM(e))})
    BY <1>2, TimesPart
  <1> QED BY <1>1, <1>3, <1>4, <1>5

(***************************************************************************)
(* Services                                                                *)
(***************************************************************************)
\* Writes to distinct registers
LEMMA Distinct3 ==
    ASSUME NEW x, NEW y, NEW z, x.reg # y.reg, x.reg # z.reg, y.reg # z.reg
    PROVE  Functional({x} \cup {y} \cup {z})
  BY DEF Functional

LEMMA Distinct4 ==
    ASSUME NEW x, NEW y, NEW u, NEW v, x.reg # y.reg, x.reg # u.reg, x.reg # v.reg,
           y.reg # u.reg, y.reg # v.reg, u.reg # v.reg
    PROVE  Functional({x} \cup {y} \cup {u, v})
  BY DEF Functional

LEMMA Distinct5 ==
    ASSUME NEW x, NEW t, NEW u, NEW y, NEW z,
           x.reg = 96, t.reg = 94, u.reg = 95, y.reg = 116, z.reg = 20
    PROVE  Functional(({x} \cup {t, u} \cup {y}) \cup {z})
  BY DEF Functional

LEMMA Distinct7 ==
    ASSUME NEW x, NEW y, NEW z, NEW t, NEW u, NEW v, NEW w,
           x.reg = 27, y.reg = 110, z.reg = 59, t.reg = 56, u.reg = 57, v.reg = 44, w.reg = 45
    PROVE  Functional(({x} \cup {y} \cup {z}) \cup {t, u} \cup {v, w})
  BY DEF Functional

LEMMA EcoIsProper == Proper(ActivateModeEco)
  <1>1. IsBatch(ActivateModeEco.batch, {W(27, 1)} \cup {W(110, 4)} \cup {W(59, Flag(FALSE))})
    <2>1. ActivateModeEco.batch = SetDischargeModeToMatchDemand \o SetBatterySocReserve(4)
                                  \o SetEnableDischarge(FALSE)
      BY DEF ActivateModeEco, Op, SetModeDynamic
    <2>2. IsBatch(SetDischargeModeToMatchDemand, {W(27, 1)})
      BY Parts
    <2>3. IsBatch(SetBatterySocReserve(4), {W(110, 4)})
      BY Parts
    <2>4. IsBatch(SetEnableDischarge(FALSE), {W(59, Flag(FALSE))})
      BY Parts
    <2>5. IsBatch(SetDischargeModeToMatchDemand \o SetBatterySocReserve(4) \o SetEnableDischarge(FALSE),
                  {W(27, 1)} \cup {W(110, 4)} \cup {W(59, Flag(FALSE))})
      BY ZenonT(30), <2>2, <2>3, <2>4, Join3
    <2> QED BY <2>1, <2>5
  <1>2. Flag(FALSE) = 0
    BY DEF Flag
  <1>3. Functional({W(27, 1)} \cup {W(110, 4)} \cup {W(59, 0)})
    BY FieldsOf, Distinct3
  <1>4. ASSUME NEW raw, Holds(raw, {W(27, 1)} \cup {W(110, 4)} \cup {W(59, 0)})
        PROVE  Shows(raw, ActivateModeEco)
    <2>1. raw[27] = 1 /\ raw[59] = 0
      BY <1>4, FieldsOf DEF Holds
    <2>2. Value(raw, "mode") = "Eco"
      BY <2>1, ModesShow
    <2>3. DOMAIN ActivateModeEco.shows = {"mode"} /\ ActivateModeEco.shows["mode"] = "Eco"
      BY DEF ActivateModeEco, Op
    <2> QED BY <2>2, <2>3, ShowsIs DEF Limits
  <1> QED BY <1>1, <1>2, <1>3, <1>4, ProperIs

LEMMA TimedIsProper ==
    ASSUME NEW slot \in TimeOfDay \X TimeOfDay
    PROVE  Proper(ActivateModeTimedDischarge(slot)) /\ Proper(ActivateModeTimedExport(slot))
  <1>1. PICK s \in TimeOfDay, e \in TimeOfDay : slot = <<s, e>>
    OBVIOUS
  <1>2. Flag(TRUE) = 1
    BY DEF Flag
  <1>3. /\ IsBatch(SetDischargeModeToMatchDemand, {W(27, 1)})
        /\ IsBatch(SetDischargeModeMaxPower, {W(27, 0)})
    BY Parts
  <1>4. IsBatch(SetEnableDischarge(TRUE), {W(59, 1)})
    BY <1>2, Parts
  <1>5. IsBatch(SetSlot(TRUE, 1, slot), {W(56, HHMM(s)), W(57, HHMM(e))})
    BY <1>1, SlotPart
  <1>6. ASSUME NEW raw, raw[56] = HHMM(s), raw[57] = HHMM(e)
        PROVE  Value(raw, "discharge_slot_1") = slot
    BY <1>1, <1>6, Values, SlotsSurvive
  <1>7. Proper(ActivateModeTimedDischarge(slot))
    <2>1. ActivateModeTimedDischarge(slot).batch
          = SetDischargeModeToMatchDemand \o SetEnableDischarge(TRUE) \o SetSlot(TRUE, 1, slot)
      BY DEF ActivateModeTimedDischarge, Op
    <2>2. IsBatch(SetDischargeModeToMatchDemand \o SetEnableDischarge(TRUE) \o SetSlot(TRUE, 1, slot),
                  {W(27, 1)} \cup {W(59, 1)} \cup {W(56, HHMM(s)), W(57, HHMM(e))})
      BY ZenonT(30), <1>3, <1>4, <1>5, Join3
    <2>3. Functional({W(27, 1)} \cup {W(59, 1)} \cup {W(56, HHMM(s)), W(57, HHMM(e))})
      BY FieldsOf, Distinct4
    <2>4. ASSUME NEW raw, Holds(raw, {W(27, 1)} \cup {W(59, 1)} \cup {W(56, HHMM(s)), W(57, HHMM(e))})
          PROVE  Shows(raw, ActivateModeTimedDischarge(slot))
      <3>1. raw[27] = 1 /\ raw[59] = 1 /\ raw[56] = HHMM(s) /\ raw[57] = HHMM(e)
        BY <2>4, FieldsOf DEF Holds
      <3>2. Value(raw, "mode") = "Timed Discharge" /\ Value(raw, "discharge_slot_1") = slot
        BY <1>6, <3>1, ModesShow
      <3>3. /\ DOMAIN ActivateModeTimedDischarge(slot).shows = {"mode", "discharge_slot_1"}
            /\ ActivateModeTimedDischarge(slot).shows["mode"] = "Timed Discharge"
            /\ ActivateModeTimedDischarge(slot).shows["discharge_slot_1"] = slot
        BY DEF ActivateModeTimedDischarge, Op
      <3> QED BY <3>2, <3>3, ShowsIs DEF Limits
    <2> QED BY <2>1, <2>2, <2>3, <2>4, ProperIs
  <1>8. Proper(ActivateModeTimedExport(slot))
    <2>1. ActivateModeTimedExport(slot).batch
          = SetDischargeModeMaxPower \o SetEnableDischarge(TRUE) \o SetSlot(TRUE, 1, slot)
      BY DEF ActivateModeTimedExport, Op
    <2>2. IsBatch(SetDischargeModeMaxPower \o SetEnableDischarge(TRUE) \o SetSlot(TRUE, 1, slot),
                  {W(27, 0)} \cup {W(59, 1)} \cup {W(56, HHMM(s)), W(57, HHMM(e))})
      BY ZenonT(30), <1>3, <1>4, <1>5, Join3
    <2>3. Functional({W(27, 0)} \cup {W(59, 1)} \cup {W(56, HHMM(s)), W(57, HHMM(e))})
      BY FieldsOf, Distinct4
    <2>4. ASSUME NEW raw, Holds(raw, {W(27, 0)} \cup {W(59, 1)} \cup {W(56, HHMM(s)), W(57, HHMM(e))})
          PROVE  Shows(raw, ActivateModeTimedExport(slot))
      <3>1. raw[27] = 0 /\ raw[59] = 1 /\ raw[56] = HHMM(s) /\ raw[57] = HHMM(e)
        BY <2>4, FieldsOf DEF Holds
      <3>2. Value(raw, "mode") = "Timed Export" /\ Value(raw, "discharge_slot_1") = slot
        BY <1>6, <3>1, ModesShow
      <3>3. /\ DOMAIN ActivateModeTimedExport(slot).shows = {"mode", "discharge_slot_1"}
            /\ ActivateModeTimedExport(slot).shows["mode"] = "Timed Export"
            /\ ActivateModeTimedExport(slot).shows["discharge_slot_1"] = slot
        BY DEF ActivateModeTimedExport, Op
      <3> QED BY <3>2, <3>3, ShowsIs DEF Limits
    <2> QED BY <2>1, <2>2, <2>3, <2>4, ProperIs
  <1> QED BY <1>7, <1>8

LEMMA ChargeIsProper ==
    /\ Proper(EnableTimedCharge) /\ Proper(DisableTimedCharge)
    /\ \A slot \in TimeOfDay \X TimeOfDay : Proper(EnableTimedChargeWithin(slot))
    /\ \A soc \in 4..100 : Proper(EnableTimedChargeTo(soc))
  <1>1. Flag(TRUE) = 1 /\ Flag(FALSE) = 0
    BY DEF Flag
  <1>2. IsBatch(SetEnableCharge(TRUE), {W(96, 1)}) /\ IsBatch(SetEnableCharge(FALSE), {W(96, 0)})
    BY <1>1, Parts
  <1>3. ASSUME NEW raw
        PROVE  /\ raw[96] = 1 => Value(raw, "enable_charge") = TRUE
               /\ raw[96] = 0 => Value(raw, "enable_charge") = FALSE
    BY <1>1, FlagsShow
  <1>4. Proper(EnableTimedCharge)
    <2>1. EnableTimedCharge.batch = SetEnableCharge(TRUE)
      BY DEF EnableTimedCharge, Op
    <2>2. Functional({W(96, 1)})
      BY DEF Functional
    <2>3. ASSUME NEW raw, Holds(raw, {W(96, 1)})
          PROVE  Shows(raw, EnableTimedCharge)
      <3>1. raw[96] = 1
        BY <2>3, FieldsOf DEF Holds
      <3>2. Value(raw, "enable_charge") = TRUE
        BY <1>3, <3>1
      <3>3. /\ DOMAIN EnableTimedCharge.shows = {"enable_charge"}
            /\ EnableTimedCharge.shows["enable_charge"] = TRUE
        BY DEF EnableTimedCharge, Op
      <3> QED BY <3>2, <3>3, ShowsIs DEF Limits
    <2> QED BY <1>2, <2>1, <2>2, <2>3, ProperIs
  <1>5. Proper(DisableTimedCharge)
    <2>1. DisableTimedCharge.batch = SetEnableCharge(FALSE)
      BY DEF DisableTimedCharge, Op
    <2>2. Functional({W(96, 0)})
      BY DEF Functional
    <2>3. ASSUME NEW raw, Holds(raw, {W(96, 0)})
          PROVE  Shows(raw, DisableTimedCharge)
      <3>1. raw[96] = 0
        BY <2>3, FieldsOf DEF Holds
      <3>2. Value(raw, "enable_charge") = FALSE
        BY <1>3, <3>1
      <3>3. /\ DOMAIN DisableTimedCharge.shows = {"enable_charge"}
            /\ DisableTimedCharge.shows["enable_charge"] = FALSE
        BY DEF DisableTimedCharge, Op
      <3> QED BY <3>2, <3>3, ShowsIs DEF Limits
    <2> QED BY <1>2, <2>1, <2>2, <2>3, ProperIs
  <1>6. ASSUME NEW slot \in TimeOfDay \X TimeOfDay
        PROVE  Proper(EnableTimedChargeWithin(slot))
    <2>1. PICK s \in TimeOfDay, e \in TimeOfDay : slot = <<s, e>>
      OBVIOUS
    <2>2. EnableTimedChargeWithin(slot).batch = SetEnableCharge(TRUE) \o SetSlot(FALSE, 1, slot)
      BY DEF EnableTimedChargeWithin, Op
    <2>3. IsBatch(SetSlot(FALSE, 1, slot), {W(94, HHMM(s)), W(95, HHMM(e))})
      BY ZenonT(30), <2>1, SlotPart
    <2>4. IsBatch(SetEnableCharge(TRUE) \o SetSlot(FALSE, 1, slot),
                  {W(96, 1)} \cup {W(94, HHMM(s)), W(95, HHMM(e))})
      BY <1>2, <2>3, Join
    <2>5. Functional({W(96, 1)} \cup {W(94, HHMM(s)), W(95, HHMM(e))})
      BY FieldsOf, Distinct3 DEF Functional
    <2>6. ASSUME NEW raw, Holds(raw, {W(96, 1)} \cup {W(94, HHMM(s)), W(95, HHMM(e))})
          PROVE  Shows(raw, EnableTimedChargeWithin(slot))
      <3>1. raw[96] = 1 /\ raw[94] = HHMM(s) /\ raw[95] = HHMM(e)
        BY <2>6, FieldsOf DEF Holds
      <3>2. Value(raw, "charge_slot_1") = slot
        BY <2>1, <3>1, Values, SlotsSurvive
      <3>3. Value(raw, "enable_charge") = TRUE
        BY <1>3, <3>1
      <3>4. /\ DOMAIN EnableTimedChargeWithin(slot).shows = {"enable_charge", "charge_slot_1"}
            /\ EnableTimedChargeWithin(slot).shows["enable_charge"] = TRUE
            /\ EnableTimedChargeWithin(slot).shows["charge_slot_1"] = slot
        BY DEF EnableTimedChargeWithin, Op
      <3> QED BY <3>2, <3>3, <3>4, ShowsIs DEF Limits
    <2> QED BY <2>2, <2>4, <2>5, <2>6, ProperIs
  <1>7. ASSUME NEW soc \in 4..100
        PROVE  Proper(EnableTimedChargeTo(soc))
    <2> DEFINE below == soc < 100
    <2>1. /\ EnableTimedChargeTo(soc).batch
             = SetEnableCharge(TRUE) \o SetChargeTarget(soc) \o SetEnableChargeTarget(below)
          /\ EnableTimedChargeTo(soc).shows
             = [enable_charge |-> TRUE, charge_target_soc |-> soc, enable_charge_target |-> below]
      BY DEF EnableTimedChargeTo, Op
    <2>2. below \in BOOLEAN
      OBVIOUS
    <2> HIDE DEF below
    <2>3. PICK f \in 0..1 : f = Flag(below) /\ Bool(f) = below
      BY <2>2, Flags
    <2>4. IsBatch(SetChargeTarget(soc), {W(116, soc)})
      BY Parts
    <2>5. PICK flag : flag = SetEnableChargeTarget(below) /\ IsBatch(flag, {W(20, f)})
      BY ZenonT(30), <2>2, <2>3, Parts
    <2>6. IsBatch(SetEnableCharge(TRUE) \o SetChargeTarget(soc) \o flag,
                  {W(96, 1)} \cup {W(116, soc)} \cup {W(20, f)})
      BY ZenonT(30), <1>2, <2>4, <2>5, Join3
    <2>7. Functional({W(96, 1)} \cup {W(116, soc)} \cup {W(20, f)})
      BY FieldsOf, Distinct3
    <2>8. ASSUME NEW raw, Holds(raw, {W(96, 1)} \cup {W(116, soc)} \cup {W(20, f)})
          PROVE  Shows(raw, EnableTimedChargeTo(soc))
      <3>1. raw[96] = 1 /\ raw[116] = soc /\ raw[20] = f
        BY <2>8, FieldsOf DEF Holds
      <3>2. Value(raw, "charge_target_soc") = soc
        BY <3>1, Values
      <3>3. Value(raw, "enable_charge") = TRUE /\ Value(raw, "enable_charge_target") = below
        BY ZenonT(30), <1>3, <2>2, <2>3, <3>1, FlagsShow
      <3>4. /\ DOMAIN EnableTimedChargeTo(soc).shows
               = {"enable_charge", "charge_target_soc", "enable_charge_target"}
            /\ EnableTimedChargeTo(soc).shows["enable_charge"] = TRUE
            /\ EnableTimedChargeTo(soc).shows["charge_target_soc"] = soc
            /\ EnableTimedChargeTo(soc).shows["enable_charge_target"] = below
        BY <2>1
      <3> QED BY <3>2, <3>3, <3>4, ShowsIs DEF Limits
    <2> QED BY <2>1, <2>5, <2>6, <2>7, <2>8, ProperIs
  <1> QED BY <1>4, <1>5, <1>6, <1>7

\* A timed charge with both a slot and a target: five writes of one call.
LEMMA ChargeWithinToIsProper ==
    ASSUME NEW slot \in TimeOfDay \X TimeOfDay, NEW soc \in 4..100
    PROVE  Proper(EnableTimedChargeWithinTo(slot, soc))
  <1> DEFINE below == soc < 100
  <1>1. PICK s \in TimeOfDay, e \in TimeOfDay : slot = <<s, e>>
    OBVIOUS
  <1>2. /\ EnableTimedChargeWithinTo(slot, soc).batch
           = SetEnableCharge(TRUE) \o SetSlot(FALSE, 1, slot) \o SetChargeTarget(soc)
             \o SetEnableChargeTarget(below)
        /\ EnableTimedChargeWithinTo(slot, soc).shows
           = [enable_charge |-> TRUE, charge_slot_1 |-> slot, charge_target_soc |-> soc,
              enable_charge_target |-> below]
    BY DEF EnableTimedChargeWithinTo, Op
  <1>3. below \in BOOLEAN
    OBVIOUS
  <1> HIDE DEF below
  <1>4. Flag(TRUE) = 1
    BY DEF Flag
  <1>5. PICK f \in 0..1 : f = Flag(below) /\ Bool(f) = below
    BY <1>3, Flags
  <1>6. IsBatch(SetEnableCharge(TRUE), {W(96, 1)}) /\ IsBatch(SetChargeTarget(soc), {W(116, soc)})
    BY <1>4, Parts
  <1>7. IsBatch(SetSlot(FALSE, 1, slot), {W(94, HHMM(s)), W(95, HHMM(e))})
    BY ZenonT(30), <1>1, SlotPart
  <1>8. IsBatch(SetEnableChargeTarget(below), {W(20, f)})
    BY ZenonT(30), <1>3, <1>5, Parts
  <1>9. PICK S : S = ({W(96, 1)} \cup {W(94, HHMM(s)), W(95, HHMM(e))} \cup {W(116, soc)})
                     \cup {W(20, f)}
    OBVIOUS
  <1>10. IsBatch(SetEnableCharge(TRUE) \o SetSlot(FALSE, 1, slot) \o SetChargeTarget(soc)
                 \o SetEnableChargeTarget(below), S)
    <2>1. PICK a, b, c, d : /\ a = SetEnableCharge(TRUE) /\ b = SetSlot(FALSE, 1, slot)
                            /\ c = SetChargeTarget(soc) /\ d = SetEnableChargeTarget(below)
      OBVIOUS
    <2>2. /\ IsBatch(a, {W(96, 1)}) /\ IsBatch(b, {W(94, HHMM(s)), W(95, HHMM(e))})
          /\ IsBatch(c, {W(116, soc)}) /\ IsBatch(d, {W(20, f)})
      BY ZenonT(30), <1>6, <1>7, <1>8, <2>1
    <2>3. IsBatch(a \o b \o c \o d, S)
      BY <1>9, <2>2, Join4
    <2> QED BY ZenonT(30), <2>1, <2>3
  <1>11. Functional(S)
    BY <1>9, FieldsOf, Distinct5
  <1>12. ASSUME NEW raw, Holds(raw, S)
         PROVE  Shows(raw, EnableTimedChargeWithinTo(slot, soc))
    <2>1. /\ raw[96] = 1 /\ raw[94] = HHMM(s) /\ raw[95] = HHMM(e)
          /\ raw[116] = soc /\ raw[20] = f
      BY <1>9, <1>12, FieldsOf DEF Holds
    <2>2. Value(raw, "charge_slot_1") = slot
      BY <1>1, <2>1, Values, SlotsSurvive
    <2>3. Value(raw, "charge_target_soc") = soc
      BY <2>1, Values
    <2>4. Value(raw, "enable_charge") = TRUE /\ Value(raw, "enable_charge_target") = below
      BY ZenonT(30), <1>3, <1>4, <1>5, <2>1, FlagsShow
    <2>5. /\ DOMAIN EnableTimedChargeWithinTo(slot, soc).shows
             = {"enable_charge", "charge_slot_1", "charge_target_soc", "enable_charge_target"}
          /\ EnableTimedChargeWithinTo(slot, soc).shows["enable_charge"] = TRUE
          /\ EnableTimedChargeWithinTo(slot, soc).shows["charge_slot_1"] = slot
          /\ EnableTimedChargeWithinTo(slot, soc).shows["charge_target_soc"] = soc
          /\ EnableTimedChargeWithinTo(slot, soc).shows["enable_charge_target"] = below
      BY <1>2
    <2>6. /\ "enable_charge" \notin Limits /\ "charge_slot_1" \notin Limits
          /\ "charge_target_soc" \notin Limits /\ "enable_charge_target" \notin Limits
      BY DEF Limits
    <2>7. \A key \in DOMAIN EnableTimedChargeWithinTo(slot, soc).shows :
             /\ key \notin Limits
             /\ Value(raw, key) = EnableTimedChargeWithinTo(slot, soc).shows[key]
      BY ZenonT(30), <2>2, <2>3, <2>4, <2>5, <2>6
    <2> QED BY <2>7, ShowsIs
  <1> QED BY <1>2, <1>10, <1>11, <1>12, ProperIs

StorageWrites(power, s1, e1, s2, e2) ==
    ({W(27, power)} \cup {W(110, 100)} \cup {W(59, 1)}) \cup {W(56, s1), W(57, e1)}
    \cup {W(44, s2), W(45, e2)}

LEMMA StorageBatch ==
    ASSUME NEW a, NEW b, NEW c, NEW d, NEW e, NEW power, NEW s1, NEW e1, NEW s2, NEW e2,
           IsBatch(a, {W(27, power)}), IsBatch(b, {W(110, 100)}), IsBatch(c, {W(59, 1)}),
           IsBatch(d, {W(56, s1), W(57, e1)}), IsBatch(e, {W(44, s2), W(45, e2)})
    PROVE  IsBatch(a \o b \o c \o d \o e, StorageWrites(power, s1, e1, s2, e2))
  BY Join5 DEF StorageWrites

LEMMA StorageHeld ==
    ASSUME NEW power, NEW s1, NEW e1, NEW s2, NEW e2
    PROVE  /\ Functional(StorageWrites(power, s1, e1, s2, e2))
           /\ \A raw : Holds(raw, StorageWrites(power, s1, e1, s2, e2))
                  => /\ raw[27] = power /\ raw[110] = 100 /\ raw[59] = 1
                     /\ raw[56] = s1 /\ raw[57] = e1 /\ raw[44] = s2 /\ raw[45] = e2
  <1>1. Functional(StorageWrites(power, s1, e1, s2, e2))
    BY DEF StorageWrites, Functional, W
  <1>2. ASSUME NEW raw, Holds(raw, StorageWrites(power, s1, e1, s2, e2))
        PROVE  /\ raw[27] = power /\ raw[110] = 100 /\ raw[59] = 1
               /\ raw[56] = s1 /\ raw[57] = e1 /\ raw[44] = s2 /\ raw[45] = e2
    BY <1>2, FieldsOf DEF Holds, StorageWrites
  <1> QED BY <1>1, <1>2

\* A power mode is shown as mode.
PowerShows(power, mode) ==
    \A raw : raw[59] = 1 /\ raw[27] = power => Value(raw, "mode") = mode

LEMMA StorageShows ==
    ASSUME NEW op, NEW first, NEW second, NEW power, NEW mode,
           NEW s1 \in TimeOfDay, NEW e1 \in TimeOfDay, NEW s2 \in TimeOfDay, NEW e2 \in TimeOfDay,
           op.batch = first \o SetBatterySocReserve(100) \o SetEnableDischarge(TRUE)
                      \o SetSlot(TRUE, 1, <<s1, e1>>) \o second,
           IsBatch(first, {W(27, power)}), IsBatch(second, {W(44, HHMM(s2)), W(45, HHMM(e2))}),
           op.shows = [mode |-> mode, discharge_slot_1 |-> <<s1, e1>>,
                       battery_soc_reserve |-> 100, discharge_slot_2 |-> <<s2, e2>>],
           PowerShows(power, mode)
    PROVE  Proper(op)
  <1>1. IsBatch(SetBatterySocReserve(100), {W(110, 100)})
    BY Parts
  <1>2. IsBatch(SetEnableDischarge(TRUE), {W(59, 1)})
    <2>1. Flag(TRUE) = 1
      BY DEF Flag
    <2> QED BY <2>1, Parts
  <1>3. IsBatch(SetSlot(TRUE, 1, <<s1, e1>>), {W(56, HHMM(s1)), W(57, HHMM(e1))})
    BY SlotPart
  <1>4. PICK S : S = StorageWrites(power, HHMM(s1), HHMM(e1), HHMM(s2), HHMM(e2))
    OBVIOUS
  <1>5. IsBatch(op.batch, S)
    <2>1. PICK b, c, d : /\ b = SetBatterySocReserve(100) /\ c = SetEnableDischarge(TRUE)
                         /\ d = SetSlot(TRUE, 1, <<s1, e1>>)
      OBVIOUS
    <2>2. PICK x1, y1, x2, y2 : /\ x1 = HHMM(s1) /\ y1 = HHMM(e1)
                                /\ x2 = HHMM(s2) /\ y2 = HHMM(e2)
      OBVIOUS
    <2>3. /\ IsBatch(b, {W(110, 100)}) /\ IsBatch(c, {W(59, 1)})
          /\ IsBatch(d, {W(56, x1), W(57, y1)}) /\ IsBatch(second, {W(44, x2), W(45, y2)})
      BY <1>1, <1>2, <1>3, <2>1, <2>2
    <2>4. IsBatch(first \o b \o c \o d \o second, StorageWrites(power, x1, y1, x2, y2))
      BY <2>3, StorageBatch
    <2> QED BY <1>4, <2>1, <2>2, <2>4
  <1>6. ASSUME NEW raw, Holds(raw, S)
        PROVE  Shows(raw, op)
    <2>1. /\ raw[27] = power /\ raw[110] = 100 /\ raw[59] = 1
          /\ raw[56] = HHMM(s1) /\ raw[57] = HHMM(e1) /\ raw[44] = HHMM(s2) /\ raw[45] = HHMM(e2)
      BY <1>4, <1>6, StorageHeld
    <2>2. Value(raw, "mode") = mode
      BY <2>1 DEF PowerShows
    <2>3. Value(raw, "battery_soc_reserve") = 100
      BY <2>1, Values
    <2>4. Value(raw, "discharge_slot_1") = <<s1, e1>>
      BY <2>1, Values, SlotsSurvive
    <2>5. Value(raw, "discharge_slot_2") = <<s2, e2>>
      BY <2>1, Values, SlotsSurvive
    <2>6. /\ DOMAIN op.shows
             = {"mode", "discharge_slot_1", "battery_soc_reserve", "discharge_slot_2"}
          /\ op.shows["mode"] = mode /\ op.shows["discharge_slot_1"] = <<s1, e1>>
          /\ op.shows["battery_soc_reserve"] = 100 /\ op.shows["discharge_slot_2"] = <<s2, e2>>
      OBVIOUS
    <2> QED BY <2>2, <2>3, <2>4, <2>5, <2>6, ShowsIs DEF Limits
  <1>7. Functional(S)
    BY <1>4, StorageHeld
  <1> QED BY <1>5, <1>6, <1>7, ProperIs

LEMMA StorageIsProper ==
    ASSUME NEW slot1 \in TimeOfDay \X TimeOfDay,
           NEW slot2 \in (TimeOfDay \X TimeOfDay) \cup {NoSlot}
    PROVE  Proper(Storage(slot1, slot2, TRUE)) /\ Proper(Storage(slot1, slot2, FALSE))
  <1>1. PICK s1 \in TimeOfDay, e1 \in TimeOfDay : slot1 = <<s1, e1>>
    OBVIOUS
  <1>0. PICK second :
           second = (IF slot2 = NoSlot THEN ResetSlot(TRUE, 2) ELSE SetSlot(TRUE, 2, slot2))
    OBVIOUS
  <1>2. PICK s2 \in TimeOfDay, e2 \in TimeOfDay :
           /\ IsBatch(second, {W(44, HHMM(s2)), W(45, HHMM(e2))})
           /\ (IF slot2 = NoSlot THEN <<0, 0>> ELSE slot2) = <<s2, e2>>
    <2>1. CASE slot2 = NoSlot
      <3>1. 0 \in TimeOfDay
        BY DEF TimeOfDay
      <3>2. ResetSlot(TRUE, 2) = SetSlot(TRUE, 2, <<0, 0>>)
        BY DEF ResetSlot
      <3>3. IsBatch(SetSlot(TRUE, 2, <<0, 0>>), {W(44, HHMM(0)), W(45, HHMM(0))})
        BY <3>1, SlotPart
      <3> QED BY <1>0, <2>1, <3>1, <3>2, <3>3
    <2>2. CASE slot2 # NoSlot
      <3>1. PICK s2 \in TimeOfDay, e2 \in TimeOfDay : slot2 = <<s2, e2>>
        BY <2>2
      <3>2. IsBatch(SetSlot(TRUE, 2, slot2), {W(44, HHMM(s2)), W(45, HHMM(e2))})
        BY <3>1, SlotPart
      <3> QED BY <1>0, <2>2, <3>1, <3>2
    <2> QED BY <2>1, <2>2
  <1>3. Proper(Storage(slot1, slot2, TRUE))
    <2>1. Storage(slot1, slot2, TRUE).batch
          = SetDischargeModeMaxPower \o SetBatterySocReserve(100) \o SetEnableDischarge(TRUE)
            \o SetSlot(TRUE, 1, <<s1, e1>>) \o second
      BY <1>0, <1>1, <1>2 DEF Storage, Op, SetModeStorage
    <2>2. Storage(slot1, slot2, TRUE).shows
          = [mode |-> "Timed Export", discharge_slot_1 |-> <<s1, e1>>,
             battery_soc_reserve |-> 100, discharge_slot_2 |-> <<s2, e2>>]
      BY <1>1, <1>2 DEF Storage, Op
    <2>3. IsBatch(SetDischargeModeMaxPower, {W(27, 0)})
      BY Parts
    <2>4. PowerShows(0, "Timed Export")
      BY ModesShow DEF PowerShows
    <2>5. PICK op, first : op = Storage(slot1, slot2, TRUE) /\ first = SetDischargeModeMaxPower
      OBVIOUS
    <2>6. op.batch = first \o SetBatterySocReserve(100) \o SetEnableDischarge(TRUE)
                     \o SetSlot(TRUE, 1, <<s1, e1>>) \o second
      BY <2>1, <2>5
    <2>7. op.shows = [mode |-> "Timed Export", discharge_slot_1 |-> <<s1, e1>>,
                      battery_soc_reserve |-> 100, discharge_slot_2 |-> <<s2, e2>>]
      BY <2>2, <2>5
    <2>8. IsBatch(first, {W(27, 0)}) /\ IsBatch(second, {W(44, HHMM(s2)), W(45, HHMM(e2))})
      BY <1>2, <2>3, <2>5
    <2>9. Proper(op)
      BY <2>4, <2>6, <2>7, <2>8, StorageShows
    <2> QED BY <2>5, <2>9
  <1>4. Proper(Storage(slot1, slot2, FALSE))
    <2>1. Storage(slot1, slot2, FALSE).batch
          = SetDischargeModeToMatchDemand \o SetBatterySocReserve(100) \o SetEnableDischarge(TRUE)
            \o SetSlot(TRUE, 1, <<s1, e1>>) \o second
      BY <1>0, <1>1, <1>2 DEF Storage, Op, SetModeStorage
    <2>2. Storage(slot1, slot2, FALSE).shows
          = [mode |-> "Timed Discharge", discharge_slot_1 |-> <<s1, e1>>,
             battery_soc_reserve |-> 100, discharge_slot_2 |-> <<s2, e2>>]
      BY <1>1, <1>2 DEF Storage, Op
    <2>3. IsBatch(SetDischargeModeToMatchDemand, {W(27, 1)})
      BY Parts
    <2>4. PowerShows(1, "Timed Discharge")
      BY ModesShow DEF PowerShows
    <2>5. PICK op, first :
            op = Storage(slot1, slot2, FALSE) /\ first = SetDischargeModeToMatchDemand
      OBVIOUS
    <2>6. op.batch = first \o SetBatterySocReserve(100) \o SetEnableDischarge(TRUE)
                     \o SetSlot(TRUE, 1, <<s1, e1>>) \o second
      BY <2>1, <2>5
    <2>7. op.shows = [mode |-> "Timed Discharge", discharge_slot_1 |-> <<s1, e1>>,
                      battery_soc_reserve |-> 100, discharge_slot_2 |-> <<s2, e2>>]
      BY <2>2, <2>5
    <2>8. IsBatch(first, {W(27, 1)}) /\ IsBatch(second, {W(44, HHMM(s2)), W(45, HHMM(e2))})
      BY <1>2, <2>3, <2>5
    <2>9. Proper(op)
      BY <2>4, <2>6, <2>7, <2>8, StorageShows
    <2> QED BY <2>5, <2>9
  <1> QED BY <1>3, <1>4

(***************************************************************************)
(* Entities                                                                *)
(***************************************************************************)
LEMMA SwitchesAreProper ==
    ASSUME NEW on \in BOOLEAN
    PROVE  /\ Proper(TurnEcoMode(on)) /\ Proper(TurnEnableCharge(on))
           /\ Proper(TurnEnableChargeTarget(on)) /\ Proper(TurnEnableDischarge(on))
  <1>1. PICK f \in 0..1 : f = Flag(on)
    BY Flags
  <1>2. {20, 59, 96} \subseteq Nat \ TimeRegisters /\ 27 \in Nat
    BY DEF TimeRegisters, BatteryPauseSlotStart, BatteryPauseSlotEnd
  <1>3. Legal(20, f) /\ Legal(59, f) /\ Legal(96, f) /\ Legal(27, f)
    BY <1>1, <1>2, Plain, Special
  <1>4. Proper(TurnEnableCharge(on))
    <2>1. PICK op : op = TurnEnableCharge(on)
      OBVIOUS
    <2>2. /\ op.batch = Write(96, f) /\ DOMAIN op.shows = {"enable_charge"}
          /\ op.shows["enable_charge"] = on
      BY <1>1, <2>1 DEF TurnEnableCharge, Op, SetEnableCharge, EnableCharge
    <2>3. ASSUME NEW raw, raw[96] = f PROVE Shows(raw, op)
      <3>1. Value(raw, "enable_charge") = on
        BY <1>1, <2>3, FlagsShow
      <3> QED BY <2>2, <3>1, ShowsIs DEF Limits
    <2> QED BY <1>2, <1>3, <2>1, <2>2, <2>3, ProperOne
  <1>5. Proper(TurnEnableDischarge(on))
    <2>1. PICK op : op = TurnEnableDischarge(on)
      OBVIOUS
    <2>2. /\ op.batch = Write(59, f) /\ DOMAIN op.shows = {"enable_discharge"}
          /\ op.shows["enable_discharge"] = on
      BY <1>1, <2>1 DEF TurnEnableDischarge, Op, SetEnableDischarge, EnableDischarge
    <2>3. ASSUME NEW raw, raw[59] = f PROVE Shows(raw, op)
      <3>1. Value(raw, "enable_discharge") = on
        BY <1>1, <2>3, FlagsShow
      <3> QED BY <2>2, <3>1, ShowsIs DEF Limits
    <2> QED BY <1>2, <1>3, <2>1, <2>2, <2>3, ProperOne
  <1>6. Proper(TurnEnableChargeTarget(on))
    <2>1. PICK op : op = TurnEnableChargeTarget(on)
      OBVIOUS
    <2>2. /\ op.batch = Write(20, f) /\ DOMAIN op.shows = {"enable_charge_target"}
          /\ op.shows["enable_charge_target"] = on
      BY <1>1, <2>1 DEF TurnEnableChargeTarget, Op, SetEnableChargeTarget, EnableChargeTarget
    <2>3. ASSUME NEW raw, raw[20] = f PROVE Shows(raw, op)
      <3>1. Value(raw, "enable_charge_target") = on
        BY <1>1, <2>3, FlagsShow
      <3> QED BY <2>2, <3>1, ShowsIs DEF Limits
    <2> QED BY <1>2, <1>3, <2>1, <2>2, <2>3, ProperOne
  <1>7. Proper(TurnEcoMode(on))
    <2>1. PICK op : op = TurnEcoMode(on)
      OBVIOUS
    <2>2. /\ op.batch = Write(27, f) /\ DOMAIN op.shows = {"battery_power_mode"}
          /\ op.shows["battery_power_mode"] = on
      BY <1>1, <2>1 DEF TurnEcoMode, Op, SetDischargeModeToMatchDemand,
                        SetDischargeModeMaxPower, BatteryPowerMode, Flag
    <2>3. ASSUME NEW raw, raw[27] = f PROVE Shows(raw, op)
      <3>1. Value(raw, "battery_power_mode") = on
        BY <1>1, <2>3, FlagsShow
      <3> QED BY <2>2, <3>1, ShowsIs DEF Limits
    <2> QED BY <1>2, <1>3, <2>1, <2>2, <2>3, ProperOne
  <1> QED BY <1>4, <1>5, <1>6, <1>7

\* A number that is written as it is, and left out when it is none of 4..100
LEMMA PercentsAreProper ==
    ASSUME NEW soc \in 0..100
    PROVE  /\ Proper(ACChargeLimit(soc)) /\ Proper(BatterySoCReserve(soc))
           /\ Proper(BatteryMinPowerReserve(soc))
  <1>1. {110, 114, 116} \subseteq Nat \ TimeRegisters
    BY DEF TimeRegisters, BatteryPauseSlotStart, BatteryPauseSlotEnd
  <1>2. Legal(110, soc) /\ Legal(114, soc) /\ Legal(116, soc)
    BY <1>1, Plain
  <1>3. ASSUME NEW raw
        PROVE  /\ Value(raw, "charge_target_soc") = raw[116]
               /\ Value(raw, "battery_soc_reserve") = raw[110]
               /\ Value(raw, "battery_discharge_min_power_reserve") = raw[114]
    BY Values
  <1>4. Proper(ACChargeLimit(soc))
    <2>1. PICK op : op = ACChargeLimit(soc)
      OBVIOUS
    <2>2. /\ op.batch = (IF soc \in 4..100 THEN Write(116, soc) ELSE <<>>)
          /\ DOMAIN op.shows = {"charge_target_soc"} /\ op.shows["charge_target_soc"] = soc
      BY <2>1 DEF ACChargeLimit, Op, SetChargeTarget, WriteWithin, ChargeTargetSoc
    <2>3. ASSUME NEW raw, raw[116] = soc PROVE Shows(raw, op)
      BY <1>3, <2>2, <2>3, ShowsIs DEF Limits
    <2>4. CASE soc \in 4..100
      BY <1>1, <1>2, <2>1, <2>2, <2>3, <2>4, ProperOne
    <2>5. CASE soc \notin 4..100
      BY <2>1, <2>2, <2>5, ProperNone
    <2> QED BY <2>4, <2>5
  <1>5. Proper(BatterySoCReserve(soc))
    <2>1. PICK op : op = BatterySoCReserve(soc)
      OBVIOUS
    <2>2. /\ op.batch = (IF soc \in 4..100 THEN Write(110, soc) ELSE <<>>)
          /\ DOMAIN op.shows = {"battery_soc_reserve"} /\ op.shows["battery_soc_reserve"] = soc
      BY <2>1 DEF BatterySoCReserve, Op, SetBatterySocReserve, WriteWithin, BatterySocReserve
    <2>3. ASSUME NEW raw, raw[110] = soc PROVE Shows(raw, op)
      BY <1>3, <2>2, <2>3, ShowsIs DEF Limits
    <2>4. CASE soc \in 4..100
      BY <1>1, <1>2, <2>1, <2>2, <2>3, <2>4, ProperOne
    <2>5. CASE soc \notin 4..100
      BY <2>1, <2>2, <2>5, ProperNone
    <2> QED BY <2>4, <2>5
  <1>6. Proper(BatteryMinPowerReserve(soc))
    <2>1. PICK op : op = BatteryMinPowerReserve(soc)
      OBVIOUS
    <2>2. /\ op.batch = (IF soc \in 4..100 THEN Write(114, soc) ELSE <<>>)
          /\ DOMAIN op.shows = {"battery_discharge_min_power_reserve"}
          /\ op.shows["battery_discharge_min_power_reserve"] = soc
      BY <2>1 DEF BatteryMinPowerReserve, Op, SetBatteryPowerReserve, WriteWithin,
                  BatteryDischargeMinPowerReserve
    <2>3. ASSUME NEW raw, raw[114] = soc PROVE Shows(raw, op)
      BY <1>3, <2>2, <2>3, ShowsIs DEF Limits
    <2>4. CASE soc \in 4..100
      BY <1>1, <1>2, <2>1, <2>2, <2>3, <2>4, ProperOne
    <2>5. CASE soc \notin 4..100
      BY <2>1, <2>2, <2>5, ProperNone
    <2> QED BY <2>4, <2>5
  <1> QED BY <1>4, <1>5, <1>6

LEMMA LimitsAreProper ==
    ASSUME NEW w \in 0..NativeMax
    PROVE  Proper(BatteryChargeLimitW(w)) /\ Proper(BatteryDischargeLimitW(w))
  <1>1. PICK raw50 \in 0..50 : raw50 = WattsToApiValue(w)
    BY PowersTyped, LimitsAgree
  <1>2. PICK v : /\ v = ApiValueToWatts(raw50) /\ v <= NativeMax
                 /\ (v - w) * 1000 <= PowerStep /\ (w - v - 1) * 1000 <= PowerStep
    BY <1>1, PowersTyped, LimitsAgree
  <1>3. {111, 112} \subseteq Nat \ TimeRegisters
    BY DEF TimeRegisters, BatteryPauseSlotStart, BatteryPauseSlotEnd
  <1>4. Legal(111, raw50) /\ Legal(112, raw50)
    BY <1>3, Plain
  <1>5. Proper(BatteryChargeLimitW(w))
    <2>1. PICK op : op = BatteryChargeLimitW(w)
      OBVIOUS
    <2>2. /\ op.batch = Write(111, raw50) /\ DOMAIN op.shows = {"battery_charge_limit"}
          /\ op.shows["battery_charge_limit"] = w
      BY <1>1, <2>1 DEF BatteryChargeLimitW, Op, SetBatteryChargeLimit, WriteWithin,
                        BatteryChargeLimit
    <2>3. ASSUME NEW raw, raw[111] = raw50 PROVE Shows(raw, op)
      <3>1. Value(raw, "battery_charge_limit") = v
        BY <1>2, <2>3, Values
      <3> QED BY <1>2, <2>2, <3>1 DEF Shows, Agrees
    <2> QED BY <1>3, <1>4, <2>1, <2>2, <2>3, ProperOne
  <1>6. Proper(BatteryDischargeLimitW(w))
    <2>1. PICK op : op = BatteryDischargeLimitW(w)
      OBVIOUS
    <2>2. /\ op.batch = Write(112, raw50) /\ DOMAIN op.shows = {"battery_discharge_limit"}
          /\ op.shows["battery_discharge_limit"] = w
      BY <1>1, <2>1 DEF BatteryDischargeLimitW, Op, SetBatteryDischargeLimit, WriteWithin,
                        BatteryDischargeLimit
    <2>3. ASSUME NEW raw, raw[112] = raw50 PROVE Shows(raw, op)
      <3>1. Value(raw, "battery_discharge_limit") = v
        BY <1>2, <2>3, Values
      <3> QED BY <1>2, <2>2, <3>1 DEF Shows, Agrees
    <2> QED BY <1>3, <1>4, <2>1, <2>2, <2>3, ProperOne
  <1> QED BY <1>5, <1>6

LEMMA ClockIsProper == ASSUME NEW t \in TimeOfDay PROVE Proper(SyncClock(t))
  <1>1. PICK h \in 0..23, m \in 0..59 : h = t \div 60 /\ m = t % 60 /\ 60 * h + m = t
    <2>1. t \div 60 \in 0..23 /\ t % 60 \in 0..59 /\ t = 60 * (t \div 60) + (t % 60)
      BY DEF TimeOfDay
    <2> QED BY <2>1
  <1>2. PICK op : op = SyncClock(t)
    OBVIOUS
  <1>3. /\ op.batch = Write(38, h) \o Write(39, m) /\ DOMAIN op.shows = {"system_time"}
        /\ op.shows["system_time"] = t
    BY <1>1, <1>2 DEF SyncClock, Op, SetSystemDateTime, SystemTimeHour, SystemTimeMinute
  <1>4. IsBatch(Write(38, h), {W(38, h)}) /\ IsBatch(Write(39, m), {W(39, m)})
    <2>1. {38, 39} \subseteq Nat \ TimeRegisters /\ h \in 0..100 /\ m \in 0..100
      BY DEF TimeRegisters, BatteryPauseSlotStart, BatteryPauseSlotEnd
    <2> QED BY <2>1, Plain, Single
  <1>5. IsBatch(op.batch, {W(38, h), W(39, m)})
    <2>1. PICK a, b, v, w : a = Write(38, h) /\ b = Write(39, m) /\ v = W(38, h) /\ w = W(39, m)
      OBVIOUS
    <2>2. IsBatch(a \o b, {v, w})
      BY <1>4, <2>1, Join2
    <2> QED BY <1>3, <2>1, <2>2
  <1>6. Functional({W(38, h), W(39, m)})
    BY FieldsOf DEF Functional
  <1>7. ASSUME NEW raw, Holds(raw, {W(38, h), W(39, m)})
        PROVE  Shows(raw, op)
    <2>1. raw[38] = h /\ raw[39] = m
      BY <1>7, FieldsOf DEF Holds
    <2>2. Value(raw, "system_time") = t
      BY <1>1, <2>1, Values
    <2> QED BY <1>3, <2>2, ShowsIs DEF Limits
  <1> QED BY <1>2, <1>5, <1>6, <1>7, ProperIs

\* The registers of the battery pause are not safe to write: client.execute refuses them.
LEMMA PausesAreProper ==
    /\ \A t \in TimeOfDay : Proper(BatteryPauseStart(t)) /\ Proper(BatteryPauseEnd(t))
    /\ \A val \in 0..3 : Proper(BatteryPauseModeSelect(val))
  <1>1. 318 \notin WriteSafeRegisters /\ 319 \notin WriteSafeRegisters /\ 320 \notin WriteSafeRegisters
    BY DEF WriteSafeRegisters
  <1>2. ASSUME NEW t \in TimeOfDay
        PROVE  Proper(BatteryPauseStart(t)) /\ Proper(BatteryPauseEnd(t))
    <2>1. Legal(319, HHMM(t)) /\ Legal(320, HHMM(t))
      BY Special DEF TimeRegisters, BatteryPauseSlotStart, BatteryPauseSlotEnd
    <2>2. /\ BatteryPauseStart(t).batch = Write(319, HHMM(t))
          /\ BatteryPauseEnd(t).batch = Write(320, HHMM(t))
      BY DEF BatteryPauseStart, BatteryPauseEnd, Op, SetPauseSlotStart, SetPauseSlotEnd,
             BatteryPauseSlotStart, BatteryPauseSlotEnd
    <2> QED BY <1>1, <2>1, <2>2, ProperOne
  <1>3. ASSUME NEW val \in 0..3
        PROVE  Proper(BatteryPauseModeSelect(val))
    <2>1. BatteryPauseModeSelect(val).batch = Write(318, val)
      BY DEF BatteryPauseModeSelect, Op, SetBatteryPauseMode, WriteWithin, BatteryPauseMode
    <2> QED BY <1>1, <2>1, Special, ProperOne
  <1> QED BY <1>2, <1>3

LEMMA OthersAreProper ==
    Proper(RebootInverter) /\ Proper(NoChargeTarget) /\ Proper(CalibrateBatterySoc)
  <1>1. {20, 116, 163} \subseteq Nat \ TimeRegisters
    BY DEF TimeRegisters, BatteryPauseSlotStart, BatteryPauseSlotEnd
  <1>2. Proper(RebootInverter)
    <2>1. RebootInverter.batch = Write(163, 100)
      BY DEF RebootInverter, Op, SetInverterReboot, Reboot
    <2>2. \A raw : Shows(raw, RebootInverter)
      BY DEF Shows, RebootInverter, Op
    <2>3. Legal(163, 100)
      BY <1>1, Plain
    <2> QED BY <1>1, <2>1, <2>2, <2>3, ProperOne
  <1>3. Proper(NoChargeTarget)
    <2>1. NoChargeTarget.batch = SetEnableChargeTarget(FALSE) \o Write(116, 100)
      BY DEF NoChargeTarget, Op, DisableChargeTarget, ChargeTargetSoc
    <2>2. Flag(FALSE) = 0
      BY DEF Flag
    <2>3. IsBatch(SetEnableChargeTarget(FALSE), {W(20, 0)})
      BY <2>2, Parts
    <2>4. IsBatch(Write(116, 100), {W(116, 100)})
      BY <1>1, Plain, Single
    <2>5. IsBatch(NoChargeTarget.batch, {W(20, 0), W(116, 100)})
      <3>1. PICK a, b, v, w : /\ a = SetEnableChargeTarget(FALSE) /\ b = Write(116, 100)
                              /\ v = W(20, 0) /\ w = W(116, 100)
        OBVIOUS
      <3>2. IsBatch(a \o b, {v, w})
        BY ZenonT(30), <2>3, <2>4, <3>1, Join2
      <3> QED BY <2>1, <3>1, <3>2
    <2>6. Functional({W(20, 0), W(116, 100)})
      BY FieldsOf DEF Functional
    <2>7. ASSUME NEW raw, Holds(raw, {W(20, 0), W(116, 100)})
          PROVE  Shows(raw, NoChargeTarget)
      <3>1. raw[20] = 0 /\ raw[116] = 100
        BY <2>7, FieldsOf DEF Holds
      <3>2. Value(raw, "enable_charge_target") = FALSE
        BY <2>2, <3>1, FlagsShow
      <3>3. Value(raw, "charge_target_soc") = 100
        BY <3>1, Values
      <3>4. /\ DOMAIN NoChargeTarget.shows = {"enable_charge_target", "charge_target_soc"}
            /\ NoChargeTarget.shows["enable_charge_target"] = FALSE
            /\ NoChargeTarget.shows["charge_target_soc"] = 100
        BY DEF NoChargeTarget, Op
      <3>5. \A key \in DOMAIN NoChargeTarget.shows :
               key \notin Limits /\ Value(raw, key) = NoChargeTarget.shows[key]
        BY <3>2, <3>3, <3>4 DEF Limits
      <3>6. PICK op : op = NoChargeTarget
        OBVIOUS
      <3> QED BY <3>5, <3>6, ShowsIs
    <2> QED BY <2>5, <2>6, <2>7, ProperIs
  <1>4. Proper(CalibrateBatterySoc)
    <2>1. /\ CalibrateBatterySoc.batch = Write(29, 1)
          /\ DOMAIN CalibrateBatterySoc.shows = {"battery_calibration_stage"}
          /\ CalibrateBatterySoc.shows["battery_calibration_stage"] = 1
      BY DEF CalibrateBatterySoc, Op, SetCalibrateBatterySoc, SocForceAdjust
    <2>2. ASSUME NEW raw, raw[29] = 1 PROVE Shows(raw, CalibrateBatterySoc)
      <3>1. Value(raw, "battery_calibration_stage") = 1
        BY <2>2, Values
      <3> QED BY <2>1, <3>1, ShowsIs DEF Limits
    <2> QED BY <2>1, <2>2, Special, ProperOne
  <1> QED BY <1>2, <1>3, <1>4

\* Whatever is asked for, of whatever inverter: its batch writes no register twice, encodes,
\* leaves every register decodable, and makes the entities show what was asked for.
THEOREM OperationsAreProper == \A op \in Operations : Proper(op)
  <1>1. Times \subseteq TimeOfDay /\ Percents \subseteq 0..100 /\ Watts \subseteq 0..NativeMax
    BY CommandsAssumption DEF TimeOfDay
  <1>2. Proper(ActivateModeEco) /\ Proper(EnableTimedCharge) /\ Proper(DisableTimedCharge)
    BY EcoIsProper, ChargeIsProper
  <1>3. ASSUME NEW slot \in Times \X Times
        PROVE  /\ Proper(ActivateModeTimedDischarge(slot)) /\ Proper(ActivateModeTimedExport(slot))
               /\ Proper(EnableTimedChargeWithin(slot))
               /\ Proper(Storage(slot, NoSlot, TRUE)) /\ Proper(Storage(slot, NoSlot, FALSE))
    <2>1. slot \in TimeOfDay \X TimeOfDay
      BY <1>1
    <2> QED BY <2>1, TimedIsProper, ChargeIsProper, StorageIsProper
  <1>4. ASSUME NEW slots \in (Times \X Times) \X (Times \X Times)
        PROVE  /\ Proper(Storage(slots[1], slots[2], TRUE))
               /\ Proper(Storage(slots[1], slots[2], FALSE))
    <2>1. slots[1] \in TimeOfDay \X TimeOfDay /\ slots[2] \in TimeOfDay \X TimeOfDay
      BY <1>1
    <2> QED BY <2>1, StorageIsProper
  <1>5. ASSUME NEW soc \in Percents \cap 4..100 PROVE Proper(EnableTimedChargeTo(soc))
    BY ChargeIsProper
  <1>6. ASSUME NEW t \in Times
        PROVE  Proper(SyncClock(t)) /\ Proper(BatteryPauseStart(t)) /\ Proper(BatteryPauseEnd(t))
    BY <1>1, ClockIsProper, PausesAreProper
  <1>7. ASSUME NEW soc \in Percents
        PROVE  /\ Proper(ACChargeLimit(soc)) /\ Proper(BatterySoCReserve(soc))
               /\ Proper(BatteryMinPowerReserve(soc))
    BY <1>1, PercentsAreProper
  <1>8. ASSUME NEW w \in Watts
        PROVE  Proper(BatteryChargeLimitW(w)) /\ Proper(BatteryDischargeLimitW(w))
    BY <1>1, LimitsAreProper
  <1>9. \A val \in 0..3 : Proper(BatteryPauseModeSelect(val))
    BY PausesAreProper
  <1>10. ASSUME NEW on \in BOOLEAN
         PROVE  /\ Proper(TurnEcoMode(on)) /\ Proper(TurnEnableCharge(on))
                /\ Proper(TurnEnableChargeTarget(on)) /\ Proper(TurnEnableDischarge(on))
    BY SwitchesAreProper
  <1>11. \A op \in SwitchOperations : Proper(op)
    BY <1>10 DEF SwitchOperations
  <1>12. \A op \in SlotOperations : Proper(op)
    BY <1>3 DEF SlotOperations
  <1>13. \A op \in StorageOperations : Proper(op)
    <2>1. \A slots \in (Times \X Times) \X (Times \X Times), export \in BOOLEAN :
             Proper(Storage(slots[1], slots[2], export))
      <3> SUFFICES ASSUME NEW slots \in (Times \X Times) \X (Times \X Times),
                          NEW export \in BOOLEAN
                   PROVE  Proper(Storage(slots[1], slots[2], export))
        OBVIOUS
      <3>1. CASE export = TRUE
        BY <1>4, <3>1
      <3>2. CASE export = FALSE
        BY <1>4, <3>2
      <3> QED BY <3>1, <3>2
    <2> QED BY <2>1 DEF StorageOperations
  <1>14. \A op \in TimeOperations : Proper(op)
    BY <1>6 DEF TimeOperations
  <1>15. \A op \in PercentOperations : Proper(op)
    BY <1>5, <1>7 DEF PercentOperations
  <1>16. \A op \in PowerOperations : Proper(op)
    BY <1>8 DEF PowerOperations
  <1>17. \A op \in PauseOperations : Proper(op)
    BY <1>9 DEF PauseOperations
  <1>18. \A op \in ButtonOperations : Proper(op)
    BY <1>2, OthersAreProper DEF ButtonOperations
  <1>19. \A op \in ChargeOperations : Proper(op)
    <2>1. \A slot \in Times \X Times, soc \in Percents \cap 4..100 :
             Proper(EnableTimedChargeWithinTo(slot, soc))
      BY <1>1, ChargeWithinToIsProper
    <2> QED BY <2>1 DEF ChargeOperations
  <1> QED BY <1>11, <1>12, <1>13, <1>14, <1>15, <1>16, <1>17, <1>18, <1>19 DEF Operations

=============================================================================
