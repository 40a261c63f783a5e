--------------------------- MODULE ControlProofs ---------------------------
(***************************************************************************)
(* What is proved of Control: whatever users ask for and however often     *)
(* requests are retried, frames lost and answers late, no register goes    *)
(* back to an older call, and a call that returns without an error has     *)
(* taken effect and is shown.                                              *)
(***************************************************************************)
EXTENDS Control, CommandsProofs

(***************************************************************************)
(* Batches                                                                 *)
(***************************************************************************)
BatchOf(n) == ToSet(script[n].batch)

LEMMA OneOrNone ==
    ASSUME NEW T, NEW x, NEW s, s = <<>> \/ (s = <<x>> /\ x \in T)
    PROVE  s \in Seq(T) /\ ToSet(s) \subseteq {x} /\ (s # <<>> => ToSet(s) = {x})
  <1>1. CASE s = <<>>
    BY <1>1, SetOfNone
  <1>2. CASE s = <<x>> /\ x \in T
    BY <1>2, SetOfOne
  <1> QED BY <1>1, <1>2

\* Of a batch that writes no register twice, _dedupe_requests keeps every write.
LEMMA DedupeKeeps ==
    ASSUME NEW b \in Seq(Writes), Functional(ToSet(b))
    PROVE  /\ Dedupe(b) \in Seq(Writes) /\ ToSet(Dedupe(b)) = ToSet(b)
           /\ b # <<>> => Dedupe(b) # <<>>
  <1> DEFINE same(i) == {j \in DOMAIN b : b[j].reg = b[i].reg}
             last(i) == CHOOSE j \in same(i) : \A k \in same(i) : k <= j
             piece(i) == IF \E j \in same(i) : j < i THEN <<>> ELSE <<b[last(i)]>>
             pieces == [i \in DOMAIN b |-> piece(i)]
  <1>1. Dedupe(b) = FlattenSeq(pieces)
    BY DEF Dedupe
  <1>2. /\ DOMAIN b = 1..Len(b) /\ Len(b) \in Nat
        /\ \A i \in DOMAIN b : b[i] \in Writes /\ b[i] \in ToSet(b)
    BY SetOfSeq, ElementOfSeq DEF ToSet
  <1>3. ASSUME NEW i \in DOMAIN b PROVE last(i) \in same(i) /\ b[last(i)] = b[i]
    <2>1. same(i) \subseteq 0..Len(b) /\ same(i) # {}
      BY <1>2
    <2>2. PICK x \in same(i) : \A k \in same(i) : k <= x
      <3> HIDE DEF same
      <3> QED BY <1>2, <2>1, Greatest
    <2>3. last(i) \in same(i)
      <3> HIDE DEF same
      <3> QED BY <2>2
    <2>4. b[last(i)].reg = b[i].reg /\ b[last(i)] \in ToSet(b) /\ b[i] \in ToSet(b)
      BY <1>2, <2>3
    <2> QED BY <2>3, <2>4 DEF Functional
  <1> HIDE DEF last
  <1>4. ASSUME NEW i \in DOMAIN b
        PROVE  /\ piece(i) \in Seq(Writes) /\ ToSet(piece(i)) \subseteq {b[i]}
               /\ (\A j \in same(i) : ~(j < i)) => ToSet(piece(i)) = {b[i]}
    <2>1. piece(i) = <<>> \/ (piece(i) = <<b[i]>> /\ b[i] \in Writes)
      BY <1>2, <1>3
    <2>2. (\A j \in same(i) : ~(j < i)) => piece(i) = <<b[i]>>
      BY <1>3
    <2>3. PICK p, x : p = piece(i) /\ x = b[i]
      OBVIOUS
    <2>4. /\ p = <<>> \/ (p = <<x>> /\ x \in Writes)
          /\ (\A j \in same(i) : ~(j < i)) => p # <<>>
      BY <2>1, <2>2, <2>3
    <2> HIDE DEF piece, same
    <2>5. p \in Seq(Writes) /\ ToSet(p) \subseteq {x} /\ (p # <<>> => ToSet(p) = {x})
      BY <2>4, OneOrNone
    <2> QED BY <2>3, <2>4, <2>5
  <1>5. pieces \in Seq(Seq(Writes)) /\ Len(pieces) = Len(b)
    <2> HIDE DEF piece
    <2>1. pieces \in [1..Len(b) -> Seq(Writes)]
      BY <1>2, <1>4
    <2> QED BY <1>2, <2>1, LenProperties
  <1>6. /\ Dedupe(b) \in Seq(Writes)
        /\ ToSet(Dedupe(b)) = UNION {ToSet(pieces[i]) : i \in 1..Len(b)}
    BY <1>1, <1>5, SetOfFlat
  <1>7. ToSet(Dedupe(b)) \subseteq ToSet(b)
    <2> HIDE DEF piece
    <2> QED BY <1>2, <1>4, <1>6
  <1>8. ToSet(b) \subseteq ToSet(Dedupe(b))
    <2> SUFFICES ASSUME NEW i \in DOMAIN b PROVE b[i] \in ToSet(Dedupe(b))
      BY DEF ToSet
    <2>1. same(i) \subseteq Nat /\ same(i) # {}
      BY <1>2
    <2>2. PICK x \in same(i) : \A k \in same(i) : x <= k
      <3> HIDE DEF same
      <3> QED BY <2>1, Least
    <2>3. x \in DOMAIN b /\ b[x].reg = b[i].reg /\ same(x) = same(i)
      BY <2>2
    <2>4. \A j \in same(x) : ~(j < x)
      BY <1>2, <2>2, <2>3
    <2>5. ToSet(piece(x)) = {b[x]}
      BY <1>4, <2>3, <2>4
    <2>6. b[x] = b[i]
      BY <1>2, <2>3 DEF Functional
    <2>7. ToSet(pieces[x]) = {b[i]}
      <3> HIDE DEF piece
      <3> QED BY <2>3, <2>5, <2>6
    <2> QED BY SMTT(30), <1>2, <1>6, <2>3, <2>7
  <1>9. ASSUME b # <<>> PROVE Dedupe(b) # <<>>
    <2>1. b[1] \in ToSet(b)
      BY <1>2, <1>9, EmptySeq
    <2> QED BY <1>7, <1>8, <2>1, SetOfNone
  <1> QED BY <1>6, <1>7, <1>8, <1>9

\* The shapes of requests and answers, and what either may be
ShapeSet == {"write", "read"} \X Nat
RequestSet == [call : Nat, shape : ShapeSet, val : Word, tries : Nat]
AnyRegisters == UNION {RegistersFor(ops) : ops \in Scripts}
ReplySet == [shape : ShapeSet, regs : UNION {[S -> Word] : S \in SUBSET AnyRegisters}]

LEMMA ReplyIs ==
    ASSUME script \in Scripts, NEW shape \in ShapeSet, NEW regs, NEW S,
           S \subseteq RegistersFor(script), regs \in [S -> Word]
    PROVE  /\ Answer(shape, regs) \in ReplySet /\ Answer(shape, regs).shape = shape
           /\ Answer(shape, regs).regs = regs
  <1>1. S \in SUBSET AnyRegisters
    BY DEF AnyRegisters
  <1>2. regs \in UNION {[D -> Word] : D \in SUBSET AnyRegisters}
    BY <1>1
  <1> QED BY <1>2 DEF Answer, ReplySet

LEMMA ShapesDiffer ==
    /\ \A r \in Nat : WriteShape(r) \in ShapeSet /\ ReadShape(r) \in ShapeSet
    /\ \A r, q : WriteShape(r) # ReadShape(q)
    /\ \A r, q : WriteShape(r) = WriteShape(q) => r = q
    /\ \A r, q : ReadShape(r) = ReadShape(q) => r = q
    /\ \A r : /\ WriteShape(r)[1] = "write" /\ WriteShape(r)[2] = r
              /\ ReadShape(r)[1] = "read" /\ ReadShape(r)[2] = r
  BY DEF ShapeSet, WriteShape, ReadShape

RequestOf(n, w) == Request(n, WriteShape(w.reg), w.val)

LEMMA RequestIs ==
    ASSUME NEW n \in Nat, NEW w \in Writes
    PROVE  /\ RequestOf(n, w) \in RequestSet /\ RequestOf(n, w).call = n
           /\ RequestOf(n, w).shape = WriteShape(w.reg) /\ RequestOf(n, w).val = w.val
           /\ RequestOf(n, w).tries = 1
  <1>1. w.reg \in Nat /\ w.val \in Word
    BY DEF Writes
  <1>2. WriteShape(w.reg) \in ShapeSet
    BY <1>1, ShapesDiffer
  <1> QED BY <1>1, <1>2 DEF RequestOf, Request, RequestSet

\* What execute() sends of a batch
Requested(n, b) ==
    FlattenSeq([i \in DOMAIN b |-> IF Encodes(b[i]) THEN <<RequestOf(n, b[i])>> ELSE <<>>])

LEMMA RequestedIs ==
    ASSUME NEW n \in Nat, NEW b \in Seq(Writes)
    PROVE  /\ Requested(n, b) \in Seq(RequestSet)
           /\ ToSet(Requested(n, b)) = {RequestOf(n, w) : w \in {v \in ToSet(b) : Encodes(v)}}
  <1> DEFINE piece(i) == IF Encodes(b[i]) THEN <<RequestOf(n, b[i])>> ELSE <<>>
             pieces == [i \in DOMAIN b |-> piece(i)]
  <1>1. Requested(n, b) = FlattenSeq(pieces)
    BY DEF Requested
  <1>2. /\ DOMAIN b = 1..Len(b) /\ Len(b) \in Nat
        /\ \A i \in DOMAIN b : b[i] \in Writes /\ b[i] \in ToSet(b)
    BY SetOfSeq, ElementOfSeq DEF ToSet
  <1>3. ASSUME NEW i \in DOMAIN b
        PROVE  /\ piece(i) \in Seq(RequestSet)
               /\ ToSet(piece(i)) = IF Encodes(b[i]) THEN {RequestOf(n, b[i])} ELSE {}
    <2>0. RequestOf(n, b[i]) \in RequestSet
      BY <1>2, RequestIs
    <2>1. PICK p, x : p = piece(i) /\ x = RequestOf(n, b[i])
      OBVIOUS
    <2>2. p = <<>> \/ (p = <<x>> /\ x \in RequestSet)
      BY <2>0, <2>1
    <2>3. p \in Seq(RequestSet) /\ (p # <<>> => ToSet(p) = {x})
      BY <2>2, OneOrNone
    <2>4. p # <<>> <=> Encodes(b[i])
      BY <2>1
    <2>5. p = <<>> => ToSet(p) = {}
      BY SetOfNone
    <2> HIDE DEF piece
    <2> QED BY <2>1, <2>3, <2>4, <2>5
  <1>4. pieces \in Seq(Seq(RequestSet)) /\ Len(pieces) = Len(b)
    <2> HIDE DEF piece
    <2>1. pieces \in [1..Len(b) -> Seq(RequestSet)]
      BY <1>2, <1>3
    <2> QED BY <1>2, <2>1, LenProperties
  <1>5. /\ Requested(n, b) \in Seq(RequestSet)
        /\ ToSet(Requested(n, b)) = UNION {ToSet(pieces[i]) : i \in 1..Len(b)}
    BY <1>1, <1>4, SetOfFlat
  <1>6. \A i \in 1..Len(b) : ToSet(pieces[i]) = IF Encodes(b[i]) THEN {RequestOf(n, b[i])} ELSE {}
    <2> HIDE DEF piece
    <2> QED BY <1>2, <1>3
  <1>7. ToSet(b) = {b[i] : i \in 1..Len(b)}
    BY <1>2 DEF ToSet
  <1> HIDE DEF pieces
  <1> DEFINE fresh == {RequestOf(n, w) : w \in {v \in ToSet(b) : Encodes(v)}}
  <1>8. ToSet(Requested(n, b)) \subseteq fresh
    <2> SUFFICES ASSUME NEW p \in ToSet(Requested(n, b)) PROVE p \in fresh
      OBVIOUS
    <2>1. PICK i \in 1..Len(b) : p \in ToSet(pieces[i])
      BY <1>5
    <2> QED BY <1>2, <1>6, <2>1
  <1>9. fresh \subseteq ToSet(Requested(n, b))
    <2> SUFFICES ASSUME NEW w \in ToSet(b), Encodes(w)
                 PROVE  RequestOf(n, w) \in ToSet(Requested(n, b))
      OBVIOUS
    <2>1. PICK i \in 1..Len(b) : w = b[i]
      BY <1>7
    <2>2. RequestOf(n, w) \in ToSet(pieces[i])
      BY <1>6, <2>1
    <2> QED BY <1>5, <2>1, <2>2
  <1> QED BY <1>5, <1>8, <1>9

(***************************************************************************)
(* Types                                                                   *)
(***************************************************************************)
CallSet == [contested : BOOLEAN, status : Statuses]

Types ==
    /\ script \in Scripts
    /\ device \in [RegistersFor(script) -> Word] /\ cache \in [RegistersFor(script) -> Word]
    /\ shown \in [RegistersFor(script) -> Word]
    /\ wrote \in [RegistersFor(script) -> 0..Len(calls)]
    /\ calls \in Seq(CallSet) /\ Len(calls) <= Len(script)
    /\ wire \in Seq(RequestSet) /\ pending \subseteq RequestSet
    /\ replies \in Seq(ReplySet)

\* The inverter's settings can be decoded, and only those that are safe to write were written.
Settings == \A r \in Registers : Legal(r, device[r]) /\ (wrote[r] # 0 => r \in WriteSafeRegisters)

\* Requests are reads of a refresh, or writes that a call asked for.
IsRead(p) == p.call = Updater /\ \E b \in Blocks : p.shape = ReadShape(b)
IsWrite(p) ==
    /\ p.call \in DOMAIN calls
    /\ \E w \in BatchOf(p.call) : Encodes(w) /\ p.shape = WriteShape(w.reg) /\ p.val = w.val
Asked == \A p \in pending \cup ToSet(wire) : (IsRead(p) \/ IsWrite(p)) /\ p.tries \in 1..Tries

IsAnswer(a) ==
    \/ \E b \in Blocks : a.shape = ReadShape(b) /\ DOMAIN a.regs = {q \in Registers : InBlock(b, q)}
    \/ \E r \in Registers : a.shape = WriteShape(r) /\ DOMAIN a.regs = {r}
Answering == \A a \in ToSet(replies) : IsAnswer(a)

LEMMA ScriptIs ==
    ASSUME script \in Scripts
    PROVE  /\ DOMAIN script = 1..Len(script) /\ Len(script) \in Nat
           /\ \A n \in DOMAIN script :
                 /\ Proper(script[n]) /\ script[n].batch \in Seq(Writes) /\ Functional(BatchOf(n))
                 /\ \A w \in BatchOf(n) : /\ w \in Writes /\ w.reg \in Nat /\ w.val \in Word
                                          /\ Legal(w.reg, w.val)
                                          /\ w.reg \in RegistersFor(script)
  <1>1. script \in Seq(Operations)
    BY ControlAssumption
  <1>2. DOMAIN script = 1..Len(script) /\ Len(script) \in Nat
    BY <1>1, SetOfSeq
  <1>3. ASSUME NEW n \in DOMAIN script
        PROVE  /\ Proper(script[n]) /\ script[n].batch \in Seq(Writes) /\ Functional(BatchOf(n))
               /\ \A w \in BatchOf(n) : /\ w \in Writes /\ w.reg \in Nat /\ w.val \in Word
                                        /\ Legal(w.reg, w.val)
                                        /\ w.reg \in RegistersFor(script)
    <2>1. script[n] \in Operations /\ script[n] \in ToSet(script)
      BY <1>1, <1>2, ElementOfSeq DEF ToSet
    <2>2. Proper(script[n])
      BY <2>1, OperationsAreProper
    <2>3. script[n].batch \in Seq(Writes) /\ Functional(BatchOf(n))
      BY <2>2 DEF Proper, BatchOf
    <2>4. BatchOf(n) \subseteq Writes
      BY <2>3, SetOfSeq DEF BatchOf
    <2>5. \A w \in BatchOf(n) : w.reg \in RegistersOf(script[n])
      BY DEF BatchOf, RegistersOf
    <2>6. RegistersOf(script[n]) \subseteq RegistersFor(script)
      BY <2>1 DEF RegistersFor
    <2>7. \A w \in Writes : w.reg \in Nat /\ w.val \in Word /\ Legal(w.reg, w.val)
      BY DEF Writes
    <2> QED BY <2>2, <2>3, <2>4, <2>5, <2>6, <2>7
  <1> QED BY <1>2, <1>3

\* Registers that hold what they may can be decoded.
LEMMA LegalDecodes ==
    ASSUME NEW raw, \A r \in DOMAIN raw : Legal(r, raw[r])
    PROVE  DataIsValid(raw)
  <1>1. ASSUME NEW key \in DOMAIN RegisterLut, ToSet(RegisterLut[key].regs) \subseteq DOMAIN raw
        PROVE  Decodes(raw, key)
    <2> DEFINE conv == RegisterLut[key].converter
               regs == RegisterLut[key].regs
    <2>1. /\ conv = "timeslot"
             => regs \in {<<94, 95>>, <<31, 32>>, <<56, 57>>, <<44, 45>>, <<319, 320>>}
          /\ conv = "mode" => regs = <<27>>
          /\ conv = "stage" => regs = <<29>>
          /\ conv = "pause" => regs = <<318>>
      <3> USE DEF RegisterLut, Def, SlotRegisters, BatteryPauseSlotStart, BatteryPauseSlotEnd,
                  BatteryPowerMode, SocForceAdjust, BatteryPauseMode
      <3>1. CASE key \in {"discharge_slot_1", "discharge_slot_2", "charge_slot_1",
                          "charge_slot_2", "battery_pause_slot_1"}
        BY SMTT(30), <3>1
      <3>2. CASE key \in {"battery_power_mode", "battery_calibration_stage", "battery_pause_mode"}
        BY SMTT(30), <3>2
      <3>3. CASE key \in {"enable_charge_target", "enable_discharge", "enable_charge"}
        BY SMTT(30), <3>3
      <3>4. CASE key \in {"battery_soc_reserve", "battery_charge_limit", "battery_discharge_limit",
                          "battery_discharge_min_power_reserve", "charge_target_soc"}
        BY SMTT(30), <3>4
      <3> QED BY <3>1, <3>2, <3>3, <3>4
    <2>2. /\ regs = <<27>> => 27 \in DOMAIN raw
          /\ regs = <<29>> => 29 \in DOMAIN raw
          /\ regs = <<318>> => 318 \in DOMAIN raw
      BY <1>1, SetOfOne
    <2>3. \A a, b : regs = <<a, b>> => a \in DOMAIN raw /\ b \in DOMAIN raw
      <3> SUFFICES ASSUME NEW a, NEW b, regs = <<a, b>>
                   PROVE  a \in DOMAIN raw /\ b \in DOMAIN raw
        OBVIOUS
      <3>1. a \in ToSet(regs) /\ b \in ToSet(regs)
        BY DEF ToSet
      <3> QED BY <1>1, <3>1
    <2>4. conv = "mode" => raw[27] \in 0..1
      BY <2>1, <2>2 DEF Legal, BatteryPowerMode
    <2>5. conv = "stage" => raw[29] \in 0..7
      BY <2>1, <2>2 DEF Legal, SocForceAdjust
    <2>6. conv = "pause" => raw[318] \in 0..3
      BY <2>1, <2>2 DEF Legal, BatteryPauseMode
    <2>7. ASSUME conv = "timeslot" PROVE Get(raw, key) # Undecodable
      <3>1. PICK a \in TimeRegisters, b \in TimeRegisters : regs = <<a, b>>
        BY <2>1, <2>7 DEF TimeRegisters, BatteryPauseSlotStart, BatteryPauseSlotEnd
      <3>2. IsTime(raw[a]) /\ IsTime(raw[b])
        BY <2>3, <3>1 DEF Legal
      <3>3. Get(raw, key) = TimeSlot(raw[a], raw[b])
        BY <2>7, <3>1 DEF Get
      <3>4. TimeSlot(raw[a], raw[b]) # Undecodable
        BY <3>2 DEF TimeSlot, Undecodable, NoSlot
      <3> QED BY <3>3, <3>4
    <2> QED BY <2>1, <2>4, <2>5, <2>6, <2>7 DEF Decodes
  <1> QED BY <1>1 DEF DataIsValid

(***************************************************************************)
(* Order: frames on the wire and requests that wait are of the last call   *)
(* for their shape, or older than it and ahead of it.                      *)
(***************************************************************************)
\* Every request that waits is the one whose future is registered.
Addressed == \A p \in pending : p.shape \in DOMAIN expected /\ expected[p.shape] = p.call

NotNewer == {pair \in RequestSet \X RequestSet :
                pair[1].shape = pair[2].shape => pair[1].call <= pair[2].call}

InOrder ==
    /\ Chain(wire, NotNewer)
    /\ \A f \in ToSet(wire), p \in pending : f.shape = p.shape => f.call <= p.call
    /\ \A p \in pending \cup ToSet(wire), r \in Registers :
          p.shape = WriteShape(r) => wrote[r] <= p.call

OrderInv == Types /\ Settings /\ Asked /\ Answering /\ Addressed /\ InOrder

(***************************************************************************)
(* What the actions do to requests and calls                               *)
(***************************************************************************)
Sends(new, among) ==
    /\ pending' = {p \in among : p.shape \notin ShapesOf(new)} \cup new
    /\ \E requests \in Seq(RequestSet) : ToSet(requests) = new /\ wire' = wire \o requests

LEMMA SendIs ==
    ASSUME Addressed, NEW among \in SUBSET pending, NEW c, NEW requests \in Seq(RequestSet),
           requests # <<>>, \A p \in ToSet(requests) : p.call = c, Send(requests, among)
    PROVE  Sends(ToSet(requests), among) /\ Addressed'
  <1> DEFINE new == ToSet(requests)
             shapes == ShapesOf(new)
  <1>1. requests[1].call = c
    <2>1. requests[1] \in ToSet(requests)
      BY SetOfSeq, EmptySeq DEF ToSet
    <2> QED BY <2>1
  <1>2. Displaced(among, shapes) = {p \in among : p.shape \in shapes}
    BY DEF Displaced, Addressed
  <1>3. /\ pending' = (among \ Displaced(among, shapes)) \cup new
        /\ expected' = [s \in DOMAIN expected \cup shapes |->
                          IF s \in shapes THEN requests[1].call ELSE expected[s]]
        /\ wire' = wire \o requests
    BY DEF Send
  <1>4. pending' = {p \in among : p.shape \notin shapes} \cup new
    BY <1>2, <1>3
  <1>5. \A p \in new : p.shape \in shapes
    BY DEF ShapesOf
  <1> HIDE DEF new, shapes
  <1>6. Addressed'
    <2> SUFFICES ASSUME NEW p \in pending'
                 PROVE  p.shape \in DOMAIN expected' /\ expected'[p.shape] = p.call
      BY DEF Addressed
    <2>1. CASE p \in new
      BY <1>1, <1>3, <1>5, <2>1 DEF new
    <2>2. CASE p \in among /\ p.shape \notin shapes
      BY <1>3, <2>2 DEF Addressed
    <2> QED BY <1>4, <2>1, <2>2
  <1> QED BY <1>3, <1>4, <1>6 DEF Sends, new, shapes

LEMMA FailIs ==
    ASSUME NEW cs \in Seq(CallSet), NEW numbers
    PROVE  /\ Fail(cs, numbers) \in Seq(CallSet) /\ Len(Fail(cs, numbers)) = Len(cs)
           /\ \A n \in 1..Len(cs) :
                 /\ Fail(cs, numbers)[n] \in CallSet
                 /\ Fail(cs, numbers)[n].contested = cs[n].contested
                 /\ \/ Fail(cs, numbers)[n].status = cs[n].status
                    \/ Fail(cs, numbers)[n].status = "failed"
                 /\ n \in numbers => Fail(cs, numbers)[n].status # "running"
                 /\ n \notin numbers => Fail(cs, numbers)[n] = cs[n]
  <1>1. DOMAIN cs = 1..Len(cs) /\ Len(cs) \in Nat /\ \A n \in 1..Len(cs) : cs[n] \in CallSet
    BY SetOfSeq, ElementOfSeq
  <1> DEFINE fs == Fail(cs, numbers)
  <1>2. ASSUME NEW n \in 1..Len(cs)
        PROVE  /\ fs[n] \in CallSet /\ fs[n].contested = cs[n].contested
               /\ fs[n].status = cs[n].status \/ fs[n].status = "failed"
               /\ n \in numbers => fs[n].status # "running"
               /\ n \notin numbers => fs[n] = cs[n]
    <2>1. fs[n] = IF n \in numbers /\ cs[n].status = "running"
                  THEN [cs[n] EXCEPT !.status = "failed"] ELSE cs[n]
      BY <1>1 DEF Fail
    <2>2. [cs[n] EXCEPT !.status = "failed"] \in CallSet
          /\ [cs[n] EXCEPT !.status = "failed"].status = "failed"
          /\ [cs[n] EXCEPT !.status = "failed"].contested = cs[n].contested
      BY <1>1 DEF CallSet, Statuses
    <2> HIDE DEF fs
    <2> QED BY <1>1, <2>1, <2>2
  <1>3. fs \in [1..Len(cs) -> CallSet]
    <2>1. DOMAIN fs = 1..Len(cs) /\ fs = [n \in 1..Len(cs) |-> fs[n]]
      BY <1>1 DEF Fail
    <2> HIDE DEF fs
    <2> QED BY <1>2, <2>1
  <1>4. fs \in Seq(CallSet) /\ Len(fs) = Len(cs)
    <2> HIDE DEF fs
    <2> QED BY <1>1, <1>3
  <1> QED BY <1>2, <1>4

\* The requests execute() sends for call n
Fresh(n) == {RequestOf(n, w) : w \in {v \in BatchOf(n) : Encodes(v)}}

LEMMA FreshIs ==
    ASSUME script \in Scripts, NEW n \in DOMAIN script
    PROVE  /\ n \in Nat /\ Fresh(n) \subseteq RequestSet
           /\ \A p \in Fresh(n) : p.call = n /\ p.tries = 1
           /\ \A p \in Fresh(n) :
                 \E w \in BatchOf(n) : Encodes(w) /\ p.shape = WriteShape(w.reg) /\ p.val = w.val
  BY ScriptIs, RequestIs DEF Fresh

\* Every call but the new one is as before, or has failed.
Keeps(n) ==
    \A m \in 1..(n - 1) : /\ calls'[m].contested = calls[m].contested
                          /\ calls'[m].status \in {calls[m].status, "failed"}
                          /\ m \in Callers(Displaced(pending, ShapesOf(Fresh(n))))
                             => calls'[m].status # "running"

LEMMA ExecuteIs ==
    ASSUME Types, Addressed, NEW n \in DOMAIN script, Execute(n)
    PROVE  /\ n = Len(calls) + 1 /\ BatchOf(n) # {}
           /\ Sends(Fresh(n), pending) /\ Addressed'
           /\ calls' \in Seq(CallSet) /\ Len(calls') = n /\ Keeps(n)
           /\ calls'[n] = [contested |-> Contested(ShapesOf(Fresh(n))),
                           status |-> IF \A w \in BatchOf(n) : Encodes(w)
                                      THEN "running" ELSE "failed"]
           /\ UNCHANGED <<deviceVars, replies, plantVars, faultVars>>
  <1> DEFINE b == script[n].batch
             requests == Requested(n, Dedupe(b))
             call == [contested |-> Contested(ShapesOf(ToSet(requests))),
                      status |-> IF \A w \in ToSet(Dedupe(b)) : Encodes(w)
                                 THEN "running" ELSE "failed"]
  <1>1. /\ n = Len(calls) + 1 /\ Dedupe(b) # <<>>
        /\ IF requests = <<>> THEN UNCHANGED <<pending, expected, wire>> ELSE Send(requests, pending)
        /\ calls' = Append(Fail(calls, Callers(Displaced(pending, ShapesOf(ToSet(requests))))), call)
        /\ UNCHANGED <<deviceVars, replies, plantVars, faultVars>>
    BY DEF Execute, Requested, RequestOf
  <1>2. /\ b \in Seq(Writes) /\ Functional(BatchOf(n)) /\ BatchOf(n) = ToSet(b) /\ n \in Nat
    BY ScriptIs DEF Types, BatchOf
  <1>3. Dedupe(b) \in Seq(Writes) /\ ToSet(Dedupe(b)) = BatchOf(n)
    BY <1>2, DedupeKeeps
  <1>5. requests \in Seq(RequestSet) /\ ToSet(requests) = Fresh(n)
    BY <1>2, <1>3, RequestedIs DEF Fresh
  <1> HIDE DEF requests
  <1>6. Sends(Fresh(n), pending) /\ Addressed'
    <2>1. CASE requests = <<>>
      <3>1. Fresh(n) = {}
        BY <1>5, <2>1, SetOfNone
      <3>2. pending' = pending /\ expected' = expected /\ wire' = wire
        BY <1>1, <2>1
      <3>3. wire \o <<>> = wire /\ <<>> \in Seq(RequestSet)
        BY EmptySeq, ConcatEmptySeq DEF Types
      <3>4. ShapesOf({}) = {}
        BY DEF ShapesOf
      <3> QED BY <3>1, <3>2, <3>3, <3>4, SetOfNone DEF Sends, Addressed
    <2>2. CASE requests # <<>>
      <3>1. \A p \in ToSet(requests) : p.call = n
        BY <1>5, FreshIs DEF Types
      <3> QED BY <1>1, <1>5, <2>2, <3>1, SendIs
    <2> QED BY <2>1, <2>2
  <1>7. PICK fs : /\ fs = Fail(calls, Callers(Displaced(pending, ShapesOf(Fresh(n)))))
                  /\ calls' = Append(fs, call)
    BY <1>1, <1>5
  <1>8. /\ fs \in Seq(CallSet) /\ Len(fs) = Len(calls)
        /\ \A m \in 1..Len(calls) :
              /\ fs[m].contested = calls[m].contested
              /\ fs[m].status \in {calls[m].status, "failed"}
              /\ m \in Callers(Displaced(pending, ShapesOf(Fresh(n)))) => fs[m].status # "running"
    BY <1>7, FailIs DEF Types
  <1>9. call = [contested |-> Contested(ShapesOf(Fresh(n))),
                status |-> IF \A w \in BatchOf(n) : Encodes(w) THEN "running" ELSE "failed"]
    BY <1>3, <1>5
  <1>10. call \in CallSet
    <2>1. Contested(ShapesOf(Fresh(n))) \in BOOLEAN
      BY DEF Contested
    <2> QED BY <1>9, <2>1 DEF CallSet, Statuses
  <1> HIDE DEF call
  <1>11. /\ calls' \in Seq(CallSet) /\ Len(calls') = n /\ calls'[n] = call
         /\ \A m \in 1..(n - 1) : calls'[m] = fs[m]
    BY <1>1, <1>2, <1>7, <1>8, <1>10, AppendProperties
  <1>12. Keeps(n)
    BY <1>1, <1>2, <1>8, <1>11 DEF Keeps
  <1>13. BatchOf(n) # {}
    <2>1. DOMAIN Dedupe(b) = 1..Len(Dedupe(b)) /\ Len(Dedupe(b)) \in Nat /\ Len(Dedupe(b)) # 0
      BY <1>1, <1>3, EmptySeq, SetOfSeq
    <2>2. Dedupe(b)[1] \in ToSet(Dedupe(b))
      BY <2>1 DEF ToSet
    <2> QED BY <1>3, <2>2
  <1> QED BY <1>1, <1>6, <1>9, <1>11, <1>12, <1>13

Again(p) == [p EXCEPT !.tries = @ + 1]

LEMMA RetryIs ==
    ASSUME Types, Asked, Addressed, NEW p \in pending, Retry(p)
    PROVE  /\ Again(p) \in RequestSet /\ Again(p).call = p.call /\ Again(p).shape = p.shape
           /\ Again(p).val = p.val /\ Again(p).tries \in 1..Tries
           /\ Sends({Again(p)}, pending \ {p}) /\ Addressed'
           /\ calls' = Fail(calls, Callers({q \in pending \ {p} : q.shape = p.shape}))
           /\ UNCHANGED <<deviceVars, replies, plantVars, lost>>
  <1>1. p \in RequestSet /\ p.tries \in 1..Tries /\ p.tries < Tries /\ Tries \in Nat
    BY ControlAssumption DEF Types, Asked, Retry
  <1>2. /\ Again(p) \in RequestSet /\ Again(p).call = p.call /\ Again(p).shape = p.shape
        /\ Again(p).val = p.val /\ Again(p).tries = p.tries + 1
    BY <1>1 DEF RequestSet, Again
  <1>3. p.tries + 1 \in 1..Tries
    BY <1>1
  <1>4. Send(<<Again(p)>>, pending \ {p})
    BY DEF Retry, Again
  <1>5. <<Again(p)>> \in Seq(RequestSet) /\ <<Again(p)>> # <<>> /\ ToSet(<<Again(p)>>) = {Again(p)}
    BY <1>2, SetOfOne
  <1>6. Sends({Again(p)}, pending \ {p}) /\ Addressed'
    <2>1. PICK requests : requests = <<Again(p)>>
      OBVIOUS
    <2>2. /\ requests \in Seq(RequestSet) /\ requests # <<>> /\ ToSet(requests) = {Again(p)}
          /\ Send(requests, pending \ {p}) /\ \A q \in ToSet(requests) : q.call = p.call
      BY <1>2, <1>4, <1>5, <2>1
    <2>3. Sends(ToSet(requests), pending \ {p}) /\ Addressed'
      BY <2>2, SendIs
    <2> QED BY <2>2, <2>3
  <1>7. Displaced(pending \ {p}, {p.shape}) = {q \in pending \ {p} : q.shape = p.shape}
    BY DEF Displaced, Addressed
  <1>8. /\ calls' = Fail(calls, Callers({q \in pending \ {p} : q.shape = p.shape}))
        /\ UNCHANGED <<deviceVars, replies, plantVars, lost>>
    BY <1>7 DEF Retry
  <1> QED BY <1>2, <1>3, <1>6, <1>8

\* The reads of holding registers of a full refresh
ReadSet == [fn : {"holding", "input"}, slave : Nat, base : Nat]
ReadOf(fn, slave, base) == [fn |-> fn, slave |-> slave, base |-> base]
Asking(base) == Request(Updater, ReadShape(base), 0)

LEMMA ReadIs ==
    ASSUME NEW fn \in {"holding", "input"}, NEW slave \in Nat, NEW base \in Nat
    PROVE  /\ Read(fn, slave, base) \in Seq(ReadSet)
           /\ ToSet(Read(fn, slave, base)) = {ReadOf(fn, slave, base)}
           /\ ReadOf(fn, slave, base) \in ReadSet /\ ReadOf(fn, slave, base).fn = fn
           /\ ReadOf(fn, slave, base).base = base
  <1>1. PICK x : x = ReadOf(fn, slave, base)
    OBVIOUS
  <1>2. Read(fn, slave, base) = <<x>> /\ x \in ReadSet /\ x.fn = fn /\ x.base = base
    BY <1>1 DEF Read, ReadOf, ReadSet
  <1>3. <<x>> \in Seq(ReadSet) /\ ToSet(<<x>>) = {x}
    BY <1>2, SetOfOne
  <1> QED BY <1>1, <1>2, <1>3

\* The reads of s, and the base registers of those of holding registers
IsReading(s, bases) ==
    /\ s \in Seq(ReadSet)
    /\ {r.base : r \in {q \in ToSet(s) : q.fn = "holding"}} = bases

LEMMA ReadOne ==
    ASSUME NEW slave \in Nat, NEW base \in Nat
    PROVE  /\ IsReading(Read("holding", slave, base), {base})
           /\ IsReading(Read("input", slave, base), {})
  <1>1. PICK h, x : h = ReadOf("holding", slave, base) /\ x = ReadOf("input", slave, base)
    OBVIOUS
  <1>2. /\ Read("holding", slave, base) \in Seq(ReadSet)
        /\ ToSet(Read("holding", slave, base)) = {h} /\ h.fn = "holding" /\ h.base = base
    BY ZenonT(30), <1>1, ReadIs
  <1>3. /\ Read("input", slave, base) \in Seq(ReadSet)
        /\ ToSet(Read("input", slave, base)) = {x} /\ x.fn = "input"
    BY ZenonT(30), <1>1, ReadIs
  <1>4. {r.base : r \in {q \in {h} : q.fn = "holding"}} = {base}
    BY <1>2
  <1>5. {r.base : r \in {q \in {x} : q.fn = "holding"}} = {}
    BY <1>3
  <1> QED BY <1>2, <1>3, <1>4, <1>5 DEF IsReading

LEMMA ReadsJoin ==
    ASSUME NEW s, NEW t, NEW S, NEW T, IsReading(s, S), IsReading(t, T)
    PROVE  IsReading(s \o t, S \cup T)
  <1>1. s \o t \in Seq(ReadSet) /\ ToSet(s \o t) = ToSet(s) \cup ToSet(t)
    BY SetOfConcat DEF IsReading
  <1>2. PICK A, B : A = ToSet(s) /\ B = ToSet(t)
    OBVIOUS
  <1>3. {r.base : r \in {q \in A \cup B : q.fn = "holding"}}
        = {r.base : r \in {q \in A : q.fn = "holding"}}
          \cup {r.base : r \in {q \in B : q.fn = "holding"}}
    OBVIOUS
  <1> QED BY <1>1, <1>2, <1>3 DEF IsReading

LEMMA PlantReads == IsReading(RefreshPlantData(InverterModel, TRUE, 0, 5, <<>>), Blocks)
  <1> DEFINE count == IF InverterModel \notin Limited THEN 5 ELSE 0
             more == [i \in 1..count |-> Read("input", 50 + i - 1, 60)]
             none == [i \in DOMAIN <<>> |-> RefreshAdditionalHoldingRegisters(InverterModel, <<>>[i])]
  <1>1. PICK main \in Nat : main = MainSlaveAddress(InverterModel)
    BY DEF MainSlaveAddress
  <1>2. PICK a, b, c, d, e, f :
           /\ a = Read("input", main, 0) /\ b = Read("holding", main, 0)
           /\ c = Read("holding", main, 60) /\ d = Read("input", main, 120)
           /\ e = FlattenSeq(more) /\ f = FlattenSeq(none)
    OBVIOUS
  <1>3. RefreshPlantData(InverterModel, TRUE, 0, 5, <<>>) = a \o (b \o c \o d) \o e \o f
    BY <1>1, <1>2 DEF RefreshPlantData
  <1>4. IsReading(a, {}) /\ IsReading(b, {0}) /\ IsReading(c, {60}) /\ IsReading(d, {})
    BY <1>2, ReadOne
  <1>5. IsReading(e, {})
    <2>2. \A i \in 1..count : 50 + i - 1 \in Nat
      OBVIOUS
    <2>3. \A n \in Nat : IsReading(Read("input", n, 60), {})
      BY ReadOne
    <2>4. \A i \in 1..count : IsReading(Read("input", 50 + i - 1, 60), {})
      BY <2>2, <2>3
    <2>5. more \in Seq(Seq(ReadSet)) /\ Len(more) = count /\ \A i \in 1..count : IsReading(more[i], {})
      <3>1. count \in Nat
        OBVIOUS
      <3> HIDE DEF count
      <3>2. more \in [1..count -> Seq(ReadSet)]
        BY <2>4 DEF IsReading
      <3> QED BY <2>4, <3>1, <3>2
    <2> HIDE DEF more, count
    <2>6. e \in Seq(ReadSet) /\ ToSet(e) = UNION {ToSet(more[i]) : i \in 1..count}
      BY <1>2, <2>5, SetOfFlat
    <2>7. \A i \in 1..count : \A q \in ToSet(more[i]) : q.fn # "holding"
      BY <2>5 DEF IsReading
    <2>8. \A q \in ToSet(e) : q.fn # "holding"
      BY <2>6, <2>7
    <2> QED BY <2>6, <2>8 DEF IsReading
  <1>6. IsReading(f, {})
    <2>1. none = <<>>
      OBVIOUS
    <2> HIDE DEF none
    <2>2. f = <<>>
      BY <1>2, <2>1, FlattenEmpty
    <2>3. <<>> \in Seq(ReadSet) /\ ToSet(<<>>) = {}
      BY EmptySeq, SetOfNone
    <2> QED BY <2>2, <2>3 DEF IsReading
  <1>7. IsReading(b \o c, {0} \cup {60})
    BY <1>4, ReadsJoin
  <1>8. IsReading(b \o c \o d, {0} \cup {60} \cup {})
    BY <1>4, <1>7, ReadsJoin
  <1>9. IsReading(a \o (b \o c \o d), {} \cup ({0} \cup {60} \cup {}))
    BY <1>4, <1>8, ReadsJoin
  <1>10. IsReading(a \o (b \o c \o d) \o e, {} \cup ({0} \cup {60} \cup {}) \cup {})
    BY <1>5, <1>9, ReadsJoin
  <1>11. IsReading(a \o (b \o c \o d) \o e \o f, {} \cup ({0} \cup {60} \cup {}) \cup {} \cup {})
    BY <1>6, <1>10, ReadsJoin
  <1>12. {} \cup ({0} \cup {60} \cup {}) \cup {} \cup {} = Blocks
    BY DEF Blocks
  <1> QED BY <1>3, <1>11, <1>12

LEMMA SettingsRequestsIs ==
    /\ SettingsRequests \in Seq(RequestSet) /\ SettingsRequests # <<>>
    /\ ToSet(SettingsRequests) = {Asking(b) : b \in Blocks}
    /\ \A b \in Blocks : /\ Asking(b) \in RequestSet /\ Asking(b).call = Updater
                         /\ Asking(b).shape = ReadShape(b) /\ Asking(b).tries = 1
  <1>1. PICK reads \in Seq(ReadSet) :
           /\ reads = RefreshPlantData(InverterModel, TRUE, 0, 5, <<>>)
           /\ {r.base : r \in {q \in ToSet(reads) : q.fn = "holding"}} = Blocks
    BY PlantReads DEF IsReading
  <1> DEFINE piece(i) == IF reads[i].fn = "holding" THEN <<Asking(reads[i].base)>> ELSE <<>>
             pieces == [i \in DOMAIN reads |-> piece(i)]
  <1>2. SettingsRequests = FlattenSeq(pieces)
    BY <1>1 DEF SettingsRequests, Asking
  <1>3. \A b \in Nat : /\ Asking(b) \in RequestSet /\ Asking(b).call = Updater
                       /\ Asking(b).shape = ReadShape(b) /\ Asking(b).tries = 1
    <2>1. 0 \in Word
      BY WordIs
    <2> QED BY <2>1, ShapesDiffer DEF Asking, Request, RequestSet, Updater
  <1>4. /\ DOMAIN reads = 1..Len(reads) /\ Len(reads) \in Nat
        /\ \A i \in DOMAIN reads : reads[i] \in ReadSet /\ reads[i].base \in Nat
    <2>1. DOMAIN reads = 1..Len(reads) /\ Len(reads) \in Nat
      BY SetOfSeq
    <2>2. \A i \in DOMAIN reads : reads[i] \in ReadSet
      BY <2>1, ElementOfSeq
    <2>3. \A r \in ReadSet : r.base \in Nat
      BY DEF ReadSet
    <2> QED BY <2>1, <2>2, <2>3
  <1>5. ASSUME NEW i \in DOMAIN reads
        PROVE  /\ piece(i) \in Seq(RequestSet)
               /\ ToSet(piece(i)) = IF reads[i].fn = "holding" THEN {Asking(reads[i].base)} ELSE {}
    <2>1. PICK p, x : p = piece(i) /\ x = Asking(reads[i].base)
      OBVIOUS
    <2>2. p = <<>> \/ (p = <<x>> /\ x \in RequestSet)
      BY <1>3, <1>4, <2>1
    <2>3. p \in Seq(RequestSet) /\ (p # <<>> => ToSet(p) = {x})
      BY <2>2, OneOrNone
    <2>4. p # <<>> <=> reads[i].fn = "holding"
      BY <2>1
    <2>5. p = <<>> => ToSet(p) = {}
      BY SetOfNone
    <2> HIDE DEF piece
    <2> QED BY <2>1, <2>3, <2>4, <2>5
  <1>6. pieces \in Seq(Seq(RequestSet)) /\ Len(pieces) = Len(reads)
    <2> HIDE DEF piece
    <2>1. pieces \in [1..Len(reads) -> Seq(RequestSet)]
      BY <1>4, <1>5
    <2> QED BY <1>4, <2>1
  <1>7. /\ SettingsRequests \in Seq(RequestSet)
        /\ ToSet(SettingsRequests) = UNION {ToSet(pieces[i]) : i \in 1..Len(reads)}
    BY <1>2, <1>6, SetOfFlat
  <1>8. \A i \in 1..Len(reads) :
           ToSet(pieces[i]) = IF reads[i].fn = "holding" THEN {Asking(reads[i].base)} ELSE {}
    <2> HIDE DEF piece
    <2> QED BY <1>4, <1>5
  <1>9. ToSet(reads) = {reads[i] : i \in 1..Len(reads)}
    BY <1>4 DEF ToSet
  <1> HIDE DEF pieces
  <1>10. ToSet(SettingsRequests) \subseteq {Asking(b) : b \in Blocks}
    <2> SUFFICES ASSUME NEW p \in ToSet(SettingsRequests) PROVE \E b \in Blocks : p = Asking(b)
      OBVIOUS
    <2>1. PICK i \in 1..Len(reads) : p \in ToSet(pieces[i])
      BY <1>7
    <2>2. reads[i].fn = "holding" /\ p = Asking(reads[i].base) /\ reads[i] \in ToSet(reads)
      BY <1>8, <1>9, <2>1
    <2>3. reads[i].base \in Blocks
      BY <1>1, <2>2
    <2> QED BY <2>2, <2>3
  <1>11. {Asking(b) : b \in Blocks} \subseteq ToSet(SettingsRequests)
    <2> SUFFICES ASSUME NEW b \in Blocks PROVE Asking(b) \in ToSet(SettingsRequests)
      OBVIOUS
    <2>1. PICK r \in ToSet(reads) : r.fn = "holding" /\ r.base = b
      BY <1>1
    <2>2. PICK i \in 1..Len(reads) : r = reads[i]
      BY <1>9
    <2>3. Asking(b) \in ToSet(pieces[i])
      BY <1>8, <2>1, <2>2
    <2> QED BY <1>7, <2>2, <2>3
  <1>12. SettingsRequests # <<>>
    <2>1. 0 \in Blocks
      BY DEF Blocks
    <2> QED BY <1>11, <2>1, SetOfNone
  <1>13. Blocks \subseteq Nat
    BY DEF Blocks
  <1>14. ToSet(SettingsRequests) = {Asking(b) : b \in Blocks}
    BY <1>10, <1>11
  <1> HIDE DEF piece
  <1> QED BY <1>3, <1>7, <1>12, <1>13, <1>14

LEMMA StartFullIs ==
    ASSUME Types, Addressed, StartFull
    PROVE  /\ Sends({Asking(b) : b \in Blocks}, pending) /\ Addressed'
           /\ Progress("ok", "reading") /\ refresh' = "full"
           /\ UNCHANGED <<deviceVars, replies, cache, shown, faultVars>>
  <1>1. PICK requests \in Seq(RequestSet) :
           /\ requests = SettingsRequests /\ requests # <<>>
           /\ ToSet(requests) = {Asking(b) : b \in Blocks}
    BY SettingsRequestsIs
  <1>2. \A p \in ToSet(requests) : p.call = Updater
    BY <1>1, SettingsRequestsIs
  <1>3. Send(requests, pending)
    BY <1>1 DEF StartFull
  <1>4. Sends(ToSet(requests), pending) /\ Addressed'
    BY <1>1, <1>2, <1>3, SendIs
  <1>5. /\ Progress("ok", "reading") /\ refresh' = "full"
        /\ UNCHANGED <<deviceVars, replies, cache, shown, faultVars>>
    BY DEF StartFull
  <1> QED BY <1>1, <1>4, <1>5

(***************************************************************************)
(* Steps keep requests in order                                            *)
(***************************************************************************)
\* No call begins.
SameCalls ==
    /\ calls' \in Seq(CallSet) /\ Len(calls') = Len(calls)
    /\ \A n \in 1..Len(calls) : calls'[n].contested = calls[n].contested

LEMMA FailKeepsCalls ==
    ASSUME Types, NEW numbers, calls' = Fail(calls, numbers)
    PROVE  SameCalls
  BY FailIs DEF Types, SameCalls

LEMMA ProgressIs ==
    ASSUME Types, NEW from, NEW to \in Statuses, Progress(from, to)
    PROVE  /\ SameCalls
           /\ \A n \in 1..Len(calls) :
                 calls'[n].status = IF calls[n].status = from THEN to ELSE calls[n].status
  <1>1. /\ DOMAIN calls = 1..Len(calls) /\ Len(calls) \in Nat
        /\ \A n \in 1..Len(calls) : calls[n] \in CallSet
    BY SetOfSeq, ElementOfSeq DEF Types
  <1> DEFINE at(n) == IF calls[n].status = from THEN [calls[n] EXCEPT !.status = to] ELSE calls[n]
  <1>2. calls' = [n \in 1..Len(calls) |-> at(n)]
    BY <1>1 DEF Progress
  <1>3. ASSUME NEW n \in 1..Len(calls)
        PROVE  /\ at(n) \in CallSet /\ at(n).contested = calls[n].contested
               /\ at(n).status = IF calls[n].status = from THEN to ELSE calls[n].status
    BY <1>1 DEF CallSet
  <1> HIDE DEF at
  <1>4. calls' \in [1..Len(calls) -> CallSet]
    BY <1>2, <1>3
  <1>5. calls' \in Seq(CallSet) /\ Len(calls') = Len(calls)
    BY <1>1, <1>4
  <1> QED BY <1>2, <1>3, <1>5 DEF SameCalls

LEMMA StaysAsked ==
    ASSUME Types, script' = script, calls' \in Seq(CallSet), Len(calls') >= Len(calls),
           NEW p, IsRead(p) \/ IsWrite(p)
    PROVE  IsRead(p)' \/ IsWrite(p)'
  <1>1. /\ DOMAIN calls = 1..Len(calls) /\ Len(calls) \in Nat
        /\ DOMAIN calls' = 1..Len(calls') /\ Len(calls') \in Nat
    BY SetOfSeq DEF Types
  <1>2. CASE IsRead(p)
    BY <1>2 DEF IsRead
  <1>3. CASE IsWrite(p)
    <2>1. p.call \in DOMAIN calls'
      BY <1>1, <1>3 DEF IsWrite
    <2>2. BatchOf(p.call)' = BatchOf(p.call)
      BY DEF BatchOf
    <2> QED BY <1>3, <2>1, <2>2 DEF IsWrite
  <1> QED BY <1>2, <1>3

\* A step of no new request or frame
LEMMA QuietStep ==
    ASSUME OrderInv, script' = script, SameCalls, pending' \subseteq pending, wire' = wire,
           expected' = expected, device' = device, wrote' = wrote,
           replies' \in Seq(ReplySet), ToSet(replies') \subseteq ToSet(replies),
           cache' \in [RegistersFor(script) -> Word], shown' \in [RegistersFor(script) -> Word]
    PROVE  OrderInv'
  <1>1. Types'
    BY DEF OrderInv, Types, SameCalls
  <1>2. Settings'
    BY DEF OrderInv, Settings, Registers
  <1>3. Asked'
    <2> SUFFICES ASSUME NEW p \in pending' \cup ToSet(wire')
                 PROVE  (IsRead(p)' \/ IsWrite(p)') /\ p.tries \in 1..Tries
      BY DEF Asked
    <2>1. p \in pending \cup ToSet(wire)
      OBVIOUS
    <2>2. (IsRead(p) \/ IsWrite(p)) /\ p.tries \in 1..Tries
      BY <2>1 DEF OrderInv, Asked
    <2>3. Len(calls') >= Len(calls)
      BY DEF SameCalls, OrderInv, Types
    <2> QED BY <2>2, <2>3, StaysAsked DEF OrderInv, SameCalls
  <1>4. Answering'
    BY DEF OrderInv, Answering, IsAnswer, Registers
  <1>5. Addressed'
    BY DEF OrderInv, Addressed
  <1>6. InOrder'
    BY DEF OrderInv, InOrder, Registers
  <1> QED BY <1>1, <1>2, <1>3, <1>4, <1>5, <1>6 DEF OrderInv

\* A step that sends requests
LEMMA SendStep ==
    ASSUME OrderInv, script' = script, calls' \in Seq(CallSet),
           Len(calls') >= Len(calls), Len(calls') <= Len(script),
           NEW among \in SUBSET pending, NEW new \in SUBSET RequestSet, NEW c \in Nat,
           Sends(new, among), Addressed',
           \A p \in new : /\ p.call = c /\ p.tries \in 1..Tries /\ (IsRead(p)' \/ IsWrite(p)')
                          /\ \A f \in ToSet(wire) : f.shape = p.shape => f.call <= c
                          /\ \A r \in Registers : p.shape = WriteShape(r) => wrote[r] <= c,
           UNCHANGED <<device, wrote, replies, cache, shown>>
    PROVE  OrderInv' /\ ToSet(wire') = ToSet(wire) \cup new
  <1>1. PICK requests \in Seq(RequestSet) : ToSet(requests) = new /\ wire' = wire \o requests
    BY DEF Sends
  <1>2. pending' = {p \in among : p.shape \notin ShapesOf(new)} \cup new
    BY DEF Sends
  <1>3. wire' \in Seq(RequestSet) /\ ToSet(wire') = ToSet(wire) \cup new
    BY <1>1, SetOfConcat DEF OrderInv, Types
  <1>4. Types'
    <2>1. wrote' \in [RegistersFor(script) -> 0..Len(calls')]
      <3>1. Len(calls) \in Nat /\ Len(calls') \in Nat
        BY SetOfSeq DEF OrderInv, Types
      <3>2. 0..Len(calls) \subseteq 0..Len(calls')
        BY <3>1
      <3> QED BY <3>2 DEF OrderInv, Types
    <2> QED BY <1>2, <1>3, <2>1 DEF OrderInv, Types
  <1>5. Settings'
    BY DEF OrderInv, Settings, Registers
  <1>6. Asked'
    <2> SUFFICES ASSUME NEW p \in pending' \cup ToSet(wire')
                 PROVE  (IsRead(p)' \/ IsWrite(p)') /\ p.tries \in 1..Tries
      BY DEF Asked
    <2>1. CASE p \in new
      BY <2>1
    <2>2. CASE p \in pending \cup ToSet(wire)
      <3>1. (IsRead(p) \/ IsWrite(p)) /\ p.tries \in 1..Tries
        BY <2>2 DEF OrderInv, Asked
      <3> QED BY <3>1, StaysAsked DEF OrderInv
    <2> QED BY <1>2, <1>3, <2>1, <2>2
  <1>7. Answering'
    BY DEF OrderInv, Answering, IsAnswer, Registers
  <1>8. InOrder'
    <2>1. Chain(wire', NotNewer)
      <3>1. ToSet(wire) \subseteq RequestSet
        BY SetOfSeq DEF OrderInv, Types
      <3>2. \A f \in ToSet(wire), p \in ToSet(requests) : <<f, p>> \in NotNewer
        BY <1>1, <3>1 DEF NotNewer
      <3>3. \A p, q \in new : <<p, q>> \in NotNewer
        BY DEF NotNewer
      <3>4. Chain(requests, NotNewer)
        <4>1. \A i \in 1..Len(requests) : requests[i] \in new
          BY <1>1, SetOfSeq DEF ToSet
        <4> QED BY <3>3, <4>1 DEF Chain
      <3> QED BY <1>1, <3>2, <3>4, ChainConcat DEF OrderInv, Types, InOrder
    <2>2. ASSUME NEW f \in ToSet(wire'), NEW p \in pending', f.shape = p.shape
          PROVE  f.call <= p.call
      <3>1. CASE f \in ToSet(wire) /\ p \in pending
        BY <2>2, <3>1 DEF OrderInv, InOrder
      <3>2. CASE f \in ToSet(wire) /\ p \in new
        BY <2>2, <3>2
      <3>3. CASE f \in new /\ p \in pending /\ p \notin new
        BY <1>2, <2>2, <3>3 DEF ShapesOf
      <3>4. CASE f \in new /\ p \in new
        BY <3>4
      <3> QED BY <1>2, <1>3, <3>1, <3>2, <3>3, <3>4
    <2>3. ASSUME NEW p \in pending' \cup ToSet(wire'), NEW r \in Registers,
                 p.shape = WriteShape(r)
          PROVE  wrote[r] <= p.call
      <3>1. CASE p \in new
        BY <2>3, <3>1
      <3>2. CASE p \in pending \cup ToSet(wire)
        BY <2>3, <3>2 DEF OrderInv, InOrder
      <3> QED BY <1>2, <1>3, <3>1, <3>2
    <2>4. Registers' = Registers /\ wrote' = wrote
      BY DEF Registers
    <2> QED BY <2>1, <2>2, <2>3, <2>4 DEF InOrder
  <1> QED BY <1>3, <1>4, <1>5, <1>6, <1>7, <1>8 DEF OrderInv

LEMMA ExecuteKeepsOrder ==
    ASSUME OrderInv, script' = script, NEW n \in DOMAIN script, Execute(n)
    PROVE  OrderInv' /\ wrote' = wrote /\ ToSet(wire') = ToSet(wire) \cup Fresh(n)
  <1>1. /\ n = Len(calls) + 1 /\ Sends(Fresh(n), pending) /\ Addressed'
        /\ calls' \in Seq(CallSet) /\ Len(calls') = n
        /\ UNCHANGED <<device, wrote, replies, cache, shown>>
    BY ExecuteIs DEF OrderInv, deviceVars, plantVars
  <1>2. /\ n \in Nat /\ Fresh(n) \in SUBSET RequestSet
        /\ \A p \in Fresh(n) : p.call = n /\ p.tries = 1
        /\ \A p \in Fresh(n) :
              \E w \in BatchOf(n) : Encodes(w) /\ p.shape = WriteShape(w.reg) /\ p.val = w.val
    BY FreshIs DEF OrderInv, Types
  <1>3. Len(calls) \in Nat /\ n \in DOMAIN calls' /\ DOMAIN calls = 1..Len(calls)
    BY <1>1, SetOfSeq DEF OrderInv, Types
  <1>4. n <= Len(script) /\ Len(calls') >= Len(calls)
    BY <1>1, <1>3, ScriptIs DEF OrderInv, Types
  <1>5. 1 \in 1..Tries
    BY ControlAssumption
  <1>6. ASSUME NEW p \in Fresh(n) PROVE IsWrite(p)'
    <2>1. BatchOf(n)' = BatchOf(n)
      BY DEF BatchOf
    <2> QED BY <1>2, <1>3, <2>1 DEF IsWrite
  <1>7. \A f \in ToSet(wire) : f.call <= n
    <2> SUFFICES ASSUME NEW f \in ToSet(wire) PROVE f.call <= n
      OBVIOUS
    <2>1. f.call = Updater \/ f.call \in DOMAIN calls
      BY DEF OrderInv, Asked, IsRead, IsWrite
    <2> QED BY <1>1, <1>3, <2>1 DEF Updater
  <1>8. \A r \in Registers : wrote[r] <= n
    BY <1>1, <1>3 DEF OrderInv, Types, Registers
  <1>9. \A p \in Fresh(n) :
           /\ p.call = n /\ p.tries \in 1..Tries /\ (IsRead(p)' \/ IsWrite(p)')
           /\ \A f \in ToSet(wire) : f.shape = p.shape => f.call <= n
           /\ \A r \in Registers : p.shape = WriteShape(r) => wrote[r] <= n
    BY <1>2, <1>5, <1>6, <1>7, <1>8
  <1>10. pending \in SUBSET pending
    OBVIOUS
  <1> QED BY <1>1, <1>2, <1>4, <1>9, <1>10, SendStep

LEMMA RetryKeepsOrder ==
    ASSUME OrderInv, script' = script, NEW p \in pending, Retry(p)
    PROVE  OrderInv' /\ wrote' = wrote /\ SameCalls /\ ToSet(wire') = ToSet(wire) \cup {Again(p)}
  <1>1. /\ Again(p) \in RequestSet /\ Again(p).call = p.call /\ Again(p).shape = p.shape
        /\ Again(p).val = p.val /\ Again(p).tries \in 1..Tries
        /\ Sends({Again(p)}, pending \ {p}) /\ Addressed'
        /\ calls' = Fail(calls, Callers({q \in pending \ {p} : q.shape = p.shape}))
        /\ UNCHANGED <<device, wrote, replies, cache, shown>>
    BY RetryIs DEF OrderInv, deviceVars, plantVars
  <1>2. SameCalls
    BY <1>1, FailKeepsCalls DEF OrderInv
  <1>3. /\ calls' \in Seq(CallSet) /\ Len(calls') >= Len(calls) /\ Len(calls') <= Len(script)
    BY <1>2, SetOfSeq DEF SameCalls, OrderInv, Types
  <1>4. p.call \in Nat
    BY DEF OrderInv, Types, RequestSet
  <1>5. IsRead(Again(p)) \/ IsWrite(Again(p))
    BY <1>1 DEF OrderInv, Asked, IsRead, IsWrite
  <1>6. IsRead(Again(p))' \/ IsWrite(Again(p))'
    BY <1>3, <1>5, StaysAsked DEF OrderInv
  <1>7. \A q \in {Again(p)} :
           /\ q.call = p.call /\ q.tries \in 1..Tries /\ (IsRead(q)' \/ IsWrite(q)')
           /\ \A f \in ToSet(wire) : f.shape = q.shape => f.call <= p.call
           /\ \A r \in Registers : q.shape = WriteShape(r) => wrote[r] <= p.call
    BY <1>1, <1>6 DEF OrderInv, InOrder
  <1>8. pending \ {p} \in SUBSET pending /\ {Again(p)} \in SUBSET RequestSet
    BY <1>1
  <1> QED BY <1>1, <1>2, <1>3, <1>4, <1>7, <1>8, SendStep

LEMMA StartFullKeepsOrder ==
    ASSUME OrderInv, script' = script, StartFull
    PROVE  /\ OrderInv' /\ wrote' = wrote /\ SameCalls
           /\ ToSet(wire') = ToSet(wire) \cup {Asking(b) : b \in Blocks}
  <1> DEFINE new == {Asking(b) : b \in Blocks}
  <1>1. /\ Sends(new, pending) /\ Addressed' /\ Progress("ok", "reading")
        /\ UNCHANGED <<device, wrote, replies, cache, shown>>
    BY StartFullIs DEF OrderInv, deviceVars
  <1>2. SameCalls
    BY <1>1, ProgressIs DEF OrderInv, Statuses
  <1>3. /\ calls' \in Seq(CallSet) /\ Len(calls') >= Len(calls) /\ Len(calls') <= Len(script)
    BY <1>2, SetOfSeq DEF SameCalls, OrderInv, Types
  <1>4. ASSUME NEW b \in Blocks
        PROVE  /\ Asking(b) \in RequestSet /\ Asking(b).call = 0
               /\ Asking(b).tries \in 1..Tries /\ IsRead(Asking(b))'
               /\ \A f \in ToSet(wire) : f.shape = Asking(b).shape => f.call <= 0
               /\ \A r \in Registers : Asking(b).shape = WriteShape(r) => wrote[r] <= 0
    <2>1. /\ Asking(b) \in RequestSet /\ Asking(b).call = 0
          /\ Asking(b).shape = ReadShape(b) /\ Asking(b).tries = 1
      BY SettingsRequestsIs DEF Updater
    <2>2. ASSUME NEW f \in ToSet(wire), f.shape = Asking(b).shape PROVE f.call <= 0
      <3>1. IsRead(f)
        BY <2>1, <2>2, ShapesDiffer DEF OrderInv, Asked, IsWrite
      <3> QED BY <3>1 DEF IsRead, Updater
    <2>3. \A r : Asking(b).shape # WriteShape(r)
      BY <2>1, ShapesDiffer
    <2>4. Asking(b).tries \in 1..Tries
      BY <2>1, ControlAssumption
    <2>5. IsRead(Asking(b))'
      BY <2>1 DEF IsRead, Updater
    <2> QED BY <2>1, <2>2, <2>3, <2>4, <2>5
  <1>5. \A p \in new : /\ p.call = 0 /\ p.tries \in 1..Tries /\ (IsRead(p)' \/ IsWrite(p)')
                       /\ \A f \in ToSet(wire) : f.shape = p.shape => f.call <= 0
                       /\ \A r \in Registers : p.shape = WriteShape(r) => wrote[r] <= 0
    BY <1>4
  <1>6. new \in SUBSET RequestSet /\ 0 \in Nat /\ pending \in SUBSET pending
    BY <1>4
  <1> QED BY <1>1, <1>2, <1>3, <1>5, <1>6, SendStep

LEMMA StatusKeepsOrder ==
    ASSUME OrderInv, script' = script,
           \/ \E n \in DOMAIN calls : ExecuteOk(n) \/ ExecuteTimeout(n)
           \/ \E p \in pending : GiveUp(p)
           \/ StartPartial \/ AcceptTrustedPlant \/ RefuseData \/ UNCHANGED vars
    PROVE  OrderInv' /\ wrote' = wrote /\ SameCalls /\ wire' = wire /\ replies' = replies
  <1> USE DEF deviceVars, plantVars, faultVars
  <1>1. Types
    BY DEF OrderInv
  <1>2. ASSUME NEW n \in DOMAIN calls, ExecuteOk(n)
        PROVE  SameCalls
    <2>1. /\ DOMAIN calls = 1..Len(calls) /\ Len(calls) \in Nat
          /\ \A m \in 1..Len(calls) : calls[m] \in CallSet
      BY <1>1, SetOfSeq, ElementOfSeq DEF Types
    <2>2. calls' = [calls EXCEPT ![n].status = "ok"]
      BY <1>2 DEF ExecuteOk
    <2>3. \A m \in 1..Len(calls) : /\ calls'[m] \in CallSet
                                   /\ calls'[m].contested = calls[m].contested
      BY <2>1, <2>2 DEF CallSet, Statuses
    <2>4. calls' \in [1..Len(calls) -> CallSet]
      BY <2>1, <2>2, <2>3
    <2>5. calls' \in Seq(CallSet) /\ Len(calls') = Len(calls)
      BY <2>1, <2>4
    <2> QED BY <2>3, <2>5 DEF SameCalls
  <1>3. calls' = calls => SameCalls
    BY <1>1 DEF SameCalls, Types
  <1>4. SameCalls
    <2>1. ASSUME NEW n \in DOMAIN calls, ExecuteTimeout(n) PROVE SameCalls
      BY <1>1, <2>1, FailKeepsCalls DEF ExecuteTimeout
    <2>2. ASSUME NEW p \in pending, GiveUp(p) PROVE SameCalls
      BY <1>1, <2>2, FailKeepsCalls DEF GiveUp
    <2>3. CASE AcceptTrustedPlant
      BY <1>1, <2>3, ProgressIs DEF AcceptTrustedPlant, Statuses
    <2>4. CASE RefuseData
      BY <1>1, <2>4, ProgressIs DEF RefuseData, Statuses
    <2>5. CASE StartPartial \/ UNCHANGED vars
      BY <1>3, <2>5 DEF StartPartial, vars
    <2> QED BY <1>2, <2>1, <2>2, <2>3, <2>4, <2>5
  <1>5. /\ pending' \subseteq pending /\ wire' = wire /\ expected' = expected
        /\ device' = device /\ wrote' = wrote /\ replies' = replies
    BY DEF ExecuteOk, ExecuteTimeout, GiveUp, StartPartial, AcceptTrustedPlant, RefuseData, vars
  <1>6. cache' \in {cache, shown} /\ shown' \in {cache, shown}
    BY DEF ExecuteOk, ExecuteTimeout, GiveUp, StartPartial, AcceptTrustedPlant, RefuseData, vars,
           Restored
  <1>7. /\ cache' \in [RegistersFor(script) -> Word] /\ shown' \in [RegistersFor(script) -> Word]
        /\ replies' \in Seq(ReplySet)
    BY <1>1, <1>5, <1>6 DEF Types
  <1> QED BY <1>4, <1>5, <1>7, QuietStep

\* What the cache holds once an answer has come
LEMMA UpdateIs ==
    ASSUME Types, Answering, NEW a \in ToSet(replies)
    PROVE  /\ Update(cache, a.regs) \in [RegistersFor(script) -> Word]
           /\ \A r \in RegistersFor(script) :
                 Update(cache, a.regs)[r] = IF r \in DOMAIN a.regs THEN a.regs[r] ELSE cache[r]
  <1>1. a \in ReplySet
    BY SetOfSeq DEF Types
  <1>2. DOMAIN cache = RegistersFor(script) /\ Registers = RegistersFor(script)
    BY DEF Types, Registers
  <1>3. DOMAIN a.regs \subseteq RegistersFor(script)
    BY <1>2 DEF Answering, IsAnswer
  <1>4. \A r \in DOMAIN a.regs : a.regs[r] \in Word
    BY <1>1 DEF ReplySet
  <1>5. DOMAIN cache \cup DOMAIN a.regs = RegistersFor(script)
    BY <1>2, <1>3
  <1> QED BY <1>2, <1>4, <1>5 DEF Update, Types

LEMMA RepliesKeepOrder ==
    ASSUME OrderInv, script' = script, Receive \/ ReplyLost
    PROVE  OrderInv' /\ wrote' = wrote /\ SameCalls /\ wire' = wire
  <1> USE DEF deviceVars, plantVars, faultVars
  <1>1. replies # <<>> /\ replies' = Tail(replies) /\ replies \in Seq(ReplySet)
    BY DEF Receive, ReplyLost, OrderInv, Types
  <1>2. /\ Tail(replies) \in Seq(ReplySet)
        /\ ToSet(replies) = {Head(replies)} \cup ToSet(Tail(replies))
    BY <1>1, Dequeued
  <1>3. /\ pending' \subseteq pending /\ wire' = wire /\ expected' = expected /\ calls' = calls
        /\ device' = device /\ wrote' = wrote /\ shown' = shown
    BY DEF Receive, ReplyLost
  <1>4. cache' \in {cache, Update(cache, Head(replies).regs)}
    BY DEF Receive, ReplyLost
  <1>5. Update(cache, Head(replies).regs) \in [RegistersFor(script) -> Word]
    BY <1>2, UpdateIs DEF OrderInv
  <1>6. /\ cache' \in [RegistersFor(script) -> Word] /\ shown' \in [RegistersFor(script) -> Word]
        /\ SameCalls
    BY <1>3, <1>4, <1>5 DEF OrderInv, Types, SameCalls
  <1>7. replies' \in Seq(ReplySet) /\ ToSet(replies') \subseteq ToSet(replies)
    BY <1>1, <1>2
  <1> QED BY <1>3, <1>6, <1>7, QuietStep

\* A frame that leaves the wire was no newer than what is left of its shape.
LEMMA HeadIs ==
    ASSUME OrderInv, wire # <<>>
    PROVE  /\ Head(wire) \in RequestSet /\ Head(wire) \in ToSet(wire)
           /\ Tail(wire) \in Seq(RequestSet) /\ ToSet(Tail(wire)) \subseteq ToSet(wire)
           /\ ToSet(wire) = {Head(wire)} \cup ToSet(Tail(wire))
           /\ Chain(Tail(wire), NotNewer)
           /\ \A f \in ToSet(Tail(wire)) \cup pending :
                 f.shape = Head(wire).shape => Head(wire).call <= f.call
           /\ IsRead(Head(wire)) \/ IsWrite(Head(wire))
  <1>1. wire \in Seq(RequestSet) /\ Chain(wire, NotNewer)
    BY DEF OrderInv, Types, InOrder
  <1>2. /\ Head(wire) \in RequestSet /\ Tail(wire) \in Seq(RequestSet)
        /\ ToSet(wire) = {Head(wire)} \cup ToSet(Tail(wire))
    BY <1>1, Dequeued
  <1>3. Chain(Tail(wire), NotNewer) /\ \A f \in ToSet(Tail(wire)) : <<Head(wire), f>> \in NotNewer
    BY <1>1, ChainTail
  <1>4. \A f \in ToSet(Tail(wire)) : f.shape = Head(wire).shape => Head(wire).call <= f.call
    BY <1>3 DEF NotNewer
  <1>5. \A p \in pending : p.shape = Head(wire).shape => Head(wire).call <= p.call
    BY <1>2 DEF OrderInv, InOrder
  <1>6. IsRead(Head(wire)) \/ IsWrite(Head(wire))
    BY <1>2 DEF OrderInv, Asked
  <1> QED BY <1>2, <1>3, <1>4, <1>5, <1>6

LEMMA FrameLostKeepsOrder ==
    ASSUME OrderInv, script' = script, FrameLost
    PROVE  OrderInv' /\ wrote' = wrote /\ SameCalls
  <1> USE DEF deviceVars, plantVars, faultVars
  <1>1. wire # <<>> /\ wire' = Tail(wire)
    BY DEF FrameLost
  <1>2. /\ Tail(wire) \in Seq(RequestSet) /\ ToSet(Tail(wire)) \subseteq ToSet(wire)
        /\ Chain(Tail(wire), NotNewer)
    BY <1>1, HeadIs
  <1>3. UNCHANGED <<device, wrote, replies, pending, expected, calls, cache, shown>>
    BY DEF FrameLost
  <1>4. Types' /\ SameCalls
    BY <1>1, <1>2, <1>3 DEF OrderInv, Types, SameCalls
  <1>5. Settings' /\ Answering' /\ Addressed'
    BY <1>3 DEF OrderInv, Settings, Answering, IsAnswer, Addressed, Registers
  <1>6. Asked'
    <2>1. \A p : (IsRead(p) \/ IsWrite(p)) => IsRead(p)' \/ IsWrite(p)'
      BY <1>3 DEF IsRead, IsWrite, BatchOf
    <2> QED BY <1>1, <1>2, <1>3, <2>1 DEF OrderInv, Asked
  <1>7. InOrder'
    BY <1>1, <1>2, <1>3 DEF OrderInv, InOrder, Registers
  <1> QED BY <1>3, <1>4, <1>5, <1>6, <1>7 DEF OrderInv

\* The inverter carries out frame f.
LEMMA InvertsIs ==
    ASSUME OrderInv, Inverts
    PROVE  \E f \in ToSet(wire), a \in ReplySet :
              /\ f = Head(wire) /\ a.shape = f.shape /\ replies' = Append(replies, a) /\ IsAnswer(a)
              /\ \/ /\ IsRead(f) /\ UNCHANGED <<device, wrote>>
                    /\ \A r \in DOMAIN a.regs : a.regs[r] = device[r]
                 \/ \E w \in BatchOf(f.call) :
                       /\ IsWrite(f) /\ Encodes(w) /\ f.shape = WriteShape(w.reg) /\ f.val = w.val
                       /\ w.reg \in Registers /\ Legal(w.reg, w.val)
                       /\ device' = [device EXCEPT ![w.reg] = w.val]
                       /\ wrote' = [wrote EXCEPT ![w.reg] = f.call]
                       /\ DOMAIN a.regs = {w.reg} /\ a.regs[w.reg] = w.val
  <1> DEFINE f == Head(wire)
  <1>1. wire # <<>>
    BY DEF Inverts
  <1>2. f \in ToSet(wire) /\ f \in RequestSet /\ (IsRead(f) \/ IsWrite(f))
    BY <1>1, HeadIs
  <1> HIDE DEF f
  <1>3. Registers = RegistersFor(script)
    BY DEF OrderInv, Types, Registers
  <1>4. CASE IsRead(f)
    <2>1. PICK b \in Blocks : f.shape = ReadShape(b)
      BY <1>4 DEF IsRead
    <2>2. PICK a : a = Answer(f.shape, BlockOf(b))
      OBVIOUS
    <2>3. f.shape[1] # "write" /\ f.shape[2] = b
      BY <2>1, ShapesDiffer
    <2>4. replies' = Append(replies, a) /\ UNCHANGED <<device, wrote>>
      BY <2>2, <2>3 DEF Inverts, deviceVars, f
    <2>5. PICK g, S :
             /\ g = BlockOf(b) /\ S = {q \in Registers : InBlock(b, q)} /\ g \in [S -> Word]
             /\ \A r \in S : g[r] = device[r]
      <3>1. PICK S : S = {q \in Registers : InBlock(b, q)}
        OBVIOUS
      <3>2. BlockOf(b) = [r \in S |-> device[r]]
        BY <3>1 DEF BlockOf
      <3>3. \A r \in S : device[r] \in Word
        BY <1>3, <3>1 DEF OrderInv, Types
      <3> QED BY <3>1, <3>2, <3>3
    <2>6. a \in ReplySet /\ a.shape = f.shape /\ a.regs = g
      <3>1. S \subseteq RegistersFor(script) /\ f.shape \in ShapeSet
        BY <1>2, <1>3, <2>5 DEF RequestSet
      <3> QED BY <2>2, <2>5, <3>1, ReplyIs DEF OrderInv, Types
    <2>7. /\ DOMAIN a.regs = {q \in Registers : InBlock(b, q)}
          /\ \A r \in DOMAIN a.regs : a.regs[r] = device[r]
      BY <2>5, <2>6
    <2>8. IsAnswer(a)
      BY <2>1, <2>6, <2>7 DEF IsAnswer
    <2> QED BY <1>2, <1>4, <2>4, <2>6, <2>7, <2>8 DEF f
  <1>5. CASE IsWrite(f)
    <2>1. PICK w \in BatchOf(f.call) : Encodes(w) /\ f.shape = WriteShape(w.reg) /\ f.val = w.val
      BY <1>5 DEF IsWrite
    <2>2. f.call \in DOMAIN script
      <3>1. f.call \in 1..Len(calls) /\ Len(calls) \in Nat
        BY <1>5, SetOfSeq DEF IsWrite, OrderInv, Types
      <3> QED BY <3>1, ScriptIs DEF OrderInv, Types
    <2>3. w.reg \in Registers /\ Legal(w.reg, w.val) /\ w.val \in Word
      BY <1>3, <2>1, <2>2, ScriptIs DEF OrderInv, Types
    <2>4. f.shape[1] = "write" /\ f.shape[2] = w.reg
      BY <2>1, ShapesDiffer
    <2>5. PICK g, a : g = [r \in {w.reg} |-> w.val] /\ a = Answer(f.shape, g)
      OBVIOUS
    <2>6. /\ replies' = Append(replies, a)
          /\ device' = [device EXCEPT ![w.reg] = w.val]
          /\ wrote' = [wrote EXCEPT ![w.reg] = f.call]
      BY <2>1, <2>4, <2>5 DEF Inverts, f
    <2>7. g \in [{w.reg} -> Word] /\ DOMAIN g = {w.reg} /\ g[w.reg] = w.val
      BY <2>3, <2>5
    <2>8. a \in ReplySet /\ a.shape = f.shape /\ a.regs = g
      <3>1. {w.reg} \subseteq RegistersFor(script) /\ f.shape \in ShapeSet
        BY <1>2, <1>3, <2>3 DEF RequestSet
      <3> QED BY <2>5, <2>7, <3>1, ReplyIs DEF OrderInv, Types
    <2>9. IsAnswer(a)
      BY <2>1, <2>3, <2>7, <2>8 DEF IsAnswer
    <2> QED BY <1>2, <1>5, <2>1, <2>3, <2>6, <2>7, <2>8, <2>9 DEF f
  <1> QED BY <1>2, <1>4, <1>5

\* No register goes back to an older call.
Onward == \A r \in Registers : wrote'[r] >= wrote[r]

LEMMA InvertsKeepsOrder ==
    ASSUME OrderInv, script' = script, Inverts
    PROVE  OrderInv' /\ Onward /\ SameCalls
  <1>1. wire # <<>> /\ wire' = Tail(wire)
    BY DEF Inverts
  <1>2. PICK f \in ToSet(wire), a \in ReplySet :
           /\ f = Head(wire) /\ a.shape = f.shape /\ replies' = Append(replies, a) /\ IsAnswer(a)
           /\ \/ IsRead(f) /\ UNCHANGED <<device, wrote>>
              \/ \E w \in BatchOf(f.call) :
                    /\ IsWrite(f) /\ Encodes(w) /\ f.shape = WriteShape(w.reg) /\ f.val = w.val
                    /\ w.reg \in Registers /\ Legal(w.reg, w.val)
                    /\ device' = [device EXCEPT ![w.reg] = w.val]
                    /\ wrote' = [wrote EXCEPT ![w.reg] = f.call]
    BY InvertsIs
  <1>3. UNCHANGED <<pending, expected, calls, cache, shown>>
    BY DEF Inverts, plantVars
  <1>4. /\ Tail(wire) \in Seq(RequestSet) /\ ToSet(Tail(wire)) \subseteq ToSet(wire)
        /\ Chain(Tail(wire), NotNewer)
        /\ \A g \in ToSet(Tail(wire)) \cup pending : g.shape = f.shape => f.call <= g.call
    BY <1>1, <1>2, HeadIs
  <1>5. /\ Registers = RegistersFor(script) /\ Len(calls) \in Nat /\ DOMAIN calls = 1..Len(calls)
        /\ device \in [Registers -> Word] /\ wrote \in [Registers -> 0..Len(calls)]
    BY SetOfSeq DEF OrderInv, Types, Registers
  <1>6. replies' \in Seq(ReplySet) /\ ToSet(replies') = ToSet(replies) \cup {a}
    <2>1. replies \o <<a>> \in Seq(ReplySet) /\ ToSet(replies \o <<a>>) = ToSet(replies) \cup ToSet(<<a>>)
      <3>1. <<a>> \in Seq(ReplySet)
        OBVIOUS
      <3> QED BY ZenonT(30), <3>1, SetOfConcat DEF OrderInv, Types
    <2>2. Append(replies, a) = replies \o <<a>>
      BY AppendIsConcat DEF OrderInv, Types
    <2> QED BY <1>2, <2>1, <2>2, SetOfOne
  <1>7. /\ device' \in [Registers -> Word] /\ wrote' \in [Registers -> 0..Len(calls)]
        /\ \A r \in Registers : Legal(r, device'[r])
        /\ \A r \in Registers : wrote'[r] # 0 => r \in WriteSafeRegisters
        /\ \A r \in Registers : \/ wrote'[r] = wrote[r]
                                \/ f.shape = WriteShape(r) /\ wrote'[r] = f.call
    <2>1. CASE IsRead(f) /\ UNCHANGED <<device, wrote>>
      BY <1>5, <2>1 DEF OrderInv, Settings
    <2>2. CASE \E w \in BatchOf(f.call) :
                  /\ IsWrite(f) /\ Encodes(w) /\ f.shape = WriteShape(w.reg) /\ f.val = w.val
                  /\ w.reg \in Registers /\ Legal(w.reg, w.val)
                  /\ device' = [device EXCEPT ![w.reg] = w.val]
                  /\ wrote' = [wrote EXCEPT ![w.reg] = f.call]
      <3>1. PICK w : /\ IsWrite(f) /\ Encodes(w) /\ f.shape = WriteShape(w.reg)
                     /\ w.reg \in Registers /\ Legal(w.reg, w.val)
                     /\ device' = [device EXCEPT ![w.reg] = w.val]
                     /\ wrote' = [wrote EXCEPT ![w.reg] = f.call]
        BY <2>2
      <3>2. w.val \in Word /\ w.reg \in WriteSafeRegisters
        BY <3>1 DEF Legal, Encodes
      <3>3. f.call \in 0..Len(calls)
        BY <1>5, <3>1 DEF IsWrite
      <3> QED BY <1>5, <3>1, <3>2, <3>3 DEF OrderInv, Settings
    <2> QED BY <1>2, <2>1, <2>2
  <1>8. Registers' = Registers
    BY <1>5, <1>7 DEF Registers
  <1>9. Types' /\ SameCalls
    BY <1>1, <1>3, <1>4, <1>5, <1>6, <1>7 DEF OrderInv, Types, SameCalls
  <1>10. Settings'
    BY <1>7, <1>8 DEF Settings
  <1>11. Asked'
    <2>1. \A p : (IsRead(p) \/ IsWrite(p)) => IsRead(p)' \/ IsWrite(p)'
      BY <1>3 DEF IsRead, IsWrite, BatchOf
    <2> QED BY <1>1, <1>3, <1>4, <2>1 DEF OrderInv, Asked
  <1>12. Answering'
    <2>1. \A x : IsAnswer(x)' <=> IsAnswer(x)
      BY <1>8 DEF IsAnswer
    <2> QED BY <1>2, <1>6, <2>1 DEF OrderInv, Answering
  <1>13. Addressed'
    BY <1>3 DEF OrderInv, Addressed
  <1>14. ASSUME NEW p \in pending \cup ToSet(Tail(wire)), NEW r \in Registers,
                p.shape = WriteShape(r)
         PROVE  wrote'[r] <= p.call
    <2>1. wrote[r] <= p.call
      BY <1>4, <1>14 DEF OrderInv, InOrder
    <2>2. f.shape = WriteShape(r) => f.call <= p.call
      BY <1>4, <1>14
    <2> QED BY <1>7, <2>1, <2>2
  <1>15. InOrder'
    BY <1>1, <1>3, <1>4, <1>8, <1>14 DEF OrderInv, InOrder
  <1>16. Onward
    <2> SUFFICES ASSUME NEW r \in Registers PROVE wrote'[r] >= wrote[r]
      BY DEF Onward
    <2>1. f.shape = WriteShape(r) => wrote[r] <= f.call
      BY DEF OrderInv, InOrder
    <2>2. wrote[r] \in Nat
      BY <1>5
    <2> QED BY <1>7, <2>1, <2>2
  <1> QED BY <1>9, <1>10, <1>11, <1>12, <1>13, <1>15, <1>16 DEF OrderInv

LEMMA NextKeepsOrder ==
    ASSUME OrderInv, [Next]_vars
    PROVE  OrderInv' /\ Onward
  <1>1. script' = script
    BY DEF Next, vars
  <1>2. wrote' = wrote => Onward
    BY DEF Onward, OrderInv, Types, Registers
  <1>3. ASSUME NEW n \in DOMAIN script, Execute(n) PROVE OrderInv' /\ Onward
    BY <1>1, <1>2, <1>3, ExecuteKeepsOrder
  <1>4. ASSUME NEW p \in pending, Retry(p) PROVE OrderInv' /\ Onward
    BY <1>1, <1>2, <1>4, RetryKeepsOrder
  <1>5. CASE StartFull
    BY <1>1, <1>2, <1>5, StartFullKeepsOrder
  <1>6. CASE \/ \E n \in DOMAIN calls : ExecuteOk(n) \/ ExecuteTimeout(n)
             \/ \E p \in pending : GiveUp(p)
             \/ StartPartial \/ AcceptTrustedPlant \/ RefuseData \/ UNCHANGED vars
    BY <1>1, <1>2, <1>6, StatusKeepsOrder
  <1>7. CASE Receive \/ ReplyLost
    BY <1>1, <1>2, <1>7, RepliesKeepOrder
  <1>8. CASE FrameLost
    BY <1>1, <1>2, <1>8, FrameLostKeepsOrder
  <1>9. CASE Inverts
    BY <1>1, <1>9, InvertsKeepsOrder
  <1> QED BY <1>3, <1>4, <1>5, <1>6, <1>7, <1>8, <1>9 DEF Next

(***************************************************************************)
(* The initial states                                                      *)
(***************************************************************************)
LEMMA FactoryIsLegal == ASSUME NEW r PROVE Legal(r, Factory(r)) /\ Factory(r) \in Word
  <1> USE DEF TimeRegisters, BatteryPauseSlotStart, BatteryPauseSlotEnd, BatteryPowerMode,
              SocForceAdjust, BatteryPauseMode, BatterySocReserve, BatteryDischargeMinPowerReserve,
              ChargeTargetSoc, BatteryChargeLimit, BatteryDischargeLimit
  <1>1. /\ Factory(r) \in {0, 1, 4, 50, 100}
        /\ r \in TimeRegisters => Factory(r) = 0
        /\ r = BatteryPowerMode => Factory(r) = 1
        /\ r = SocForceAdjust => Factory(r) = 0
        /\ r = BatteryPauseMode => Factory(r) = 0
    BY DEF Factory
  <1>2. \A v \in {0, 1, 4, 50, 100} : v \in Word
    BY WordIs
  <1>3. IsTime(0)
    BY DEF IsTime
  <1> QED BY <1>1, <1>2, <1>3 DEF Legal

LEMMA InitOrder == Init => OrderInv
  <1> SUFFICES ASSUME Init PROVE OrderInv
    OBVIOUS
  <1>1. script \in Scripts /\ device = [r \in RegistersFor(script) |-> Factory(r)]
    BY DEF Init
  <1>2. Registers = RegistersFor(script) /\ device \in [RegistersFor(script) -> Word]
    BY <1>1, FactoryIsLegal DEF Registers
  <1>3. /\ wire = <<>> /\ replies = <<>> /\ pending = {} /\ calls = <<>>
        /\ cache = device /\ shown = device /\ wrote = [r \in Registers |-> 0]
    BY DEF Init
  <1>4. /\ wire \in Seq(RequestSet) /\ ToSet(wire) = {} /\ Len(wire) = 0
        /\ replies \in Seq(ReplySet) /\ ToSet(replies) = {}
        /\ calls \in Seq(CallSet) /\ Len(calls) = 0
    BY <1>3, EmptySeq, SetOfNone
  <1>5. Types
    <2>1. Len(script) \in Nat
      BY <1>1, ScriptIs
    <2> QED BY <1>1, <1>2, <1>3, <1>4, <2>1 DEF Types
  <1>6. Settings
    BY <1>1, <1>2, <1>3, FactoryIsLegal DEF Settings
  <1>7. Asked /\ Answering /\ Addressed /\ InOrder
    BY <1>3, <1>4 DEF Asked, Answering, Addressed, InOrder, Chain
  <1> QED BY <1>5, <1>6, <1>7 DEF OrderInv

(***************************************************************************)
(* Effect: what becomes of a write that is alone with its register         *)
(***************************************************************************)
AloneWith(n, w) ==
    /\ n \in DOMAIN calls /\ ~calls[n].contested /\ w \in BatchOf(n) /\ Encodes(w)
    /\ \A m \in DOMAIN calls : m > n => \A v \in BatchOf(m) : v.reg # w.reg

Waits(w) == \E p \in pending : p.shape = WriteShape(w.reg)
InForce(w) == device[w.reg] = w.val
Own(n, w, p) == p.shape = WriteShape(w.reg) => p.call = n /\ p.val = w.val

Effect(n, w) ==
    /\ \A p \in pending \cup ToSet(wire) : Own(n, w, p)
    /\ \A a \in ToSet(replies) : a.shape = WriteShape(w.reg) => InForce(w)
    /\ calls[n].status # "failed" => Waits(w) \/ InForce(w)

\* A call writes something.  One that has not failed was sent as a whole, and waits for nothing once it
\* has returned.
Done ==
    \A n \in DOMAIN calls :
        /\ BatchOf(n) # {}
        /\ calls[n].status # "failed" => \A w \in BatchOf(n) : Encodes(w)
        /\ calls[n].status \in Succeeded => n \notin Callers(pending)

EffectInv == Done /\ \A n \in DOMAIN calls : \A w \in BatchOf(n) : AloneWith(n, w) => Effect(n, w)

(***************************************************************************)
(* Reading back                                                            *)
(***************************************************************************)
\* Answer a, if it holds the register of w, holds what w wrote.
Tells(a, w) == w.reg \in DOMAIN a.regs => a.regs[w.reg] = w.val
TellsAfter(w) ==
    {pair \in ReplySet \X ReplySet : pair[1].shape = WriteShape(w.reg) => Tells(pair[2], w)}
Reads(w) == \E p \in pending, b \in Blocks : InBlock(b, w.reg) /\ p.shape = ReadShape(b)

ReadBack(n, w) ==
    /\ Chain(replies, TellsAfter(w))
    /\ calls[n].status # "failed" /\ ~Waits(w) => \A a \in ToSet(replies) : Tells(a, w)
    /\ calls[n].status = "reading" /\ w.reg < 120 => cache[w.reg] = w.val \/ Reads(w)
    /\ calls[n].status = "shown" /\ w.reg < 120 => cache[w.reg] = w.val /\ shown[w.reg] = w.val

ReadInv == \A n \in DOMAIN calls : \A w \in BatchOf(n) : AloneWith(n, w) => ReadBack(n, w)

(***************************************************************************)
(* Serial                                                                  *)
(***************************************************************************)
\* The inverter holds what the last call to write a register asked for.
Provenance ==
    \A r \in Registers :
        IF wrote[r] = 0 THEN device[r] = Factory(r)
        ELSE \E w \in BatchOf(wrote[r]) : w.reg = r /\ device[r] = w.val

\* Every write of a call that lost no frame is on its way or carried out.
Arrives ==
    \A n \in DOMAIN calls : \A w \in BatchOf(n) :
        Encodes(w) /\ n \notin lost
        => \/ wrote[w.reg] >= n
           \/ \E f \in ToSet(wire) : f.call = n /\ f.shape = WriteShape(w.reg)

LEMMA CallsAre ==
    ASSUME Types
    PROVE  /\ DOMAIN calls = 1..Len(calls) /\ Len(calls) \in Nat
           /\ \A n \in DOMAIN calls : /\ n \in DOMAIN script /\ n \in Nat \ {0}
                                      /\ calls[n].status \in Statuses
           /\ \A n \in DOMAIN calls : \A w \in BatchOf(n) : w.reg \in Nat /\ w.reg \in Registers
  <1>1. /\ DOMAIN calls = 1..Len(calls) /\ Len(calls) \in Nat
        /\ \A n \in 1..Len(calls) : calls[n] \in CallSet
    BY SetOfSeq, ElementOfSeq DEF Types
  <1>2. \A c \in CallSet : c.status \in Statuses
    BY DEF CallSet
  <1>3. \A n \in DOMAIN calls : n \in DOMAIN script
    BY <1>1, ScriptIs DEF Types
  <1>4. \A n \in DOMAIN calls : \A w \in BatchOf(n) : w.reg \in Nat /\ w.reg \in RegistersFor(script)
    BY <1>3, ScriptIs DEF Types
  <1>5. Registers = RegistersFor(script)
    BY DEF Types, Registers
  <1> QED BY <1>1, <1>2, <1>3, <1>4, <1>5

\* A write has no other of its call for its register.
LEMMA OneWrite ==
    ASSUME Types, NEW n \in DOMAIN calls, NEW v \in BatchOf(n), NEW w \in BatchOf(n),
           WriteShape(v.reg) = WriteShape(w.reg)
    PROVE  v = w
  <1>1. n \in DOMAIN script /\ v.reg = w.reg
    BY CallsAre, ShapesDiffer
  <1>2. Functional(BatchOf(n))
    BY <1>1, ScriptIs DEF Types
  <1> QED BY <1>1, <1>2 DEF Functional

\* The calls at the end of a step: the old ones, perhaps failed, and perhaps a new one.
LEMMA StaysAlone ==
    ASSUME Types, script' = script, calls' \in Seq(CallSet), Len(calls') >= Len(calls),
           NEW n \in DOMAIN calls, calls'[n].contested = calls[n].contested,
           NEW w, AloneWith(n, w)'
    PROVE  /\ AloneWith(n, w)
           /\ \A m \in DOMAIN calls' : m > n => \A v \in BatchOf(m) : v.reg # w.reg
  <1>1. /\ DOMAIN calls = 1..Len(calls) /\ Len(calls) \in Nat
        /\ DOMAIN calls' = 1..Len(calls') /\ Len(calls') \in Nat
    BY SetOfSeq DEF Types
  <1>2. \A m : BatchOf(m)' = BatchOf(m)
    BY DEF BatchOf
  <1> QED BY <1>1, <1>2 DEF AloneWith

\* Nothing new on the way for the register of w, and what awaits an answer still does,
\* unless the call fails.
NoNews(w) ==
    \A p \in pending' \cup ToSet(wire') :
        p.shape = WriteShape(w.reg)
        => \E q \in pending \cup ToSet(wire) : q.shape = p.shape /\ q.call = p.call /\ q.val = p.val
StillWaits(n, w) ==
    calls'[n].status # "failed" => calls[n].status # "failed" /\ (Waits(w) => Waits(w)')

LEMMA ExecuteIsNoNews ==
    ASSUME OrderInv, script' = script, NEW m \in DOMAIN script, Execute(m),
           NEW n \in DOMAIN calls, NEW w, AloneWith(n, w)'
    PROVE  AloneWith(n, w) /\ NoNews(w) /\ StillWaits(n, w)
  <1>1. /\ m = Len(calls) + 1 /\ Sends(Fresh(m), pending) /\ calls' \in Seq(CallSet)
        /\ Len(calls') = m /\ Keeps(m)
    BY ExecuteIs DEF OrderInv
  <1>2. /\ DOMAIN calls = 1..Len(calls) /\ Len(calls) \in Nat /\ n \in 1..(m - 1)
        /\ DOMAIN calls' = 1..Len(calls') /\ m \in DOMAIN calls' /\ m > n
    BY <1>1, SetOfSeq, CallsAre DEF OrderInv
  <1>3. calls'[n].contested = calls[n].contested /\ calls'[n].status \in {calls[n].status, "failed"}
    BY <1>1, <1>2 DEF Keeps
  <1>4. Len(calls') >= Len(calls)
    BY <1>1, <1>2
  <1>5. AloneWith(n, w) /\ \A v \in BatchOf(m) : v.reg # w.reg
    BY <1>1, <1>2, <1>3, <1>4, StaysAlone DEF OrderInv
  <1>6. \A p \in Fresh(m) : p.shape # WriteShape(w.reg)
    BY <1>5, FreshIs, ShapesDiffer DEF OrderInv, Types
  <1>7. WriteShape(w.reg) \notin ShapesOf(Fresh(m))
    BY <1>6 DEF ShapesOf
  <1>8. pending' = {p \in pending : p.shape \notin ShapesOf(Fresh(m))} \cup Fresh(m)
    BY <1>1 DEF Sends
  <1>9. ToSet(wire') = ToSet(wire) \cup Fresh(m)
    BY ExecuteKeepsOrder
  <1>10. NoNews(w)
    <2> SUFFICES ASSUME NEW p \in pending' \cup ToSet(wire'), p.shape = WriteShape(w.reg)
                 PROVE  p \in pending \cup ToSet(wire)
      BY DEF NoNews
    <2> QED BY <1>6, <1>8, <1>9
  <1>11. Waits(w) => Waits(w)'
    BY <1>7, <1>8 DEF Waits
  <1> QED BY <1>3, <1>5, <1>10, <1>11 DEF StillWaits

LEMMA SameCallsAlone ==
    ASSUME OrderInv, script' = script, SameCalls, NEW n \in DOMAIN calls, NEW w, AloneWith(n, w)'
    PROVE  AloneWith(n, w)
  <1>1. calls' \in Seq(CallSet) /\ Len(calls') = Len(calls) /\ Len(calls) \in Nat
    BY SetOfSeq DEF SameCalls, OrderInv, Types
  <1>2. calls'[n].contested = calls[n].contested
    BY CallsAre DEF SameCalls, OrderInv
  <1> QED BY <1>1, <1>2, StaysAlone DEF OrderInv

LEMMA RetryIsNoNews ==
    ASSUME OrderInv, script' = script, NEW p \in pending, Retry(p),
           NEW n \in DOMAIN calls, NEW w, AloneWith(n, w)'
    PROVE  AloneWith(n, w) /\ NoNews(w) /\ StillWaits(n, w)
  <1>1. /\ Again(p).call = p.call /\ Again(p).shape = p.shape /\ Again(p).val = p.val
        /\ Sends({Again(p)}, pending \ {p})
        /\ calls' = Fail(calls, Callers({q \in pending \ {p} : q.shape = p.shape}))
    BY RetryIs DEF OrderInv
  <1>2. SameCalls /\ ToSet(wire') = ToSet(wire) \cup {Again(p)}
    BY RetryKeepsOrder
  <1>3. AloneWith(n, w)
    BY <1>2, SameCallsAlone
  <1>4. pending' = {q \in pending \ {p} : q.shape # p.shape} \cup {Again(p)}
    BY <1>1 DEF Sends, ShapesOf
  <1>5. NoNews(w)
    BY <1>1, <1>2, <1>4 DEF NoNews
  <1>6. Waits(w) => Waits(w)'
    BY <1>1, <1>4 DEF Waits
  <1>7. calls'[n].status # "failed" => calls[n].status # "failed"
    <2>1. calls \in Seq(CallSet) /\ n \in 1..Len(calls)
      BY CallsAre DEF OrderInv, Types
    <2> QED BY <1>1, <2>1, FailIs
  <1> QED BY <1>3, <1>5, <1>6, <1>7 DEF StillWaits

LEMMA StartFullIsNoNews ==
    ASSUME OrderInv, script' = script, StartFull,
           NEW n \in DOMAIN calls, NEW w, AloneWith(n, w)'
    PROVE  AloneWith(n, w) /\ NoNews(w) /\ StillWaits(n, w)
  <1> DEFINE new == {Asking(b) : b \in Blocks}
  <1>1. Sends(new, pending) /\ Progress("ok", "reading")
    BY StartFullIs DEF OrderInv
  <1>2. SameCalls /\ ToSet(wire') = ToSet(wire) \cup new
    BY StartFullKeepsOrder
  <1>3. AloneWith(n, w)
    BY <1>2, SameCallsAlone
  <1>4. \A p \in new : p.shape # WriteShape(w.reg)
    BY SettingsRequestsIs, ShapesDiffer
  <1>5. pending' = {p \in pending : p.shape \notin ShapesOf(new)} \cup new
    BY <1>1 DEF Sends
  <1> HIDE DEF new
  <1>6. WriteShape(w.reg) \notin ShapesOf(new)
    BY <1>4 DEF ShapesOf
  <1>7. NoNews(w)
    BY <1>2, <1>4, <1>5 DEF NoNews
  <1>8. Waits(w) => Waits(w)'
    BY <1>5, <1>6 DEF Waits
  <1>9. calls'[n].status # "failed" => calls[n].status # "failed"
    <2>1. "reading" \in Statuses /\ n \in 1..Len(calls)
      BY CallsAre DEF OrderInv, Statuses
    <2> QED BY <1>1, <2>1, ProgressIs DEF OrderInv
  <1> QED BY <1>3, <1>7, <1>8, <1>9 DEF StillWaits

\* Who gives up a request that is alone with its register fails.
LEMMA StatusIsNoNews ==
    ASSUME OrderInv, EffectInv, script' = script,
           \/ \E m \in DOMAIN calls : ExecuteOk(m) \/ ExecuteTimeout(m)
           \/ \E p \in pending : GiveUp(p)
           \/ StartPartial \/ AcceptTrustedPlant \/ RefuseData \/ UNCHANGED vars,
           NEW n \in DOMAIN calls, NEW w, AloneWith(n, w)'
    PROVE  AloneWith(n, w) /\ NoNews(w) /\ StillWaits(n, w)
  <1>1. SameCalls /\ wire' = wire
    BY StatusKeepsOrder
  <1>2. AloneWith(n, w)
    BY <1>1, SameCallsAlone
  <1>3. pending' \subseteq pending
    BY DEF ExecuteOk, ExecuteTimeout, GiveUp, StartPartial, AcceptTrustedPlant, RefuseData, vars
  <1>4. NoNews(w)
    BY <1>1, <1>3 DEF NoNews
  <1>5. \A p \in pending : p.shape = WriteShape(w.reg) => p.call = n
    BY <1>2 DEF EffectInv, Effect, Own, AloneWith
  <1>6. n \in 1..Len(calls) /\ calls \in Seq(CallSet) /\ calls[n].status \in Statuses
    BY CallsAre DEF OrderInv, Types
  <1>7. ASSUME NEW m \in DOMAIN calls, ExecuteOk(m) PROVE StillWaits(n, w)
    <2>1. calls[m].status = "running" /\ calls' = [calls EXCEPT ![m].status = "ok"] /\ pending' = pending
      BY <1>7 DEF ExecuteOk
    <2>2. calls'[n].status # "failed" => calls[n].status # "failed"
      <3>1. CASE n = m
        BY <2>1, <3>1
      <3>2. CASE n # m
        BY <2>1, <3>2
      <3> QED BY <3>1, <3>2
    <2> QED BY <2>1, <2>2 DEF StillWaits, Waits
  <1>8. ASSUME NEW m \in DOMAIN calls, ExecuteTimeout(m) PROVE StillWaits(n, w)
    <2>1. /\ calls[m].status = "running" /\ calls' = Fail(calls, {m})
          /\ pending' = {p \in pending : p.call # m}
      BY <1>8 DEF ExecuteTimeout
    <2>2. /\ calls'[n].status \in {calls[n].status, "failed"}
          /\ n = m => calls'[n].status # "running"
      BY <1>6, <2>1, FailIs
    <2>3. n # m => (Waits(w) => Waits(w)')
      BY <1>5, <2>1 DEF Waits
    <2> QED BY <2>1, <2>2, <2>3 DEF StillWaits
  <1>9. ASSUME NEW p \in pending, GiveUp(p) PROVE StillWaits(n, w)
    <2>1. calls' = Fail(calls, {p.call}) /\ pending' = pending \ {p}
      BY <1>9 DEF GiveUp
    <2>2. /\ calls'[n].status \in {calls[n].status, "failed"}
          /\ n = p.call => calls'[n].status # "running"
      BY <1>6, <2>1, FailIs
    <2>3. p.shape # WriteShape(w.reg) => (Waits(w) => Waits(w)')
      BY <2>1 DEF Waits
    <2>4. CASE p.shape = WriteShape(w.reg)
      <3>1. p.call = n /\ n \in Callers(pending)
        BY <1>5, <2>4 DEF Callers
      <3>2. calls[n].status \in {"running", "failed"}
        BY <1>6, <3>1 DEF EffectInv, Done, Statuses, Succeeded
      <3> QED BY <2>2, <3>1, <3>2 DEF StillWaits
    <2> QED BY <2>2, <2>3, <2>4 DEF StillWaits
  <1>10. ASSUME AcceptTrustedPlant \/ RefuseData PROVE StillWaits(n, w)
    <2>1. pending' = pending /\ (Progress("reading", "shown") \/ Progress("reading", "ok"))
      BY <1>10 DEF AcceptTrustedPlant, RefuseData
    <2>2. "shown" \in Statuses /\ "ok" \in Statuses
      BY DEF Statuses
    <2>3. calls'[n].status # "failed" => calls[n].status # "failed"
      BY <1>6, <2>1, <2>2, ProgressIs DEF OrderInv
    <2> QED BY <2>1, <2>3 DEF StillWaits, Waits
  <1>11. ASSUME StartPartial \/ UNCHANGED vars PROVE StillWaits(n, w)
    BY <1>11 DEF StartPartial, vars, StillWaits, Waits
  <1> QED BY <1>2, <1>4, <1>7, <1>8, <1>9, <1>10, <1>11

LEMMA TransportIsNoNews ==
    ASSUME OrderInv, script' = script, FrameLost \/ ReplyLost \/ Inverts,
           NEW n \in DOMAIN calls, NEW w, AloneWith(n, w)'
    PROVE  AloneWith(n, w) /\ NoNews(w) /\ StillWaits(n, w)
  <1>1. calls' = calls /\ pending' = pending
    BY DEF FrameLost, ReplyLost, Inverts
  <1>2. AloneWith(n, w)
    BY <1>1, SameCallsAlone DEF SameCalls, OrderInv, Types
  <1>3. ToSet(wire') \subseteq ToSet(wire)
    BY HeadIs DEF FrameLost, ReplyLost, Inverts
  <1> QED BY <1>1, <1>2, <1>3 DEF NoNews, StillWaits, Waits

LEMMA ReceiveIsNoNews ==
    ASSUME OrderInv, script' = script, Receive, NEW n \in DOMAIN calls, NEW w, AloneWith(n, w)'
    PROVE  AloneWith(n, w) /\ NoNews(w)
  <1>1. calls' = calls /\ pending' \subseteq pending /\ wire' = wire
    BY DEF Receive, plantVars
  <1>2. AloneWith(n, w)
    BY <1>1, SameCallsAlone DEF SameCalls, OrderInv, Types
  <1> QED BY <1>1, <1>2 DEF NoNews

(***************************************************************************)
(* Steps keep the effect                                                   *)
(***************************************************************************)
\* The device register of a write that is alone changes only to what was written.
LEMMA DeviceStays ==
    ASSUME OrderInv, NEW w, [Next]_vars, ~Inverts
    PROVE  device' = device /\ InForce(w)' = InForce(w)
  <1>1. device' = device
    <2>1. ASSUME NEW n \in DOMAIN script, Execute(n) PROVE device' = device
      BY <2>1, ExecuteIs DEF OrderInv, deviceVars
    <2>2. ASSUME NEW p \in pending, Retry(p) PROVE device' = device
      BY <2>2 DEF Retry, deviceVars
    <2>3. StartFull => device' = device
      BY DEF StartFull, deviceVars
    <2> USE DEF deviceVars
    <2>4. ASSUME NEW n \in DOMAIN calls, ExecuteOk(n) \/ ExecuteTimeout(n) PROVE device' = device
      BY <2>4 DEF ExecuteOk, ExecuteTimeout
    <2>5. ASSUME NEW p \in pending, GiveUp(p) PROVE device' = device
      BY <2>5 DEF GiveUp
    <2>6. FrameLost \/ ReplyLost \/ Receive => device' = device
      BY DEF FrameLost, ReplyLost, Receive
    <2>7. StartPartial \/ AcceptTrustedPlant \/ RefuseData => device' = device
      BY DEF StartPartial, AcceptTrustedPlant, RefuseData
    <2>8. UNCHANGED vars => device' = device
      BY DEF vars
    <2> QED BY <2>1, <2>2, <2>3, <2>4, <2>5, <2>6, <2>7, <2>8 DEF Next
  <1> QED BY <1>1 DEF InForce

\* Answers only leave their queue, but for those the inverter gives.
LEMMA RepliesShrink ==
    ASSUME OrderInv, [Next]_vars, ~Inverts
    PROVE  ToSet(replies') \subseteq ToSet(replies)
  <1> SUFFICES replies' = replies \/ (replies # <<>> /\ replies' = Tail(replies))
    BY Dequeued DEF OrderInv, Types
  <1>1. ASSUME NEW n \in DOMAIN script, Execute(n) PROVE replies' = replies
    BY <1>1, ExecuteIs DEF OrderInv
  <1>2. ASSUME NEW p \in pending, Retry(p) PROVE replies' = replies
    BY <1>2 DEF Retry
  <1>3. StartFull => replies' = replies
    BY DEF StartFull
  <1>4. ASSUME NEW n \in DOMAIN calls, ExecuteOk(n) \/ ExecuteTimeout(n) PROVE replies' = replies
    BY <1>4 DEF ExecuteOk, ExecuteTimeout
  <1>5. ASSUME NEW p \in pending, GiveUp(p) PROVE replies' = replies
    BY <1>5 DEF GiveUp
  <1>6. FrameLost => replies' = replies
    BY DEF FrameLost
  <1>7. ReplyLost \/ Receive => replies # <<>> /\ replies' = Tail(replies)
    BY DEF ReplyLost, Receive
  <1>8. StartPartial \/ AcceptTrustedPlant \/ RefuseData => replies' = replies
    BY DEF StartPartial, AcceptTrustedPlant, RefuseData
  <1>9. UNCHANGED vars => replies' = replies
    BY DEF vars
  <1> QED BY <1>1, <1>2, <1>3, <1>4, <1>5, <1>6, <1>7, <1>8, <1>9 DEF Next

LEMMA OwnStays ==
    ASSUME NEW n, NEW w, NoNews(w), Effect(n, w)
    PROVE  \A p \in pending' \cup ToSet(wire') : Own(n, w, p)
  BY DEF NoNews, Effect, Own

\* A call that was there before the step, in a step that is not the inverter's
LEMMA EffectStays ==
    ASSUME OrderInv, EffectInv, [Next]_vars, ~Inverts, NEW n \in DOMAIN calls,
           NEW w, AloneWith(n, w), NoNews(w), StillWaits(n, w) \/ Receive
    PROVE  Effect(n, w)'
  <1>1. Effect(n, w)
    BY DEF EffectInv, AloneWith
  <1>2. InForce(w)' = InForce(w) /\ ToSet(replies') \subseteq ToSet(replies)
    BY DeviceStays, RepliesShrink
  <1>3. \A p \in pending' \cup ToSet(wire') : Own(n, w, p)
    BY <1>1, OwnStays
  <1>4. \A a \in ToSet(replies') : a.shape = WriteShape(w.reg) => InForce(w)'
    BY <1>1, <1>2 DEF Effect
  <1>5. calls'[n].status # "failed" => Waits(w)' \/ InForce(w)'
    <2>1. CASE StillWaits(n, w)
      BY <1>1, <1>2, <2>1 DEF Effect, StillWaits
    <2>2. CASE Receive
      <3>1. /\ calls' = calls /\ replies # <<>>
            /\ pending' = {p \in pending : ~Answers(p, Head(replies))}
        BY <2>2 DEF Receive
      <3>2. Head(replies) \in ToSet(replies)
        BY <3>1, Dequeued DEF OrderInv, Types
      <3>3. ASSUME Waits(w), ~InForce(w) PROVE Waits(w)'
        <4>1. PICK p \in pending : p.shape = WriteShape(w.reg)
          BY <3>3 DEF Waits
        <4>2. Head(replies).shape # WriteShape(w.reg)
          BY <1>1, <3>2, <3>3 DEF Effect
        <4>3. p \in pending'
          BY <3>1, <4>1, <4>2 DEF Answers
        <4> QED BY <4>1, <4>3 DEF Waits
      <3> QED BY <1>1, <1>2, <3>1, <3>3 DEF Effect
    <2> QED BY <2>1, <2>2
  <1> QED BY <1>3, <1>4, <1>5 DEF Effect, Own

\* What the inverter does with a write of its own register, or with another frame
LEMMA InvertsInForce ==
    ASSUME OrderInv, Inverts, NEW n \in DOMAIN calls, NEW w \in BatchOf(n),
           Encodes(w), Effect(n, w)
    PROVE  /\ InForce(w) => InForce(w)'
           /\ \E a \in ReplySet : /\ replies' = Append(replies, a) /\ IsAnswer(a)
                                  /\ a.shape = WriteShape(w.reg) => InForce(w)'
                                  /\ InForce(w)' => Tells(a, w)
  <1>1. PICK f \in ToSet(wire), a \in ReplySet :
          /\ f = Head(wire) /\ a.shape = f.shape /\ replies' = Append(replies, a) /\ IsAnswer(a)
          /\ \/ /\ IsRead(f) /\ UNCHANGED <<device, wrote>>
                /\ \A r \in DOMAIN a.regs : a.regs[r] = device[r]
             \/ \E v \in BatchOf(f.call) :
                   /\ IsWrite(f) /\ Encodes(v) /\ f.shape = WriteShape(v.reg) /\ f.val = v.val
                   /\ v.reg \in Registers /\ Legal(v.reg, v.val)
                   /\ device' = [device EXCEPT ![v.reg] = v.val]
                   /\ wrote' = [wrote EXCEPT ![v.reg] = f.call]
                   /\ DOMAIN a.regs = {v.reg} /\ a.regs[v.reg] = v.val
    BY InvertsIs
  <1>2. w.reg \in Nat /\ w.reg \in DOMAIN device
    BY CallsAre DEF OrderInv, Registers
  <1>3. CASE /\ IsRead(f) /\ UNCHANGED <<device, wrote>>
             /\ \A r \in DOMAIN a.regs : a.regs[r] = device[r]
    <2>1. a.shape # WriteShape(w.reg)
      BY <1>1, <1>3, ShapesDiffer DEF IsRead
    <2>2. InForce(w)' = InForce(w)
      BY <1>3 DEF InForce
    <2>3. InForce(w) => Tells(a, w)
      BY <1>3 DEF InForce, Tells
    <2> QED BY <1>1, <2>1, <2>2, <2>3
  <1>4. CASE \E v \in BatchOf(f.call) :
                /\ IsWrite(f) /\ Encodes(v) /\ f.shape = WriteShape(v.reg) /\ f.val = v.val
                /\ v.reg \in Registers /\ Legal(v.reg, v.val)
                /\ device' = [device EXCEPT ![v.reg] = v.val]
                /\ wrote' = [wrote EXCEPT ![v.reg] = f.call]
                /\ DOMAIN a.regs = {v.reg} /\ a.regs[v.reg] = v.val
    <2>1. PICK v : /\ f.shape = WriteShape(v.reg) /\ f.val = v.val
                   /\ device' = [device EXCEPT ![v.reg] = v.val]
                   /\ DOMAIN a.regs = {v.reg} /\ a.regs[v.reg] = v.val
      BY <1>4
    <2>2. CASE v.reg = w.reg
      <3>1. v.val = w.val
        BY <1>1, <2>1, <2>2 DEF Effect, Own
      <3>2. InForce(w)'
        BY <1>2, <2>1, <2>2, <3>1 DEF InForce
      <3>3. Tells(a, w)
        BY <2>1, <2>2, <3>1 DEF Tells
      <3> QED BY <1>1, <3>2, <3>3
    <2>3. CASE v.reg # w.reg
      <3>1. InForce(w)' = InForce(w)
        BY <1>2, <2>1, <2>3 DEF InForce
      <3>2. Tells(a, w)
        BY <2>1, <2>3 DEF Tells
      <3>3. a.shape # WriteShape(w.reg)
        BY <1>1, <2>1, <2>3, ShapesDiffer
      <3> QED BY <1>1, <3>1, <3>2, <3>3
    <2> QED BY <2>2, <2>3
  <1> QED BY <1>1, <1>3, <1>4

\* An answer at the end of the queue
LEMMA Appended ==
    ASSUME NEW a \in ReplySet, Types, replies' = Append(replies, a)
    PROVE  ToSet(replies') = ToSet(replies) \cup {a} /\ replies' = replies \o <<a>>
  <1>1. replies' = replies \o <<a>> /\ <<a>> \in Seq(ReplySet)
    BY AppendIsConcat DEF Types
  <1>2. PICK t \in Seq(ReplySet) : t = <<a>> /\ ToSet(t) = {a}
    BY <1>1, SetOfOne
  <1>3. ToSet(replies \o t) = ToSet(replies) \cup ToSet(t)
    BY SetOfConcat DEF Types
  <1> QED BY <1>1, <1>2, <1>3

LEMMA InvertsKeepsEffect ==
    ASSUME OrderInv, EffectInv, script' = script, Inverts, NEW n \in DOMAIN calls,
           NEW w, AloneWith(n, w)'
    PROVE  Effect(n, w)'
  <1>1. AloneWith(n, w) /\ NoNews(w) /\ StillWaits(n, w)
    BY TransportIsNoNews
  <1>2. Effect(n, w) /\ w \in BatchOf(n) /\ Encodes(w)
    BY <1>1 DEF EffectInv, AloneWith
  <1>3. /\ InForce(w) => InForce(w)'
        /\ \E a \in ReplySet : /\ replies' = Append(replies, a)
                               /\ a.shape = WriteShape(w.reg) => InForce(w)'
    BY <1>2, InvertsInForce
  <1>4. \A p \in pending' \cup ToSet(wire') : Own(n, w, p)
    BY <1>1, <1>2, OwnStays
  <1>5. \A a \in ToSet(replies') : a.shape = WriteShape(w.reg) => InForce(w)'
    <2>1. PICK a \in ReplySet : /\ replies' = Append(replies, a)
                                /\ a.shape = WriteShape(w.reg) => InForce(w)'
      BY <1>3
    <2>2. ToSet(replies') = ToSet(replies) \cup {a}
      BY <2>1, Appended DEF OrderInv
    <2> QED BY <1>2, <1>3, <2>1, <2>2 DEF Effect
  <1>6. calls'[n].status # "failed" => Waits(w)' \/ InForce(w)'
    BY <1>1, <1>2, <1>3 DEF Effect, StillWaits
  <1> QED BY <1>4, <1>5, <1>6 DEF Effect, Own

\* A call that begins alone with a register has its write pending, and nothing else is on its
\* way for that register.
LEMMA ExecuteBegins ==
    ASSUME OrderInv, script' = script, NEW n \in DOMAIN script, Execute(n),
           NEW w, AloneWith(n, w)'
    PROVE  /\ Effect(n, w)' /\ Waits(w)' /\ calls'[n].status \in {"running", "failed"}
           /\ replies' = replies
  <1>1. /\ n = Len(calls) + 1 /\ Sends(Fresh(n), pending) /\ replies' = replies
        /\ calls'[n] = [contested |-> Contested(ShapesOf(Fresh(n))),
                        status |-> IF \A v \in BatchOf(n) : Encodes(v) THEN "running" ELSE "failed"]
    BY ExecuteIs DEF OrderInv
  <1>2. w \in BatchOf(n) /\ Encodes(w) /\ ~Contested(ShapesOf(Fresh(n)))
    BY <1>1 DEF AloneWith, BatchOf
  <1>3. n \in Nat /\ Functional(BatchOf(n)) /\ \A v \in BatchOf(n) : v \in Writes
    BY ScriptIs DEF OrderInv, Types
  <1>4. RequestOf(n, w) \in Fresh(n) /\ RequestOf(n, w).shape = WriteShape(w.reg)
    BY <1>2, <1>3, RequestIs DEF Fresh
  <1>5. WriteShape(w.reg) \in ShapesOf(Fresh(n))
    BY <1>4 DEF ShapesOf
  <1>6. /\ \A p \in pending \cup ToSet(wire) : p.shape # WriteShape(w.reg)
        /\ \A a \in ToSet(replies) : a.shape # WriteShape(w.reg)
    BY <1>2, <1>5 DEF Contested, UnderWay, ShapesOf
  <1>7. /\ pending' = {p \in pending : p.shape \notin ShapesOf(Fresh(n))} \cup Fresh(n)
        /\ ToSet(wire') = ToSet(wire) \cup Fresh(n)
    BY <1>1, ExecuteKeepsOrder DEF Sends
  <1>8. \A p \in Fresh(n) : Own(n, w, p)
    <2> SUFFICES ASSUME NEW p \in Fresh(n), p.shape = WriteShape(w.reg)
                 PROVE  p.call = n /\ p.val = w.val
      BY DEF Own
    <2>1. PICK v \in BatchOf(n) : p.shape = WriteShape(v.reg) /\ p.val = v.val
      BY FreshIs DEF OrderInv, Types
    <2>2. v = w
      BY <1>2, <1>3, <2>1, ShapesDiffer DEF Functional
    <2> QED BY <2>1, <2>2, FreshIs DEF OrderInv, Types
  <1>9. \A p \in pending' \cup ToSet(wire') : Own(n, w, p)
    BY <1>6, <1>7, <1>8 DEF Own
  <1>10. Waits(w)'
    BY <1>4, <1>7 DEF Waits
  <1>11. \A a \in ToSet(replies') : a.shape # WriteShape(w.reg)
    BY <1>1, <1>6
  <1>12. calls'[n].status \in {"running", "failed"}
    BY <1>1
  <1>13. Effect(n, w)'
    BY <1>9, <1>10, <1>11 DEF Effect, Own
  <1> QED BY <1>1, <1>10, <1>12, <1>13

\* Calls that return have nothing left to wait for.
LEMMA NextKeepsDone ==
    ASSUME OrderInv, Done, [Next]_vars
    PROVE  Done'
  <1>1. script' = script /\ \A n : BatchOf(n)' = BatchOf(n)
    BY DEF Next, vars, BatchOf
  <1>2. /\ DOMAIN calls = 1..Len(calls) /\ Len(calls) \in Nat /\ calls \in Seq(CallSet)
        /\ \A n \in DOMAIN calls : n # 0 /\ calls[n].status \in Statuses
    BY CallsAre DEF OrderInv, Types
  <1>3. Statuses = {"running", "failed", "ok", "reading", "shown"}
        /\ Succeeded = {"ok", "reading", "shown"}
    BY DEF Statuses, Succeeded
  \* Enough for a step in which no call begins
  <1>4. ASSUME SameCalls,
               \A n \in DOMAIN calls :
                  /\ calls'[n].status # "failed" => calls[n].status # "failed"
                  /\ calls'[n].status \in Succeeded => n \notin Callers(pending')
        PROVE  Done'
    <2>1. DOMAIN calls' = DOMAIN calls
      BY <1>2, <1>4, SetOfSeq DEF SameCalls
    <2> QED BY <1>1, <1>4, <2>1 DEF Done, Callers
  <1>5. \A n \in DOMAIN calls : calls[n].status \in Succeeded => n \notin Callers(pending)
    BY DEF Done
  <1>6. ASSUME NEW n \in DOMAIN script, Execute(n) PROVE Done'
    <2>1. /\ n = Len(calls) + 1 /\ BatchOf(n) # {} /\ Sends(Fresh(n), pending) /\ Keeps(n)
          /\ calls' \in Seq(CallSet) /\ Len(calls') = n
          /\ calls'[n] = [contested |-> Contested(ShapesOf(Fresh(n))),
                          status |-> IF \A v \in BatchOf(n) : Encodes(v)
                                     THEN "running" ELSE "failed"]
      BY <1>6, ExecuteIs DEF OrderInv
    <2>2. DOMAIN calls' = DOMAIN calls \cup {n} /\ \A m \in DOMAIN calls : m \in 1..(n - 1)
      BY <1>2, <2>1, SetOfSeq
    <2>3. pending' \subseteq pending \cup Fresh(n) /\ \A p \in Fresh(n) : p.call = n
      BY <2>1, FreshIs DEF Sends, OrderInv, Types
    <2>4. ASSUME NEW m \in DOMAIN calls
          PROVE  /\ calls'[m].status # "failed" => \A w \in BatchOf(m) : Encodes(w)
                 /\ calls'[m].status \in Succeeded => m \notin Callers(pending')
      <3>1. calls'[m].status \in {calls[m].status, "failed"} /\ m # n /\ m \in 1..(n - 1)
        BY <1>2, <2>1, <2>2 DEF Keeps
      <3>2. m \in Callers(pending') => m \in Callers(pending)
        BY <2>3, <3>1 DEF Callers
      <3> QED BY <1>3, <3>1, <3>2 DEF Done
    <2>5. /\ calls'[n].status # "failed" => \A w \in BatchOf(n) : Encodes(w)
          /\ calls'[n].status \notin Succeeded
      BY <1>3, <2>1
    <2> QED BY <1>1, <2>1, <2>2, <2>4, <2>5 DEF Done, Callers
  <1>7. ASSUME NEW p \in pending, Retry(p) PROVE Done'
    <2>1. /\ Again(p).call = p.call /\ Sends({Again(p)}, pending \ {p})
          /\ calls' = Fail(calls, Callers({q \in pending \ {p} : q.shape = p.shape}))
      BY <1>7, RetryIs DEF OrderInv
    <2>2. Callers(pending') \subseteq Callers(pending)
      BY <2>1 DEF Callers, Sends
    <2>3. \A n \in 1..Len(calls) : calls'[n].status \in {calls[n].status, "failed"}
      BY <1>2, <2>1, FailIs
    <2>4. SameCalls
      BY <1>1, <1>7, RetryKeepsOrder
    <2> QED BY <1>2, <1>3, <1>4, <1>5, <2>2, <2>3, <2>4
  <1>8. CASE StartFull
    <2>1. Sends({Asking(b) : b \in Blocks}, pending) /\ Progress("ok", "reading") /\ SameCalls
      BY <1>1, <1>8, StartFullIs, StartFullKeepsOrder DEF OrderInv
    <2>2. Callers(pending') \subseteq Callers(pending) \cup {0}
      BY <2>1, SettingsRequestsIs DEF Callers, Sends, Updater
    <2>3. \A n \in 1..Len(calls) :
             calls'[n].status = IF calls[n].status = "ok" THEN "reading" ELSE calls[n].status
      BY <1>3, <2>1, ProgressIs DEF OrderInv
    <2> QED BY <1>2, <1>3, <1>4, <1>5, <2>1, <2>2, <2>3
  <1>9. ASSUME NEW m \in DOMAIN calls, ExecuteOk(m) PROVE Done'
    <2>1. /\ m \notin Callers(pending) /\ pending' = pending /\ calls[m].status = "running"
          /\ calls' = [calls EXCEPT ![m].status = "ok"]
      BY <1>9 DEF ExecuteOk
    <2>2. SameCalls
      BY <1>1, <1>9, StatusKeepsOrder
    <2>3. ASSUME NEW n \in DOMAIN calls
          PROVE  /\ calls'[n].status # "failed" => calls[n].status # "failed"
                 /\ calls'[n].status \in Succeeded => n \notin Callers(pending')
      <3>1. CASE n = m
        BY <2>1, <3>1
      <3>2. CASE n # m
        BY <1>5, <2>1, <3>2
      <3> QED BY <3>1, <3>2
    <2> QED BY <1>4, <2>2, <2>3
  <1>10. ASSUME NEW numbers, calls' = Fail(calls, numbers), pending' \subseteq pending, SameCalls
         PROVE  Done'
    <2>1. \A n \in 1..Len(calls) : calls'[n].status \in {calls[n].status, "failed"}
      BY <1>2, <1>10, FailIs
    <2>2. Callers(pending') \subseteq Callers(pending)
      BY <1>10 DEF Callers
    <2> QED BY <1>2, <1>3, <1>4, <1>5, <1>10, <2>1, <2>2
  <1>11. ASSUME NEW m \in DOMAIN calls, ExecuteTimeout(m) PROVE Done'
    <2>1. calls' = Fail(calls, {m}) /\ pending' \subseteq pending
      BY <1>11 DEF ExecuteTimeout
    <2>2. SameCalls
      BY <1>1, <1>11, StatusKeepsOrder
    <2> QED BY <1>10, <2>1, <2>2
  <1>12. ASSUME NEW p \in pending, GiveUp(p) PROVE Done'
    <2>1. calls' = Fail(calls, {p.call}) /\ pending' \subseteq pending
      BY <1>12 DEF GiveUp
    <2>2. SameCalls
      BY <1>1, <1>12, StatusKeepsOrder
    <2> QED BY <1>10, <2>1, <2>2
  <1>13. ASSUME AcceptTrustedPlant \/ RefuseData PROVE Done'
    <2>1. pending' = pending /\ (Progress("reading", "shown") \/ Progress("reading", "ok"))
      BY <1>13 DEF AcceptTrustedPlant, RefuseData
    <2>2. SameCalls
      BY <1>1, <1>13, StatusKeepsOrder
    <2>3. \A n \in 1..Len(calls) :
             \/ calls'[n].status = calls[n].status
             \/ calls[n].status = "reading" /\ calls'[n].status \in {"shown", "ok"}
      BY <1>3, <2>1, ProgressIs DEF OrderInv
    <2> QED BY <1>2, <1>3, <1>4, <1>5, <2>1, <2>2, <2>3
  <1>14. ASSUME calls' = calls, pending' \subseteq pending PROVE Done'
    <2>1. Callers(pending') \subseteq Callers(pending)
      BY <1>14 DEF Callers
    <2>2. SameCalls
      BY <1>2, <1>14 DEF SameCalls
    <2> QED BY <1>4, <1>5, <1>14, <2>1, <2>2
  <1>15. CASE StartPartial \/ FrameLost \/ ReplyLost \/ Inverts \/ Receive \/ UNCHANGED vars
    BY <1>14, <1>15 DEF StartPartial, FrameLost, ReplyLost, Inverts, Receive, vars
  <1> QED BY <1>6, <1>7, <1>8, <1>9, <1>11, <1>12, <1>13, <1>15 DEF Next

\* A call is alone with a register because it begins, or was so before the step.
LEMMA NextIsNoNews ==
    ASSUME OrderInv, EffectInv, [Next]_vars, NEW n \in DOMAIN calls, NEW w, AloneWith(n, w)'
    PROVE  AloneWith(n, w) /\ NoNews(w) /\ (StillWaits(n, w) \/ Receive)
  <1>1. script' = script
    BY DEF Next, vars
  <1>2. ASSUME NEW m \in DOMAIN script, Execute(m)
        PROVE  AloneWith(n, w) /\ NoNews(w) /\ StillWaits(n, w)
    BY <1>1, <1>2, ExecuteIsNoNews
  <1>3. ASSUME NEW p \in pending, Retry(p)
        PROVE  AloneWith(n, w) /\ NoNews(w) /\ StillWaits(n, w)
    BY <1>1, <1>3, RetryIsNoNews
  <1>4. CASE StartFull
    BY <1>1, <1>4, StartFullIsNoNews
  <1>5. CASE \/ \E m \in DOMAIN calls : ExecuteOk(m) \/ ExecuteTimeout(m)
             \/ \E p \in pending : GiveUp(p)
             \/ StartPartial \/ AcceptTrustedPlant \/ RefuseData \/ UNCHANGED vars
    BY <1>1, <1>5, StatusIsNoNews
  <1>6. CASE FrameLost \/ ReplyLost \/ Inverts
    BY <1>1, <1>6, TransportIsNoNews
  <1>7. CASE Receive
    BY <1>1, <1>7, ReceiveIsNoNews
  <1> QED BY <1>2, <1>3, <1>4, <1>5, <1>6, <1>7 DEF Next

LEMMA NewCall ==
    ASSUME OrderInv, [Next]_vars, NEW n \in DOMAIN calls', n \notin DOMAIN calls
    PROVE  n \in DOMAIN script /\ Execute(n)
  <1>1. script' = script
    BY DEF Next, vars
  <1>2. ASSUME NEW m \in DOMAIN script, Execute(m) PROVE n = m
    <2>1. m = Len(calls) + 1 /\ calls' \in Seq(CallSet) /\ Len(calls') = m
      BY <1>2, ExecuteIs DEF OrderInv
    <2>2. DOMAIN calls' = 1..m /\ DOMAIN calls = 1..Len(calls) /\ Len(calls) \in Nat
      BY <2>1, SetOfSeq, CallsAre DEF OrderInv
    <2> QED BY <2>1, <2>2
  <1>3. ~SameCalls
    <2>1. SameCalls => DOMAIN calls' = DOMAIN calls
      BY SetOfSeq, CallsAre DEF SameCalls, OrderInv
    <2> QED BY <2>1
  <1>4. ASSUME NEW p \in pending, Retry(p) PROVE SameCalls
    BY <1>1, <1>4, RetryKeepsOrder
  <1>5. StartFull => SameCalls
    BY <1>1, StartFullKeepsOrder
  <1>6. (\/ \E m \in DOMAIN calls : ExecuteOk(m) \/ ExecuteTimeout(m)
         \/ \E p \in pending : GiveUp(p)
         \/ StartPartial \/ AcceptTrustedPlant \/ RefuseData \/ UNCHANGED vars) => SameCalls
    BY <1>1, StatusKeepsOrder
  <1>7. Receive \/ ReplyLost => SameCalls
    BY <1>1, RepliesKeepOrder
  <1>8. FrameLost => SameCalls
    BY <1>1, FrameLostKeepsOrder
  <1>9. Inverts => SameCalls
    BY <1>1, InvertsKeepsOrder
  <1> QED BY <1>2, <1>3, <1>4, <1>5, <1>6, <1>7, <1>8, <1>9 DEF Next

LEMMA NextKeepsEffect ==
    ASSUME OrderInv, EffectInv, [Next]_vars
    PROVE  EffectInv'
  <1>1. script' = script
    BY DEF Next, vars
  <1>2. ASSUME NEW n \in DOMAIN calls', NEW w \in BatchOf(n)', AloneWith(n, w)'
        PROVE  Effect(n, w)'
    <2>1. CASE n \notin DOMAIN calls
      BY <1>1, <1>2, <2>1, NewCall, ExecuteBegins
    <2>2. CASE n \in DOMAIN calls /\ Inverts
      BY <1>1, <1>2, <2>2, InvertsKeepsEffect
    <2>3. CASE n \in DOMAIN calls /\ ~Inverts
      <3>1. AloneWith(n, w) /\ NoNews(w) /\ (StillWaits(n, w) \/ Receive)
        BY <1>2, <2>3, NextIsNoNews
      <3> QED BY <2>3, <3>1, EffectStays
    <2> QED BY <2>1, <2>2, <2>3
  <1>3. Done'
    BY NextKeepsDone DEF EffectInv
  <1> QED BY <1>2, <1>3 DEF EffectInv

(***************************************************************************)
(* Steps keep what is read back                                            *)
(***************************************************************************)
LEMMA BlocksCover ==
    ASSUME NEW r \in Nat, r < 120
    PROVE  \E b \in Blocks : InBlock(b, r)
  BY DEF Blocks, InBlock

\* What a step does to the reads of a refresh
ReadsStay(w) == Reads(w) => Reads(w)'
PlantStays == cache' = cache /\ shown' = shown

\* A step that touches neither answers nor the plant
LEMMA QuietReads ==
    ASSUME NEW n, NEW w, ReadBack(n, w), StillWaits(n, w), ReadsStay(w), PlantStays,
           replies' = replies,
           calls'[n].status \in {calls[n].status, "failed", "running", "ok"}
              \/ (calls'[n].status = "reading" /\ Reads(w)')
    PROVE  ReadBack(n, w)'
  <1>1. Chain(replies', TellsAfter(w))
    BY DEF ReadBack
  <1>2. calls'[n].status # "failed" /\ ~Waits(w)' => \A a \in ToSet(replies') : Tells(a, w)
    BY DEF ReadBack, StillWaits
  <1>3. calls'[n].status = "reading" /\ w.reg < 120 => cache'[w.reg] = w.val \/ Reads(w)'
    BY DEF ReadBack, ReadsStay, PlantStays
  <1>4. calls'[n].status = "shown" /\ w.reg < 120
        => cache'[w.reg] = w.val /\ shown'[w.reg] = w.val
    BY DEF ReadBack, PlantStays
  <1> QED BY <1>1, <1>2, <1>3, <1>4 DEF ReadBack, TellsAfter, Tells

LEMMA ExecuteKeepsReads ==
    ASSUME OrderInv, script' = script, NEW m \in DOMAIN script, Execute(m),
           NEW n \in DOMAIN calls, NEW w, StillWaits(n, w), ReadBack(n, w)
    PROVE  ReadBack(n, w)'
  <1>1. /\ m = Len(calls) + 1 /\ Sends(Fresh(m), pending) /\ Keeps(m)
        /\ replies' = replies /\ PlantStays
    BY ExecuteIs DEF OrderInv, plantVars, PlantStays
  <1>2. n \in 1..(m - 1)
    BY <1>1, CallsAre DEF OrderInv
  <1>3. calls'[n].status \in {calls[n].status, "failed"}
    BY <1>1, <1>2 DEF Keeps
  <1>4. \A p \in Fresh(m) : \A b : p.shape # ReadShape(b)
    BY FreshIs, ShapesDiffer DEF OrderInv, Types
  <1>5. ReadsStay(w)
    BY <1>1, <1>4 DEF Sends, ShapesOf, Reads, ReadsStay
  <1> QED BY <1>1, <1>3, <1>5, QuietReads

LEMMA RetryKeepsReads ==
    ASSUME OrderInv, script' = script, NEW p \in pending, Retry(p),
           NEW n \in DOMAIN calls, NEW w, StillWaits(n, w), ReadBack(n, w)
    PROVE  ReadBack(n, w)'
  <1>1. /\ Again(p).shape = p.shape /\ Sends({Again(p)}, pending \ {p})
        /\ calls' = Fail(calls, Callers({q \in pending \ {p} : q.shape = p.shape}))
        /\ replies' = replies /\ PlantStays
    BY RetryIs DEF OrderInv, plantVars, PlantStays
  <1>2. calls'[n].status \in {calls[n].status, "failed"}
    <2>1. calls \in Seq(CallSet) /\ n \in 1..Len(calls)
      BY CallsAre DEF OrderInv, Types
    <2> QED BY <1>1, <2>1, FailIs
  <1>3. pending' = {q \in pending \ {p} : q.shape # p.shape} \cup {Again(p)}
    BY <1>1 DEF Sends, ShapesOf
  <1>4. ReadsStay(w)
    BY <1>1, <1>3 DEF Reads, ReadsStay
  <1> QED BY <1>1, <1>2, <1>4, QuietReads

\* A full refresh asks for every block.
LEMMA StartFullKeepsReads ==
    ASSUME OrderInv, script' = script, StartFull,
           NEW n \in DOMAIN calls, NEW w \in BatchOf(n), StillWaits(n, w), ReadBack(n, w)
    PROVE  ReadBack(n, w)'
  <1>1. /\ Sends({Asking(b) : b \in Blocks}, pending) /\ Progress("ok", "reading")
        /\ replies' = replies /\ PlantStays
    BY StartFullIs DEF OrderInv, PlantStays
  <1>2. \A b \in Blocks : Asking(b) \in pending' /\ Asking(b).shape = ReadShape(b)
    BY <1>1, SettingsRequestsIs DEF Sends
  <1>3. calls'[n].status = IF calls[n].status = "ok" THEN "reading" ELSE calls[n].status
    <2>1. "reading" \in Statuses /\ n \in 1..Len(calls)
      BY CallsAre DEF OrderInv, Statuses
    <2> QED BY <1>1, <2>1, ProgressIs DEF OrderInv
  <1>4. w.reg \in Nat
    BY CallsAre DEF OrderInv
  <1>5. w.reg < 120 => Reads(w)'
    BY <1>2, <1>4, BlocksCover DEF Reads
  <1>6. calls'[n].status = "reading" /\ w.reg < 120 => cache'[w.reg] = w.val \/ Reads(w)'
    BY <1>5
  <1>7. Chain(replies', TellsAfter(w))
    BY <1>1 DEF ReadBack
  <1>8. calls'[n].status # "failed" /\ ~Waits(w)' => \A a \in ToSet(replies') : Tells(a, w)
    BY <1>1 DEF ReadBack, StillWaits
  <1>9. calls'[n].status = "shown" /\ w.reg < 120
        => cache'[w.reg] = w.val /\ shown'[w.reg] = w.val
    BY <1>1, <1>3 DEF ReadBack, PlantStays
  <1> QED BY <1>6, <1>7, <1>8, <1>9 DEF ReadBack, TellsAfter, Tells

\* Requests that wait for the registers of a block are the refresh's.
LEMMA ReadersAre ==
    ASSUME OrderInv, NEW p \in pending, NEW b \in Blocks, p.shape = ReadShape(b)
    PROVE  p.call = Updater
  BY ShapesDiffer DEF OrderInv, Asked, IsRead, IsWrite

LEMMA StatusKeepsReads ==
    ASSUME OrderInv, script' = script,
           \/ \E m \in DOMAIN calls : ExecuteOk(m) \/ ExecuteTimeout(m)
           \/ \E p \in pending : GiveUp(p)
           \/ StartPartial \/ UNCHANGED vars,
           NEW n \in DOMAIN calls, NEW w, StillWaits(n, w), ReadBack(n, w)
    PROVE  ReadBack(n, w)'
  <1>1. replies' = replies /\ PlantStays
    BY DEF ExecuteOk, ExecuteTimeout, GiveUp, StartPartial, vars, plantVars, PlantStays
  <1>2. n \in 1..Len(calls) /\ calls \in Seq(CallSet) /\ \A m \in DOMAIN calls : m # Updater
    BY CallsAre DEF OrderInv, Types, Updater
  <1>3. ASSUME NEW m \in DOMAIN calls, ExecuteOk(m)
        PROVE  ReadsStay(w) /\ calls'[n].status \in {calls[n].status, "ok"}
    <2>1. calls' = [calls EXCEPT ![m].status = "ok"] /\ pending' = pending
      BY <1>3 DEF ExecuteOk
    <2>2. ReadsStay(w)
      BY <2>1 DEF Reads, ReadsStay
    <2>3. calls'[n].status \in {calls[n].status, "ok"}
      BY <2>1
    <2> QED BY <2>2, <2>3
  <1>4. ASSUME NEW m \in DOMAIN calls, ExecuteTimeout(m)
        PROVE  ReadsStay(w) /\ calls'[n].status \in {calls[n].status, "failed"}
    <2>1. calls' = Fail(calls, {m}) /\ pending' = {p \in pending : p.call # m}
      BY <1>4 DEF ExecuteTimeout
    <2>2. calls'[n].status \in {calls[n].status, "failed"}
      BY <1>2, <2>1, FailIs
    <2>3. \A p \in pending, b \in Blocks : p.shape = ReadShape(b) => p \in pending'
      BY <1>2, <2>1, ReadersAre
    <2>4. ReadsStay(w)
      BY <2>3 DEF Reads, ReadsStay
    <2> QED BY <2>2, <2>4
  <1>5. ASSUME NEW p \in pending, GiveUp(p)
        PROVE  ReadsStay(w) /\ calls'[n].status \in {calls[n].status, "failed"}
    <2>1. calls' = Fail(calls, {p.call}) /\ pending' = pending \ {p} /\ p.call # Updater
      BY <1>5 DEF GiveUp
    <2>2. calls'[n].status \in {calls[n].status, "failed"}
      BY <1>2, <2>1, FailIs
    <2>3. \A b \in Blocks : p.shape # ReadShape(b)
      BY <2>1, ReadersAre
    <2>4. ReadsStay(w)
      BY <2>1, <2>3 DEF Reads, ReadsStay
    <2> QED BY <2>2, <2>4
  <1>6. StartPartial \/ UNCHANGED vars => ReadsStay(w) /\ calls'[n].status = calls[n].status
    BY DEF StartPartial, vars, Reads, ReadsStay
  <1>7. ReadsStay(w) /\ calls'[n].status \in {calls[n].status, "failed", "running", "ok"}
    BY <1>3, <1>4, <1>5, <1>6
  <1> QED BY <1>1, <1>7, QuietReads

\* What was read is published, and what is published is what the cache goes back to.
LEMMA PublishKeepsReads ==
    ASSUME OrderInv, script' = script, AcceptTrustedPlant \/ RefuseData,
           NEW n \in DOMAIN calls, NEW w, StillWaits(n, w), ReadBack(n, w)
    PROVE  ReadBack(n, w)'
  <1>1. /\ replies' = replies /\ pending' = pending /\ Updater \notin Callers(pending)
    BY DEF AcceptTrustedPlant, RefuseData, Answered
  <1>2. n \in 1..Len(calls)
    BY CallsAre DEF OrderInv
  <1>3. ~Reads(w)
    BY <1>1, ReadersAre DEF Reads, Callers
  <1>4. Chain(replies', TellsAfter(w))
    BY <1>1 DEF ReadBack
  <1>5. calls'[n].status # "failed" /\ ~Waits(w)' => \A a \in ToSet(replies') : Tells(a, w)
    BY <1>1 DEF ReadBack, StillWaits
  <1>6. CASE AcceptTrustedPlant
    <2>1. Progress("reading", "shown") /\ cache' = cache /\ shown' = cache
      BY <1>6 DEF AcceptTrustedPlant
    <2>2. calls'[n].status = IF calls[n].status = "reading" THEN "shown" ELSE calls[n].status
      BY <1>2, <2>1, ProgressIs DEF OrderInv, Statuses
    <2>3. calls'[n].status # "reading"
      BY <2>2
    <2>4. calls'[n].status = "shown" /\ w.reg < 120
          => cache'[w.reg] = w.val /\ shown'[w.reg] = w.val
      BY <1>3, <2>1, <2>2 DEF ReadBack
    <2> QED BY <1>4, <1>5, <2>3, <2>4 DEF ReadBack, TellsAfter, Tells
  <1>7. CASE RefuseData
    <2>1. Progress("reading", "ok") /\ cache' \in {cache, shown} /\ shown' = shown
      BY <1>7 DEF RefuseData, Restored
    <2>2. calls'[n].status = IF calls[n].status = "reading" THEN "ok" ELSE calls[n].status
      BY <1>2, <2>1, ProgressIs DEF OrderInv, Statuses
    <2>3. calls'[n].status # "reading"
      BY <2>2
    <2>4. calls'[n].status = "shown" /\ w.reg < 120
          => cache'[w.reg] = w.val /\ shown'[w.reg] = w.val
      BY <2>1, <2>2 DEF ReadBack
    <2> QED BY <1>4, <1>5, <2>3, <2>4 DEF ReadBack, TellsAfter, Tells
  <1> QED BY <1>6, <1>7

\* Frames and answers that are lost
LEMMA LossKeepsReads ==
    ASSUME OrderInv, script' = script, FrameLost \/ ReplyLost,
           NEW n \in DOMAIN calls, NEW w, ReadBack(n, w)
    PROVE  ReadBack(n, w)'
  <1>1. calls' = calls /\ pending' = pending /\ cache' = cache /\ shown' = shown
    BY DEF FrameLost, ReplyLost, plantVars
  <1>2. replies' = replies \/ (replies # <<>> /\ replies' = Tail(replies))
    BY DEF FrameLost, ReplyLost
  <1>3. Chain(replies', TellsAfter(w)) /\ ToSet(replies') \subseteq ToSet(replies)
    <2>1. replies \in Seq(ReplySet) /\ Chain(replies, TellsAfter(w))
      BY DEF ReadBack, OrderInv, Types
    <2>2. CASE replies' = replies
      BY <2>1, <2>2
    <2>3. CASE replies # <<>> /\ replies' = Tail(replies)
      <3>1. PICK X : X = TellsAfter(w)
        OBVIOUS
      <3>2. Chain(Tail(replies), X)
        BY <2>1, <2>3, <3>1, ChainTail
      <3>3. ToSet(Tail(replies)) \subseteq ToSet(replies)
        BY <2>1, <2>3, Dequeued
      <3> QED BY <2>3, <3>1, <3>2, <3>3
    <2> QED BY <1>2, <2>2, <2>3
  <1> QED BY <1>1, <1>3 DEF ReadBack, Waits, Reads, TellsAfter, Tells

\* The inverter answers with what it holds.
LEMMA InvertsKeepsReads ==
    ASSUME OrderInv, script' = script, Inverts, NEW n \in DOMAIN calls, NEW w \in BatchOf(n),
           Encodes(w), Effect(n, w), ReadBack(n, w)
    PROVE  ReadBack(n, w)'
  <1>1. calls' = calls /\ pending' = pending /\ cache' = cache /\ shown' = shown
    BY DEF Inverts, plantVars
  <1>2. /\ InForce(w) => InForce(w)'
        /\ \E a \in ReplySet : /\ replies' = Append(replies, a)
                               /\ a.shape = WriteShape(w.reg) => InForce(w)'
                               /\ InForce(w)' => Tells(a, w)
    BY InvertsInForce
  <1>3. PICK a \in ReplySet : /\ replies' = Append(replies, a)
                              /\ a.shape = WriteShape(w.reg) => InForce(w)'
                              /\ InForce(w)' => Tells(a, w)
    BY <1>2
  <1>4. ToSet(replies') = ToSet(replies) \cup {a} /\ replies' = replies \o <<a>>
    BY <1>3, Appended DEF OrderInv
  <1>5. replies \in Seq(ReplySet) /\ ToSet(replies) \subseteq ReplySet
    BY SetOfSeq DEF OrderInv, Types
  <1>6. \A x \in ToSet(replies) : <<x, a>> \in TellsAfter(w)
    <2> SUFFICES ASSUME NEW x \in ToSet(replies), x.shape = WriteShape(w.reg) PROVE Tells(a, w)
      BY <1>5 DEF TellsAfter
    <2>1. InForce(w)
      BY DEF Effect
    <2> QED BY <1>2, <1>3, <2>1
  <1>7. Chain(replies', TellsAfter(w))
    <2>1. PICK t : t = <<a>>
      OBVIOUS
    <2>2. t \in Seq(ReplySet) /\ ToSet(t) = {a}
      BY <2>1, SetOfOne
    <2>3. Chain(t, TellsAfter(w))
      BY <2>1, ChainOne
    <2>4. Chain(replies \o t, TellsAfter(w))
      BY <1>5, <1>6, <2>2, <2>3, ChainConcat DEF ReadBack
    <2> QED BY <1>4, <2>1, <2>4
  <1>8. calls'[n].status # "failed" /\ ~Waits(w)' => \A x \in ToSet(replies') : Tells(x, w)
    <2> SUFFICES ASSUME calls'[n].status # "failed", ~Waits(w)'
                 PROVE  \A x \in ToSet(replies') : Tells(x, w)
      OBVIOUS
    <2>1. calls[n].status # "failed" /\ ~Waits(w)
      BY <1>1 DEF Waits
    <2>2. InForce(w)
      BY <2>1 DEF Effect
    <2> QED BY <1>2, <1>3, <1>4, <2>1, <2>2 DEF ReadBack
  <1> QED BY <1>1, <1>7, <1>8 DEF ReadBack, Reads, TellsAfter, Tells

\* The consumer's cache takes what the answer tells.
LEMMA ReceiveKeepsReads ==
    ASSUME OrderInv, Done, script' = script, Receive, NEW n \in DOMAIN calls, NEW w \in BatchOf(n),
           Effect(n, w), ReadBack(n, w)
    PROVE  ReadBack(n, w)'
  <1> DEFINE a == Head(replies)
  <1>1. /\ replies # <<>> /\ replies' = Tail(replies) /\ calls' = calls /\ shown' = shown
        /\ pending' = {p \in pending : ~Answers(p, a)} /\ cache' = Update(cache, a.regs)
    BY DEF Receive
  <1>2. /\ a \in ReplySet /\ ToSet(replies) = {a} \cup ToSet(replies')
        /\ Chain(replies', TellsAfter(w)) /\ \A x \in ToSet(replies') : <<a, x>> \in TellsAfter(w)
    BY <1>1, Dequeued, ChainTail DEF OrderInv, Types, ReadBack
  <1> HIDE DEF a
  <1>3. w.reg \in RegistersFor(script) /\ w.reg \in Nat /\ w.reg \in Registers
    BY CallsAre DEF OrderInv, Types, Registers
  <1>4. cache'[w.reg] = IF w.reg \in DOMAIN a.regs THEN a.regs[w.reg] ELSE cache[w.reg]
    BY <1>1, <1>2, <1>3, UpdateIs DEF OrderInv
  <1>5. calls[n].status # "failed" /\ ~Waits(w)' => \A x \in ToSet(replies') : Tells(x, w)
    <2>1. CASE ~Waits(w)
      BY <1>2, <2>1 DEF ReadBack
    <2>2. CASE Waits(w) /\ ~Waits(w)'
      <3>1. a.shape = WriteShape(w.reg)
        BY <1>1, <2>2 DEF Waits, Answers
      <3> QED BY <1>2, <3>1 DEF TellsAfter
    <2> QED BY <2>1, <2>2
  <1>6. calls[n].status \in {"reading", "shown"} => Tells(a, w)
    <2> SUFFICES ASSUME calls[n].status \in {"reading", "shown"} PROVE Tells(a, w)
      OBVIOUS
    <2>1. n \notin Callers(pending)
      BY DEF Done, Succeeded
    <2>2. ~Waits(w)
      BY <2>1 DEF Waits, Callers, Effect, Own
    <2> QED BY <1>2, <2>2 DEF ReadBack
  <1>7. ASSUME calls[n].status = "reading", w.reg < 120
        PROVE  cache'[w.reg] = w.val \/ Reads(w)'
    <2>1. CASE w.reg \in DOMAIN a.regs
      BY <1>4, <1>6, <1>7, <2>1 DEF Tells
    <2>2. CASE w.reg \notin DOMAIN a.regs
      <3>1. cache[w.reg] = w.val \/ Reads(w)
        BY <1>7 DEF ReadBack
      <3>2. ASSUME NEW p \in pending, NEW b \in Blocks, InBlock(b, w.reg), p.shape = ReadShape(b)
            PROVE  p \in pending'
        <4>1. IsAnswer(a)
          BY <1>2 DEF OrderInv, Answering
        <4>2. a.shape # ReadShape(b)
          BY <1>3, <2>2, <3>2, <4>1, ShapesDiffer DEF IsAnswer
        <4> QED BY <1>1, <3>2, <4>2 DEF Answers
      <3> QED BY <1>4, <2>2, <3>1, <3>2 DEF Reads
    <2> QED BY <2>1, <2>2
  <1>8. calls[n].status = "shown" /\ w.reg < 120
        => cache'[w.reg] = w.val /\ shown'[w.reg] = w.val
    BY <1>1, <1>4, <1>6 DEF ReadBack, Tells
  <1> QED BY <1>1, <1>2, <1>5, <1>7, <1>8 DEF ReadBack, TellsAfter, Tells

\* A call that begins is still to be answered.
LEMMA ExecuteBeginsReads ==
    ASSUME OrderInv, script' = script, NEW n \in DOMAIN script, Execute(n),
           NEW w, AloneWith(n, w)'
    PROVE  ReadBack(n, w)'
  <1>1. Waits(w)' /\ calls'[n].status \in {"running", "failed"} /\ replies' = replies
    BY ExecuteBegins
  <1>2. ~Contested(ShapesOf(Fresh(n)))
    <2>1. calls'[n] = [contested |-> Contested(ShapesOf(Fresh(n))),
                       status |-> IF \A v \in BatchOf(n) : Encodes(v) THEN "running" ELSE "failed"]
      BY ExecuteIs DEF OrderInv
    <2> QED BY <2>1 DEF AloneWith
  <1>3. WriteShape(w.reg) \in ShapesOf(Fresh(n))
    <2>1. w \in BatchOf(n) /\ Encodes(w) /\ w \in Writes /\ n \in Nat
      BY ScriptIs DEF AloneWith, BatchOf, OrderInv, Types
    <2> QED BY <2>1, RequestIs DEF Fresh, ShapesOf
  <1>4. \A a \in ToSet(replies) : a.shape # WriteShape(w.reg)
    BY <1>2, <1>3 DEF Contested, UnderWay, ShapesOf
  <1>5. Chain(replies', TellsAfter(w))
    <2>1. replies \in Seq(ReplySet) /\ ToSet(replies) \subseteq ReplySet
      BY SetOfSeq DEF OrderInv, Types
    <2>2. \A i \in 1..Len(replies) : replies[i] \in ToSet(replies)
      BY <2>1, SetOfSeq DEF ToSet
    <2>3. \A x, y \in ToSet(replies) : <<x, y>> \in TellsAfter(w)
      BY <1>4, <2>1 DEF TellsAfter
    <2> QED BY <1>1, <2>2, <2>3 DEF Chain
  <1> QED BY <1>1, <1>5 DEF ReadBack, TellsAfter, Tells

LEMMA NextKeepsReads ==
    ASSUME OrderInv, EffectInv, ReadInv, [Next]_vars
    PROVE  ReadInv'
  <1>1. script' = script
    BY DEF Next, vars
  <1>2. ASSUME NEW n \in DOMAIN calls', NEW w \in BatchOf(n)', AloneWith(n, w)'
        PROVE  ReadBack(n, w)'
    <2>1. CASE n \notin DOMAIN calls
      BY <1>1, <1>2, <2>1, NewCall, ExecuteBeginsReads
    <2>2. CASE n \in DOMAIN calls
      <3>1. AloneWith(n, w) /\ NoNews(w) /\ (StillWaits(n, w) \/ Receive)
        BY <1>2, <2>2, NextIsNoNews
      <3>2. /\ w \in BatchOf(n) /\ Encodes(w) /\ Effect(n, w) /\ ReadBack(n, w) /\ Done
        BY <3>1 DEF AloneWith, EffectInv, ReadInv
      <3>3. CASE Receive
        BY <1>1, <2>2, <3>2, <3>3, ReceiveKeepsReads
      <3>4. CASE Inverts
        BY <1>1, <2>2, <3>2, <3>4, InvertsKeepsReads
      <3>5. CASE FrameLost \/ ReplyLost
        BY <1>1, <2>2, <3>2, <3>5, LossKeepsReads
      <3>6. CASE StillWaits(n, w)
        <4>1. ASSUME NEW m \in DOMAIN script, Execute(m) PROVE ReadBack(n, w)'
          BY <1>1, <2>2, <3>2, <3>6, <4>1, ExecuteKeepsReads
        <4>2. ASSUME NEW p \in pending, Retry(p) PROVE ReadBack(n, w)'
          BY <1>1, <2>2, <3>2, <3>6, <4>2, RetryKeepsReads
        <4>3. CASE StartFull
          BY <1>1, <2>2, <3>2, <3>6, <4>3, StartFullKeepsReads
        <4>4. CASE \/ \E m \in DOMAIN calls : ExecuteOk(m) \/ ExecuteTimeout(m)
                   \/ \E p \in pending : GiveUp(p)
                   \/ StartPartial \/ UNCHANGED vars
          BY <1>1, <2>2, <3>2, <3>6, <4>4, StatusKeepsReads
        <4>5. CASE AcceptTrustedPlant \/ RefuseData
          BY <1>1, <2>2, <3>2, <3>6, <4>5, PublishKeepsReads
        <4> QED BY <3>3, <3>4, <3>5, <4>1, <4>2, <4>3, <4>4, <4>5 DEF Next
      <3> QED BY <3>1, <3>3, <3>6
    <2> QED BY <2>1, <2>2
  <1> QED BY <1>2 DEF ReadInv

(***************************************************************************)
(* One call after the other                                                *)
(***************************************************************************)
\* What a step in which the inverter takes no frame leaves as it is
LEMMA WroteStays ==
    ASSUME OrderInv, [Next]_vars, ~Inverts
    PROVE  device' = device /\ wrote' = wrote
  <1>1. script' = script
    BY DEF Next, vars
  <1>2. ASSUME NEW n \in DOMAIN script, Execute(n) PROVE wrote' = wrote
    BY <1>1, <1>2, ExecuteKeepsOrder
  <1>3. ASSUME NEW p \in pending, Retry(p) PROVE wrote' = wrote
    BY <1>1, <1>3, RetryKeepsOrder
  <1>4. StartFull => wrote' = wrote
    BY <1>1, StartFullKeepsOrder
  <1>5. (\/ \E m \in DOMAIN calls : ExecuteOk(m) \/ ExecuteTimeout(m)
         \/ \E p \in pending : GiveUp(p)
         \/ StartPartial \/ AcceptTrustedPlant \/ RefuseData \/ UNCHANGED vars) => wrote' = wrote
    BY <1>1, StatusKeepsOrder
  <1>6. Receive \/ ReplyLost => wrote' = wrote
    BY <1>1, RepliesKeepOrder
  <1>7. FrameLost => wrote' = wrote
    BY <1>1, FrameLostKeepsOrder
  <1>8. wrote' = wrote
    BY <1>2, <1>3, <1>4, <1>5, <1>6, <1>7 DEF Next
  <1> QED BY <1>8, DeviceStays

LEMMA NextKeepsProvenance ==
    ASSUME OrderInv, Provenance, [Next]_vars
    PROVE  Provenance'
  <1>1. \A n : BatchOf(n)' = BatchOf(n)
    BY DEF Next, vars, BatchOf
  <1>2. CASE ~Inverts
    BY <1>1, <1>2, WroteStays DEF Provenance, Registers
  <1>3. CASE Inverts
    <2>1. PICK f \in ToSet(wire) :
             \/ UNCHANGED <<device, wrote>>
             \/ \E w \in BatchOf(f.call) :
                   /\ IsWrite(f) /\ w.reg \in Registers
                   /\ device' = [device EXCEPT ![w.reg] = w.val]
                   /\ wrote' = [wrote EXCEPT ![w.reg] = f.call]
      BY <1>3, InvertsIs
    <2>2. CASE UNCHANGED <<device, wrote>>
      BY <1>1, <2>2 DEF Provenance, Registers
    <2>3. CASE \E w \in BatchOf(f.call) :
                  /\ IsWrite(f) /\ w.reg \in Registers
                  /\ device' = [device EXCEPT ![w.reg] = w.val]
                  /\ wrote' = [wrote EXCEPT ![w.reg] = f.call]
      <3>1. PICK w \in BatchOf(f.call) :
               /\ IsWrite(f) /\ w.reg \in Registers
               /\ device' = [device EXCEPT ![w.reg] = w.val]
               /\ wrote' = [wrote EXCEPT ![w.reg] = f.call]
        BY <2>3
      <3>2. f.call # 0
        BY <3>1, CallsAre DEF IsWrite, OrderInv
      <3>3. Registers' = Registers /\ DOMAIN device = Registers /\ DOMAIN wrote = Registers
        BY <3>1 DEF Registers, OrderInv, Types
      <3> SUFFICES ASSUME NEW r \in Registers
                   PROVE  IF wrote'[r] = 0 THEN device'[r] = Factory(r)
                          ELSE \E v \in BatchOf(wrote'[r]) : v.reg = r /\ device'[r] = v.val
        BY <1>1, <3>3 DEF Provenance
      <3>4. CASE r = w.reg
        BY <3>1, <3>2, <3>3, <3>4
      <3>5. CASE r # w.reg
        BY <3>1, <3>3, <3>5 DEF Provenance
      <3> QED BY <3>4, <3>5
    <2> QED BY <2>1, <2>2, <2>3
  <1> QED BY <1>2, <1>3

\* A frame leaves the wire only to the inverter, or lost.
LEMMA WireKeeps ==
    ASSUME OrderInv, [Next]_vars, ~Inverts, ~FrameLost
    PROVE  ToSet(wire) \subseteq ToSet(wire') /\ lost' = lost
  <1>1. script' = script
    BY DEF Next, vars
  <1>2. ASSUME NEW n \in DOMAIN script, Execute(n)
        PROVE  ToSet(wire) \subseteq ToSet(wire') /\ lost' = lost
    <2>1. lost' = lost
      BY <1>2, ExecuteIs DEF OrderInv, faultVars
    <2> QED BY <1>1, <1>2, <2>1, ExecuteKeepsOrder
  <1>3. ASSUME NEW p \in pending, Retry(p)
        PROVE  ToSet(wire) \subseteq ToSet(wire') /\ lost' = lost
    <2>1. lost' = lost
      BY <1>3 DEF Retry
    <2> QED BY <1>1, <1>3, <2>1, RetryKeepsOrder
  <1>4. StartFull => ToSet(wire) \subseteq ToSet(wire') /\ lost' = lost
    <2>1. StartFull => lost' = lost
      BY DEF StartFull, faultVars
    <2> QED BY <1>1, <2>1, StartFullKeepsOrder
  <1>5. ASSUME \/ \E m \in DOMAIN calls : ExecuteOk(m) \/ ExecuteTimeout(m)
               \/ \E p \in pending : GiveUp(p)
               \/ StartPartial \/ AcceptTrustedPlant \/ RefuseData \/ UNCHANGED vars
        PROVE  wire' = wire /\ lost' = lost
    BY <1>5 DEF ExecuteOk, ExecuteTimeout, GiveUp, StartPartial, AcceptTrustedPlant, RefuseData,
                vars, faultVars
  <1>6. Receive \/ ReplyLost => wire' = wire /\ lost' = lost
    BY DEF Receive, ReplyLost, faultVars
  <1> QED BY <1>2, <1>3, <1>4, <1>5, <1>6 DEF Next

LEMMA NextKeepsArrives ==
    ASSUME OrderInv, Arrives, [Next]_vars
    PROVE  Arrives'
  <1>1. script' = script /\ \A n : BatchOf(n)' = BatchOf(n)
    BY DEF Next, vars, BatchOf
  <1> SUFFICES ASSUME NEW n \in DOMAIN calls', NEW w \in BatchOf(n), Encodes(w), n \notin lost'
               PROVE  \/ wrote'[w.reg] >= n
                      \/ \E f \in ToSet(wire') : f.call = n /\ f.shape = WriteShape(w.reg)
    BY <1>1 DEF Arrives
  <1>2. CASE n \notin DOMAIN calls
    <2>1. n \in DOMAIN script /\ Execute(n)
      BY <1>2, NewCall
    <2>2. ToSet(wire') = ToSet(wire) \cup Fresh(n)
      BY <1>1, <2>1, ExecuteKeepsOrder
    <2>3. n \in Nat /\ w \in Writes
      BY <2>1, ScriptIs DEF OrderInv, Types
    <2>4. /\ RequestOf(n, w) \in Fresh(n) /\ RequestOf(n, w).shape = WriteShape(w.reg)
          /\ RequestOf(n, w).call = n
      BY <2>3, RequestIs DEF Fresh
    <2> QED BY <2>2, <2>4
  <1>3. CASE n \in DOMAIN calls
    <2>1. /\ w.reg \in Registers /\ n \in Nat
          /\ wrote \in [Registers -> 0..Len(calls)] /\ Len(calls) \in Nat
      BY <1>3, CallsAre DEF OrderInv, Types, Registers
    <2>2. CASE ~Inverts /\ ~FrameLost
      <3>1. ToSet(wire) \subseteq ToSet(wire') /\ lost' = lost /\ wrote' = wrote
        BY <2>2, WireKeeps, WroteStays
      <3> QED BY <1>3, <3>1 DEF Arrives
    <2>3. CASE FrameLost
      <3>1. /\ wire # <<>> /\ wire' = Tail(wire) /\ lost' = lost \cup {Head(wire).call}
            /\ wrote' = wrote
        BY <2>3 DEF FrameLost, deviceVars
      <3>2. ToSet(wire) = {Head(wire)} \cup ToSet(wire')
        BY <3>1, HeadIs
      <3>3. n \notin lost /\ Head(wire).call # n
        BY <3>1
      <3> QED BY <1>3, <3>1, <3>2, <3>3 DEF Arrives
    <2>4. CASE Inverts
      <3>1. wire # <<>> /\ wire' = Tail(wire) /\ lost' = lost
        BY <2>4 DEF Inverts, faultVars
      <3>2. ToSet(wire) = {Head(wire)} \cup ToSet(wire')
        BY <3>1, HeadIs
      <3>3. wrote'[w.reg] >= wrote[w.reg]
        BY <1>1, <2>1, <2>4, InvertsKeepsOrder DEF Onward
      <3>4. CASE wrote[w.reg] >= n
        <4>1. wrote[w.reg] \in Nat /\ wrote'[w.reg] \in Nat
          <5>1. Registers' = Registers /\ wrote' \in [Registers' -> 0..Len(calls')] /\ Len(calls') \in Nat
            <6>1. OrderInv' /\ script' = script
              BY <1>1, <2>4, InvertsKeepsOrder
            <6> QED BY <6>1, SetOfSeq DEF OrderInv, Types, Registers
          <5> QED BY <2>1, <5>1
        <4> QED BY <2>1, <3>3, <3>4, <4>1
      <3>5. CASE \E f \in ToSet(wire) : f.call = n /\ f.shape = WriteShape(w.reg)
        <4>1. CASE Head(wire).call = n /\ Head(wire).shape = WriteShape(w.reg)
          <5>1. wrote'[w.reg] = n
            <6>1. PICK f \in ToSet(wire) :
                     /\ f = Head(wire)
                     /\ \/ IsRead(f)
                        \/ \E v \in BatchOf(f.call) :
                              /\ f.shape = WriteShape(v.reg)
                              /\ wrote' = [wrote EXCEPT ![v.reg] = f.call]
              BY <2>4, InvertsIs
            <6>2. ~IsRead(f)
              BY <4>1, <6>1, ShapesDiffer DEF IsRead
            <6>3. PICK v : /\ f.shape = WriteShape(v.reg)
                           /\ wrote' = [wrote EXCEPT ![v.reg] = f.call]
              BY <6>1, <6>2
            <6>4. v.reg = w.reg
              BY <4>1, <6>1, <6>3, ShapesDiffer
            <6> QED BY <2>1, <4>1, <6>1, <6>3, <6>4
          <5> QED BY <2>1, <5>1
        <4>2. CASE ~(Head(wire).call = n /\ Head(wire).shape = WriteShape(w.reg))
          BY <3>2, <3>5, <4>2
        <4> QED BY <4>1, <4>2
      <3> QED BY <1>3, <3>1, <3>4, <3>5 DEF Arrives
    <2> QED BY <2>2, <2>3, <2>4
  <1> QED BY <1>2, <1>3

ControlInv == OrderInv /\ EffectInv /\ ReadInv /\ Provenance /\ Arrives

LEMMA InitControl == Init => ControlInv
  <1> SUFFICES ASSUME Init PROVE ControlInv
    OBVIOUS
  <1>1. OrderInv
    BY InitOrder
  <1>2. calls = <<>> /\ DOMAIN calls = {}
    <2>1. calls = <<>>
      BY DEF Init
    <2> QED BY <2>1, <1>1, CallsAre DEF OrderInv
  <1>3. EffectInv /\ ReadInv /\ Arrives
    BY <1>2 DEF EffectInv, Done, ReadInv, Arrives
  <1>4. Provenance
    <2>1. device = [r \in RegistersFor(script) |-> Factory(r)] /\ wrote = [r \in Registers |-> 0]
      BY DEF Init
    <2> QED BY <2>1 DEF Provenance, Registers
  <1> QED BY <1>1, <1>3, <1>4 DEF ControlInv

(***************************************************************************)
(* Theorems                                                                *)
(***************************************************************************)
\* The inductive invariant: requests and frames in the order of their calls; what becomes of a
\* write that is alone with its register, and of its read; who wrote what the inverter holds
THEOREM Invariance == Spec => []ControlInv
  <1>1. Init => ControlInv
    BY InitControl
  <1>2. ControlInv /\ [Next]_vars => ControlInv'
    BY NextKeepsOrder, NextKeepsEffect, NextKeepsReads, NextKeepsProvenance, NextKeepsArrives
       DEF ControlInv
  <1> QED BY <1>1, <1>2, PTL DEF Spec

\* Types, and that what the inverter holds can always be decoded and is written only in
\* registers that are safe to write (register.py).
THEOREM TypeCorrect == Spec => []TypeOK
  <1>1. ControlInv => TypeOK
    <2> SUFFICES ASSUME OrderInv PROVE TypeOK
      BY DEF ControlInv
    <2>1. /\ Registers = RegistersFor(script) /\ DOMAIN calls = 1..Len(calls) /\ Len(calls) \in Nat
          /\ \A n \in DOMAIN calls : calls[n] \in CallSet
      BY SetOfSeq, ElementOfSeq DEF OrderInv, Types, Registers
    <2>2. {device, cache, shown} \subseteq [Registers -> Word]
      BY <2>1 DEF OrderInv, Types
    <2>3. wrote \in [Registers -> {Updater} \cup DOMAIN calls]
      BY <2>1 DEF OrderInv, Types, Updater
    <2>4. ASSUME NEW p \in pending \cup ToSet(wire)
          PROVE  /\ p.call \in {Updater} \cup DOMAIN calls /\ p.shape \in Shapes
                 /\ p.tries \in 1..Tries /\ p.val \in Word
      <3>1. (IsRead(p) \/ IsWrite(p)) /\ p.tries \in 1..Tries
        BY DEF OrderInv, Asked
      <3>2. p \in RequestSet
        BY SetOfSeq DEF OrderInv, Types
      <3>3. p.val \in Word
        BY <3>2 DEF RequestSet
      <3>4. CASE IsRead(p)
        BY <3>1, <3>3, <3>4 DEF IsRead, Shapes
      <3>5. CASE IsWrite(p)
        <4>1. p.call \in DOMAIN script
          BY <2>1, <3>5, ScriptIs DEF IsWrite, OrderInv, Types
        <4>2. PICK w \in BatchOf(p.call) : p.shape = WriteShape(w.reg)
          BY <3>5 DEF IsWrite
        <4>3. w.reg \in Registers
          BY <2>1, <4>1, ScriptIs DEF OrderInv, Types
        <4> QED BY <3>1, <3>3, <3>5, <4>2, <4>3 DEF IsWrite, Shapes
      <3> QED BY <3>1, <3>4, <3>5
    <2>5. \A reply \in ToSet(replies) : reply.shape \in Shapes
      BY DEF OrderInv, Answering, IsAnswer, Shapes
    <2>6. \A n \in DOMAIN calls : calls[n].status \in Statuses
      BY <2>1 DEF CallSet
    <2>7. \A r \in Registers : wrote[r] # 0 => r \in WriteSafeRegisters
      BY DEF OrderInv, Settings
    <2>8. DataIsValid(device)
      BY LegalDecodes DEF OrderInv, Settings, Registers
    <2> QED BY <2>2, <2>3, <2>4, <2>5, <2>6, <2>7, <2>8 DEF TypeOK
  <1> QED BY <1>1, Invariance, PTL

\* No register goes back to a call older than the last that wrote it, whatever is retried,
\* replaced or lost (client.send_request_and_await_response, coordinator.execute).
THEOREM OlderNeverWins == Spec => OlderNeverOverwrites
  <1>1. ControlInv /\ [Next]_vars => [\A r \in Registers : wrote'[r] >= wrote[r]]_vars
    BY NextKeepsOrder DEF Onward, ControlInv
  <1> QED BY <1>1, Invariance, PTL DEF Spec, OlderNeverOverwrites

\* What a call that returned asked for, alone with its registers, is in force.
LEMMA Acknowledged ==
    ASSUME ControlInv, NEW n \in DOMAIN calls, calls[n].status \in Succeeded,
           NEW w \in BatchOf(n), AloneWith(n, w)
    PROVE  InForce(w) /\ ~Waits(w)
  <1>1. Effect(n, w) /\ n \notin Callers(pending) /\ calls[n].status # "failed"
    BY DEF ControlInv, EffectInv, Done, Succeeded
  <1>2. ~Waits(w)
    BY <1>1 DEF Waits, Effect, Own, Callers
  <1> QED BY <1>1, <1>2 DEF Effect

LEMMA AloneWithAll ==
    ASSUME ControlInv, NEW n \in DOMAIN calls, calls[n].status \in Succeeded, Alone(n)
    PROVE  \A w \in BatchOf(n) : AloneWith(n, w)
  <1> SUFFICES ASSUME NEW w \in BatchOf(n) PROVE AloneWith(n, w)
    OBVIOUS
  <1>1. Encodes(w)
    BY DEF ControlInv, EffectInv, Done, Succeeded
  <1>2. ASSUME NEW m \in DOMAIN calls, m > n, NEW v \in BatchOf(m) PROVE v.reg # w.reg
    <2>1. v.reg \in RegistersOf(script[m]) /\ w.reg \in RegistersOf(script[n])
      BY DEF BatchOf, RegistersOf
    <2> QED BY <1>2, <2>1 DEF Alone
  <1> QED BY <1>1, <1>2 DEF AloneWith, Alone

\* What a batch wrote is shown as it was meant.
LEMMA ShownAsMeant ==
    ASSUME ControlInv, NEW n \in DOMAIN calls, calls[n].status \in Succeeded,
           NEW raw, Holds(raw, BatchOf(n))
    PROVE  Shows(raw, script[n])
  <1>1. n \in DOMAIN script /\ \A w \in BatchOf(n) : w.reg \in WriteSafeRegisters
    BY CallsAre DEF ControlInv, OrderInv, EffectInv, Done, Succeeded, Encodes
  <1>2. Proper(script[n])
    BY <1>1, ScriptIs DEF ControlInv, OrderInv, Types
  <1>3. script[n].batch # <<>>
    BY SetOfNone DEF BatchOf, ControlInv, EffectInv, Done
  <1> QED BY <1>1, <1>2, <1>3 DEF Proper, BatchOf

\* A call that returns without an error has taken effect as the user meant it, whatever was
\* lost, retried, late or replaced beside it (coordinator.execute, commands.py).
THEOREM AcknowledgedIsInForce == Spec => []AcknowledgedTakesEffect
  <1>1. ControlInv => AcknowledgedTakesEffect
    <2> SUFFICES ASSUME ControlInv, NEW n \in DOMAIN calls, calls[n].status \in Succeeded, Alone(n)
                 PROVE  Shows(device, script[n])
      BY DEF AcknowledgedTakesEffect
    <2>1. \A w \in BatchOf(n) : AloneWith(n, w)
      BY AloneWithAll
    <2>2. \A w \in BatchOf(n) : InForce(w)
      BY <2>1, Acknowledged
    <2>3. Holds(device, BatchOf(n))
      BY <2>2 DEF Holds, InForce
    <2> QED BY <2>3, ShownAsMeant
  <1> QED BY <1>1, Invariance, PTL

\* Once a full refresh that began after the call is published, the entities show its effect
\* (coordinator._async_update_data, _accept_trusted_plant, _restore_client_to_trusted_snapshot).
THEOREM ShownIsAcknowledged == Spec => []ReadShowsAcknowledged
  <1>1. ControlInv => ReadShowsAcknowledged
    <2> SUFFICES ASSUME ControlInv, NEW n \in DOMAIN calls, calls[n].status = "shown", Alone(n)
                 PROVE  Shows(shown, script[n])
      BY DEF ReadShowsAcknowledged
    <2>1. calls[n].status \in Succeeded
      BY DEF Succeeded
    <2>2. \A w \in BatchOf(n) : ReadBack(n, w)
      BY <2>1, AloneWithAll DEF ControlInv, ReadInv
    <2>3. Holds(shown, BatchOf(n))
      BY <2>2 DEF Holds, ReadBack
    <2> QED BY <2>1, <2>3, ShownAsMeant
  <1> QED BY <1>1, Invariance, PTL

\* Calls that all succeed leave the inverter as if they had been carried out one after the
\* other (coordinator.execute, client.send_request_and_await_response).
THEOREM SuccessLeavesSerial == Spec => []SuccessIsSerial
  <1>1. ControlInv => SuccessIsSerial
    <2> SUFFICES ASSUME ControlInv, wire = <<>>,
                        \A n \in DOMAIN calls :
                           calls[n].status \in Succeeded /\ (calls[n].contested => n \notin lost)
                 PROVE  device = [r \in Registers |-> Serially(r)]
      BY DEF SuccessIsSerial
    <2> SUFFICES ASSUME NEW r \in Registers PROVE device[r] = Serially(r)
      <3>1. PICK S : S = Registers /\ S = DOMAIN device
        BY DEF Registers
      <3>2. device \in [RegistersFor(script) -> Word]
        BY DEF ControlInv, OrderInv, Types
      <3>3. S = RegistersFor(script)
        BY <3>1, <3>2
      <3> QED BY <3>1, <3>2, <3>3
    <2> DEFINE last(S) == CHOOSE n \in S : \A m \in S : m <= n
               writers == {n \in DOMAIN calls : r \in RegistersOf(script[n])}
    <2>1. /\ DOMAIN calls = 1..Len(calls) /\ Len(calls) \in Nat
          /\ \A n \in DOMAIN calls : n \in DOMAIN script /\ n \in Nat \ {0}
          /\ wrote[r] \in 0..Len(calls)
      BY CallsAre DEF ControlInv, OrderInv, Types, Registers
    <2>2. \A n \in DOMAIN calls : n \in writers <=> \E w \in BatchOf(n) : w.reg = r
      BY DEF BatchOf, RegistersOf
    <2>3. wrote[r] # 0 => wrote[r] \in writers
      BY <2>1, <2>2 DEF ControlInv, Provenance
    <2>4. CASE writers = {}
      <3>1. device[r] = Factory(r)
        BY <2>3, <2>4 DEF ControlInv, Provenance
      <3> QED BY <2>4, <3>1 DEF Serially
    <2>5. CASE writers # {}
      <3>1. PICK n : n = last(writers)
        OBVIOUS
      <3>2. n \in writers /\ \A m \in writers : m <= n
        <4>1. writers \subseteq 0..Len(calls)
          BY <2>1
        <4>2. PICK S : S = writers
          OBVIOUS
        <4>3. PICK x \in S : \A m \in S : m <= x
          BY <2>1, <2>5, <4>1, <4>2, Greatest
        <4> QED BY <3>1, <4>2, <4>3
      <3>3. n \in DOMAIN calls /\ n \in Nat \ {0} /\ n \in DOMAIN script
        BY <2>1, <3>2
      <3>4. PICK w \in BatchOf(n) : w.reg = r
        BY <2>2, <3>2, <3>3
      <3>5. calls[n].status \in Succeeded /\ Encodes(w)
        BY <3>3 DEF ControlInv, EffectInv, Done, Succeeded
      <3>6. device[r] = w.val
        <4>1. CASE n \notin lost
          <5>1. wrote[r] >= n
            BY <3>3, <3>4, <3>5, <4>1, SetOfNone DEF ControlInv, Arrives
          <5>2. wrote[r] = n
            BY <2>1, <2>3, <3>2, <3>3, <5>1
          <5>3. PICK v \in BatchOf(n) : v.reg = r /\ device[r] = v.val
            BY <3>3, <5>2 DEF ControlInv, Provenance
          <5>4. v = w
            BY <3>3, <3>4, <5>3, ScriptIs DEF Functional, ControlInv, OrderInv, Types
          <5> QED BY <5>3, <5>4
        <4>2. CASE n \in lost
          <5>1. ~calls[n].contested
            BY <3>3, <4>2
          <5>2. ASSUME NEW m \in DOMAIN calls, m > n, NEW v \in BatchOf(m) PROVE v.reg # r
            BY <2>1, <2>2, <3>2, <3>3, <5>2
          <5>3. AloneWith(n, w)
            BY <3>3, <3>4, <3>5, <5>1, <5>2 DEF AloneWith
          <5> QED BY <3>3, <3>4, <3>5, <5>3, Acknowledged DEF InForce
        <4> QED BY <4>1, <4>2
      <3>7. PICK b : b = script[n].batch /\ b \in Seq(Writes) /\ Functional(ToSet(b))
                     /\ ToSet(b) = BatchOf(n)
        BY <3>3, ScriptIs DEF ControlInv, OrderInv, Types, BatchOf
      <3>8. Serially(r) = b[last({i \in DOMAIN b : b[i].reg = r})].val
        BY <2>5, <3>1, <3>7 DEF Serially
      <3>9. b[last({i \in DOMAIN b : b[i].reg = r})] = w
        <4>1. /\ DOMAIN b = 1..Len(b) /\ Len(b) \in Nat /\ \A i \in DOMAIN b : b[i] \in ToSet(b)
          BY <3>7, SetOfSeq DEF ToSet
        <4>2. PICK S : S = {i \in DOMAIN b : b[i].reg = r}
          OBVIOUS
        <4>3. S \subseteq 0..Len(b) /\ S # {}
          BY <3>4, <3>7, <4>1, <4>2 DEF ToSet
        <4>4. PICK x \in S : \A m \in S : m <= x
          BY <4>1, <4>3, Greatest
        <4>5. last(S) \in S
          BY <4>4
        <4>6. b[last(S)].reg = r /\ b[last(S)] \in ToSet(b)
          <5>1. PICK y : y = last(S) /\ y \in S
            BY <4>5
          <5> QED BY <4>1, <4>2, <5>1
        <4>7. PICK v : v = b[last(S)]
          OBVIOUS
        <4>8. v = w
          BY <3>4, <3>7, <4>6, <4>7 DEF Functional
        <4> QED BY <4>2, <4>7, <4>8
      <3> QED BY <3>6, <3>8, <3>9
    <2> QED BY <2>4, <2>5
  <1> QED BY <1>1, Invariance, PTL

=============================================================================
