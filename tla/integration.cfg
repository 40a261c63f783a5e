SPECIFICATION Spec
CONSTANTS
    Entries = {e1, e2}
    Inverter = e1
    Serials = {s1, s2}
    None = None
    Flows = {f1, f2}
    DayLength = 4
    LastTime = 6
    Slots <- MCSlots
    NoSlot = NoSlot
INVARIANTS TypeOK ServicesWhileLoaded OneListener UniqueInverters ShownIsCurrent TimersBelongToSensor
PROPERTIES ServicesLeaveWithLastEntry EntryKeepsInverter
CHECK_DEADLOCK FALSE
