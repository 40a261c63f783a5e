SPECIFICATION Spec
CONSTANTS
    BatteryCapacity = 160
    InverterModel = "HYBRID"
    ArmFirmwareVersion = 312
    Times = {75, 1439}
    Percents = {0, 4, 5, 99, 100}
    Watts = {0, 1638, 3550}
    Scripts <- MCScripts
    Tries = 2
    MaxRefreshes = 3
    Budget = 5
INVARIANTS TypeOK AcknowledgedTakesEffect ReadShowsAcknowledged SuccessIsSerial
PROPERTIES OlderNeverOverwrites
CHECK_DEADLOCK FALSE
