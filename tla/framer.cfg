SPECIFICATION Spec
CONSTANTS
    Marker <- MCMarker
    MinFrame = 5
    MaxLength = 6
    ReadMax = 9
    Messages <- MCMessages
    Faults <- MCFaults
    MaxMessages = 2
INVARIANTS TypeOK CleanStreamIsDelivered ResyncIsBounded BufferIsBounded ReadsAreGenuine
PROPERTIES PassesAdvance
CHECK_DEADLOCK FALSE
