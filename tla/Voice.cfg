SPECIFICATION MCSpec
CONSTANTS
    People = {p1}
    Rooms = {1, 2}
    Captures = {1, 2, 3}
    Delays = 3
    MaxTokens = 2
    MaxPlays = 2
CHECK_DEADLOCK FALSE
INVARIANTS
    VoicesConsistent
    RoomConsistent
    MicrophoneConsistent
PROPERTIES
    RecoveryEnds
    VoicesInEarshotAreHeard
