SPECIFICATION Spec
CONSTANTS
    MaxFrames = 3
    StartFrames = 2
    RingFrames = 3
    MaxSessions = 2
    StopRequests = TRUE
    HardwareFails = TRUE
INVARIANTS
    TypeOK
    PlaybackLedger
    PlayingOwnsSpeaker
PROPERTIES
    ImplementsSession
    SharesSpeaker
CHECK_DEADLOCK FALSE
