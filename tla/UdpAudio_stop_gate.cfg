SPECIFICATION Spec
CONSTANTS
    MaxFrames = 3
    StartFrames = 2
    RingFrames = 3
    MaxSessions = 1
    StopRequests = TRUE
    HardwareFails = FALSE
INVARIANTS
    MicMayResume
CHECK_DEADLOCK FALSE
