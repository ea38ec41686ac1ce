SPECIFICATION StreamSpec
CONSTANTS
    MaxFrames = 2
    StartFrames = 2
    RingFrames = 2
    MaxSessions = 2
    StopRequests = FALSE
    HardwareFails = TRUE
    MaxDuplicates = 1
    PollMayGiveUp = FALSE
    NetworkStalls = FALSE
INVARIANTS
    GateReturned
    SuccessMeansHeard
CHECK_DEADLOCK FALSE
