SPECIFICATION StreamSpec
CONSTANTS
    MaxFrames = 3
    StartFrames = 2
    RingFrames = 3
    MaxSessions = 2
    StopRequests = FALSE
    HardwareFails = FALSE
    MaxDuplicates = 0
    PollMayGiveUp = TRUE
    NetworkStalls = FALSE
INVARIANTS
    NothingHeardIsNoSuccess
CHECK_DEADLOCK FALSE
