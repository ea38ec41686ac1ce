SPECIFICATION FairStreamSpec
CONSTANTS
    MaxFrames = 3
    StartFrames = 2
    RingFrames = 2
    MaxSessions = 1
    StopRequests = FALSE
    HardwareFails = FALSE
    MaxDuplicates = 1
    PollMayGiveUp = TRUE
    NetworkStalls = TRUE
PROPERTIES
    SessionEnds
    MicComesBack
CHECK_DEADLOCK FALSE
