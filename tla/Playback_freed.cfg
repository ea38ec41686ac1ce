SPECIFICATION Spec
CONSTANTS
    MaxPlays = 3
    MaxMixedPlays = 3
    QueueDepth = 2
    MaxPcmSessions = 1
    MaxSegments = 2
    PcmSlots = 2
    MaxStreams = 1
    Faults = {"download"}
INVARIANT FreedIsNotPlayed
CHECK_DEADLOCK FALSE
