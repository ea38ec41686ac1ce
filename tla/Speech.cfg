SPECIFICATION Spec
CONSTANTS
    MaxStreams = 2
    MaxSlabs = 2
    Prebuffer = 1
    MaxTorn = 1
    MaxBreaks = 1
    StreamFaults = {"network", "stall", "memory", "gate", "driver", "write"}
    MaxSegments = 2
    PlayFaults = {"speaker", "download", "memory"}
    AudioMode = "auto"
    PcmTransport = "auto"
    LateReplies = {"segment", "play"}
    StreamErrors = {"OSError"}
INVARIANTS
    SpokenOnce
    SaidIsHeard
    StagedWhole
    SlabsFreed
    StreamHasSpeaker
    StreamMoves
PROPERTIES
    StreamIsSession
    SharesSpeaker
CHECK_DEADLOCK FALSE
