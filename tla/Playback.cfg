SPECIFICATION FairSpec
CONSTANTS
    MaxPlays = 5
    MaxMixedPlays = 3
    QueueDepth = 2
    MaxPcmSessions = 2
    MaxSegments = 3
    PcmSlots = 2
    MaxStreams = 1
    Faults = {"download", "speaker", "mic", "overdue"}
INVARIANTS
    DownloadToken
    SpeakerReadsBuffer
    SegmentsInOrder
    NoAcceptedPlayDropped
PROPERTIES
    MicResumeNotLost
    SharesSpeaker
    PlayOrder
    AcceptedPlayIsServed
CHECK_DEADLOCK FALSE
