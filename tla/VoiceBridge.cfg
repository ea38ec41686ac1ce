SPECIFICATION FairSpec
CONSTANTS
    PreFrames = 2
    MinFrames = 3
    MaxFrames = 4
    MaxCaptures = 2
    MaxRecordings = 2
    Attempts = 2
    MaxStops = 1
    MaxClears = 1
INVARIANTS
    GivenOutOnce
    WokenOnce
    NoneAcrossInit
PROPERTIES
    RecordingIsTaken
CHECK_DEADLOCK FALSE
