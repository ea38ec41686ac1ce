SPECIFICATION FairSpec
CONSTANTS
    Clients = {"client"}
    MaxAnswers = 2
INVARIANTS
    SleepingIsKnown
PROPERTIES
    OwnPicture
    StopEnds
    TouchTakesOver
    ReactionsEnd
