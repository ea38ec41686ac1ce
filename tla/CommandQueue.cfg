SPECIFICATION FairSpec
CONSTANTS
    MaxCommands = 2
    Unknown = {2}
    MaxConnections = 3
    MaxTimeouts = 1
INVARIANTS
    TypeOK
    CurrentConnection
    QueuedIsKept
    RepeatedOnlyAfterFailure
PROPERTIES
    QueueDrains
    ZombieReaped
CHECK_DEADLOCK FALSE
