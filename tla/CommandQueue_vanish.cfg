SPECIFICATION Spec
CONSTANTS
    MaxCommands = 1
    Unknown = {}
    MaxConnections = 2
    MaxTimeouts = 0
PROPERTIES
    OkMeansSent
CHECK_DEADLOCK FALSE
