SPECIFICATION Spec
CONSTANTS
    a = a
    b = b
    None = None
    Nodes = {a, b}
    LOG_BUFFER_LIMIT = 2
    LOG_VIEW_LIMIT = 3
    MaxLines = 4
    MaxSwitches = 3
    MaxFaults = 3
INVARIANTS
    TypeOK
    LogIsComplete
    OnlyTheFollowed
PROPERTIES
    LogCatchesUp
CHECK_DEADLOCK FALSE
