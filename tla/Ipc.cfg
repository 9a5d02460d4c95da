SPECIFICATION Spec
CONSTANTS
    Clients = {c1, c2}
    Slow = {c1}
    NumFds = 2
    MaxClients = 1
    MaxPieces = 2
    MaxBroadcasts = 2
    MaxStarts = 1
INVARIANTS
    ServedAreOpen
    OnlyDroppedLeaveBytes
PROPERTIES
    SentIsRead
    StopReturns
CHECK_DEADLOCK FALSE
