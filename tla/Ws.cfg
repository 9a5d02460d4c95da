SPECIFICATION Spec
CONSTANTS
    Clients = {c1, c2}
    MaxClients = 1
    Requests = {"upgrade", "keyless", "page"}
    Frames = {"text", "control", "close"}
    MaxMessages = 3
    MaxBroadcasts = 1
    MaxStarts = 1
INVARIANTS
    AnswersMatch
    HandledInOrder
    OpenIsServed
PROPERTIES
    TextIsHandled
CHECK_DEADLOCK FALSE
