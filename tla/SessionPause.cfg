SPECIFICATION Spec
CONSTANTS
    Records = 2
    QueueCapacity = 1
    WsVerbs = {"pause", "resume"}
    IpcVerbs = {}
    MaxCommands = 2
    SignalPhases = {"poll"}
INVARIANTS
    NoDeadlock
    NotTerminated
    IdleMeansStopped
    PausedIsWakeable
CHECK_DEADLOCK FALSE
