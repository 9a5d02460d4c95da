SPECIFICATION Spec
CONSTANTS
    Records = 1
    QueueCapacity = 1
    WsVerbs = {"start", "stop", "pause", "resume", "set_speed", "get_status", "configure"}
    IpcVerbs = {"start", "stop", "pause", "resume", "set_speed", "get_status", "get_schema", "configure", "unknown"}
    MaxCommands = 1
    SignalPhases = {"start", "poll"}
INVARIANTS
    ExitLeavesNothing
CHECK_DEADLOCK FALSE
