SPECIFICATION Spec
CONSTANTS
    Records = 2
    QueueCapacity = 1
    WsVerbs = {"get_status"}
    IpcVerbs = {}
    MaxCommands = 1
    SignalPhases = {"poll"}
INVARIANTS
    StatusTruthful
PROPERTIES
    ReplayExits
    SignalExits
CHECK_DEADLOCK FALSE
