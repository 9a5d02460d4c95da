SPECIFICATION Spec
CONSTANTS
    Records = 1
    QueueCapacity = 1
    WsVerbs = {"stop"}
    IpcVerbs = {}
    MaxCommands = 1
    SignalPhases = {}
PROPERTIES
    StopCompletes
CHECK_DEADLOCK FALSE
