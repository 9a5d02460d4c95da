SPECIFICATION Spec
CONSTANTS
    MaxSamples = 2
    MaxSessions = 2
    MaxEvents = 4
    MaxConnects = 2
    MaxCommands = 1
INVARIANTS
    QuietAfterStop
    SamplesOfSession
PROPERTIES
    Reconnects
    StopReturns
CHECK_DEADLOCK FALSE
