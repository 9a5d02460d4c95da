SPECIFICATION Spec
CONSTANTS
    Producers = {p1, p2}
    Measurement = {m1, m2, m3}
    QueueCapacity = 2
    NumObservers = 2
    NoMeasurement = NoMeasurement
    EstimatorReset = EstimatorReset
    MaxStarts = 2
    MaxResets = 1
INVARIANTS
    NoLostWakeup
    StopDrains
    ObservedInOrder
PROPERTIES
    NoLateNotification
    ImplementsHandoff
    AcceptedIsDelivered
CHECK_DEADLOCK FALSE
