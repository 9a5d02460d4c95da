SPECIFICATION Spec
CONSTANTS
    Stamps <- SteadyStamps
    AidingStamps <- MixedStamps
    WeekTicks = 10
    BufferSize = 2
    MinDt = 2
    MaxDt = 2
    Threshold = 1
INVARIANTS
    DueIsTaken
    ElapsedIsIntegrated
    NominalMeansAided
PROPERTIES
    CallReturns
CHECK_DEADLOCK FALSE
