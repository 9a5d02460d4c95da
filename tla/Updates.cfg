SPECIFICATION Spec
CONSTANTS
    Satellites <- TwoSatellites
    MinSatellites = 2
    EnabledSets <- AllOrAllButOne
INVARIANTS
    OnlyEpochsLeaveCorrections
    ReportTruthful
    SensorsAsConfigured
CHECK_DEADLOCK FALSE
