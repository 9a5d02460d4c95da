CONSTANTS
    Times = {0, 1, 2, 3}
    MaxKeyframes = 2
    MaxImuBuffer = 2
    UpdateSpan = 2
    LongGap = 2
    MaxSamples = 2
SPECIFICATION Spec
INVARIANTS
    FactorsLinkKeyframes
    FactorWithinSpan
