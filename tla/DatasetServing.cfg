CONSTANTS
    MaxSamples = 3
    RowsPerSample = 2
    Labels <- SomeLabels
    Classes = {0, 1, 2}
    Fractions <- SomeFractions
    Batches = {1, 2, 4}
    MaxServed = 8
SPECIFICATION ServingSpec
INVARIANTS
    PositionIsSerial
    VerdictIsCurrent
