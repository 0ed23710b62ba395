CONSTANTS
    NumSamples = 3
    RowsPerSample = 1
    Batch = 4
    MaxBatches = 5
SPECIFICATION FairSpec
INVARIANTS
    TypeOK
    StagingIsHandedOver
PROPERTIES
    ImplementsSerialFeed
    CallsReturn
CHECK_DEADLOCK FALSE
