CONSTANTS
    NumSamples = 3
    RowsPerSample = 1
    Batch = 2
    MaxBatches = 4
    MaxPasses = 2
    MaxStart = 7
SPECIFICATION EvalSpec
INVARIANTS
    EverySampleIsScoredOnce
    EvaluationLeavesNoTrace
CHECK_DEADLOCK FALSE
