CONSTANTS
    DefaultSteps = 3
    GradAccum = 2
    StepCounts = {0}
    Horizons = {0}
    EvalEverys = {0}
    kEvalEveryAuto = 99
    AutoParts = 10
    Patience = 0
    Splits = {0}
    CheckpointEvery = 1
    Losses = {0, 1, 2}
    Accuracy <- RiseAndFall
    MaxStep = 4
    MaxStarts = 3
    MinImprovement = 0
SPECIFICATION DeviceSpec
INVARIANT CommitsTheBits
CHECK_DEADLOCK FALSE
