CONSTANTS
    DefaultSteps = 4
    GradAccum = 2
    StepCounts = {0, 2}
    Horizons = {0}
    EvalEverys = {0, 99}
    kEvalEveryAuto = 99
    AutoParts = 2
    Patience = 0
    Splits = {0, 1, 2}
    CheckpointEvery = 1
    Losses = {0, 1, 2}
    Accuracy <- RiseAndFall
    MaxStep = 4
    MaxStarts = 3
    MinImprovement = 60
SPECIFICATION DeviceSpec
INVARIANTS
    ResumedIsUninterrupted
    OneSplit
    ReportScoresWhatShips
    OnlyImprovementsShip
    ValidatedCommitsTheBits
CHECK_DEADLOCK FALSE
