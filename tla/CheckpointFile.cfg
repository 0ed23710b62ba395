CONSTANTS
    Names <- FileNames
    Writers <- SomeWriters
    Inodes = 7
    NoFile = 0
    Garbage = Garbage
    MaxSaves = 2
    MaxCuts = 1
SPECIFICATION Spec
INVARIANTS
    LoadsAreWhole
    SavedSurvives
PROPERTY ImplementsAtomicFile
CHECK_DEADLOCK FALSE
