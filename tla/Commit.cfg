CONSTANTS
    u1 = u1
    u2 = u2
    Updates = {u1, u2}
    Hashed = {u1}
    Names <- FileNames
    Inodes = 5
    NoFile = 0
    Garbage = {"garbage"}
    Blocks = 2
    MaxCommits = 2
    MaxKills = 1
    Free = Free
SPECIFICATION Spec
INVARIANTS
    SidecarIsItsEditors
    CommittedIsKept
    NoSidecarLeft
PROPERTY ImplementsAtomicFile
CHECK_DEADLOCK FALSE
