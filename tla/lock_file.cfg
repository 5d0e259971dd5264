SPECIFICATION Spec
CONSTANTS
    Proc = {p1, p2, p3}
    NoProc = NoProc
    Forces = {TRUE, FALSE}
    MaxInode = 2
SYMMETRY Symmetry
INVARIANT ExclusionUnlessOrphaned
INVARIANT LockFileHasUser
CHECK_DEADLOCK FALSE
