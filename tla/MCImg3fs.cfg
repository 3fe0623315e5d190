SPECIFICATION Spec
CONSTANTS
    t1 = t1
    t2 = t2
    Threads = {t1, t2}
    Values = {1}
    DataBlocks = 3
    Rest = 1
    Padding = 2
    RawBlocks = 2
    MaxElements = 4
    MaxMounts = 2
    MaxCalls = 3
CHECK_DEADLOCK FALSE
SYMMETRY ThreadSymmetry
INVARIANTS DataSurvives DeathCostsOneBlock OwnElement
