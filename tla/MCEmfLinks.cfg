SPECIFICATION Spec
CONSTANTS
    Blocks = 6
    WordRange = 100
    MaxClass = 5
    DKey = 4
    Volumes <- MCLinked
    Plists <- MCPlists
    MaxRuns = 3
CHECK_DEADLOCK FALSE
INVARIANT EveryFileOnce

