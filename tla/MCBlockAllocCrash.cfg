SPECIFICATION RestartSpec
CONSTANTS
    f1 = f1
    f2 = f2
    Files = {f1, f2}
    TotalBlocks = 5
    Reserved <- MCReserved
    Density = 3
    MaxFileBlocks = 3
    MaxCrashes = 1
INVARIANT CrashKeepsForksApart
PROPERTY AllocateReturns

