SPECIFICATION Spec
CONSTANTS
    CECount = 2
    PagesPerBlock = 1
    Chips <- MCChips
    Varied <- MCVaried
    FSStart = 1
    BootBlocks = 1
    LastBlocks = 1
    MaxBanks = 3
    Kernels <- MCKernels
    MaxStarts = 2
    MaxConnections = 2
CHECK_DEADLOCK FALSE
INVARIANTS HostReadsNand KernelLeftAsFound
PROPERTY ServesAgain
