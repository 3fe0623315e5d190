SPECIFICATION Spec
CONSTANTS
    PagesPerSublk = 18
    TocEntriesPerPage = 9
    Lpns = {0, 9}
    NumBlocks = 5
    CtrlBlocks = {0, 1}
    TocArrayPages = 1
    Others = 1
    SameName = FALSE
    Filled = 15
    MaxWrites = 3
    MaxUsn = 5
    MaxStops = 2
CHECK_DEADLOCK FALSE
INVARIANTS ReadsNewest CarvesOldVersions
