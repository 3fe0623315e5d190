SPECIFICATION FairSpec
CONSTANTS
    Keys = {1,2,3,4,5}
    a = a
    b = b
    Values = {a}
    LongKeys = {2}
    Short = 1
    Long = 2
    KeyLength <- MixedLengths
    DataLength = 4
    PointerLength = 3
    NodeSpace = 12
    StartNodes = 9
    Clump = 2
    AllocateCan = {TRUE}
    MayRemove = {1, 3}
    RemoveAbsent = FALSE
    MaxNodes = 10
    WordRange = 64
PROPERTIES OthersKept CallReturns
