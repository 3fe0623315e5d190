SPECIFICATION Spec
CONSTANTS
    Keys = {1,2,3,4,5}
    a = a
    b = b
    Values = {a}
    LongKeys = {}
    Short = 1
    Long = 1
    KeyLength <- EqualLengths
    DataLength = 1
    PointerLength = 2
    NodeSpace = 6
    StartNodes = 4
    Clump = 2
    AllocateCan = {TRUE}
    MayRemove = {1,2,3,4,5}
    RemoveAbsent = TRUE
    MaxNodes = 7
    WordRange = 64
INVARIANTS TraverseConsistent LinearConsistent MapConsistent RecordsFit SearchFinds
PROPERTY TreeIsDictionary
