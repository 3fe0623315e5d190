SPECIFICATION Spec
CONSTANTS
    Chars = {"a", "b"}
    CompBlock = 3
    Buffer = 2
    InlineLimit = 2
    Inputs <- MCInputs
    Initial <- MCInitial
    MaxDeaths = 1
INVARIANTS FileIsOverlay ReadsTheFile AllOrNothing
PROPERTY CallsEnd
