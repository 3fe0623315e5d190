SPECIFICATION RawFairSpec
CONSTANTS
    f1 = f1
    f2 = f2
    Files = {f1, f2}
    TotalBlocks = 5
    Reserved <- MCReserved
    Density = 3
    MaxFileBlocks = 3
    MaxCrashes = 0
    BlockSize = 2
    Bytes = {0, 1}
    Zero = 0
    Data = {1}
    Sizes = {0, 1, 3, 5}
    WordRange = 16
PROPERTIES ForksAreStrings CallsReturn
INVARIANTS AllocInv FreeCountExact NoBlockShared BitmapExact ReadBack
