SPECIFICATION CommandSpec
CONSTANTS
    a = a
    b = b
    Names = {a, b}
    NoName = NoName
    VolumeName = VolumeName
    LinkTexts <- MCLinkTexts
    HostFolders <- MCHostFolders
    Archives <- MCArchives
    Programs <- MCPrograms
    MaxRenames = 1
    MaxID = 5
    MaxPath = 3
    MaxWords = 7
INVARIANTS ThreadsMatch ValenceExact CountsExact KeysPresent DeathCostsOneRecord CommandDone
PROPERTY CatalogIsTree
