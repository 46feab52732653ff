SPECIFICATION SpecApart
CONSTANTS
    Corpora = {c1}
    Dirs = {d1, d2}
    Names = {a}
    ExtIds = {}
    NoExt = NoExt
    Requests = {r1, r2}
    MaxDocs = 3
    MaxNodes = 5
    MaxSuffix = 1
CHECK_DEADLOCK FALSE
SYMMETRY ApartSymmetry
INVARIANTS
    OneHeadPerTree
    VersionIsDepth
PROPERTIES
    ImplementsFiles
