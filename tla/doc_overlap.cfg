SPECIFICATION Spec
CONSTANTS
    Corpora = {c1, c2}
    Dirs = {d1}
    Names = {a}
    ExtIds = {e}
    NoExt = NoExt
    Requests = {r1, r2}
    MaxDocs = 3
    MaxNodes = 4
    MaxSuffix = 1
CHECK_DEADLOCK FALSE
SYMMETRY OverlapSymmetry
INVARIANTS
    TypeOK
    VersionsCount
    CorpusIsolation
PROPERTIES
    HistoryImmutable
    HeadsAreReplaced
