SPECIFICATION Spec
CONSTANTS
    Names = {a, b}
    Docs = {x}
    Requests = {r1, r2}
    Elsewhere = Elsewhere
    MaxFolders = 2
SYMMETRY Symmetry
INVARIANTS TypeOK
PROPERTIES DocumentsKeepTheirFolder TrashKeepsItsPaths
