SPECIFICATION SpecApart
CONSTANTS
    Names = {a, b}
    Docs = {x}
    Requests = {r1}
    Elsewhere = Elsewhere
    MaxFolders = 3
SYMMETRY NameSymmetry
PROPERTIES RelocationKeepsPaths NoDocumentStranded
