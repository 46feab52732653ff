SPECIFICATION Spec
CONSTANTS
    us = us
    Keys = {k1}
    Jurisdictions = {us}
    JurisdictionOf <- OneJurisdiction
    Workers = {w1, w2}
    Admins = {a1}
    Responses = {r1, r2, free}
    NeedsApproval = {r1, r2}
    Candidates = {x1}
    NONE = NONE
    MaxDepth = 1
    MaxAuthorities = 2
    PerJurisdictionCap = 1
    MaxActions = 2
CHECK_DEADLOCK FALSE
INVARIANTS TypeOK OneWorkerPerRow IngestedAsApproved TrailKept NothingStranded
SYMMETRY Symmetric
