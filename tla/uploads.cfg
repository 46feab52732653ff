SPECIFICATION Spec
CONSTANTS
    Uploads = {u1}
    Batches = {b1, b2}
    Slots = {w1, w2}
    NULL = NULL
    BatchSize = 2
    BatchCap = 2
    MaxCrashes = 2
INVARIANTS TypeOK FileOutlivesUpload StatusTellsImport
PROPERTIES EveryPushSettles
