SPECIFICATION Spec
CHECK_DEADLOCK FALSE
CONSTANTS
    t1 = t1
    t2 = t2
    w1 = w1
    w2 = w2
    w3 = w3
    i1 = i1
    i2 = i2
    NoImport = NoImport
    NoReceipt = NoReceipt
    Missing = Missing
    Nobody = Nobody
    Sqlite = Sqlite
    Targets <- Schemas
    Writes <- SomeWrites
    ImportIds <- SomeIds
    MaxMedia = 1
SYMMETRY Interchangeable
INVARIANTS
    ImportIsExact
    CutoverInv
PROPERTIES
    StartsComplete
