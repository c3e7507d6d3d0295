CONSTANTS
    NumRules = 1
    Configs <- OneConfig
    FirstRows <- OneRule
    New = New
    Gone = Gone
    MaxEdits = 0
    Slots = {s1, s2}
    Values = {0, 1}
    BatchSize = 1
    MaxBatch = 2
    MaxAttempts = 2
    MaxSamples = 3
    MaxFaults = 2
SPECIFICATION Spec
INVARIANTS TypeOK ReleasedIsStored UnprocessedIsInFlight
PROPERTIES RefinesLedger
SYMMETRY SlotSymmetry
CHECK_DEADLOCK FALSE
