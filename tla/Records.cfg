CONSTANTS
    QueueSize = 3
    BatchSize = 2
    RetentionAge = 1
    DeleteSize = 1
    MaxBatches = 2
    MaxTime = 4
    MaxFaults = 1
    MaxCommands = 2
SPECIFICATION Spec
INVARIANTS SamplesAreKept
PROPERTIES LastSeenIsRight RowsComeAndGo
CHECK_DEADLOCK FALSE
