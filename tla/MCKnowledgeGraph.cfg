CONSTANTS
    Commits = {1, 2}
    Worlds <- MCWorlds
    Ticks = 2
    Window = 1
    PageSize = 1
    SaveEvery = 2
    MaxPerRun = 1
    MaxChanges = 2
    MaxFaults = 1
    Tagged = {1, 2}
    TagBatch = 1
SPECIFICATION Spec
INVARIANTS TypeOK  CheckpointMeansKept  TaggerSkipsNone
 
CHECK_DEADLOCK FALSE
