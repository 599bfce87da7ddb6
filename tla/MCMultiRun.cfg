SPECIFICATION FairRunsSpec
CONSTANTS
    NoRun = NoRun
    Ids = {r1, r2}
    MaxRuns = 2
    SeqLen = 2
    DpWorldSize = 1
    Batches <- MixedBatches
    MaxBatches = 2
    MaxLives = 1
INVARIANTS
    RunsTypeOK
    AdaptersMatchRuns
    StepsAreWhole
PROPERTIES
    LedgerSpec
    EveryBatchIsTrained
CHECK_DEADLOCK FALSE
