SPECIFICATION RunsSpec
CONSTANTS
    NoRun = NoRun
    Ids = {r1, r2}
    MaxRuns = 2
    SeqLen = 2
    DpWorldSize = 1
    Batches <- GoodBatches
    MaxBatches = 2
    MaxLives = 1
INVARIANT
    GradientsScaledOnce
CHECK_DEADLOCK FALSE
