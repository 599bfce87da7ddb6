SPECIFICATION Spec
CONSTANTS
    g1 = g1 g2 = g2 g3 = g3 e1 = e1 e2 = e2 e3 = e3
    Groups <- Three
    GroupSize = 2
    ScoredGroups = {}
    ValueGroups <- Three
    GroupContext = FALSE
    MinGroupSize <- One
    Qualities <- FailedOrGood
    Weight <- OneEach
    BatchSize = 2
    EmptyLimit = 2
    MaxEmptyBatches = 2
    Warmup = 1
    MaxVersion = 0
    MaxSteps = 1
    EvalGroups = {}
    Epochs = {}
    Epoch <- NoEval
INVARIANTS
    EmptyBatchesAreConsecutive
CHECK_DEADLOCK FALSE
