SPECIFICATION Spec
CONSTANTS
    g1 = g1 g2 = g2 g3 = g3 e1 = e1 e2 = e2 e3 = e3
    Groups <- Three
    GroupSize = 2
    ScoredGroups = {}
    ValueGroups <- Two
    GroupContext = TRUE
    MinGroupSize <- G2NeedsTwo
    Qualities <- EachItsOwn
    Weight <- Uneven
    BatchSize = 3
    EmptyLimit = 3
    MaxEmptyBatches = 2
    Warmup = 1
    MaxVersion = 1
    MaxSteps = 2
    EvalGroups = {}
    Epochs = {}
    Epoch <- NoEval
INVARIANTS
    ShippedIsSound
CHECK_DEADLOCK FALSE
