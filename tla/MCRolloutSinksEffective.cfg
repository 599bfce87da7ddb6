SPECIFICATION Spec
CONSTANTS
    g1 = g1 g2 = g2 g3 = g3 e1 = e1 e2 = e2 e3 = e3
    Groups <- Three
    GroupSize = 2
    ScoredGroups = {}
    ValueGroups <- Two
    GroupContext = FALSE
    MinGroupSize <- One
    Qualities <- AllGood
    Weight <- OneEach
    BatchSize = 3
    EmptyLimit = 3
    MaxEmptyBatches = 2
    Warmup = 0
    MaxVersion = 1
    MaxSteps = 1
    EvalGroups = {}
    Epochs = {}
    Epoch <- NoEval
INVARIANTS
    EffectiveIsShipped
CHECK_DEADLOCK FALSE
