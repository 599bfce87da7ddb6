SPECIFICATION Spec
CONSTANTS
    g1 = g1 g2 = g2 g3 = g3 e1 = e1 e2 = e2 e3 = e3
    Groups <- Three
    GroupSize = 2
    ScoredGroups <- JustG1
    ValueGroups <- Two
    GroupContext = FALSE
    MinGroupSize <- G2NeedsTwo
    Qualities <- EachItsOwn
    Weight <- Uneven
    BatchSize = 3
    EmptyLimit = 3
    MaxEmptyBatches = 2
    Warmup = 1
    MaxVersion = 1
    MaxSteps = 2
    EvalGroups = {e1, e2, e3}
    Epochs = {1, 2}
    Epoch <- TwoEpochs
INVARIANTS
    TypeOK
    ReportedOnce
    ShippedIsSound
    EpochsAreWhole
SYMMETRY FirstEpoch
CHECK_DEADLOCK FALSE
