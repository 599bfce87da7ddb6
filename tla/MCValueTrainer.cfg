SPECIFICATION FairSpec
CONSTANTS
    NumSamples <- OneEach
    NumTokens <- OneEach
    BatchSize = 2
    Capacity = 4
    RefillSize = 4
    MaxUpdates = 1
    Rollouts = {r}
    MaxAdmitted = 7
    Placements = {"trainer", "dedicated"}
    MaxSteps = 5
    ResumeSteps = {0, 2, 5}
    CkptInterval = 3
    Clients = {c1, c2}
INVARIANTS
    TypeOK
    NothingInVain
    LittleIsLost
PROPERTIES
    NobodyStarves
CHECK_DEADLOCK FALSE
