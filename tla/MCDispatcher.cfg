CONSTANTS
    single = single
    scored = scored
    eval = eval
    TrainEnvs <- MCTrainEnvs
    EvalEnv = eval
    GroupSize <- MCGroupSize
    GroupScored = {scored}
    LiveEnvs <- MCTrainEnvs
    MaxInflight = 3
    MinOutCapacity = 3
    RateLimited = TRUE
    MaxOffPolicySteps = 0
    TargetLag = 1
    MaxSteps = 2
    CollectiveBroadcast = FALSE
    EvalSize = 1
    MaxTrainGroups = 2
    MaxTriggers = 1
SPECIFICATION Spec
INVARIANTS
    TypeOK
    PermitsMatchWork
    EveryRolloutOnce
    AlmostOnPolicy
CHECK_DEADLOCK FALSE
