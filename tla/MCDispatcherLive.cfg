CONSTANTS
    single = single
    scored = scored
    eval = eval
    TrainEnvs <- JustScored
    EvalEnv = eval
    GroupSize <- MCGroupSize
    GroupScored = {scored}
    LiveEnvs <- JustScored
    MaxInflight = 3
    MinOutCapacity = 2
    RateLimited = TRUE
    MaxOffPolicySteps = 0
    TargetLag = 1
    MaxSteps = 3
    CollectiveBroadcast = TRUE
    EvalSize = 1
    MaxTrainGroups = 2
    MaxTriggers = 1
SPECIFICATION FairSpec
CHECK_DEADLOCK FALSE
PROPERTY EvalsAndDrainFinish
