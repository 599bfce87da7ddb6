CONSTANTS
    single = single
    scored = scored
    eval = eval
    TrainEnvs <- MCTrainEnvs
    EvalEnv = eval
    GroupSize <- MCGroupSize
    GroupScored = {scored}
    LiveEnvs <- MCTrainEnvs
    MaxInflight = 3
    MinOutCapacity = 8
    RateLimited = TRUE
    MaxOffPolicySteps = 0
    TargetLag = 1
    MaxSteps = 1
    CollectiveBroadcast = FALSE
    EvalSize = 1
    MaxTrainGroups = 2
    MaxTriggers = 1
SPECIFICATION Spec
CHECK_DEADLOCK FALSE
INVARIANT EvalsSurviveTheDrain
