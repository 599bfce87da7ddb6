SPECIFICATION Spec
CONSTANTS
    MaxSteps = 5
    Interval = 2
    KeepLast = 2
    Modes <- Files
    MaxCrashes = 1
    Resumes = {"latest"}
INVARIANT
    SameResumePoint
CHECK_DEADLOCK FALSE
