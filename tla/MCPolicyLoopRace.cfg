SPECIFICATION Spec
CONSTANTS
    MaxSteps = 5
    Interval = 2
    KeepLast = 2
    Modes <- Files
    MaxCrashes = 1
    Resumes = {"agreed"}
INVARIANT
    StepsCoordinated
CHECK_DEADLOCK FALSE
