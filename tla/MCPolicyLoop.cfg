SPECIFICATION FairSpec
CONSTANTS
    MaxSteps = 12
    Interval = 4
    KeepLast = 2
    Modes <- BothTransports
    MaxCrashes = 2
    Resumes = {"step", "agreed"}
INVARIANTS
    TypeOK
    StepsCoordinated
    NothingStaleAfterResume
PROPERTIES
    ResumePointKept
    RunCompletes
CHECK_DEADLOCK FALSE
