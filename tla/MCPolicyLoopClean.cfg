SPECIFICATION Spec
CONSTANTS
    MaxSteps = 5
    Interval = 2
    KeepLast = 2
    Modes <- FilesInFlight
    MaxCrashes = 0
    Resumes = {"step"}
INVARIANT
    LoadedWeightsAreThere
