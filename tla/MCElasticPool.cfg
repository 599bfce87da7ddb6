CONSTANTS
    Ips = {a, b}
    MaxStep = 2
    MaxFaults = 2
    QuickRestarts = FALSE
SPECIFICATION FairPoolSpec
INVARIANTS
    PoolTypeOK
    ExposedAreCurrent
PROPERTY
    PoolConverges
