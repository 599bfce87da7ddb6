CONSTANTS
    Ips = {a, b}
    MaxStep = 2
    MaxFaults = 2
    QuickRestarts = TRUE
SPECIFICATION PoolSpec
INVARIANTS
    ExposedAreCurrent
