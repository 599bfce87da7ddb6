CONSTANTS
    small = small
    large = large
    BatchSize = 2
    Capacity = 4
    RefillSize = 3
    MaxUpdates = 2
    MaxAdmitted = 6
    Rollouts <- MCRollouts
    NumSamples <- MCNumSamples
    NumTokens <- MCNumTokens
SPECIFICATION FairSpec
INVARIANTS
    TypeOK
    GateIsConsistent
    RolloutsAccountedFor
    ReuseIsBounded
PROPERTIES
    DeparturesAreLegal
    DrainsWithoutArrivals
CHECK_DEADLOCK FALSE
