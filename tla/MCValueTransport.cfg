CONSTANTS
    QueueCapacity = 3
    Limits = {1, 2, 3}
    MaxPublished = 7
    None = None
SPECIFICATION FairSpec
INVARIANTS
    TypeOK
    CountersConserveRollouts
PROPERTIES
    ImplementsFeed
    WaitingIsServed
CHECK_DEADLOCK FALSE
