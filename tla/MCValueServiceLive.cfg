CONSTANTS
    c1 = c1
    c2 = c2
    c3 = c3
    Clients <- MCPair
    Tokens <- MCPairTokens
    MaxPendingRequests = 2
    MaxPendingTokens = 3
    MaxBatchTokens = 3
    DoubleBuffer = FALSE
    MaxVersion = 1
SPECIFICATION FairSpec
PROPERTY EveryRequestAnswered
CHECK_DEADLOCK FALSE
