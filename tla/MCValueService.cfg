CONSTANTS
    c1 = c1
    c2 = c2
    c3 = c3
    Clients <- MCClients
    Tokens <- MCTokens
    MaxPendingRequests = 2
    MaxPendingTokens = 3
    MaxBatchTokens = 3
    DoubleBuffer = TRUE
    MaxVersion = 1
SPECIFICATION Spec
INVARIANTS
    TypeOK
    PendingMatchesTickets
    AnswerIsCoherent
SYMMETRY MCSymmetry
CHECK_DEADLOCK FALSE
