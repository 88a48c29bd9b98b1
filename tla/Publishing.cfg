SPECIFICATION FairSpec
CONSTANTS
    Posts = {p1}
    Workers = {w1, w2}
    MaxAttempts = 2
    Slow = FALSE
    MaxDeaths = 1
    MaxRequests = 2
INVARIANTS
    TakenIsOnTheRow
    TriesAreCounted
    NothingGoesOutWithdrawn
PROPERTIES
    
    EveryPostEnds
CHECK_DEADLOCK FALSE
