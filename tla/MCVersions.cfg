SPECIFICATION FairSpec
CONSTANTS
    Requests = {r1, r2}
    Limit = 4
INVARIANTS TypeOK CounterCoversLogs GeneratesOnce
PROPERTY UpdateEnds
