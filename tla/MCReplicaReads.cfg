SPECIFICATION Spec
CONSTANTS
    Keys = {k1}
    Values = {v1}
    Versions = {0, 1}
    Nullopt = Nullopt
    None = None
    NotFound = NotFound
    Ok = Ok
    Failed = Failed
    NoReply = NoReply
    NoCall = NoCall
    Requests = {r1, r2}
    Nodes = {n1, n2, n3}
    NodeLists <- UnsetOrFull
    FirstFiles <- NewFiles
    Groups = {g1}
    GroupOf <- OneGroup
    Nobody = Nobody
    Threads = 2
    Attempts = 2
    MaxCalls = 1
    MaxWrites = 1
INVARIANTS TypeOK AnswerWasReported AnswerIsNewest
SYMMETRY RequestSymmetry
