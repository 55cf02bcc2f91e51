SPECIFICATION FairSpec
CONSTANTS
    Keys = {k1}
    Values = {v1}
    Versions = {0}
    Nullopt = Nullopt
    None = None
    NotFound = NotFound
    Ok = Ok
    Failed = Failed
    NoReply = NoReply
    NoCall = NoCall
    Requests = {r1, r2, r3}
    Nodes = {n1, n2}
    NodeLists <- UnsetOrFull
    FirstFiles <- LiveFiles
    Groups = {g1}
    GroupOf <- OneGroup
    Nobody = Nobody
    Threads = 2
    Attempts = 2
    MaxCalls = 1
    MaxWrites = 0
INVARIANT NoAnswerFromListedNodes
PROPERTY LockIsGivenBack
