SPECIFICATION Spec
CONSTANTS
    Keys = {k1}
    Values = {v1}
    Versions = {1, 2}
    Nullopt = Nullopt
    None = None
    NotFound = NotFound
    Ok = Ok
    Failed = Failed
    NoReply = NoReply
    NoCall = NoCall
    Requests = {r1, r2}
    MemIds = {m1, m2}
    WalIds = {w1, w2, w3, w4}
    Paths = {p1, p2, p3, p4, p5}
    NoFile = NoFile
    kThreshold = 1
    kCompactionThreshold = 1
    MaxCalls = 3
    MaxFaults = 0
SYMMETRY ClientSymmetry
INVARIANTS TypeOK EngineInv ReadsCurrent DiskMatchesOpenTables
PROPERTY ImplementsKVStore
