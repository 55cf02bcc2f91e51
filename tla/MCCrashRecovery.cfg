SPECIFICATION FairRSpec
CONSTANTS
    Keys = {k1, k2}
    Values = {v1}
    Versions = {1}
    Nullopt = Nullopt
    None = None
    NotFound = NotFound
    Ok = Ok
    Failed = Failed
    NoReply = NoReply
    NoCall = NoCall
    Requests = {r1, r2}
    MemIds = {m1, m2}
    WalIds = {w1, w2, w3, w4, w5}
    Paths = {p1, p2, p3, p4, p5, p6, p7}
    NoFile = NoFile
    kThreshold = 2
    kCompactionThreshold = 1
    MaxCalls = 3
    MaxFaults = 0
    kRecoveryThreshold = 1
    MaxCrashes = 2
PROPERTY RestartEnds
INVARIANTS RecoveryTypeOK RecoveredOutsideWindows
