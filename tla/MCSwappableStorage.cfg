SPECIFICATION FairSpec
CONSTANTS
    Keys = {k1}
    Readers = {a1}
    Writers = {b1, b2}
    MemIds = {m1, m2}
    Counters = {c1, c2, c3, c4}
PROPERTY SpinsEnd
INVARIANTS TypeOK CollectedIsFinal NoWriteLost GetMissesNothing
