SPECIFICATION FairSpec
CONSTANTS
    Nodes = {n1, n2}
    NoSession = NoSession
    NotSet = NotSet
    MaxDisconnects = 1
    MaxCrashes = 0
    MaxRaces = 1
PROPERTY NodesConverge
INVARIANT OneLiveMaster
