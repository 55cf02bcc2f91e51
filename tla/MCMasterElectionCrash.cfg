SPECIFICATION FairSpec
CONSTANTS
    Nodes = {n1, n2}
    NoSession = NoSession
    NotSet = NotSet
    MaxDisconnects = 0
    MaxCrashes = 1
    MaxRaces = 0
INVARIANT TakesPart
PROPERTIES MasterAppears MasterKnown NodesConverge
