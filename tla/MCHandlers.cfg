SPECIFICATION HSpec
CONSTANTS
    Nodes = {n1, n2}
    Requests = {r1}
    Inputs <- ClientWrite
    NoSession = NoSession
    NotSet = NotSet
    MaxDisconnects = 1
    MaxCrashes = 1
    MaxRaces = 0
CONSTRAINT OneFault
SYMMETRY NodeSymmetry
INVARIANTS HandlersTypeOK DoneByOwner ConfirmedByOwner
