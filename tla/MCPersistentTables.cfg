SPECIFICATION FairSpec
CONSTANTS
    Keys = {1, 2}
    NumTables = 3
    Error = Error
    Unread = Unread
    NotFound = NotFound
PROPERTIES MergeEnds GetEnds
INVARIANTS TypeOK MergeKeepsNewest GetFindsNewest NothingFails
CONSTRAINT FewEntries
