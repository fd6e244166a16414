CONSTANTS
    a = a
    b = b
    f = f
    g = g
    Caller = {a, b}
    Guard <- TwoFiles
    Path = {1, 2}
    Root = 1
    Scope = {1, 2}
    Name = {1, 2}
    Spelling = {TRUE, FALSE}
    Requests <- ServiceRequests
    EditWhen = "anytime"
    MaxEdits = 1
    MaxFaults = 1
SPECIFICATION FairSpec
INVARIANT TypeOK
PROPERTIES SuccessMirrorsCatalog EventuallyMirrored
