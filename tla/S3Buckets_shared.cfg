CONSTANTS
    a = a
    b = b
    f = f
    g = g
    Caller = {a, b}
    Guard <- OneFile
    Path = {1, 2, 3}
    Root = 1
    Scope = {1, 2}
    Name = {1, 2}
    Spelling = {TRUE}
    Requests <- SplitRequests
    EditWhen = "quiet"
    MaxEdits = 0
    MaxFaults = 1
SPECIFICATION Spec
INVARIANTS MutualExclusion RefusedMeansUnchanged
PROPERTIES NeverDuplicates ImplementsRegistry
