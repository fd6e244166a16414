CONSTANTS
    c1 = c1
    c2 = c2
    c3 = c3
    o1 = o1
    o2 = o2
    o3 = o3
    m = m
    n = n
    None = None
    Entries <- MCEntries
    RowsOf <- MCRowsOf
    AVUs = {m, n}
    Results <- MCResults
    Queries <- MCQueries
    Cursors <- MCCursors
    Batch = 2
    DefaultLimit = 2
    MaxInt = 15
    MaxEdits = 2
    MaxFaults = 1
CHECK_DEADLOCK FALSE
SPECIFICATION FairSpec
INVARIANTS TypeOK PagesTile PageHonest MatchesTold ChangesShift
PROPERTIES EventuallyRead
