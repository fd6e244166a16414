CONSTANTS
    a = a
    b = b
    fav = fav
    k1 = k1
    k2 = k2
    k3 = k3
    q1 = q1
    q2 = q2
    p = p
    q = q
    x = x
    n = n
    m = m
    t = t
    v = v
    Blank = Blank
    None = None
    Caller = {a, b}
    Files <- MCFiles
    Path = {p, q}
    Item = {x}
    Name = {n, m}
    Text = {t, v}
    Requests <- MCRequests
    Stored <- MCStored
    MaxEdits = 2
    MaxFaults = 1
CHECK_DEADLOCK FALSE
SPECIFICATION FairSpec
INVARIANTS TypeOK CreationKept EmptyOnlyByFailure
PROPERTIES OneFavoritePerPath CartAsAsked EventuallySettled
