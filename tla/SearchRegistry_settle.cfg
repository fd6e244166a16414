CONSTANTS
    a = a
    b = b
    c = c
    u = u
    v = v
    p = p
    q = q
    None = None
    Caller = {a, b, c}
    Id = {1, 2}
    Url = {u, v}
    Path = {p, q}
    Configs <- OneConfig
    Requests <- SteadyRequests
    MaxEdits = 2
    MaxFaults = 1
SPECIFICATION FairSpec
INVARIANTS TypeOK StatusesMatch PingAgrees PathOfEndpoints
PROPERTY EventuallyTruthful
