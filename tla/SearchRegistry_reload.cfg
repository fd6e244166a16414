CONSTANTS
    a = a
    b = b
    c = c
    u = u
    v = v
    p = p
    q = q
    None = None
    Caller = {a, b}
    Id = {1, 2}
    Url = {u, v}
    Path = {p}
    Configs <- TwoConfigs
    Requests <- LoadRequests
    MaxEdits = 3
    MaxFaults = 0
SPECIFICATION Spec
PROPERTY ReloadResets
