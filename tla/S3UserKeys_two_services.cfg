CONSTANTS
    a = a
    b = b
    f = f
    g = g
    alice = alice
    bob = bob
    k1 = k1
    k2 = k2
    Invalid = Invalid
    None = None
    Caller = {a, b}
    Guard <- TwoFiles
    Home = {alice, bob}
    User = {alice, bob}
    Secret = {k1, k2}
    Requests <- StoreRequests
    MaxEdits = 2
    MaxFaults = 0
SPECIFICATION Spec
PROPERTY UpdatesKeepOthers
