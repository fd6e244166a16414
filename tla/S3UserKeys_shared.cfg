CONSTANTS
    a = a
    b = b
    f = f
    g = g
    alice = alice
    bob = bob
    k1 = k1
    k2 = k2
    Invalid = Invalid
    None = None
    Caller = {a, b}
    Guard <- OneFile
    Home = {alice, bob}
    User = {alice, bob}
    Secret = {k1, k2}
    Requests <- SplitRequests
    MaxEdits = 4
    MaxFaults = 2
SPECIFICATION FairSpec
INVARIANTS TypeOK MarkedSecretsReadable
PROPERTIES UpdatesKeepOthers SuccessPublishes EventuallyMirrored
