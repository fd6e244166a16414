CONSTANTS
    a1 = a1
    a2 = a2
    b1 = b1
    alice = alice
    team = team
    srcA = srcA
    srcB = srcB
    pw = pw
    Blank = Blank
    Caller = {a1}
    Name = {alice, team}
    Password = {pw}
    Value = {srcA, srcB}
    Policy <- TwoSources
    Requests <- LifeRequests
    CreateTypes = {"rodsuser"}
    ManageTypes = {"rodsuser"}
    ProtectedTypes = {"groupadmin", "rodsadmin"}
    AdminWhen = "never"
    MaxFaults = 1
SPECIFICATION Spec
INVARIANT CreatedIsMarked
