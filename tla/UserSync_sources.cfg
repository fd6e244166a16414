CONSTANTS
    a1 = a1
    a2 = a2
    b1 = b1
    alice = alice
    team = team
    srcA = srcA
    srcB = srcB
    pw = pw
    Blank = Blank
    Caller = {a1, b1}
    Name = {alice, team}
    Password = {pw}
    Value = {srcA, srcB}
    Policy <- TwoSources
    Requests <- SplitRequests
    CreateTypes = {"rodsuser", "groupadmin"}
    ManageTypes = {"rodsuser", "groupadmin"}
    ProtectedTypes = {"groupadmin", "rodsadmin"}
    AdminWhen = "quiet"
    MaxFaults = 1
SPECIFICATION Spec
INVARIANTS ClearanceHolds OwnershipFollowsCreation
PROPERTIES ProtectedUntouched RemovalNeedsMarker
