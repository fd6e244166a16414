CONSTANTS
    a1 = a1
    a2 = a2
    b1 = b1
    alice = alice
    team = team
    srcA = srcA
    srcB = srcB
    pw = pw
    Blank = Blank
    Caller = {a1}
    Name = {alice, team}
    Password = {pw}
    Value = {srcA, srcB}
    Policy <- Claiming
    Requests <- AllRequests
    CreateTypes = {"rodsuser", "groupadmin"}
    ManageTypes = {"rodsuser", "groupadmin"}
    ProtectedTypes = {"rodsadmin"}
    AdminWhen = "never"
    MaxFaults = 3
SPECIFICATION FairSpec
INVARIANTS TypeOK SuccessMeansConverged CreatedMeansMarked CreatedIsMarked
PROPERTY EventuallyOwned
