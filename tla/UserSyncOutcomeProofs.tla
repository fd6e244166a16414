------------------------ MODULE UserSyncOutcomeProofs ------------------------
(***************************************************************************)
(* What the outcomes of a Service mean, proved for a single caller on a    *)
(* catalog that only it changes; and who owns what, proved for any number  *)
(* of identity sources that work on one catalog with a caller each.        *)
(***************************************************************************)
EXTENDS UserSyncProofs

Alone == AdminWhen = "never" /\ \A c, d \in Caller : c = d

-----------------------------------------------------------------------------
(* The inductive invariants for a single caller.                           *)

Syncing == {"status", "relist", "mark"}

\* The stage that follows the work on metadata.
Then(c) == IF pc[c] \in Syncing THEN ret[c] ELSE pc[c]

Typed(r) == \/ type[r.name] = r.type
            \/ r.op = "UpdateUser" /\ r.type = Absent /\ MayManage(type[r.name])

HasPassword(r) == r.password # Blank => password[r.name] = r.password

\* What a caller has achieved of its request by the time it is at a stage.
EnsuresUser(c) ==
    /\ pc[c] \in Syncing => ret[c] \in {"done", "setpw"}
    /\ pc[c] \in Syncing \cup {"setpw", "get"} => Typed(req[c])
    /\ pc[c] = "get" \/ (pc[c] \in Syncing /\ ret[c] = "done") => HasPassword(req[c])

UpdatesUser(c) ==
    /\ pc[c] \in Syncing => ret[c] \in {"done", "setpw", "retype"}
    /\ Then(c) = "retype" => req[c].type # Absent
    /\ Then(c) = "setpw" \/ (pc[c] \in Syncing /\ ret[c] = "done") => Typed(req[c])
    /\ pc[c] \in Syncing /\ ret[c] = "done" => req[c].password = Blank

EnsuresGroup(c) ==
    pc[c] \in Syncing => ret[c] = "done" /\ type[req[c].name] = "rodsgroup"

\* The outcome of a removal is known at its end only.
Removes(c) == out[c] \notin Errors => pc[c] = "done"

ChangesMembership(c) ==
    /\ ret[c] # "view"
    /\ out[c] \notin Errors => pc[c] \in {"view", "done"}
    /\ pc[c] = "view" => ((req[c].member \in members[req[c].name]) <=> (req[c].op = "EnsureGroupMember"))

Achieved(c) ==
    /\ req[c].op = "EnsureUser" => EnsuresUser(c)
    /\ req[c].op = "UpdateUser" => UpdatesUser(c)
    /\ req[c].op = "EnsureGroup" => EnsuresGroup(c)
    /\ req[c].op \in {"EnsureUserAbsent", "EnsureGroupAbsent"} => Removes(c)
    /\ req[c].op \in MemberOps => ChangesMembership(c)
    /\ pc[c] = "done" /\ out[c] \notin Errors => Converged(req[c])

SuccessInv == TypeOK /\ \A c \in Caller : Achieved(c)

\* How far a caller is with the markers of what it created, or claims.
Marks(c) ==
    LET n    == req[c].name
        all  == managedAVUs(Policy[c])
        owed == Policy[c].mark /\ \/ out[c] = "created"
                                  \/ out[c] = "already_exists" /\ Policy[c].claim
    IN req[c].op \in {"EnsureUser", "EnsureGroup"} =>
          /\ pc[c] \in {"reget", "status"} => out[c] = "already_exists"
          /\ pc[c] = "view" => out[c] \in {"created", "already_exists"}
          /\ pc[c] = "get" => out[c] = "created"
          /\ pc[c] \in Syncing =>
                /\ target[c] = n /\ ret[c] \in {"done", "setpw"}
                /\ out[c] = "created" => ret[c] = "done"
          /\ pc[c] = "mark" => all \subseteq avus[n] \cup todo[c]
          /\ owed /\ (pc[c] = "done" \/ (pc[c] = "setpw" /\ out[c] = "already_exists"))
                => all \subseteq avus[n]

MarkInv == TypeOK /\ \A c \in Caller : Marks(c)

-----------------------------------------------------------------------------
(* Success.                                                                *)

\* How the local variables of a caller change.
LEMMA Moves ==
    ASSUME TypeOK, NEW c \in Caller
    PROVE  /\ \A stage, o : Settle(c, stage, o) =>
                 /\ pc'[c] = stage /\ out'[c] = o /\ req' = req
                 /\ stage = "done" => ret'[c] = "done"
                 /\ stage # "done" => ret'[c] = ret[c] /\ target'[c] = target[c] /\ todo'[c] = todo[c]
           /\ \A stage : Proceed(c, stage) =>
                 /\ pc'[c] = stage /\ out'[c] = out[c] /\ req' = req
                 /\ stage = "done" => ret'[c] = "done"
                 /\ stage # "done" => ret'[c] = ret[c] /\ target'[c] = target[c] /\ todo'[c] = todo[c]
           /\ \A n, stage, next : WorkOn(c, n, stage, next) =>
                 /\ pc'[c] = stage /\ out'[c] = out[c] /\ req' = req
                 /\ ret'[c] = next /\ target'[c] = n /\ todo'[c] = todo[c]
  BY DEF TypeOK, LocalTypeOK, Settle, Proceed, Enter, WorkOn

LEMMA CallAchieves ==
    ASSUME SuccessInv, NEW c \in Caller, Call(c)
    PROVE  Achieved(c)'
  <1> DEFINE r == req[c]
             n == r.name
  <1> USE DEF Achieved, EnsuresUser, UpdatesUser, EnsuresGroup, Removes, ChangesMembership, Then,
              Syncing, Errors, UserOps, GroupOps, MemberOps
  <1>r. /\ TypeOK /\ r \in RequestType /\ n \in Name /\ r.member \in Name /\ target[c] \in Name
        /\ StageOf(r.op, pc[c]) /\ StageOf(r.op, ret[c]) /\ CatalogTypeOK /\ Achieved(c)
    BY DEF SuccessInv, TypeOK, LocalTypeOK, RequestType
  <1>e. \A o \in Errors : Finish(c, o) => Achieved(c)'
    BY <1>r, Moves DEF Finish
  <1>l. LoseReply(c) => Achieved(c)'
    BY <1>e DEF LoseReply
  \* The work on metadata goes on, or ends.
  <1>y. ASSUME pc[c] \in Syncing, pc'[c] \in Syncing, UNCHANGED <<type, password, members, req, ret, out>>
        PROVE  Achieved(c)'
    BY <1>y, <1>r DEF Typed, HasPassword, StageOf
  <1>x. ASSUME pc[c] \in Syncing, UNCHANGED <<type, password, members>>,
               Proceed(c, "relist") \/ Proceed(c, ret[c])
        PROVE  Achieved(c)'
    <2>1. /\ req' = req /\ out'[c] = out[c]
          /\ \/ pc'[c] = "relist" /\ ret'[c] = ret[c]
             \/ pc'[c] = ret[c] /\ ret'[c] \in {ret[c], "done"}
      BY <1>x, <1>r, Moves
    <2>2. Typed(r)' = Typed(r) /\ HasPassword(r)' = HasPassword(r)
      BY <1>x, <2>1 DEF Typed, HasPassword
    <2>3. CASE r.op = "EnsureUser"
      BY <1>x, <2>1, <2>2, <2>3, <1>r DEF Converged, Typed, HasPassword
    <2>4. CASE r.op = "UpdateUser"
      BY <1>x, <2>1, <2>2, <2>4, <1>r, UserSyncAssumption DEF Converged, Typed, HasPassword
    <2>5. CASE r.op = "EnsureGroup"
      BY <1>x, <2>1, <2>5, <1>r DEF Converged
    <2>6. CASE r.op \in MemberOps
      BY <1>x, <2>1, <2>6, <1>r DEF Converged
    <2>7. r.op \notin {"EnsureUserAbsent", "EnsureGroupAbsent"}
      BY <1>x, <1>r DEF StageOf
    <2>8. QED
      BY <2>3, <2>4, <2>5, <2>6, <2>7, <1>r DEF RequestType
  <1>1. CASE CreatePrincipal(c)
    BY <1>1, <1>r, <1>l, Moves DEF CreatePrincipal, AddPrincipal, PasswordStage, Typed,
       HasPassword, CatalogTypeOK, StageOf
  <1>2. CASE CreateConflict(c)
    BY <1>2, <1>r, Moves DEF CreateConflict, StageOf
  <1>3. CASE SetPassword(c)
    <2>1. r.op \in {"EnsureUser", "UpdateUser"} /\ Typed(r)
      BY <1>3, <1>r DEF SetPassword, StageOf
    <2>2. CASE Finish(c, "notfound") \/ LoseReply(c)
      BY <2>2, <1>e, <1>l
    <2>3. CASE ~(Finish(c, "notfound") \/ LoseReply(c))
      <3>1. password'[n] = r.password /\ type' = type /\ req' = req
        BY <1>3, <2>3, <1>r, Moves DEF SetPassword, Finish, CatalogTypeOK
      <3>2. Typed(r)' /\ HasPassword(r)'
        BY <2>1, <3>1 DEF Typed, HasPassword
      <3>3. CASE r.op = "UpdateUser"
        BY <1>3, <2>3, <3>1, <3>2, <3>3, <1>r, Moves DEF SetPassword, Finish, Converged, Typed,
           HasPassword
      <3>4. CASE r.op = "EnsureUser"
        BY <1>3, <2>3, <3>1, <3>2, <3>4, <1>r, Moves DEF SetPassword, Converged, Typed, HasPassword
      <3>5. QED
        BY <2>1, <3>3, <3>4
    <2>4. QED
      BY <2>2, <2>3
  <1>4. CASE GetCreatedUser(c)
    <2>1. r.op = "EnsureUser" /\ Typed(r) /\ HasPassword(r) /\ UNCHANGED <<type, password>>
      BY <1>4, <1>r DEF GetCreatedUser, StageOf, catalog
    <2>2. CASE Finish(c, "notfound")
      BY <2>2, <1>e
    <2>3. CASE MarkCreated(c)
      <3>1. req' = req /\ pc'[c] \in {"relist", "done"} /\ ret'[c] = "done"
        BY <2>3, <1>r, Moves DEF MarkCreated
      <3>2. QED
        BY <2>1, <3>1, <1>r DEF Typed, HasPassword, Converged
    <2>4. QED
      BY <1>4, <2>2, <2>3 DEF GetCreatedUser
  <1>5. CASE GetExistingUser(c)
    BY <1>5, <1>r, <1>e, Moves DEF GetExistingUser, FitsRequest, PasswordStage, Typed,
       HasPassword, StageOf, catalog
  <1>6. CASE LookupForUpdate(c)
    BY <1>6, <1>r, <1>e, Moves DEF LookupForUpdate, UpdateStage, PasswordStage, Typed,
       HasPassword, StageOf, catalog, TypeOK, LocalTypeOK
  <1>7. CASE LookupForRemoval(c)
    BY <1>7, <1>r, <1>e, Moves DEF LookupForRemoval, Finish, RemovalStage, Converged, StageOf,
       catalog
  <1>8. CASE GetGroup(c)
    <2>1. r.op \in {"EnsureGroupAbsent", "EnsureGroupMember", "EnsureGroupMemberAbsent"} /\ type' = type
      BY <1>8, <1>r DEF GetGroup, StageOf, catalog
    <2>2. CASE type[n] # "rodsgroup"
      BY <1>8, <2>1, <2>2, <1>r, <1>e, Moves DEF GetGroup, Finish, Converged
    <2>3. CASE type[n] = "rodsgroup"
      <3>1. out'[c] = out[c] /\ req' = req /\ pc'[c] \notin {"done", "view"} /\ ret'[c] # "view"
        BY <1>8, <2>3, <1>r, Moves DEF GetGroup, RemovalStage
      <3>2. out[c] \in Errors
        BY <1>8, <2>1, <1>r DEF GetGroup
      <3>3. QED
        BY <2>1, <3>1, <3>2
    <2>4. QED
      BY <2>2, <2>3
  <1>9. CASE GetMember(c)
    BY <1>9, <1>r, <1>e, Moves DEF GetMember, StageOf, catalog
  <1>10. CASE ViewGroup(c)
    <2>1. r.op \in {"EnsureGroup", "EnsureGroupMember", "EnsureGroupMemberAbsent"}
          /\ UNCHANGED <<type, members>>
      BY <1>10, <1>r DEF ViewGroup, StageOf, catalog
    <2>2. CASE Finish(c, "notfound")
      BY <2>2, <1>e
    <2>3. CASE r.op # "EnsureGroup" /\ Proceed(c, "done")
      BY <1>10, <2>1, <2>3, <1>r, Moves DEF ViewGroup, Converged
    <2>4. CASE /\ type[n] = "rodsgroup" /\ r.op = "EnsureGroup"
               /\ IF out[c] = "created" THEN MarkCreated(c) ELSE WorkOn(c, n, "status", "done")
      <3>1. req' = req /\ pc'[c] \in {"relist", "status", "done"} /\ ret'[c] = "done"
        BY <2>4, <1>r, Moves DEF MarkCreated
      <3>2. QED
        BY <2>1, <2>4, <3>1, <1>r DEF Converged
    <2>5. QED
      BY <1>10, <2>2, <2>3, <2>4 DEF ViewGroup
  <1>11. CASE ReadStatus(c)
    <2>1. UNCHANGED <<type, password, members>> /\ pc[c] = "status"
      BY <1>11 DEF ReadStatus, catalog
    <2>2. CASE \E o \in Errors : Finish(c, o)
      BY <2>2, <1>e
    <2>3. CASE Proceed(c, "relist") \/ Proceed(c, ret[c])
      BY <2>1, <2>3, <1>x
    <2>4. QED
      BY <1>11, <2>2, <2>3 DEF ReadStatus
  <1>12. CASE ListMissing(c)
    <2>1. UNCHANGED <<type, password, members>> /\ pc[c] = "relist"
      BY <1>12 DEF ListMissing, catalog
    <2>2. CASE Finish(c, "notfound")
      BY <2>2, <1>e
    <2>3. CASE Proceed(c, ret[c])
      BY <2>1, <2>3, <1>x
    <2>4. CASE pc' = [pc EXCEPT ![c] = "mark"] /\ UNCHANGED <<req, target, ret, out>>
      <3>1. pc'[c] = "mark"
        BY <1>r, <2>4 DEF TypeOK, LocalTypeOK
      <3>2. QED
        BY <2>1, <2>4, <3>1, <1>y
    <2>5. QED
      BY <1>12, <2>2, <2>3, <2>4 DEF ListMissing
  <1>13. CASE AddMarker(c)
    <2>1. UNCHANGED <<type, password, members>> /\ pc[c] = "mark"
      BY <1>13 DEF AddMarker, catalog
    <2>2. CASE Finish(c, "notfound") \/ LoseReply(c)
      BY <2>2, <1>e, <1>l
    <2>3. CASE Proceed(c, ret[c])
      BY <2>1, <2>3, <1>x
    <2>4. CASE UNCHANGED <<pc, req, target, ret, out>>
      BY <2>1, <2>4, <1>y
    <2>5. QED
      BY <1>13, <2>2, <2>3, <2>4 DEF AddMarker
  <1>14. CASE CheckManaged(c)
    BY <1>14, <1>r, <1>e, Moves DEF CheckManaged, Converged, StageOf, catalog
  <1>15. CASE Remove(c)
    <2>1. r.op \in {"EnsureUserAbsent", "EnsureGroupAbsent"}
      BY <1>15, <1>r DEF Remove, StageOf
    <2>2. CASE LoseReply(c)
      BY <2>2, <1>l
    <2>3. CASE ~LoseReply(c)
      <3>1. type'[n] = Absent /\ req' = req /\ pc'[c] = "done"
        BY <1>15, <2>3, <1>r, Moves DEF Remove, Finish, DropPrincipal, CatalogTypeOK, catalog
      <3>2. Converged(r)'
        BY <2>1, <3>1 DEF Converged, isPrincipalUserType, UserTypes, Absent
      <3>3. QED
        BY <2>1, <3>1, <3>2
    <2>4. QED
      BY <2>2, <2>3
  <1>16. CASE ChangeType(c)
    <2>1. r.op = "UpdateUser" /\ r.type # Absent
      BY <1>16, <1>r DEF ChangeType, StageOf
    <2>2. CASE Finish(c, "notfound") \/ LoseReply(c)
      BY <2>2, <1>e, <1>l
    <2>3. CASE ~(Finish(c, "notfound") \/ LoseReply(c))
      <3>1. /\ type'[n] = r.type /\ req' = req
            /\ pc'[c] = IF r.password # Blank THEN "setpw" ELSE "done"
        BY <1>16, <2>3, <1>r, Moves DEF ChangeType, Retype, PasswordStage, CatalogTypeOK
      <3>2. Typed(r)'
        BY <3>1 DEF Typed
      <3>3. QED
        BY <2>1, <3>1, <3>2, <1>r DEF Converged
    <2>4. QED
      BY <2>2, <2>3
  <1>17. CASE AddMember(c)
    BY <1>17, <1>r, <1>e, <1>l, Moves DEF AddMember, SetMembers, StageOf, CatalogTypeOK, catalog
  <1>18. CASE DropMember(c)
    BY <1>18, <1>r, <1>e, <1>l, Moves DEF DropMember, SetMembers, StageOf, CatalogTypeOK, catalog
  <1>19. QED
    BY <1>1, <1>2, <1>3, <1>4, <1>5, <1>6, <1>7, <1>8, <1>9, <1>10, <1>11, <1>12, <1>13, <1>14,
       <1>15, <1>16, <1>17, <1>18 DEF Call

LEMMA InitAchieves == Init => SuccessInv
  <1> SUFFICES ASSUME Init, NEW c \in Caller
               PROVE  Achieved(c)
    BY InitType DEF SuccessInv
  <1>1. pc[c] = "done" /\ out[c] = "error" /\ ret[c] = "done"
    BY DEF Init
  <1>2. QED
    BY <1>1 DEF Achieved, EnsuresUser, UpdatesUser, EnsuresGroup, Removes, ChangesMembership, Then,
                Syncing, Errors

LEMMA StartAchieves ==
    ASSUME SuccessInv, NEW c \in Caller, Start(c)
    PROVE  Achieved(c)'
  <1>1. /\ out'[c] \in {"error", "policy"} /\ ret'[c] = "done"
        /\ pc'[c] \in {"done", "create", "lookup", "getgroup"}
    BY DEF SuccessInv, TypeOK, LocalTypeOK, Start, FirstStage
  <1>2. QED
    BY <1>1 DEF Achieved, EnsuresUser, UpdatesUser, EnsuresGroup, Removes, ChangesMembership, Then,
                Syncing, Errors

LEMMA NextAchieves == Alone /\ SuccessInv /\ [Next]_vars => SuccessInv'
  <1> SUFFICES ASSUME Alone, SuccessInv, [Next]_vars, NEW c \in Caller
               PROVE  Achieved(c)'
    BY NextType DEF SuccessInv
  <1>1. CASE UNCHANGED vars
    BY <1>1 DEF vars, catalog, locals, SuccessInv, Achieved, EnsuresUser, UpdatesUser, EnsuresGroup,
                Removes, ChangesMembership, Then, Converged, Typed, HasPassword
  <1>2. CASE Start(c)
    BY <1>2, StartAchieves
  <1>3. CASE Call(c)
    BY <1>3, CallAchieves
  <1>4. CASE Fail(c)
    <2>1. pc'[c] = "done" /\ out'[c] = "error" /\ ret'[c] = "done"
      BY <1>4, Moves DEF SuccessInv, Fail, Finish
    <2>2. QED
      BY <2>1 DEF Achieved, EnsuresUser, UpdatesUser, EnsuresGroup, Removes, ChangesMembership,
         Then,
                  Syncing, Errors
  <1>5. ~AdminStep
    BY DEF Alone, AdminStep, AdminMayAct
  <1>6. QED
    BY <1>1, <1>2, <1>3, <1>4, <1>5 DEF Next, Alone

\* A single caller that is told of success finds the state it asked for, for
\* every policy and request and whatever failed before.
THEOREM SuccessConverges == Alone /\ Spec => []SuccessMeansConverged
  <1>1. SuccessInv => SuccessMeansConverged
    BY DEF SuccessInv, Achieved, SuccessMeansConverged
  <1>2. CASE Alone
    <2>1. SuccessInv /\ [Next]_vars => SuccessInv'
      BY <1>2, NextAchieves
    <2>2. QED
      BY <1>1, <2>1, InitAchieves, PTL DEF Spec
  <1>3. QED
    BY <1>2

-----------------------------------------------------------------------------
(* Markers.                                                                *)

\* Only an UpdateUser that turns into an EnsureUser changes its request.
LEMMA RequestKept ==
    ASSUME NEW c \in Caller, Call(c), ~LookupForUpdate(c)
    PROVE  req' = req
  <1>1. \A stage, o, n, next : \/ Settle(c, stage, o) \/ Finish(c, o) \/ Proceed(c, stage) \/ LoseReply(c)
                              \/ WorkOn(c, n, stage, next) \/ MarkCreated(c) => req' = req
    BY DEF Settle, Finish, Proceed, Enter, LoseReply, WorkOn, MarkCreated
  <1>2. CASE CreatePrincipal(c) \/ CreateConflict(c) \/ SetPassword(c) \/ GetCreatedUser(c)
    BY <1>1, <1>2 DEF CreatePrincipal, CreateConflict, SetPassword, GetCreatedUser
  <1>3. CASE GetExistingUser(c) \/ LookupForRemoval(c) \/ GetGroup(c) \/ GetMember(c) \/ ViewGroup(c)
    BY <1>1, <1>3 DEF GetExistingUser, LookupForRemoval, GetGroup, GetMember, ViewGroup
  <1>4. CASE ReadStatus(c) \/ ListMissing(c) \/ AddMarker(c) \/ CheckManaged(c)
    BY <1>1, <1>4 DEF ReadStatus, ListMissing, AddMarker, CheckManaged
  <1>5. CASE Remove(c) \/ ChangeType(c) \/ AddMember(c) \/ DropMember(c)
    BY <1>1, <1>5 DEF Remove, ChangeType, AddMember, DropMember
  <1>6. QED
    BY <1>2, <1>3, <1>4, <1>5 DEF Call

LEMMA CallMarks ==
    ASSUME MarkInv, NEW c \in Caller, Call(c)
    PROVE  Marks(c)'
  <1> DEFINE r   == req[c]
             n   == r.name
             p   == Policy[c]
             all == managedAVUs(p)
  <1> USE DEF Marks, Syncing
  <1>r. /\ TypeOK /\ n \in Name /\ target[c] \in Name /\ p \in PolicyType /\ r \in RequestType
        /\ StageOf(r.op, pc[c]) /\ OutcomeOf(r.op, out[c]) /\ CatalogTypeOK /\ Marks(c)
    BY UserSyncAssumption DEF MarkInv, TypeOK, LocalTypeOK, RequestType
  <1>e. \A o \in Errors : Finish(c, o) => Marks(c)'
    BY <1>r, Moves DEF Finish, Errors
  <1>l. LoseReply(c) => Marks(c)'
    BY <1>e DEF LoseReply, Errors
  \* Steps of the other operations.
  <1>o. r.op \notin {"EnsureUser", "EnsureGroup"} /\ ~LookupForUpdate(c) => Marks(c)'
    BY RequestKept
  <1>m. ASSUME MarkCreated(c), UNCHANGED avus, out[c] = "created", r.op \in {"EnsureUser", "EnsureGroup"}
        PROVE  Marks(c)'
    BY <1>m, <1>r, Moves DEF MarkCreated
  \* The work on metadata ends with all markers in place.
  <1>x. ASSUME pc[c] \in Syncing, Proceed(c, ret[c]),
               all \subseteq avus'[n] \/ (pc[c] = "status" /\ ~p.claim),
               r.op \in {"EnsureUser", "EnsureGroup"}
        PROVE  Marks(c)'
    <2>1. req' = req /\ out'[c] = out[c] /\ pc'[c] = ret[c] /\ ret[c] \in {"done", "setpw"}
      BY <1>x, <1>r, Moves
    <2>2. QED
      BY <1>x, <2>1, <1>r
  <1>f. CASE LookupForUpdate(c)
    BY <1>f, <1>r, <1>e, Moves DEF LookupForUpdate, StageOf, Errors, TypeOK, LocalTypeOK
  \* A later step of UpdateUser.
  <1>u. CASE r.op \notin {"EnsureUser", "EnsureGroup"}
    BY <1>u, <1>f, <1>o
  <1> SUFFICES ASSUME r.op \in {"EnsureUser", "EnsureGroup"}
               PROVE  Marks(c)'
    BY <1>u
  <1>1. CASE CreatePrincipal(c)
    BY <1>1, <1>r, <1>l, Moves DEF CreatePrincipal, PasswordStage, StageOf
  <1>2. CASE CreateConflict(c)
    BY <1>2, <1>r, Moves DEF CreateConflict, StageOf
  <1>3. CASE SetPassword(c)
    <2>1. CASE Finish(c, "notfound") \/ LoseReply(c)
      BY <2>1, <1>e, <1>l DEF Errors
    <2>2. CASE ~(Finish(c, "notfound") \/ LoseReply(c))
      <3>1. avus' = avus /\ req' = req
        BY <1>3, <2>2, <1>r, Moves DEF SetPassword, Finish
      <3>2. QED
        BY <1>3, <2>2, <3>1, <1>r, Moves DEF SetPassword, Finish
    <2>3. QED
      BY <2>1, <2>2
  <1>4. CASE GetCreatedUser(c)
    BY <1>4, <1>r, <1>e, <1>m DEF GetCreatedUser, StageOf, Errors, catalog
  <1>5. CASE GetExistingUser(c)
    BY <1>5, <1>r, <1>e, Moves DEF GetExistingUser, PasswordStage, StageOf, Errors
  <1>7. CASE ViewGroup(c)
    BY <1>7, <1>r, <1>e, <1>m, <1>o, Moves DEF ViewGroup, StageOf, Errors, catalog
  <1>8. CASE ReadStatus(c)
    <2>1. CASE \E o \in Errors : Finish(c, o)
      BY <2>1, <1>e
    <2>2. CASE Proceed(c, "relist")
      BY <1>8, <2>2, <1>r, <1>o, Moves DEF ReadStatus, StageOf
    <2>3. CASE Proceed(c, ret[c]) /\ ~Adopts(avus[n], p) /\ target[c] = n
      BY <1>8, <2>3, <1>x, <1>o, <1>r, Moves DEF ReadStatus, Adopts
    <2>4. QED
      BY <1>8, <2>1, <2>2, <2>3, <1>o, <1>r, Moves DEF ReadStatus, Errors
  <1>9. CASE ListMissing(c)
    <2>1. CASE Finish(c, "notfound")
      BY <2>1, <1>e DEF Errors
    <2>2. CASE all \ avus[target[c]] = {} /\ Proceed(c, ret[c])
      BY <1>9, <2>2, <1>x, <1>o, <1>r, Moves DEF ListMissing, catalog
    <2>3. CASE pc' = [pc EXCEPT ![c] = "mark"] /\ todo' = [todo EXCEPT ![c] = all \ avus[target[c]]]
               /\ UNCHANGED <<req, target, ret, out>>
      BY <1>9, <2>3, <1>r DEF ListMissing, catalog, TypeOK, LocalTypeOK
    <2>4. QED
      BY <1>9, <2>1, <2>2, <2>3 DEF ListMissing
  <1>10. CASE AddMarker(c)
    <2>1. CASE Finish(c, "notfound") \/ LoseReply(c)
      BY <2>1, <1>e, <1>l DEF Errors
    <2>2. CASE ~(Finish(c, "notfound") \/ LoseReply(c))
      <3>1. PICK a \in todo[c] :
              /\ avus' = [avus EXCEPT ![target[c]] = @ \cup {a}]
              /\ \/ todo[c] = {a} /\ Proceed(c, ret[c])
                 \/ todo' = [todo EXCEPT ![c] = @ \ {a}] /\ UNCHANGED <<pc, req, target, ret, out>>
        BY <1>10, <2>2 DEF AddMarker
      <3>2. avus'[target[c]] = avus[target[c]] \cup {a} /\ pc[c] = "mark"
        BY <1>10, <3>1, <1>r DEF AddMarker, CatalogTypeOK
      <3>3. CASE todo[c] = {a} /\ Proceed(c, ret[c])
        BY <3>1, <3>2, <3>3, <1>x, <1>o, <1>r, Moves
      <3>4. CASE todo' = [todo EXCEPT ![c] = @ \ {a}] /\ UNCHANGED <<pc, req, target, ret, out>>
        <4>1. todo'[c] = todo[c] \ {a}
          BY <3>4, <1>r DEF TypeOK, LocalTypeOK
        <4>2. QED
          BY <3>2, <3>4, <4>1, <1>r
      <3>5. QED
        BY <3>1, <3>3, <3>4
    <2>3. QED
      BY <2>1, <2>2
  <1>11. CASE ChangeType(c)
    BY <1>11, <1>r, <1>e, <1>l, Moves DEF ChangeType, StageOf, Errors
  <1>12. CASE \/ LookupForRemoval(c) \/ GetGroup(c) \/ GetMember(c) \/ CheckManaged(c)
              \/ Remove(c) \/ AddMember(c) \/ DropMember(c)
    <2>1. r.op \notin {"EnsureUser", "EnsureGroup"} /\ ~LookupForUpdate(c)
      BY <1>12, <1>r DEF LookupForRemoval, GetGroup, GetMember, CheckManaged, Remove, AddMember,
                         DropMember, LookupForUpdate, StageOf
    <2>2. QED
      BY <2>1, <1>o
  <1>13. QED
    BY <1>1, <1>2, <1>3, <1>4, <1>5, <1>f, <1>7, <1>8, <1>9, <1>10, <1>11, <1>12 DEF Call

LEMMA InitMarks == Init => MarkInv
  <1> SUFFICES ASSUME Init, NEW c \in Caller
               PROVE  Marks(c)
    BY InitType DEF MarkInv
  <1>1. pc[c] = "done" /\ out[c] = "error"
    BY DEF Init
  <1>2. QED
    BY <1>1 DEF Marks, Syncing

LEMMA StartMarks ==
    ASSUME MarkInv, NEW c \in Caller, Start(c)
    PROVE  Marks(c)'
  <1>1. out'[c] \in {"error", "policy"} /\ pc'[c] \in {"done", "create", "lookup", "getgroup"}
    BY DEF MarkInv, TypeOK, LocalTypeOK, Start, FirstStage
  <1>2. QED
    BY <1>1 DEF Marks, Syncing

LEMMA NextMarks == Alone /\ MarkInv /\ [Next]_vars => MarkInv'
  <1> SUFFICES ASSUME Alone, MarkInv, [Next]_vars, NEW c \in Caller
               PROVE  Marks(c)'
    BY NextType DEF MarkInv
  <1>1. CASE UNCHANGED vars
    BY <1>1 DEF vars, catalog, locals, MarkInv, Marks
  <1>2. CASE Start(c)
    BY <1>2, StartMarks
  <1>3. CASE Call(c)
    BY <1>3, CallMarks
  <1>4. CASE Fail(c)
    <2>1. pc'[c] = "done" /\ out'[c] = "error"
      BY <1>4, Moves DEF MarkInv, Fail, Finish
    <2>2. QED
      BY <2>1 DEF Marks, Syncing
  <1>5. ~AdminStep
    BY DEF Alone, AdminStep, AdminMayAct
  <1>6. QED
    BY <1>1, <1>2, <1>3, <1>4, <1>5 DEF Next, Alone

\* What a single caller reports as created carries every marker of its
\* policy, for every policy and request and whatever failed before.
THEOREM CreatedStaysMarked == Alone /\ Spec => []CreatedMeansMarked
  <1>1. MarkInv => CreatedMeansMarked
    <2> SUFFICES ASSUME MarkInv, NEW c \in Caller, pc[c] = "done", out[c] = "created", Policy[c].mark
                 PROVE  managedAVUs(Policy[c]) \subseteq avus[req[c].name]
      BY DEF CreatedMeansMarked
    <2>1. req[c].op \in {"EnsureUser", "EnsureGroup"}
      BY DEF MarkInv, TypeOK, LocalTypeOK, OutcomeOf, Errors
    <2>2. QED
      BY <2>1 DEF MarkInv, Marks
  <1>2. CASE Alone
    <2>1. MarkInv /\ [Next]_vars => MarkInv'
      BY <1>2, NextMarks
    <2>2. QED
      BY <1>1, <2>1, InitMarks, PTL DEF Spec
  <1>3. QED
    BY <1>2

\* With ClaimExisting, a single caller whose EnsureUser or EnsureGroup succeeds
\* finds the principals it created marked, those of a first attempt that failed
\* between the creation and the marking included.
THEOREM ClaimingMarks ==
    Alone /\ (\A c \in Caller : Policy[c].claim) /\ Spec => []CreatedIsMarked
  <1> DEFINE Claiming == \A c \in Caller : Policy[c].claim
  <1>1. Claiming /\ MarkInv => CreatedIsMarked
    <2> SUFFICES ASSUME Claiming, MarkInv, NEW c \in Caller, pc[c] = "done", out[c] \notin Errors,
                        Policy[c].mark, req[c].op \in {"EnsureUser", "EnsureGroup"}
                 PROVE  [attr |-> "managed", val |-> Policy[c].source] \in avus[req[c].name]
      BY DEF CreatedIsMarked
    <2>1. out[c] \in {"created", "already_exists"}
      BY DEF MarkInv, TypeOK, LocalTypeOK, OutcomeOf
    <2>2. managedAVUs(Policy[c]) \subseteq avus[req[c].name]
      BY <2>1 DEF MarkInv, Marks
    <2>3. QED
      BY <2>2 DEF managedAVUs
  <1>2. CASE Alone /\ Claiming
    <2>1. MarkInv /\ [Next]_vars => MarkInv'
      BY <1>2, NextMarks
    <2>2. MarkInv => CreatedIsMarked
      BY <1>1, <1>2
    <2>3. QED
      BY <2>1, <2>2, InitMarks, PTL DEF Spec
  <1>3. QED
    BY <1>2

-----------------------------------------------------------------------------
(* Several identity sources.                                               *)

\* One caller for each source, none of which claims what others created or
\* removes what it does not own; no administrator in the middle of a request;
\* and no source is named like the other creators in the history.
SeparateSources ==
    /\ AdminWhen # "anytime"
    /\ {"admin", "none"} \cap (Value \cup {Blank}) = {}
    /\ \A c \in Caller : Policy[c].source # Blank /\ ~Policy[c].claim /\ ~Policy[c].anyDelete
    /\ \A c, d \in Caller : Policy[c].source = Policy[d].source => c = d

-----------------------------------------------------------------------------
(* The inductive invariant.                                                *)

\* A missing principal has no creator and no metadata.
OwnCatalog ==
    /\ \A n \in Name : /\ type[n] = Absent <=> origin[n] = "none"
                       /\ type[n] = Absent => avus[n] = {}
                       /\ origin[n] # Blank
    /\ OwnershipFollowsCreation

Owned(n, p) == Managed(avus[n], p) /\ ~Conflicting(avus[n], p)

Ensures(c) == req[c].op \in {"EnsureUser", "EnsureGroup"}

\* What a caller is about to mark, or to remove, is its own.
Holds(c) ==
    LET n == req[c].name
        p == Policy[c]
    IN /\ todo[c] \subseteq managedAVUs(p)
       /\ pc[c] \in Syncing =>
             /\ ret[c] \in {"done", "setpw", "retype", "getmember", "add"}
             /\ ret[c] = "retype" => req[c].type # Absent
             /\ out[c] = "created" => ret[c] = "done"
       /\ pc[c] = "retype" => req[c].type # Absent
       /\ pc[c] = "check" => ret[c] \in {"remove", "drop"} /\ target[c] = n
       /\ pc[c] \in {"relist", "mark"} => origin[target[c]] = p.source
       /\ Ensures(c) /\ out[c] = "created" /\ pc[c] \in {"setpw", "get", "view"}
             => origin[n] = p.source
       /\ pc[c] = "get" => out[c] = "created"
       /\ pc[c] = "reget" => out[c] = "already_exists"
       /\ pc[c] = "remove" \/ (pc[c] = "drop" /\ ~p.anyDrop) => Owned(n, p)

OwnInv == ClearInv /\ OwnCatalog /\ \A c \in Caller : Holds(c)

-----------------------------------------------------------------------------
\* What carries the marker of a Service was created by it.
LEMMA ManagedOrigin ==
    ASSUME SeparateSources, OwnCatalog, NEW c \in Caller, NEW n \in Name,
           Managed(avus[n], Policy[c])
    PROVE  origin[n] = Policy[c].source
  BY DEF SeparateSources, OwnCatalog, OwnershipFollowsCreation, Managed

\* A Service works on what it created, and creates what is missing.
OwnedOnly(c) ==
    \A m \in Name : \/ avus'[m] = avus[m] /\ origin'[m] = origin[m]
                    \/ origin[m] \in {"none", Policy[c].source}

LEMMA CallOwns ==
    ASSUME SeparateSources, OwnInv, NEW c \in Caller, Call(c)
    PROVE  OwnCatalog' /\ OwnedOnly(c)
  <1> DEFINE r == req[c]
             n == r.name
             p == Policy[c]
  <1> USE DEF OwnedOnly, OwnCatalog, OwnershipFollowsCreation
  <1>r. /\ CatalogTypeOK /\ n \in Name /\ target[c] \in Name /\ r.member \in Name
        /\ StageOf(r.op, pc[c]) /\ Holds(c) /\ Cleared(c)
        /\ p.source \in Value
    BY UserSyncAssumption DEF OwnInv, ClearInv, CallerInv, TypeOK, LocalTypeOK, RequestType,
       PolicyType, SeparateSources
  <1>s. p.source \notin {Blank, "none"}
    BY <1>r DEF SeparateSources
  \* No principal appears or disappears, and no metadata changes.
  <1>q. ASSUME UNCHANGED <<avus, origin>>, \A m \in Name : type'[m] = Absent <=> type[m] = Absent
        PROVE  OwnCatalog' /\ OwnedOnly(c)
    BY <1>q DEF OwnInv
  <1>1. CASE CreatePrincipal(c)
    <2> DEFINE t == IF r.op = "EnsureUser" THEN r.type ELSE "rodsgroup"
    <2>1. type[n] = Absent /\ AddPrincipal(n, t, p.source) /\ pc[c] = "create"
      BY <1>1 DEF CreatePrincipal
    <2>2. t # Absent
      BY <2>1, <1>r, UserSyncAssumption DEF Cleared, MayCreate, Absent, UserTypes
    <2>3. /\ type'[n] = t /\ origin'[n] = p.source /\ avus' = avus
          /\ \A m \in Name \ {n} : type'[m] = type[m] /\ origin'[m] = origin[m]
      BY <2>1, <1>r DEF AddPrincipal, CatalogTypeOK
    <2>4. avus[n] = {} /\ origin[n] = "none"
      BY <2>1, <1>r DEF OwnInv
    <2>5. QED
      BY <2>2, <2>3, <2>4, <1>s DEF OwnInv
  <1>2. CASE AddMarker(c)
    <2>1. CASE UNCHANGED catalog
      BY <2>1, <1>q DEF catalog
    <2>2. CASE ~UNCHANGED catalog
      <3>1. PICK a \in todo[c] : /\ avus' = [avus EXCEPT ![target[c]] = @ \cup {a}]
                                 /\ type[target[c]] # Absent /\ UNCHANGED <<type, origin>>
                                 /\ pc[c] = "mark"
        BY <1>2, <2>2 DEF AddMarker
      <3>2. origin[target[c]] = p.source /\ (a.attr = "managed" => a.val = p.source)
        BY <3>1, <1>r DEF Holds, managedAVUs
      <3>3. /\ avus'[target[c]] = avus[target[c]] \cup {a}
            /\ \A m \in Name \ {target[c]} : avus'[m] = avus[m]
        BY <3>1, <1>r DEF CatalogTypeOK
      <3>4. QED
        BY <3>1, <3>2, <3>3, <1>r DEF OwnInv
    <2>3. QED
      BY <2>1, <2>2
  <1>3. CASE Remove(c)
    <2>1. CASE UNCHANGED catalog
      BY <2>1, <1>q DEF catalog
    <2>2. CASE DropPrincipal(n)
      <3>1. origin[n] = p.source
        BY <1>3, <1>r, ManagedOrigin DEF Remove, Holds, Owned, OwnInv
      <3>2. /\ type'[n] = Absent /\ origin'[n] = "none" /\ avus'[n] = {}
            /\ \A m \in Name \ {n} : /\ type'[m] = type[m] /\ origin'[m] = origin[m]
                                     /\ avus'[m] = avus[m]
        BY <2>2, <1>r DEF DropPrincipal, CatalogTypeOK
      <3>3. QED
        BY <3>1, <3>2 DEF OwnInv, SeparateSources
    <2>3. QED
      BY <1>3, <2>1, <2>2 DEF Remove
  <1>4. CASE ChangeType(c)
    <2>1. CASE UNCHANGED catalog
      BY <2>1, <1>q DEF catalog
    <2>2. CASE ~UNCHANGED catalog
      <3>1. Retype(n, r.type) /\ type[n] # Absent /\ r.type # Absent
        BY <1>4, <2>2, <1>r DEF ChangeType, Holds
      <3>2. QED
        BY <3>1, <1>r, <1>q DEF Retype, CatalogTypeOK
    <2>3. QED
      BY <2>1, <2>2
  <1>5. CASE SetPassword(c) \/ AddMember(c) \/ DropMember(c)
    BY <1>5, <1>q DEF SetPassword, AddMember, DropMember, SetMembers, catalog
  <1>6. CASE \/ CreateConflict(c) \/ GetCreatedUser(c) \/ GetExistingUser(c)
             \/ LookupForUpdate(c) \/ LookupForRemoval(c) \/ GetGroup(c) \/ GetMember(c)
             \/ ViewGroup(c) \/ ReadStatus(c) \/ ListMissing(c) \/ CheckManaged(c)
    <2>1. UNCHANGED catalog
      BY <1>6 DEF CreateConflict, GetCreatedUser, GetExistingUser, LookupForUpdate,
         LookupForRemoval, GetGroup, GetMember, ViewGroup, ReadStatus, ListMissing, CheckManaged
    <2>2. QED
      BY <2>1, <1>q DEF catalog
  <1>7. QED
    BY <1>1, <1>2, <1>3, <1>4, <1>5, <1>6 DEF Call

\* What a caller still has to add is decided by ListMissing only.
LEMMA TodoFacts ==
    ASSUME TypeOK, NEW c \in Caller
    PROVE  \A d \in Caller :
             /\ \A stage, o : \/ Settle(c, stage, o) \/ Finish(c, o) \/ LoseReply(c)
                              \/ Proceed(c, stage) \/ Enter(c, stage)
                    => todo'[d] \subseteq todo[d] /\ (d # c => todo'[d] = todo[d])
             /\ \A n, stage, next : WorkOn(c, n, stage, next) => todo'[d] = todo[d]
  BY DEF TypeOK, LocalTypeOK, Settle, Finish, LoseReply, Proceed, Enter, WorkOn

LEMMA TodoFrame ==
    ASSUME TypeOK, NEW c \in Caller, Start(c) \/ Call(c) \/ Fail(c), NEW d \in Caller
    PROVE  /\ d # c => todo'[d] = todo[d]
           /\ ~ListMissing(c) => todo'[d] \subseteq todo[d]
  <1> DEFINE Kept == todo'[d] \subseteq todo[d] /\ (d # c => todo'[d] = todo[d])
  <1>1. CASE Start(c)
    BY <1>1 DEF Start
  <1>2. CASE LookupForUpdate(c)
    BY <1>2, TodoFacts DEF LookupForUpdate
  <1>3. CASE ListMissing(c)
    BY <1>3, TodoFacts DEF ListMissing, TypeOK, LocalTypeOK
  <1>4. CASE AddMarker(c)
    <2>1. CASE \E a : todo' = [todo EXCEPT ![c] = @ \ {a}]
      BY <2>1 DEF TypeOK, LocalTypeOK
    <2>2. CASE Finish(c, "notfound") \/ Proceed(c, ret[c]) \/ LoseReply(c)
      BY <2>2, TodoFacts
    <2>3. QED
      BY <1>4, <2>1, <2>2 DEF AddMarker
  <1>5. CASE CreatePrincipal(c) \/ CreateConflict(c) \/ SetPassword(c) \/ Fail(c)
    <2>1. Kept
      BY <1>5, TodoFacts DEF CreatePrincipal, CreateConflict, SetPassword, Fail
    <2>2. QED
      BY <2>1
  <1>6. CASE GetCreatedUser(c) \/ GetExistingUser(c) \/ LookupForRemoval(c)
    <2>1. Kept
      BY <1>6, TodoFacts DEF GetCreatedUser, GetExistingUser, LookupForRemoval, MarkCreated
    <2>2. QED
      BY <2>1
  <1>7. CASE GetGroup(c) \/ GetMember(c) \/ ViewGroup(c)
    <2>1. Kept
      BY <1>7, TodoFacts DEF GetGroup, GetMember, ViewGroup, MarkCreated
    <2>2. QED
      BY <2>1
  <1>8. CASE ReadStatus(c) \/ CheckManaged(c) \/ Remove(c) \/ ChangeType(c)
    <2>1. Kept
      BY <1>8, TodoFacts DEF ReadStatus, CheckManaged, Remove, ChangeType
    <2>2. QED
      BY <2>1
  <1>9. CASE AddMember(c) \/ DropMember(c)
    <2>1. Kept
      BY <1>9, TodoFacts DEF AddMember, DropMember
    <2>2. QED
      BY <2>1
  <1>10. QED
    BY <1>1, <1>2, <1>3, <1>4, <1>5, <1>6, <1>7, <1>8, <1>9 DEF Call

\* The local side of the invariant, when the catalog stays as it is.
LEMMA CallHolds ==
    ASSUME SeparateSources, OwnInv, NEW c \in Caller, Call(c)
    PROVE  Holds(c)'
  <1> DEFINE r == req[c]
             n == r.name
             p == Policy[c]
  <1> USE DEF Holds, Ensures, Syncing
  <1>r. /\ TypeOK /\ CatalogTypeOK /\ n \in Name /\ target[c] \in Name /\ r \in RequestType
        /\ StageOf(r.op, pc[c]) /\ OutcomeOf(r.op, out[c]) /\ Holds(c)
        /\ p.source \in Value /\ ~p.claim /\ ~p.anyDelete
    BY UserSyncAssumption DEF OwnInv, ClearInv, CallerInv, TypeOK, LocalTypeOK, RequestType,
       PolicyType, SeparateSources
  <1>t. ~ListMissing(c) => todo'[c] \subseteq managedAVUs(p)
    BY <1>r, TodoFrame
  <1>d. ASSUME pc'[c] \in {"done", "add", "getmember", "lookup", "create"}, ~ListMissing(c)
        PROVE  Holds(c)'
    BY <1>d, <1>t
  <1>e. ASSUME ~ListMissing(c), (\E o : Finish(c, o)) \/ LoseReply(c)
        PROVE  Holds(c)'
    BY <1>d, <1>e, <1>r, Moves DEF Finish, LoseReply
  <1>k. ~LookupForUpdate(c) => req' = req
    BY RequestKept
  \* What was created is marked next.
  <1>m. ASSUME MarkCreated(c), UNCHANGED origin, origin[n] = p.source, ~ListMissing(c)
        PROVE  Holds(c)'
    <2>1. CASE WorkOn(c, n, "relist", "done")
      BY <2>1, <1>m, <1>r, <1>t, Moves
    <2>2. CASE Proceed(c, "done")
      BY <2>2, <1>d, <1>m, <1>r, Moves
    <2>3. QED
      BY <1>m, <2>1, <2>2 DEF MarkCreated
  \* The work on metadata ends.
  <1>x. ASSUME pc[c] \in Syncing, Proceed(c, ret[c]), todo'[c] \subseteq managedAVUs(p)
        PROVE  Holds(c)'
    <2>1. req' = req /\ out'[c] = out[c] /\ pc'[c] = ret[c]
      BY <1>x, <1>r, Moves
    <2>2. QED
      BY <1>x, <2>1, <1>r
  <1>1. CASE CreatePrincipal(c)
    <2>1. ~ListMissing(c) /\ origin'[n] = p.source
      BY <1>1, <1>r DEF CreatePrincipal, ListMissing, AddPrincipal, CatalogTypeOK
    <2>2. CASE LoseReply(c)
      BY <2>1, <2>2, <1>e
    <2>3. CASE ~LoseReply(c)
      BY <1>1, <2>1, <2>3, <1>r, <1>t, Moves DEF CreatePrincipal, PasswordStage
    <2>4. QED
      BY <2>2, <2>3
  <1>2. CASE CreateConflict(c)
    <2>1. ~ListMissing(c)
      BY <1>2 DEF CreateConflict, ListMissing
    <2>2. QED
      BY <1>2, <2>1, <1>r, <1>t, Moves DEF CreateConflict
  <1>3. CASE SetPassword(c)
    <2>1. ~ListMissing(c) /\ UNCHANGED origin /\ pc[c] = "setpw"
      BY <1>3 DEF SetPassword, ListMissing, catalog
    <2>2. CASE LoseReply(c) \/ \E o : Finish(c, o)
      BY <2>1, <2>2, <1>e
    <2>3. CASE Proceed(c, "done")
      BY <2>1, <2>3, <1>d, <1>r, Moves
    <2>4. CASE Proceed(c, "get") /\ out[c] = "created"
      BY <2>1, <2>4, <1>t, <1>r, Moves
    <2>5. QED
      BY <1>3, <2>2, <2>3, <2>4 DEF SetPassword
  <1>4. CASE GetCreatedUser(c)
    <2>1. ~ListMissing(c) /\ UNCHANGED origin /\ pc[c] = "get"
      BY <1>4 DEF GetCreatedUser, ListMissing, catalog
    <2>2. CASE Finish(c, "notfound")
      BY <2>1, <2>2, <1>e
    <2>3. CASE MarkCreated(c)
      BY <2>1, <2>3, <1>m, <1>r DEF StageOf
    <2>4. QED
      BY <1>4, <2>2, <2>3 DEF GetCreatedUser
  <1>5. CASE GetExistingUser(c)
    <2>1. ~ListMissing(c) /\ pc[c] = "reget"
      BY <1>5 DEF GetExistingUser, ListMissing
    <2>2. CASE \E o : Finish(c, o)
      BY <2>1, <2>2, <1>e
    <2>3. CASE WorkOn(c, n, "status", PasswordStage(c, "done"))
      BY <2>1, <2>3, <1>t, <1>r, Moves DEF PasswordStage
    <2>4. QED
      BY <1>5, <2>2, <2>3 DEF GetExistingUser
  <1>6. CASE LookupForUpdate(c)
    <2>1. ~ListMissing(c) /\ UNCHANGED catalog
      BY <1>6 DEF LookupForUpdate, ListMissing
    <2>2. CASE \E o : Finish(c, o)
      BY <2>1, <2>2, <1>e
    <2>3. CASE pc' = [pc EXCEPT ![c] = "create"]
      BY <2>1, <2>3, <1>d, <1>r DEF TypeOK, LocalTypeOK
    <2>4. CASE /\ pc' = [pc EXCEPT ![c] = "status"] /\ UNCHANGED req
               /\ ret' = [ret EXCEPT ![c] = UpdateStage(c, type[n])]
               /\ out' = [out EXCEPT ![c] = "already_exists"]
      <3>1. /\ pc'[c] = "status" /\ ret'[c] = UpdateStage(c, type[n])
            /\ out'[c] = "already_exists" /\ req' = req
        BY <2>4, <1>r DEF TypeOK, LocalTypeOK
      <3>2. QED
        BY <2>1, <3>1, <1>t DEF UpdateStage, PasswordStage
    <2>5. QED
      BY <1>6, <2>2, <2>3, <2>4 DEF LookupForUpdate
  <1>7. CASE LookupForRemoval(c)
    <2>1. ~ListMissing(c)
      BY <1>7 DEF LookupForRemoval, ListMissing
    <2>2. CASE \E o : Finish(c, o)
      BY <2>1, <2>2, <1>e
    <2>3. CASE WorkOn(c, n, "check", "remove")
      BY <2>1, <2>3, <1>t, <1>r, Moves
    <2>4. QED
      BY <1>7, <2>2, <2>3, <1>r DEF LookupForRemoval, RemovalStage
  <1>8. CASE GetGroup(c)
    <2>1. ~ListMissing(c) /\ out[c] # "created"
      BY <1>8, <1>r DEF GetGroup, ListMissing, StageOf, OutcomeOf, Errors
    <2>2. CASE \E o : Finish(c, o)
      BY <2>1, <2>2, <1>e
    <2>3. CASE WorkOn(c, n, "check", "remove") \/ WorkOn(c, n, "status", "getmember")
      BY <2>1, <2>3, <1>t, <1>r, Moves
    <2>4. QED
      BY <1>8, <2>2, <2>3, <1>r DEF GetGroup, RemovalStage
  <1>9. CASE GetMember(c)
    <2>1. ~ListMissing(c) /\ out[c] # "created"
      BY <1>9, <1>r DEF GetMember, ListMissing, StageOf, OutcomeOf, Errors
    <2>2. CASE \E o : Finish(c, o)
      BY <2>1, <2>2, <1>e
    <2>3. CASE WorkOn(c, r.member, "status", "add") \/ WorkOn(c, n, "check", "drop")
      BY <2>1, <2>3, <1>t, <1>r, Moves
    <2>4. CASE p.anyDrop /\ WorkOn(c, n, "drop", "drop")
      BY <2>1, <2>4, <1>t, <1>r, Moves
    <2>5. QED
      BY <1>9, <2>2, <2>3, <2>4 DEF GetMember
  <1>10. CASE ViewGroup(c)
    <2>1. ~ListMissing(c) /\ UNCHANGED catalog /\ pc[c] = "view"
      BY <1>10 DEF ViewGroup, ListMissing
    <2>2. CASE \E o : Finish(c, o)
      BY <2>1, <2>2, <1>e
    <2>3. CASE Proceed(c, "done")
      BY <2>1, <2>3, <1>d, <1>r, Moves
    <2>4. CASE r.op = "EnsureGroup" /\ out[c] = "created" /\ MarkCreated(c)
      BY <2>1, <2>4, <1>m, <1>r DEF catalog
    <2>5. CASE out[c] # "created" /\ WorkOn(c, n, "status", "done")
      BY <2>1, <2>5, <1>t, <1>r, Moves
    <2>6. QED
      BY <1>10, <2>2, <2>3, <2>4, <2>5 DEF ViewGroup
  <1>11. CASE ReadStatus(c)
    <2>1. ~ListMissing(c) /\ UNCHANGED catalog /\ pc[c] = "status"
      BY <1>11 DEF ReadStatus, ListMissing
    <2>2. CASE \E o : Finish(c, o)
      BY <2>1, <2>2, <1>e
    <2>3. CASE Proceed(c, ret[c])
      BY <2>1, <2>3, <1>x, <1>t
    <2>4. CASE Adopts(avus[target[c]], p) /\ Proceed(c, "relist")
      <3>1. origin[target[c]] = p.source
        BY <2>4, <1>r, ManagedOrigin DEF Adopts, OwnInv
      <3>2. QED
        BY <2>1, <2>4, <3>1, <1>t, <1>r, Moves DEF catalog
    <2>5. QED
      BY <1>11, <2>2, <2>3, <2>4 DEF ReadStatus
  <1>12. CASE ListMissing(c)
    <2>1. UNCHANGED catalog /\ pc[c] = "relist"
      BY <1>12 DEF ListMissing
    <2>2. CASE (\E o : Finish(c, o)) \/ Proceed(c, ret[c])
      <3>1. todo'[c] \subseteq managedAVUs(p)
        BY <2>2, <1>r, TodoFacts
      <3>2. CASE \E o : Finish(c, o)
        BY <3>1, <3>2, <1>r, Moves DEF Finish
      <3>3. QED
        BY <2>1, <2>2, <3>1, <3>2, <1>x
    <2>3. CASE /\ pc' = [pc EXCEPT ![c] = "mark"] /\ UNCHANGED <<req, target, ret, out>>
               /\ todo' = [todo EXCEPT ![c] = managedAVUs(p) \ avus[target[c]]]
      <3>1. pc'[c] = "mark" /\ todo'[c] \subseteq managedAVUs(p)
        BY <2>3, <1>r DEF TypeOK, LocalTypeOK
      <3>2. QED
        BY <2>1, <2>3, <3>1, <1>r DEF catalog
    <2>4. QED
      BY <1>12, <2>2, <2>3 DEF ListMissing
  <1>13. CASE AddMarker(c)
    <2>1. ~ListMissing(c) /\ UNCHANGED origin /\ pc[c] = "mark"
      BY <1>13 DEF AddMarker, ListMissing, catalog
    <2>2. CASE LoseReply(c) \/ \E o : Finish(c, o)
      BY <2>1, <2>2, <1>e
    <2>3. CASE Proceed(c, ret[c])
      BY <2>1, <2>3, <1>x, <1>t
    <2>4. CASE UNCHANGED <<pc, req, target, ret, out>>
      BY <2>1, <2>4, <1>t, <1>r
    <2>5. QED
      BY <1>13, <2>2, <2>3, <2>4 DEF AddMarker
  <1>14. CASE CheckManaged(c)
    <2>1. ~ListMissing(c) /\ UNCHANGED catalog /\ pc[c] = "check"
      BY <1>14 DEF CheckManaged, ListMissing
    <2>2. CASE \E o : Finish(c, o)
      BY <2>1, <2>2, <1>e
    <2>3. CASE Owned(target[c], p) /\ Proceed(c, ret[c])
      BY <2>1, <2>3, <1>t, <1>r, Moves DEF Owned, catalog
    <2>4. QED
      BY <1>14, <2>2, <2>3 DEF CheckManaged, Owned
  <1>15. CASE Remove(c)
    <2>1. ~ListMissing(c)
      BY <1>15 DEF Remove, ListMissing
    <2>2. QED
      BY <1>15, <2>1, <1>e DEF Remove
  <1>16. CASE ChangeType(c)
    <2>1. ~ListMissing(c) /\ r.op = "UpdateUser"
      BY <1>16, <1>r DEF ChangeType, ListMissing, StageOf
    <2>2. CASE LoseReply(c) \/ \E o : Finish(c, o)
      BY <2>1, <2>2, <1>e
    <2>3. CASE Settle(c, PasswordStage(c, "done"), "updated")
      BY <2>1, <2>3, <1>t, <1>r, Moves DEF PasswordStage
    <2>4. QED
      BY <1>16, <2>2, <2>3 DEF ChangeType
  <1>17. CASE AddMember(c) \/ DropMember(c)
    <2>1. ~ListMissing(c)
      BY <1>17 DEF AddMember, DropMember, ListMissing
    <2>2. CASE LoseReply(c) \/ \E o : Finish(c, o)
      BY <2>1, <2>2, <1>e
    <2>3. CASE \E o \in {"already_member", "added", "already_absent", "removed"} : Settle(c, "view", o)
      BY <2>1, <2>3, <1>t, <1>r, Moves
    <2>4. QED
      BY <1>17, <2>2, <2>3 DEF AddMember, DropMember
  <1>18. QED
    BY <1>1, <1>2, <1>3, <1>4, <1>5, <1>6, <1>7, <1>8, <1>9, <1>10, <1>11, <1>12, <1>13, <1>14,
       <1>15, <1>16, <1>17 DEF Call

\* What the others are working on is not touched by a step of c.
LEMMA FrameHolds ==
    ASSUME SeparateSources, OwnInv, NEW c \in Caller, Frame(c), OwnedOnly(c),
           NEW d \in Caller \ {c}, todo'[d] = todo[d], out'[d] = out[d]
    PROVE  Holds(d)'
  <1> DEFINE m == req[d].name
             p == Policy[d]
  <1>1. /\ m \in Name /\ target[d] \in Name /\ Holds(d) /\ p.source \in Value
        /\ p.source # "none" /\ p.source # Policy[c].source
    BY UserSyncAssumption DEF OwnInv, ClearInv, TypeOK, LocalTypeOK, RequestType, PolicyType,
       SeparateSources
  <1>2. \A k \in Name : origin[k] = p.source => avus'[k] = avus[k] /\ origin'[k] = origin[k]
    BY <1>1 DEF OwnedOnly
  <1>3. Owned(m, p) => Owned(m, p)'
    <2>1. Owned(m, p) => origin[m] = p.source
      BY <1>1, ManagedOrigin DEF Owned, OwnInv
    <2>2. Owned(m, p) => avus'[m] = avus[m]
      BY <1>1, <1>2, <2>1
    <2>3. m' = m
      BY DEF Frame
    <2>4. QED
      BY <2>2, <2>3 DEF Owned
  <1>4. QED
    BY <1>1, <1>2, <1>3 DEF Frame, Holds, Ensures

\* The outcome of a caller is its own.
LEMMA OutFrame ==
    ASSUME TypeOK, NEW c \in Caller, Start(c) \/ Call(c) \/ Fail(c), NEW d \in Caller \ {c}
    PROVE  out'[d] = out[d]
  <1>1. \A stage, o, n, next : \/ Settle(c, stage, o) \/ Finish(c, o) \/ Proceed(c, stage) \/ LoseReply(c)
                              \/ WorkOn(c, n, stage, next) \/ MarkCreated(c)
            => out'[d] = out[d]
    BY DEF TypeOK, LocalTypeOK, Settle, Finish, Proceed, LoseReply, WorkOn, MarkCreated
  <1>2. CASE Start(c) \/ Fail(c) \/ LookupForUpdate(c)
    BY <1>1, <1>2 DEF Start, Fail, LookupForUpdate, TypeOK, LocalTypeOK
  <1>3. CASE CreatePrincipal(c) \/ CreateConflict(c) \/ SetPassword(c) \/ GetCreatedUser(c)
    BY <1>1, <1>3 DEF CreatePrincipal, CreateConflict, SetPassword, GetCreatedUser
  <1>4. CASE GetExistingUser(c) \/ LookupForRemoval(c) \/ GetGroup(c) \/ GetMember(c) \/ ViewGroup(c)
    BY <1>1, <1>4 DEF GetExistingUser, LookupForRemoval, GetGroup, GetMember, ViewGroup
  <1>5. CASE ReadStatus(c) \/ ListMissing(c) \/ AddMarker(c) \/ CheckManaged(c)
    BY <1>1, <1>5 DEF ReadStatus, ListMissing, AddMarker, CheckManaged
  <1>6. CASE Remove(c) \/ ChangeType(c) \/ AddMember(c) \/ DropMember(c)
    BY <1>1, <1>6 DEF Remove, ChangeType, AddMember, DropMember
  <1>7. QED
    BY <1>2, <1>3, <1>4, <1>5, <1>6 DEF Call

LEMMA InitOwns == SeparateSources /\ Init => OwnInv
  <1> SUFFICES ASSUME SeparateSources, Init
               PROVE  OwnInv
    OBVIOUS
  <1>1. OwnCatalog
    BY DEF Init, OwnCatalog, OwnershipFollowsCreation, SeparateSources
  <1>2. ASSUME NEW c \in Caller
        PROVE  Holds(c)
    <2>1. pc[c] = "done" /\ todo[c] = {}
      BY DEF Init
    <2>2. QED
      BY <2>1 DEF Holds, Syncing
  <1>3. QED
    BY <1>1, <1>2, InitClears DEF OwnInv

\* Administrators leave the principals that stay as they are.
LEMMA AdminOwns ==
    ASSUME SeparateSources, OwnInv, AdminStep
    PROVE  OwnCatalog' /\ \A c \in Caller : Holds(c)'
  <1>1. /\ CatalogTypeOK /\ OwnCatalog /\ "admin" \notin {Blank, "none"} /\ Absent \notin Types
    BY DEF OwnInv, ClearInv, TypeOK, SeparateSources, Absent, Types, UserTypes
  <1> USE DEF OwnCatalog, OwnershipFollowsCreation, CatalogTypeOK
  <1>2. CASE AdminCreate
    <2>1. PICK n \in Name, t \in Types : type[n] = Absent /\ AddPrincipal(n, t, "admin")
      BY <1>2 DEF AdminCreate
    <2>2. /\ type'[n] = t /\ origin'[n] = "admin" /\ avus' = avus /\ avus[n] = {}
          /\ \A m \in Name \ {n} : type'[m] = type[m] /\ origin'[m] = origin[m]
      BY <1>1, <2>1 DEF AddPrincipal
    <2>3. QED
      BY <1>1, <2>2 DEF AdminStep, AdminMayAct, locals, Holds, Syncing, OwnInv, SeparateSources
  <1>3. CASE AdminRemove
    <2>1. PICK n \in Name : DropPrincipal(n)
      BY <1>3 DEF AdminRemove
    <2>2. /\ type'[n] = Absent /\ origin'[n] = "none" /\ avus'[n] = {}
          /\ \A m \in Name \ {n} : /\ type'[m] = type[m] /\ origin'[m] = origin[m]
                                   /\ avus'[m] = avus[m]
      BY <1>1, <2>1 DEF DropPrincipal
    <2>3. OwnCatalog'
      BY <1>1, <2>2 DEF SeparateSources
    <2>4. QED
      BY <2>3, UserSyncAssumption DEF AdminStep, AdminMayAct, locals, Holds, Syncing, OwnInv,
         SeparateSources
  <1>4. CASE AdminRetype
    <2>1. PICK n \in Name, t \in UserTypes : type[n] \in UserTypes \ {t} /\ Retype(n, t)
      BY <1>4 DEF AdminRetype
    <2>2. /\ avus' = avus /\ origin' = origin
          /\ \A m \in Name : type'[m] = Absent <=> type[m] = Absent
      BY <1>1, <2>1 DEF Retype, Types
    <2>3. QED
      BY <1>1, <2>2, UserSyncAssumption DEF AdminStep, AdminMayAct, locals, Holds, Syncing,
         OwnInv, SeparateSources
  <1>5. CASE AdminJoin
    <2>1. UNCHANGED <<type, avus, origin>>
      BY <1>5 DEF AdminJoin, SetMembers
    <2>2. QED
      BY <1>1, <2>1, UserSyncAssumption DEF AdminStep, AdminMayAct, locals, Holds, Syncing,
         OwnInv, SeparateSources
  <1>6. QED
    BY <1>2, <1>3, <1>4, <1>5 DEF AdminStep

LEMMA NextOwns == SeparateSources /\ OwnInv /\ [Next]_vars => OwnInv'
  <1> SUFFICES ASSUME SeparateSources, OwnInv, [Next]_vars
               PROVE  OwnInv'
    OBVIOUS
  <1>1. ClearInv' /\ TypeOK
    BY NextClears DEF SeparateSources, OwnInv, ClearInv
  <1>2. CASE UNCHANGED vars
    BY <1>1, <1>2 DEF vars, catalog, locals, OwnInv, OwnCatalog, OwnershipFollowsCreation, Holds,
       Owned,
                      Ensures
  <1>3. CASE AdminStep
    BY <1>1, <1>3, AdminOwns DEF OwnInv
  <1>4. ASSUME NEW c \in Caller, Start(c) \/ Call(c) \/ Fail(c)
        PROVE  OwnInv'
    <2>1. OwnCatalog' /\ OwnedOnly(c)
      <3>1. CASE Call(c)
        BY <3>1, CallOwns
      <3>2. CASE Start(c) \/ Fail(c)
        BY <3>2 DEF Start, Fail, catalog, OwnInv, OwnCatalog, OwnershipFollowsCreation, OwnedOnly
      <3>3. QED
        BY <1>4, <3>1, <3>2
    <2>2. Holds(c)'
      <3>1. CASE Call(c)
        BY <3>1, CallHolds
      <3>2. CASE Start(c) \/ Fail(c)
        <4>1. pc'[c] \in {"done", "create", "lookup", "getgroup"}
          BY <1>1, <3>2, Moves DEF Start, Fail, Finish, FirstStage, TypeOK, LocalTypeOK
        <4>2. todo'[c] \subseteq todo[c]
          BY <1>1, <3>2, TodoFacts DEF Start, Fail
        <4>3. QED
          BY <4>1, <4>2 DEF Holds, Syncing, OwnInv
      <3>3. QED
        BY <1>4, <3>1, <3>2
    <2>3. \A d \in Caller \ {c} : Holds(d)'
      BY <1>1, <1>4, <2>1, CallFrame, TodoFrame, OutFrame, FrameHolds
    <2>4. QED
      BY <1>1, <2>1, <2>2, <2>3 DEF OwnInv
  <1>5. QED
    BY <1>2, <1>3, <1>4 DEF Next

\* Without claims, the marker of a principal names the source that created it,
\* for any number of sources, whatever fails and however the calls interleave.
THEOREM OwnershipStays == SeparateSources /\ Spec => []OwnershipFollowsCreation
  <1>1. OwnInv => OwnershipFollowsCreation
    BY DEF OwnInv, OwnCatalog
  <1>2. CASE SeparateSources
    <2>1. OwnInv /\ [Next]_vars => OwnInv'
      BY <1>2, NextOwns
    <2>2. Init => OwnInv
      BY <1>2, InitOwns
    <2>3. QED
      BY <1>1, <2>1, <2>2, PTL DEF Spec
  <1>3. QED
    BY <1>2

\* The marker that permits a removal is still there when the removal is made.
THEOREM RemovalsMarked == SeparateSources /\ Spec => RemovalNeedsMarker
  <1> DEFINE A == \A c \in Caller :
                    LET n == req[c].name
                        owned == Managed(avus[n], Policy[c]) /\ ~Conflicting(avus[n], Policy[c])
                    IN /\ pc[c] = "remove" /\ pc'[c] # "remove" /\ ~Policy[c].anyDelete
                            => owned \/ type'[n] = type[n]
                       /\ pc[c] = "drop" /\ pc'[c] # "drop" /\ ~Policy[c].anyDrop
                            => owned \/ members'[n] = members[n]
  <1>1. OwnInv => A
    BY DEF OwnInv, Holds, Owned
  <1>2. CASE SeparateSources
    <2>1. OwnInv /\ [Next]_vars => OwnInv'
      BY <1>2, NextOwns
    <2>2. Init => OwnInv
      BY <1>2, InitOwns
    <2>3. Spec => [][A]_vars
      BY <1>1, <2>1, <2>2, PTL DEF Spec
    <2>4. QED
      BY <1>2, <2>3 DEF RemovalNeedsMarker
  <1>3. QED
    BY <1>2

=============================================================================
