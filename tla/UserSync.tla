------------------------------ MODULE UserSync ------------------------------
(***************************************************************************)
(* Desired-state reconciliation of iRODS users, groups and memberships     *)
(* (src/usersync).  A Service keeps no state of its own: every operation   *)
(* is a sequence of calls on a shared iRODS catalog, and each call is one  *)
(* step here, so the calls of several services, of administrators using    *)
(* iCommands, and failures of single calls interleave freely.              *)
(*                                                                         *)
(* One zone; a principal (user or group) is a name.  Error wording, IDs    *)
(* and the member lists returned to callers are left out.                  *)
(***************************************************************************)
EXTENDS Naturals

CONSTANTS
    Caller,          \* concurrent users of a Service (goroutines or processes)
    Name,            \* names of principals
    Password,        \* passwords callers may set
    Value,           \* non-blank values of the sync metadata fields
    Blank,           \* a metadata field or password that is empty
    Policy,          \* Policy[c]: the policy of the Service c calls
    Requests,        \* Requests[c]: the requests c may issue
    CreateTypes,     \* policy.AllowedCreateUserTypes
    ManageTypes,     \* policy.AllowedManageUserTypes
    ProtectedTypes,  \* policy.ProtectedUserTypes
    AdminWhen,       \* when administrators act: "never", "quiet", "anytime"
    MaxFaults        \* bound on the calls that fail or lose their reply

UserTypes  == {"rodsuser", "groupadmin", "rodsadmin"}
Types      == UserTypes \cup {"rodsgroup"}
Absent     == "absent"

AVU == [attr : {"managed", "source", "realm", "external"}, val : Value \cup {Blank}]

PolicyType == [source : Value \cup {Blank}, realm : Value \cup {Blank},
               external : Value \cup {Blank}, claim : BOOLEAN, mark : BOOLEAN,
               anyDelete : BOOLEAN, anyDrop : BOOLEAN]

UserOps   == {"EnsureUser", "UpdateUser", "EnsureUserAbsent"}
GroupOps  == {"EnsureGroup", "EnsureGroupAbsent"}
MemberOps == {"EnsureGroupMember", "EnsureGroupMemberAbsent"}

\* type = Absent: the type is not to be changed; password = Blank: nor is the
\* password.  create is CreateIfMissing.
RequestType == [op : UserOps \cup GroupOps \cup MemberOps, name : Name, member : Name,
                type : Types \cup {Absent}, password : Password \cup {Blank},
                create : BOOLEAN]

Errors == {"notfound", "conflict", "policy", "error"}

Result == Errors \cup {"created", "updated", "deleted", "added", "removed",
                       "already_exists", "already_absent", "already_member"}
Stage  == {"done", "create", "setpw", "get", "reget", "lookup", "getgroup", "getmember",
           "status", "relist", "mark", "check", "remove", "retype", "add", "drop", "view"}

\* The results of each operation.
OutcomeOf(op, o) ==
    \/ o \in Errors
    \/ op = "UpdateUser" /\ o \in {"updated", "already_exists"}
    \/ op \in {"EnsureUser", "EnsureGroup"} /\ o \in {"created", "already_exists"}
    \/ op \in {"EnsureUserAbsent", "EnsureGroupAbsent"} /\ o \in {"deleted", "already_absent"}
    \/ op = "EnsureGroupMember" /\ o \in {"added", "already_member"}
    \/ op = "EnsureGroupMemberAbsent" /\ o \in {"removed", "already_absent"}

\* The catalog calls each operation is made of.
StageOf(op, stage) ==
    \/ stage = "done"
    \/ op = "EnsureUser"
       /\ stage \in {"create", "setpw", "get", "reget", "status", "relist", "mark"}
    \/ op = "UpdateUser"
       /\ stage \in {"lookup", "status", "relist", "mark", "retype", "setpw"}
    \/ op = "EnsureUserAbsent" /\ stage \in {"lookup", "check", "remove"}
    \/ op = "EnsureGroup" /\ stage \in {"create", "view", "status", "relist", "mark"}
    \/ op = "EnsureGroupAbsent" /\ stage \in {"getgroup", "check", "remove"}
    \/ op = "EnsureGroupMember"
       /\ stage \in {"getgroup", "status", "relist", "mark", "getmember", "add", "view"}
    \/ op = "EnsureGroupMemberAbsent"
       /\ stage \in {"getgroup", "status", "relist", "mark", "getmember", "check", "drop", "view"}

ASSUME UserSyncAssumption ==
    /\ Blank \notin Value /\ Blank \notin Password
    /\ Policy \in [Caller -> PolicyType]
    /\ Requests \in [Caller -> SUBSET RequestType]
    /\ \A c \in Caller : Requests[c] # {}
    /\ CreateTypes \subseteq UserTypes
    /\ ManageTypes \subseteq UserTypes
    /\ ProtectedTypes \subseteq UserTypes
    /\ AdminWhen \in {"never", "quiet", "anytime"}
    /\ MaxFaults \in Nat

VARIABLES
    type,       \* type[n]: the type of principal n, or Absent
    avus,       \* avus[n]: the sync AVUs of n
    members,    \* members[g]: the users in group g
    password,   \* password[n]
    pc,         \* pc[c]: the catalog call c makes next, "done" between requests
    req,        \* req[c]: the request c is serving, or served last
    target,     \* target[c]: the principal whose sync metadata c works on
    ret,        \* ret[c]: where c goes on after that
    todo,       \* todo[c]: the AVUs c still has to add
    out,        \* out[c]: the outcome so far; the result once pc[c] = "done"
    faults,     \* failures left
    origin      \* history: who created n, the source of a Service or "admin"

catalog == <<type, avus, members, password, origin>>
locals  == <<pc, req, target, ret, todo, out>>
vars    == <<catalog, locals, faults>>

-----------------------------------------------------------------------------
(* policy.go and the metadata helpers of usersync.go.                      *)

AttrRank == [managed |-> 1, source |-> 2, realm |-> 3, external |-> 4]

\* The AVUs a Service writes on the principals it owns.
managedAVUs(p) ==
    {[attr |-> "managed", val |-> p.source]}
        \cup {a \in {[attr |-> "source", val |-> p.source], [attr |-> "realm", val |-> p.realm],
                     [attr |-> "external", val |-> p.external]} : a.val # Blank}

\* classifySyncMetadata: EXTERNAL_ID is written and never compared.
Managed(metadata, p) ==
    \E a \in metadata : a.attr = "managed" /\ (p.source = Blank \/ a.val \in {Blank, p.source})

\* reconcileExistingSyncMetadata: what is owned, or claimed, gets its markers.
AdoptsAnything(metadata, p) == TRUE                                 \* mutant
AdoptsOwned(metadata, p) == Managed(metadata, p)                    \* mutant
Adopts(metadata, p) == p.claim \/ Managed(metadata, p)

Differs(value, expected) == expected # Blank /\ value # Blank /\ value # expected

Conflicting(metadata, p) ==
    \E a \in metadata : \/ a.attr \in {"managed", "source"} /\ Differs(a.val, p.source)
                        \/ a.attr = "realm" /\ Differs(a.val, p.realm)

\* requireCreateUserType and requireManageUserType.
MayCreate(t) == t \notin ProtectedTypes /\ t \in CreateTypes
MayManageProtected(t) == t \in ManageTypes                          \* mutant
MayManage(t) == t \notin ProtectedTypes /\ t \in ManageTypes

isPrincipalUserType(t) == t \in UserTypes

-----------------------------------------------------------------------------
(* What the catalog does with a call (the filesystem behind the Service).  *)

AddPrincipal(n, t, by) ==
    /\ type' = [type EXCEPT ![n] = t]
    /\ origin' = [origin EXCEPT ![n] = by]
    /\ UNCHANGED <<avus, members, password>>

\* RemoveUser and RemoveUserGroup go by name; metadata and memberships go too.
DropPrincipal(n) ==
    /\ type' = [type EXCEPT ![n] = Absent]
    /\ avus' = [avus EXCEPT ![n] = {}]
    /\ members' = [g \in Name |-> IF g = n THEN {} ELSE members[g] \ {n}]
    /\ password' = [password EXCEPT ![n] = Blank]
    /\ origin' = [origin EXCEPT ![n] = "none"]

Retype(n, t) ==
    /\ type' = [type EXCEPT ![n] = t]
    /\ UNCHANGED <<avus, members, password, origin>>

SetMembers(g, m) ==
    /\ members' = [members EXCEPT ![g] = m]
    /\ UNCHANGED <<type, avus, password, origin>>

-----------------------------------------------------------------------------
(* Control flow of a caller.                                               *)

\* The next call, or the end: the working state of a request ends with it.
Enter(c, stage) ==
    /\ pc' = [pc EXCEPT ![c] = stage]
    /\ IF stage = "done"
       THEN /\ target' = [target EXCEPT ![c] = req[c].name]
            /\ ret' = [ret EXCEPT ![c] = "done"]
            /\ todo' = [todo EXCEPT ![c] = {}]
       ELSE UNCHANGED <<target, ret, todo>>
    /\ UNCHANGED req

Proceed(c, stage) == Enter(c, stage) /\ UNCHANGED out

\* Go on to a stage with the outcome known.
Settle(c, stage, o) == Enter(c, stage) /\ out' = [out EXCEPT ![c] = o]

Finish(c, o) == Settle(c, "done", o)

\* Work on the sync metadata of n from a stage on, then go on at next.
WorkOn(c, n, stage, next) ==
    /\ pc' = [pc EXCEPT ![c] = stage]
    /\ target' = [target EXCEPT ![c] = n]
    /\ ret' = [ret EXCEPT ![c] = next]
    /\ UNCHANGED <<req, todo, out>>

\* The call took effect but its reply was lost: the caller sees an error.
LoseReply(c) ==
    /\ faults > 0
    /\ faults' = faults - 1
    /\ Finish(c, "error")

PasswordStage(c, otherwise) == IF req[c].password # Blank THEN "setpw" ELSE otherwise

\* UpdateUser once the metadata is reconciled.
UpdateStage(c, t) ==
    IF req[c].type \notin {Absent, t} THEN "retype" ELSE PasswordStage(c, "done")

\* requireDeleteAllowed lists metadata unless the policy is relaxed.
RemovalUnchecked(c) == "remove"                                     \* mutant
RemovalStage(c) == IF Policy[c].anyDelete THEN "remove" ELSE "check"

\* markCreatedPrincipal.
MarkLater(c) == Proceed(c, "done")                                  \* mutant
MarkCreated(c) ==
    IF Policy[c].mark THEN WorkOn(c, req[c].name, "relist", "done")
                      ELSE Proceed(c, "done")

-----------------------------------------------------------------------------
(* The operations, one action per catalog call.                            *)

FirstStage(op) ==
    CASE op \in {"EnsureUser", "EnsureGroup"}      -> "create"
      [] op \in {"UpdateUser", "EnsureUserAbsent"} -> "lookup"
      [] OTHER                                     -> "getgroup"

\* A request arrives and its user type is checked.
Start(c) ==
    /\ pc[c] = "done"
    /\ \E r \in Requests[c] :
        LET checksType == r.op = "EnsureUser" \/ (r.op = "UpdateUser" /\ r.type # Absent)
            refused    == checksType /\ ~MayCreate(r.type)
        IN /\ req' = [req EXCEPT ![c] = r]
           /\ target' = [target EXCEPT ![c] = r.name]
           /\ ret' = [ret EXCEPT ![c] = "done"]
           /\ pc' = [pc EXCEPT ![c] = IF refused THEN "done" ELSE FirstStage(r.op)]
           /\ out' = [out EXCEPT ![c] = IF refused THEN "policy" ELSE "error"]
    /\ UNCHANGED <<catalog, faults, todo>>

\* EnsureUser and EnsureGroup create first and look only on a conflict.
CreatePrincipal(c) ==
    LET n == req[c].name
        user == req[c].op = "EnsureUser"
    IN /\ pc[c] = "create"
       /\ type[n] = Absent
       /\ AddPrincipal(n, IF user THEN req[c].type ELSE "rodsgroup", Policy[c].source)
       /\ \/ /\ Settle(c, IF user THEN PasswordStage(c, "get") ELSE "view", "created")
             /\ UNCHANGED faults
          \/ LoseReply(c)

CreateConflict(c) ==
    /\ pc[c] = "create"
    /\ type[req[c].name] # Absent
    /\ Settle(c, IF req[c].op = "EnsureUser" THEN "reget" ELSE "view", "already_exists")
    /\ UNCHANGED <<catalog, faults>>

\* ChangeUserPassword, of a created, an existing or an updated user.
SetPassword(c) ==
    LET n == req[c].name
    IN /\ pc[c] = "setpw"
       /\ \/ /\ type[n] = Absent
             /\ Finish(c, "notfound")
             /\ UNCHANGED <<catalog, faults>>
          \/ /\ type[n] # Absent
             /\ password' = [password EXCEPT ![n] = req[c].password]
             /\ UNCHANGED <<type, avus, members, origin>>
             /\ \/ /\ IF req[c].op = "UpdateUser" THEN Finish(c, "updated")
                      ELSE Proceed(c, IF out[c] = "created" THEN "get" ELSE "done")
                   /\ UNCHANGED faults
                \/ LoseReply(c)

\* EnsureUser reads the user it created back, then marks it.
GetCreatedUser(c) ==
    /\ pc[c] = "get"
    /\ IF type[req[c].name] = Absent THEN Finish(c, "notfound") ELSE MarkCreated(c)
    /\ UNCHANGED <<catalog, faults>>

\* reconcileExistingUser.
Whatever(t, wanted) == TRUE                                         \* mutant
FitsRequest(t, wanted) == t = wanted
GetExistingUser(c) ==
    LET t == type[req[c].name]
    IN /\ pc[c] = "reget"
       /\ \/ t = Absent /\ Finish(c, "notfound")
          \/ t = "rodsgroup" /\ Finish(c, "conflict")
          \/ isPrincipalUserType(t) /\ ~MayManage(t) /\ Finish(c, "policy")
          \/ MayManage(t) /\ ~FitsRequest(t, req[c].type) /\ Finish(c, "conflict")
          \/ /\ MayManage(t) /\ FitsRequest(t, req[c].type)
             /\ WorkOn(c, req[c].name, "status", PasswordStage(c, "done"))
       /\ UNCHANGED <<catalog, faults>>

\* UpdateUser: a missing user may be created instead, as by EnsureUser.
LookupForUpdate(c) ==
    LET t == type[req[c].name]
    IN /\ pc[c] = "lookup" /\ req[c].op = "UpdateUser"
       /\ \/ /\ t = Absent /\ req[c].create /\ req[c].type # Absent
             /\ pc' = [pc EXCEPT ![c] = "create"]
             /\ req' = [req EXCEPT ![c].op = "EnsureUser"]
             /\ ret' = [ret EXCEPT ![c] = "done"]
             /\ out' = [out EXCEPT ![c] = "error"]
             /\ UNCHANGED <<target, todo>>
          \/ /\ t = Absent /\ (~req[c].create \/ req[c].type = Absent)
             /\ Finish(c, "notfound")
          \/ /\ t # Absent /\ ~MayManage(t)
             /\ Finish(c, "policy")
          \/ /\ MayManage(t)
             /\ pc' = [pc EXCEPT ![c] = "status"]
             /\ target' = [target EXCEPT ![c] = req[c].name]
             /\ ret' = [ret EXCEPT ![c] = UpdateStage(c, t)]
             /\ out' = [out EXCEPT ![c] = "already_exists"]
             /\ UNCHANGED <<req, todo>>
       /\ UNCHANGED <<catalog, faults>>

\* EnsureUserAbsent: a missing user, or a group of that name, is absent already.
LookupForRemoval(c) ==
    LET t == type[req[c].name]
    IN /\ pc[c] = "lookup" /\ req[c].op = "EnsureUserAbsent"
       /\ \/ ~isPrincipalUserType(t) /\ Finish(c, "already_absent")
          \/ isPrincipalUserType(t) /\ ~MayManage(t) /\ Finish(c, "policy")
          \/ MayManage(t) /\ WorkOn(c, req[c].name, RemovalStage(c), "remove")
       /\ UNCHANGED <<catalog, faults>>

\* getGroup: a principal that is not a group is not found.
GetGroup(c) ==
    LET g == req[c].name
    IN /\ pc[c] = "getgroup"
       /\ \/ /\ type[g] # "rodsgroup"
             /\ Finish(c, IF req[c].op = "EnsureGroupAbsent" THEN "already_absent" ELSE "notfound")
          \/ /\ type[g] = "rodsgroup"
             /\ IF req[c].op = "EnsureGroupAbsent" THEN WorkOn(c, g, RemovalStage(c), "remove")
                                                   ELSE WorkOn(c, g, "status", "getmember")
       /\ UNCHANGED <<catalog, faults>>

\* EnsureGroupMember wants a user it may manage; EnsureGroupMemberAbsent
\* tolerates a name that is no user, or no longer one.
GetMember(c) ==
    LET t == type[req[c].member]
        adding == req[c].op = "EnsureGroupMember"
    IN /\ pc[c] = "getmember"
       /\ \/ adding /\ ~isPrincipalUserType(t) /\ Finish(c, "notfound")
          \/ isPrincipalUserType(t) /\ ~MayManage(t) /\ Finish(c, "policy")
          \/ adding /\ MayManage(t) /\ WorkOn(c, req[c].member, "status", "add")
          \/ /\ ~adding /\ (isPrincipalUserType(t) => MayManage(t))
             /\ WorkOn(c, req[c].name, IF Policy[c].anyDrop THEN "drop" ELSE "check", "drop")
       /\ UNCHANGED <<catalog, faults>>

\* groupWithMembers: two reads, of which only success or failure matters here.
ViewGroup(c) ==
    LET g == req[c].name
    IN /\ pc[c] = "view"
       /\ \/ type[g] # "rodsgroup" /\ Finish(c, "notfound")
          \/ type[g] = "rodsgroup" /\ req[c].op # "EnsureGroup" /\ Proceed(c, "done")
          \/ /\ type[g] = "rodsgroup" /\ req[c].op = "EnsureGroup"
             /\ IF out[c] = "created" THEN MarkCreated(c) ELSE WorkOn(c, g, "status", "done")
       /\ UNCHANGED <<catalog, faults>>

\* reconcileExistingSyncMetadata lists the metadata.
ReadStatus(c) ==
    LET n == target[c]
        p == Policy[c]
    IN /\ pc[c] = "status"
       /\ \/ type[n] = Absent /\ Finish(c, "notfound")
          \/ type[n] # Absent /\ Conflicting(avus[n], p) /\ Finish(c, "conflict")
          \/ /\ type[n] # Absent /\ ~Conflicting(avus[n], p)
             /\ Proceed(c, IF Adopts(avus[n], p) THEN "relist" ELSE ret[c])
       /\ UNCHANGED <<catalog, faults>>

\* ensureManagedMetadata lists the metadata again ...
ListMissing(c) ==
    LET n == target[c]
        missing == managedAVUs(Policy[c]) \ avus[n]
    IN /\ pc[c] = "relist"
       /\ \/ type[n] = Absent /\ Finish(c, "notfound")
          \/ /\ type[n] # Absent
             /\ \/ missing = {} /\ Proceed(c, ret[c])
                \/ /\ missing # {}
                   /\ pc' = [pc EXCEPT ![c] = "mark"]
                   /\ todo' = [todo EXCEPT ![c] = missing]
                   /\ UNCHANGED <<req, target, ret, out>>
       /\ UNCHANGED <<catalog, faults>>

\* ... and adds what is missing, one call each, MANAGED first; an AVU that
\* somebody else added meanwhile is no error.
AddMarker(c) ==
    LET n == target[c]
    IN /\ pc[c] = "mark"
       /\ \/ /\ type[n] = Absent
             /\ Finish(c, "notfound")
             /\ UNCHANGED <<catalog, faults>>
          \/ \E a \in todo[c] :
             /\ type[n] # Absent
             /\ \A b \in todo[c] : AttrRank[a.attr] <= AttrRank[b.attr]
             /\ avus' = [avus EXCEPT ![n] = @ \cup {a}]
             /\ UNCHANGED <<type, members, password, origin>>
             /\ \/ todo[c] = {a} /\ Proceed(c, ret[c]) /\ UNCHANGED faults
                \/ /\ todo[c] # {a}
                   /\ todo' = [todo EXCEPT ![c] = @ \ {a}]
                   /\ UNCHANGED <<pc, req, target, ret, out, faults>>
                \/ LoseReply(c)

\* requireDeleteAllowed and requireMembershipRemovalAllowed.
CheckManaged(c) ==
    LET n == target[c]
        p == Policy[c]
    IN /\ pc[c] = "check"
       /\ \/ type[n] = Absent /\ Finish(c, "notfound")
          \/ type[n] # Absent /\ Conflicting(avus[n], p) /\ Finish(c, "conflict")
          \/ /\ type[n] # Absent /\ ~Conflicting(avus[n], p) /\ ~Managed(avus[n], p)
             /\ Finish(c, "policy")
          \/ /\ type[n] # Absent /\ ~Conflicting(avus[n], p) /\ Managed(avus[n], p)
             /\ Proceed(c, ret[c])
       /\ UNCHANGED <<catalog, faults>>

\* RemoveUser or RemoveUserGroup, by name.
AsMembership == "removed"                                           \* mutant
OutcomeRemoved == "deleted"
Remove(c) ==
    LET n == req[c].name
    IN /\ pc[c] = "remove"
       /\ \/ /\ type[n] = Absent
             /\ Finish(c, "already_absent")
             /\ UNCHANGED <<catalog, faults>>
          \/ /\ type[n] # Absent
             /\ DropPrincipal(n)
             /\ \/ Finish(c, OutcomeRemoved) /\ UNCHANGED faults
                \/ LoseReply(c)

\* ChangeUserType, in UpdateUser.
ChangeType(c) ==
    LET n == req[c].name
    IN /\ pc[c] = "retype"
       /\ \/ /\ type[n] = Absent
             /\ Finish(c, "notfound")
             /\ UNCHANGED <<catalog, faults>>
          \/ /\ type[n] # Absent
             /\ Retype(n, req[c].type)
             /\ \/ Settle(c, PasswordStage(c, "done"), "updated") /\ UNCHANGED faults
                \/ LoseReply(c)

\* AddGroupMember: the catalog refuses a second membership with a conflict.
AddMember(c) ==
    LET g == req[c].name
        u == req[c].member
    IN /\ pc[c] = "add"
       /\ \/ /\ type[g] # "rodsgroup" \/ ~isPrincipalUserType(type[u])
             /\ Finish(c, "notfound")
             /\ UNCHANGED <<catalog, faults>>
          \/ /\ type[g] = "rodsgroup" /\ isPrincipalUserType(type[u]) /\ u \in members[g]
             /\ Settle(c, "view", "already_member")
             /\ UNCHANGED <<catalog, faults>>
          \/ /\ type[g] = "rodsgroup" /\ isPrincipalUserType(type[u]) /\ u \notin members[g]
             /\ SetMembers(g, members[g] \cup {u})
             /\ \/ Settle(c, "view", "added") /\ UNCHANGED faults
                \/ LoseReply(c)

\* RemoveGroupMember: no such membership is an absence, not an error.
DropMember(c) ==
    LET g == req[c].name
        u == req[c].member
    IN /\ pc[c] = "drop"
       /\ \/ /\ u \notin members[g]
             /\ Settle(c, "view", "already_absent")
             /\ UNCHANGED <<catalog, faults>>
          \/ /\ u \in members[g]
             /\ SetMembers(g, members[g] \ {u})
             /\ \/ Settle(c, "view", "removed") /\ UNCHANGED faults
                \/ LoseReply(c)

\* A call fails without effect, the context is cancelled, or the caller stops.
Fail(c) ==
    /\ pc[c] # "done"
    /\ faults > 0
    /\ faults' = faults - 1
    /\ Finish(c, "error")
    /\ UNCHANGED catalog

-----------------------------------------------------------------------------
(* Administrators work on the catalog directly, with iCommands.            *)

AdminMayAct == \/ AdminWhen = "anytime"
               \/ AdminWhen = "quiet" /\ \A c \in Caller : pc[c] = "done"

AdminCreate == \E n \in Name, t \in Types : type[n] = Absent /\ AddPrincipal(n, t, "admin")
AdminRemove == \E n \in Name : type[n] # Absent /\ DropPrincipal(n)
AdminRetype == \E n \in Name, t \in UserTypes : type[n] \in UserTypes \ {t} /\ Retype(n, t)
AdminJoin   == \E g, u \in Name : /\ type[g] = "rodsgroup" /\ type[u] \in UserTypes
                                  /\ u \notin members[g]
                                  /\ SetMembers(g, members[g] \cup {u})

AdminStep ==
    /\ AdminMayAct
    /\ AdminCreate \/ AdminRemove \/ AdminRetype \/ AdminJoin
    /\ UNCHANGED <<locals, faults>>

-----------------------------------------------------------------------------
\* An empty catalog, or one that administrators filled before.
Init ==
    /\ type \in [Name -> IF AdminWhen = "never" THEN Types \cup {Absent} ELSE {Absent}]
    /\ avus = [n \in Name |-> {}]
    /\ members = [n \in Name |-> {}]
    /\ password = [n \in Name |-> Blank]
    /\ origin = [n \in Name |-> IF type[n] = Absent THEN "none" ELSE "admin"]
    /\ pc = [c \in Caller |-> "done"]
    /\ req = [c \in Caller |-> CHOOSE r \in Requests[c] : TRUE]
    /\ target = [c \in Caller |-> req[c].name]
    /\ ret = [c \in Caller |-> "done"]
    /\ todo = [c \in Caller |-> {}]
    /\ out = [c \in Caller |-> "error"]
    /\ faults = MaxFaults

Call(c) ==
    \/ CreatePrincipal(c) \/ CreateConflict(c) \/ SetPassword(c) \/ GetCreatedUser(c)
    \/ GetExistingUser(c) \/ LookupForUpdate(c) \/ LookupForRemoval(c) \/ GetGroup(c)
    \/ GetMember(c) \/ ViewGroup(c) \/ ReadStatus(c) \/ ListMissing(c) \/ AddMarker(c)
    \/ CheckManaged(c) \/ Remove(c) \/ ChangeType(c) \/ AddMember(c) \/ DropMember(c)

Next == \/ \E c \in Caller : Start(c) \/ Call(c) \/ Fail(c)
        \/ AdminStep

Spec == Init /\ [][Next]_vars

\* A caller finishes the request it serves, and a controller repeats requests.
FairSpec == Spec /\ \A c \in Caller : WF_vars(Start(c)) /\ WF_vars(Call(c))

-----------------------------------------------------------------------------
(* Properties.                                                             *)

\* Every variable keeps to its values; an operation reports only the outcomes
\* that belong to it.
CatalogTypeOK ==
    /\ type \in [Name -> Types \cup {Absent}]
    /\ avus \in [Name -> SUBSET AVU]
    /\ members \in [Name -> SUBSET Name]
    /\ password \in [Name -> Password \cup {Blank}]
    /\ origin \in [Name -> Value \cup {Blank, "admin", "none"}]

LocalTypeOK ==
    /\ pc \in [Caller -> Stage]
    /\ req \in [Caller -> RequestType]
    /\ target \in [Caller -> Name]
    /\ ret \in [Caller -> Stage]
    /\ todo \in [Caller -> SUBSET AVU]
    /\ out \in [Caller -> Result]
    /\ \A c \in Caller : /\ OutcomeOf(req[c].op, out[c])
                         /\ StageOf(req[c].op, pc[c]) /\ StageOf(req[c].op, ret[c])

TypeOK == CatalogTypeOK /\ LocalTypeOK /\ faults \in 0 .. MaxFaults

\* n gains or loses something: its type, markers, password, or a membership
\* in a group that stays.
Touched(n) ==
    \/ type'[n] # type[n] \/ avus'[n] # avus[n] \/ password'[n] # password[n]
    \/ \E g \in Name : type'[g] # Absent /\ ((n \in members[g]) # (n \in members'[g]))

\* The sync workflows never create a user of a protected type, promote one to
\* it, or change a protected user in any way: type, password, markers,
\* membership, existence.  The type is read several calls before it matters.
ProtectedUntouched ==
    [][\A n \in Name :
         Touched(n) /\ {type[n], type'[n]} \cap ProtectedTypes # {} => AdminStep]_vars

\* n may be worked on.
Clear(n) == type[n] \notin ProtectedTypes

\* What c is about to act on is clear, and so is the type it is going to give.
Cleared(c) ==
    LET next == IF pc[c] \in {"status", "relist", "mark", "check"} THEN ret[c] ELSE pc[c]
    IN /\ pc[c] \in {"status", "relist", "mark"} => Clear(target[c])
       /\ next \in {"setpw", "get", "retype", "remove"} => Clear(req[c].name)
       /\ next \in {"add", "drop"} => Clear(req[c].member)
       /\ pc[c] = "create" /\ req[c].op = "EnsureUser" => MayCreate(req[c].type)
       /\ pc[c] # "done" /\ req[c].op = "UpdateUser" /\ req[c].type # Absent
             => MayCreate(req[c].type)

\* What a caller found permitted when it read the type of a user is still so
\* when it comes to act on it, several calls and other callers' calls later.
ClearanceHolds == \A c \in Caller : Cleared(c)

\* A removal of a principal, or from a group, strikes only what carries the
\* marker of the Service at that very moment, unless the policy is relaxed:
\* the marker was read one call earlier.
RemovalNeedsMarker ==
    [][\A c \in Caller :
         LET n == req[c].name
             owned == Managed(avus[n], Policy[c]) /\ ~Conflicting(avus[n], Policy[c])
         IN /\ pc[c] = "remove" /\ pc'[c] # "remove" /\ ~Policy[c].anyDelete
                 => owned \/ type'[n] = type[n]
            /\ pc[c] = "drop" /\ pc'[c] # "drop" /\ ~Policy[c].anyDrop
                 => owned \/ members'[n] = members[n]]_vars

\* Without ClaimExisting nobody's principals are taken over: a MANAGED marker
\* names the Service that created the principal, so a principal never has two
\* owners, each of which then refuses it as conflicting.
OwnershipFollowsCreation ==
    \A n \in Name : \A a \in avus[n] : a.attr = "managed" => a.val = origin[n]

Converged(r) ==
    LET t == type[r.name]
        hasPassword == r.password # Blank => password[r.name] = r.password
    IN CASE r.op = "EnsureUser"              -> t = r.type /\ hasPassword
         [] r.op = "UpdateUser"              -> /\ t = r.type \/ (r.type = Absent /\ MayManage(t))
                                                /\ hasPassword
         [] r.op = "EnsureUserAbsent"        -> ~isPrincipalUserType(t)
         [] r.op = "EnsureGroup"             -> t = "rodsgroup"
         [] r.op = "EnsureGroupAbsent"       -> t # "rodsgroup"
         [] r.op = "EnsureGroupMember"       -> r.member \in members[r.name]
         [] r.op = "EnsureGroupMemberAbsent" -> r.member \notin members[r.name]

\* A single caller that is told of success finds the state it asked for,
\* whatever failed or was half done in the requests before.
SuccessMeansConverged ==
    \A c \in Caller : pc[c] = "done" /\ out[c] \notin Errors => Converged(req[c])

\* The outcome "created" is reported only once every marker is in place.
CreatedMeansMarked ==
    \A c \in Caller :
        pc[c] = "done" /\ out[c] = "created" /\ Policy[c].mark
            => managedAVUs(Policy[c]) \subseteq avus[req[c].name]

\* When EnsureUser or EnsureGroup succeeds, a principal that this Service
\* created carries its MANAGED marker ("created users and groups are marked").
CreatedIsMarked ==
    \A c \in Caller :
        LET n == req[c].name
            p == Policy[c]
        IN /\ pc[c] = "done" /\ out[c] \notin Errors /\ p.mark
           /\ req[c].op \in {"EnsureUser", "EnsureGroup"} /\ origin[n] = p.source
           => [attr |-> "managed", val |-> p.source] \in avus[n]

WantedType(r) == IF r.op = "EnsureUser" THEN r.type ELSE "rodsgroup"

\* A controller with ClaimExisting that from some time on asks for one and the
\* same principal ends up owning it, with every marker, whatever it did before
\* and whichever calls fail in between; unless the name is taken by a principal
\* of another type.
EventuallyOwned ==
    \A c \in Caller : \A r \in Requests[c] :
        r.op \in {"EnsureUser", "EnsureGroup"} =>
            (<>[](req[c] = r) =>
                <>[](\/ managedAVUs(Policy[c]) \subseteq avus[r.name]
                     \/ type[r.name] \notin {Absent, WantedType(r)}))

=============================================================================
