--------------------------- MODULE UserSyncProofs ---------------------------
(***************************************************************************)
(* Theorems about UserSync, for every set of callers, names and requests   *)
(* and every policy.                                                       *)
(***************************************************************************)
EXTENDS UserSync, TLAPS

-----------------------------------------------------------------------------
(* Types.                                                                  *)

\* What a Service writes are AVUs.
LEMMA ManagedAVUsType ==
    ASSUME NEW c \in Caller
    PROVE  managedAVUs(Policy[c]) \subseteq AVU /\ Policy[c].source \in Value \cup {Blank}
  BY UserSyncAssumption DEF managedAVUs, AVU, PolicyType

\* The stages and outcomes of an operation; every request may end.
LEMMA StageFacts ==
    /\ \A op, stage : StageOf(op, stage) => stage \in Stage
    /\ \A op, o : OutcomeOf(op, o) => o \in Result
    /\ \A op : StageOf(op, "done")
    /\ \A op : \A o \in Errors : OutcomeOf(op, o)
  <1>1. ASSUME NEW op, NEW stage, StageOf(op, stage)
        PROVE  stage \in Stage
    BY <1>1 DEF StageOf, Stage
  <1>2. ASSUME NEW op, NEW o, OutcomeOf(op, o)
        PROVE  o \in Result
    BY <1>2 DEF OutcomeOf, Errors, Result
  <1>3. ASSUME NEW op
        PROVE  StageOf(op, "done") /\ \A o \in Errors : OutcomeOf(op, o)
    BY DEF StageOf, OutcomeOf
  <1>4. QED
    BY <1>1, <1>2, <1>3

\* A caller that moves on keeps the types of its local state when the stage
\* and the outcome belong to the operation it serves.
LEMMA SettleType ==
    ASSUME LocalTypeOK, NEW c \in Caller, NEW stage, NEW o, Settle(c, stage, o),
           StageOf(req[c].op, stage), OutcomeOf(req[c].op, o)
    PROVE  LocalTypeOK'
  <1>1. req[c].name \in Name
    BY DEF LocalTypeOK, RequestType
  <1>2. QED
    BY <1>1, StageFacts DEF Settle, Enter, LocalTypeOK

LEMMA FinishType ==
    ASSUME LocalTypeOK, NEW c \in Caller, NEW o, Finish(c, o), OutcomeOf(req[c].op, o)
    PROVE  LocalTypeOK'
  BY SettleType, StageFacts DEF Finish

LEMMA ProceedType ==
    ASSUME LocalTypeOK, NEW c \in Caller, NEW stage, Proceed(c, stage),
           StageOf(req[c].op, stage)
    PROVE  LocalTypeOK'
  <1>1. Settle(c, stage, out[c])
    BY DEF Proceed, Settle, LocalTypeOK
  <1>2. OutcomeOf(req[c].op, out[c])
    BY DEF LocalTypeOK
  <1>3. QED
    BY <1>1, <1>2, SettleType

LEMMA WorkOnType ==
    ASSUME LocalTypeOK, NEW c \in Caller, NEW n \in Name, NEW stage, NEW next,
           WorkOn(c, n, stage, next),
           StageOf(req[c].op, stage), StageOf(req[c].op, next)
    PROVE  LocalTypeOK'
  BY StageFacts DEF WorkOn, LocalTypeOK

LEMMA LoseReplyType ==
    ASSUME TypeOK, NEW c \in Caller, LoseReply(c)
    PROVE  LocalTypeOK' /\ faults' \in 0 .. MaxFaults
  <1>1. OutcomeOf(req[c].op, "error")
    BY DEF OutcomeOf, Errors
  <1>2. LocalTypeOK'
    BY <1>1, FinishType DEF LoseReply, TypeOK
  <1>3. faults' \in 0 .. MaxFaults
    BY UserSyncAssumption DEF LoseReply, TypeOK
  <1>4. QED
    BY <1>2, <1>3

\* What the catalog does with a call keeps the types of the catalog.
LEMMA CatalogCallType ==
    ASSUME CatalogTypeOK, NEW n \in Name
    PROVE  /\ \A t \in Types \cup {Absent}, by \in Value \cup {Blank, "admin"} :
                 AddPrincipal(n, t, by) => CatalogTypeOK'
           /\ \A t \in Types \cup {Absent} : Retype(n, t) => CatalogTypeOK'
           /\ \A m \in SUBSET Name : SetMembers(n, m) => CatalogTypeOK'
           /\ DropPrincipal(n) => CatalogTypeOK'
  <1>1. ASSUME NEW t \in Types \cup {Absent}, NEW by \in Value \cup {Blank, "admin"},
               AddPrincipal(n, t, by)
        PROVE  CatalogTypeOK'
    BY <1>1 DEF AddPrincipal, CatalogTypeOK
  <1>2. ASSUME NEW t \in Types \cup {Absent}, Retype(n, t)
        PROVE  CatalogTypeOK'
    BY <1>2 DEF Retype, CatalogTypeOK
  <1>3. ASSUME NEW m \in SUBSET Name, SetMembers(n, m)
        PROVE  CatalogTypeOK'
    BY <1>3 DEF SetMembers, CatalogTypeOK
  <1>4. DropPrincipal(n) => CatalogTypeOK'
    BY DEF DropPrincipal, CatalogTypeOK
  <1>5. QED
    BY <1>1, <1>2, <1>3, <1>4

\* Each catalog call of a caller keeps the types.
LEMMA CallType ==
    ASSUME TypeOK, NEW c \in Caller, Call(c)
    PROVE  TypeOK'
  <1> DEFINE r == req[c]
  <1>r. /\ r \in RequestType /\ r.name \in Name /\ r.member \in Name /\ target[c] \in Name
        /\ r.type \in Types \cup {Absent} /\ r.password \in Password \cup {Blank}
        /\ StageOf(r.op, pc[c]) /\ StageOf(r.op, ret[c]) /\ OutcomeOf(r.op, out[c])
    BY DEF TypeOK, LocalTypeOK, RequestType
  <1>t. LocalTypeOK /\ CatalogTypeOK
    BY DEF TypeOK
  <1>e. \A o \in Errors : Finish(c, o) => LocalTypeOK'
    BY <1>t, FinishType, StageFacts
  <1>f. /\ Finish(c, "notfound") => LocalTypeOK'
        /\ Finish(c, "conflict") => LocalTypeOK'
        /\ Finish(c, "policy") => LocalTypeOK'
    BY <1>e DEF Errors
  <1>k. ASSUME UNCHANGED <<catalog, faults>>, LocalTypeOK'
        PROVE  TypeOK'
    BY <1>k DEF TypeOK, catalog, CatalogTypeOK
  <1>c. ASSUME CatalogTypeOK', (UNCHANGED faults /\ LocalTypeOK') \/ LoseReply(c)
        PROVE  TypeOK'
    BY <1>c, LoseReplyType DEF TypeOK
  <1>1. CASE CreatePrincipal(c)
    <2> DEFINE user == r.op = "EnsureUser"
               t == IF user THEN r.type ELSE "rodsgroup"
               next == IF user THEN PasswordStage(c, "get") ELSE "view"
    <2>1. r.op \in {"EnsureUser", "EnsureGroup"}
      BY <1>1, <1>r DEF CreatePrincipal, StageOf
    <2>2. StageOf(r.op, next) /\ OutcomeOf(r.op, "created")
      BY <2>1 DEF StageOf, OutcomeOf, PasswordStage
    <2>3. Settle(c, next, "created") => LocalTypeOK'
      BY <2>2, <1>t, SettleType
    <2>4. t \in Types \cup {Absent} /\ Policy[c].source \in Value \cup {Blank, "admin"}
      BY <1>r, ManagedAVUsType DEF Types
    <2>5. AddPrincipal(r.name, t, Policy[c].source)
      BY <1>1 DEF CreatePrincipal
    <2>6. CatalogTypeOK'
      BY <2>4, <2>5, <1>r, <1>t, CatalogCallType
    <2>7. (Settle(c, next, "created") /\ UNCHANGED faults) \/ LoseReply(c)
      BY <1>1 DEF CreatePrincipal
    <2>8. QED
      BY <2>3, <2>6, <2>7, <1>c
  <1>2. CASE CreateConflict(c)
    <2> DEFINE next == IF r.op = "EnsureUser" THEN "reget" ELSE "view"
    <2>1. StageOf(r.op, next) /\ OutcomeOf(r.op, "already_exists")
      BY <1>2, <1>r DEF CreateConflict, StageOf, OutcomeOf
    <2>2. Settle(c, next, "already_exists") /\ UNCHANGED <<catalog, faults>>
      BY <1>2 DEF CreateConflict
    <2>3. QED
      BY <2>1, <2>2, <1>t, <1>k, SettleType
  <1>3. CASE SetPassword(c)
    <2> DEFINE next == IF out[c] = "created" THEN "get" ELSE "done"
    <2>1. CASE type[r.name] = Absent
      BY <2>1, <1>3, <1>f, <1>k DEF SetPassword
    <2>2. CASE type[r.name] # Absent
      <3>1. CatalogTypeOK'
        BY <2>2, <1>3, <1>r, <1>t DEF SetPassword, CatalogTypeOK
      <3>2. r.op \in {"EnsureUser", "UpdateUser"}
        BY <1>3, <1>r DEF SetPassword, StageOf
      <3>3. StageOf(r.op, next)
        BY <3>2, <1>r DEF StageOf, OutcomeOf, Errors
      <3>4. Proceed(c, next) => LocalTypeOK'
        BY <3>3, <1>t, ProceedType
      <3>5. r.op = "UpdateUser" /\ Finish(c, "updated") => LocalTypeOK'
        BY <1>t, FinishType DEF OutcomeOf
      <3>6. \/ ((r.op = "UpdateUser" /\ Finish(c, "updated")) \/ Proceed(c, next)) /\ UNCHANGED faults
            \/ LoseReply(c)
        BY <2>2, <1>3 DEF SetPassword
      <3>7. QED
        BY <3>1, <3>4, <3>5, <3>6, <1>c
    <2>3. QED
      BY <2>1, <2>2
  <1>m. ASSUME MarkCreated(c), StageOf(r.op, "relist")
        PROVE  LocalTypeOK'
    BY <1>m, <1>r, <1>t, WorkOnType, ProceedType, StageFacts DEF MarkCreated
  <1>4. CASE GetCreatedUser(c)
    <2>1. StageOf(r.op, "relist")
      BY <1>4, <1>r DEF GetCreatedUser, StageOf
    <2>2. QED
      BY <2>1, <1>4, <1>f, <1>k, <1>m DEF GetCreatedUser
  <1>5. CASE GetExistingUser(c)
    <2>1. StageOf(r.op, "status") /\ StageOf(r.op, PasswordStage(c, "done"))
      BY <1>5, <1>r DEF GetExistingUser, StageOf, PasswordStage
    <2>2. WorkOn(c, r.name, "status", PasswordStage(c, "done")) => LocalTypeOK'
      BY <2>1, <1>r, <1>t, WorkOnType
    <2>3. QED
      BY <2>2, <1>5, <1>f, <1>k DEF GetExistingUser
  <1>6. CASE LookupForUpdate(c)
    <2> DEFINE t == type[r.name]
    <2>0. r.op = "UpdateUser" /\ pc[c] = "lookup" /\ UNCHANGED <<catalog, faults>>
      BY <1>6 DEF LookupForUpdate
    <2>1. CASE /\ pc' = [pc EXCEPT ![c] = "create"]
               /\ req' = [req EXCEPT ![c].op = "EnsureUser"]
               /\ ret' = [ret EXCEPT ![c] = "done"]
               /\ out' = [out EXCEPT ![c] = "error"]
               /\ UNCHANGED <<target, todo>>
      <3>1. StageOf("EnsureUser", "create") /\ StageOf("EnsureUser", "done")
            /\ OutcomeOf("EnsureUser", "error")
            /\ "create" \in Stage /\ "done" \in Stage /\ "error" \in Result
        BY DEF StageOf, OutcomeOf, Errors, Stage, Result
      <3>2. req' \in [Caller -> RequestType]
        BY <2>1, <1>t DEF LocalTypeOK, RequestType, UserOps
      <3>3. LocalTypeOK'
        BY <2>1, <3>1, <3>2, <1>t DEF LocalTypeOK
      <3>4. QED
        BY <3>3, <2>0, <1>k
    <2>2. CASE /\ pc' = [pc EXCEPT ![c] = "status"]
               /\ target' = [target EXCEPT ![c] = r.name]
               /\ ret' = [ret EXCEPT ![c] = UpdateStage(c, t)]
               /\ out' = [out EXCEPT ![c] = "already_exists"]
               /\ UNCHANGED <<req, todo>>
      <3>1. /\ StageOf(r.op, "status") /\ StageOf(r.op, UpdateStage(c, t))
            /\ OutcomeOf(r.op, "already_exists")
        BY <2>0 DEF StageOf, OutcomeOf, UpdateStage, PasswordStage
      <3>2. LocalTypeOK'
        BY <2>2, <3>1, <1>r, <1>t, StageFacts DEF LocalTypeOK
      <3>3. QED
        BY <3>2, <2>0, <1>k
    <2>3. QED
      BY <2>0, <2>1, <2>2, <1>6, <1>f, <1>k DEF LookupForUpdate
  <1>7. CASE LookupForRemoval(c)
    <2>1. /\ StageOf(r.op, RemovalStage(c)) /\ StageOf(r.op, "remove")
          /\ OutcomeOf(r.op, "already_absent")
      BY <1>7 DEF LookupForRemoval, StageOf, OutcomeOf, RemovalStage
    <2>2. /\ Finish(c, "already_absent") => LocalTypeOK'
          /\ WorkOn(c, r.name, RemovalStage(c), "remove") => LocalTypeOK'
      BY <2>1, <1>r, <1>t, FinishType, WorkOnType
    <2>3. QED
      BY <2>2, <1>7, <1>f, <1>k DEF LookupForRemoval
  <1>8. CASE GetGroup(c)
    <2> DEFINE g == r.name
               absent == r.op = "EnsureGroupAbsent"
    <2>1. r.op \in {"EnsureGroupAbsent", "EnsureGroupMember", "EnsureGroupMemberAbsent"}
      BY <1>8, <1>r DEF GetGroup, StageOf
    <2>2. /\ absent => /\ StageOf(r.op, RemovalStage(c)) /\ StageOf(r.op, "remove")
                       /\ OutcomeOf(r.op, "already_absent")
          /\ ~absent => StageOf(r.op, "status") /\ StageOf(r.op, "getmember")
      BY <2>1 DEF StageOf, OutcomeOf, RemovalStage
    <2>3. /\ absent /\ Finish(c, "already_absent") => LocalTypeOK'
          /\ absent /\ WorkOn(c, g, RemovalStage(c), "remove") => LocalTypeOK'
          /\ ~absent /\ WorkOn(c, g, "status", "getmember") => LocalTypeOK'
      BY <2>2, <1>r, <1>t, FinishType, WorkOnType
    <2>4. QED
      BY <2>3, <1>8, <1>f, <1>k DEF GetGroup
  <1>9. CASE GetMember(c)
    <2> DEFINE checks == IF Policy[c].anyDrop THEN "drop" ELSE "check"
    <2>1. r.op \in {"EnsureGroupMember", "EnsureGroupMemberAbsent"}
      BY <1>9, <1>r DEF GetMember, StageOf
    <2>2. /\ r.op = "EnsureGroupMember" => StageOf(r.op, "status") /\ StageOf(r.op, "add")
          /\ r.op # "EnsureGroupMember" => StageOf(r.op, checks) /\ StageOf(r.op, "drop")
      BY <2>1 DEF StageOf
    <2>3. /\ r.op = "EnsureGroupMember" /\ WorkOn(c, r.member, "status", "add") => LocalTypeOK'
          /\ r.op # "EnsureGroupMember" /\ WorkOn(c, r.name, checks, "drop") => LocalTypeOK'
      BY <2>2, <1>r, <1>t, WorkOnType
    <2>4. QED
      BY <2>3, <1>9, <1>f, <1>k DEF GetMember
  <1>10. CASE ViewGroup(c)
    <2>1. r.op = "EnsureGroup" => StageOf(r.op, "status") /\ StageOf(r.op, "relist")
      BY DEF StageOf
    <2>2. Proceed(c, "done") => LocalTypeOK'
      BY <1>t, ProceedType, StageFacts
    <2>3. r.op = "EnsureGroup" /\ WorkOn(c, r.name, "status", "done") => LocalTypeOK'
      BY <2>1, <1>r, <1>t, WorkOnType, StageFacts
    <2>4. QED
      BY <2>1, <2>2, <2>3, <1>10, <1>f, <1>k, <1>m DEF ViewGroup
  <1>p. StageOf(r.op, ret[c]) /\ (Proceed(c, ret[c]) => LocalTypeOK')
    BY <1>r, <1>t, ProceedType
  <1>11. CASE ReadStatus(c)
    <2>1. StageOf(r.op, "relist")
      BY <1>11, <1>r DEF ReadStatus, StageOf
    <2>2. Proceed(c, "relist") => LocalTypeOK'
      BY <2>1, <1>t, ProceedType
    <2>3. QED
      BY <2>2, <1>11, <1>f, <1>k, <1>p DEF ReadStatus
  <1>12. CASE ListMissing(c)
    <2> DEFINE missing == managedAVUs(Policy[c]) \ avus[target[c]]
    <2>1. missing \in SUBSET AVU
      BY ManagedAVUsType
    <2>2. StageOf(r.op, "mark") /\ "mark" \in Stage
      BY <1>12, <1>r DEF ListMissing, StageOf, Stage
    <2>3. ASSUME pc' = [pc EXCEPT ![c] = "mark"], todo' = [todo EXCEPT ![c] = missing],
                 UNCHANGED <<req, target, ret, out>>
          PROVE  LocalTypeOK'
      BY <2>1, <2>2, <2>3, <1>t DEF LocalTypeOK
    <2>4. QED
      BY <2>3, <1>12, <1>f, <1>k, <1>p DEF ListMissing
  <1>13. CASE AddMarker(c)
    <2>1. CASE type[target[c]] = Absent /\ Finish(c, "notfound") /\ UNCHANGED <<catalog, faults>>
      BY <2>1, <1>f, <1>k
    <2>2. ASSUME NEW a \in todo[c],
                 avus' = [avus EXCEPT ![target[c]] = @ \cup {a}],
                 UNCHANGED <<type, members, password, origin>>,
                 \/ Proceed(c, ret[c]) /\ UNCHANGED faults
                 \/ /\ todo' = [todo EXCEPT ![c] = @ \ {a}]
                    /\ UNCHANGED <<pc, req, target, ret, out, faults>>
                 \/ LoseReply(c)
          PROVE  TypeOK'
      <3>1. CatalogTypeOK'
        BY <2>2, <1>t DEF CatalogTypeOK, LocalTypeOK
      <3>2. ASSUME todo' = [todo EXCEPT ![c] = @ \ {a}], UNCHANGED <<pc, req, target, ret, out>>
            PROVE  LocalTypeOK'
        BY <3>2, <1>t DEF LocalTypeOK
      <3>3. QED
        BY <3>1, <3>2, <2>2, <1>c, <1>p
    <2>3. QED
      BY <2>1, <2>2, <1>13 DEF AddMarker
  <1>14. CASE CheckManaged(c)
    BY <1>14, <1>f, <1>k, <1>p DEF CheckManaged
  <1>15. CASE Remove(c)
    <2>1. OutcomeOf(r.op, "already_absent") /\ OutcomeOf(r.op, OutcomeRemoved)
      BY <1>15, <1>r DEF Remove, StageOf, OutcomeOf, OutcomeRemoved
    <2>2. /\ Finish(c, "already_absent") => LocalTypeOK'
          /\ Finish(c, OutcomeRemoved) => LocalTypeOK'
      BY <2>1, <1>t, FinishType
    <2>3. DropPrincipal(r.name) => CatalogTypeOK'
      BY <1>r, <1>t, CatalogCallType
    <2>4. QED
      BY <2>2, <2>3, <1>15, <1>c, <1>k DEF Remove
  <1>16. CASE ChangeType(c)
    <2>1. StageOf(r.op, PasswordStage(c, "done")) /\ OutcomeOf(r.op, "updated")
      BY <1>16, <1>r DEF ChangeType, StageOf, OutcomeOf, PasswordStage
    <2>2. Settle(c, PasswordStage(c, "done"), "updated") => LocalTypeOK'
      BY <2>1, <1>t, SettleType
    <2>3. Retype(r.name, r.type) => CatalogTypeOK'
      BY <1>r, <1>t, CatalogCallType
    <2>4. QED
      BY <2>2, <2>3, <1>16, <1>c, <1>f, <1>k DEF ChangeType
  <1>17. CASE AddMember(c)
    <2>1. StageOf(r.op, "view") /\ OutcomeOf(r.op, "already_member") /\ OutcomeOf(r.op, "added")
      BY <1>17, <1>r DEF AddMember, StageOf, OutcomeOf
    <2>2. /\ Settle(c, "view", "already_member") => LocalTypeOK'
          /\ Settle(c, "view", "added") => LocalTypeOK'
      BY <2>1, <1>t, SettleType
    <2>3. members[r.name] \cup {r.member} \in SUBSET Name
      BY <1>r, <1>t DEF CatalogTypeOK
    <2>4. SetMembers(r.name, members[r.name] \cup {r.member}) => CatalogTypeOK'
      BY <2>3, <1>r, <1>t, CatalogCallType
    <2>5. QED
      BY <2>2, <2>4, <1>17, <1>c, <1>f, <1>k DEF AddMember
  <1>18. CASE DropMember(c)
    <2>1. StageOf(r.op, "view") /\ OutcomeOf(r.op, "already_absent") /\ OutcomeOf(r.op, "removed")
      BY <1>18, <1>r DEF DropMember, StageOf, OutcomeOf
    <2>2. /\ Settle(c, "view", "already_absent") => LocalTypeOK'
          /\ Settle(c, "view", "removed") => LocalTypeOK'
      BY <2>1, <1>t, SettleType
    <2>3. members[r.name] \ {r.member} \in SUBSET Name
      BY <1>r, <1>t DEF CatalogTypeOK
    <2>4. SetMembers(r.name, members[r.name] \ {r.member}) => CatalogTypeOK'
      BY <2>3, <1>r, <1>t, CatalogCallType
    <2>5. QED
      BY <2>2, <2>4, <1>18, <1>c, <1>k DEF DropMember
  <1>19. QED
    BY <1>1, <1>2, <1>3, <1>4, <1>5, <1>6, <1>7, <1>8, <1>9, <1>10, <1>11, <1>12, <1>13,
       <1>14, <1>15, <1>16, <1>17, <1>18 DEF Call

\* A request arrives.
LEMMA StartType ==
    ASSUME TypeOK, NEW c \in Caller, Start(c)
    PROVE  TypeOK'
  <1>1. PICK r \in Requests[c], refused \in BOOLEAN :
            /\ req' = [req EXCEPT ![c] = r]
            /\ target' = [target EXCEPT ![c] = r.name]
            /\ ret' = [ret EXCEPT ![c] = "done"]
            /\ pc' = [pc EXCEPT ![c] = IF refused THEN "done" ELSE FirstStage(r.op)]
            /\ out' = [out EXCEPT ![c] = IF refused THEN "policy" ELSE "error"]
    BY DEF Start
  <1>2. UNCHANGED <<catalog, faults, todo>>
    BY DEF Start
  <1>3. r \in RequestType /\ r.name \in Name
    BY UserSyncAssumption DEF RequestType
  <1>4. StageOf(r.op, FirstStage(r.op))
    BY <1>3 DEF StageOf, FirstStage, RequestType, UserOps, GroupOps, MemberOps
  <1>5. StageOf(r.op, "done") /\ OutcomeOf(r.op, "policy") /\ OutcomeOf(r.op, "error")
    BY StageFacts DEF Errors
  <1>6. LocalTypeOK'
    BY <1>1, <1>2, <1>3, <1>4, <1>5, StageFacts DEF TypeOK, LocalTypeOK
  <1>7. CatalogTypeOK' /\ faults' \in 0 .. MaxFaults
    BY <1>2 DEF catalog, TypeOK, CatalogTypeOK
  <1>8. QED
    BY <1>6, <1>7 DEF TypeOK

\* Administrators change the catalog only.
LEMMA AdminType ==
    ASSUME TypeOK, AdminStep
    PROVE  TypeOK'
  <1>1. CatalogTypeOK /\ LocalTypeOK' /\ faults' \in 0 .. MaxFaults
    BY DEF TypeOK, AdminStep, locals, LocalTypeOK
  <1>2. CASE AdminCreate
    BY <1>1, <1>2, CatalogCallType DEF AdminCreate, TypeOK
  <1>3. CASE AdminRemove
    BY <1>1, <1>3, CatalogCallType DEF AdminRemove, TypeOK
  <1>4. CASE AdminRetype
    BY <1>1, <1>4, CatalogCallType DEF AdminRetype, TypeOK, Types
  <1>5. CASE AdminJoin
    <2>1. PICK g \in Name, u \in Name : SetMembers(g, members[g] \cup {u})
      BY <1>5 DEF AdminJoin
    <2>2. members[g] \cup {u} \in SUBSET Name
      BY <1>1 DEF CatalogTypeOK
    <2>3. QED
      BY <1>1, <2>1, <2>2, CatalogCallType DEF TypeOK
  <1>6. QED
    BY <1>2, <1>3, <1>4, <1>5 DEF AdminStep

LEMMA InitType == Init => TypeOK
  <1> SUFFICES ASSUME Init PROVE TypeOK
    OBVIOUS
  <1>1. CatalogTypeOK
    BY DEF Init, CatalogTypeOK
  <1>2. \A c \in Caller : req[c] \in Requests[c] /\ req[c] \in RequestType
    BY UserSyncAssumption DEF Init
  <1>3. \A c \in Caller : /\ StageOf(req[c].op, "done") /\ OutcomeOf(req[c].op, "error")
                          /\ "done" \in Stage /\ "error" \in Result
    BY StageFacts DEF Errors, Stage, Result
  <1>4. LocalTypeOK
    BY <1>2, <1>3 DEF Init, LocalTypeOK, RequestType
  <1>5. faults \in 0 .. MaxFaults
    BY UserSyncAssumption DEF Init
  <1>6. QED
    BY <1>1, <1>4, <1>5 DEF TypeOK

LEMMA NextType == TypeOK /\ [Next]_vars => TypeOK'
  <1> SUFFICES ASSUME TypeOK, [Next]_vars PROVE TypeOK'
    OBVIOUS
  <1>1. ASSUME NEW c \in Caller, Fail(c)
        PROVE  TypeOK'
    <2>1. LocalTypeOK'
      BY <1>1, FinishType, StageFacts DEF Fail, TypeOK, Errors
    <2>2. CatalogTypeOK' /\ faults' \in 0 .. MaxFaults
      BY <1>1, UserSyncAssumption DEF Fail, TypeOK, CatalogTypeOK, catalog
    <2>3. QED
      BY <2>1, <2>2 DEF TypeOK
  <1>2. CASE UNCHANGED vars
    BY <1>2 DEF vars, catalog, locals, TypeOK, CatalogTypeOK, LocalTypeOK
  <1>3. QED
    BY <1>1, <1>2, StartType, CallType, AdminType DEF Next

\* Type correctness: in particular an operation reports only outcomes of its
\* own kind, along calls of its own kind, whatever the callers interleave.
THEOREM TypeCorrectness == Spec => []TypeOK
  BY InitType, NextType, PTL DEF Spec

-----------------------------------------------------------------------------
(* Clearance.  Only administrators make a principal protected; as long as   *)
(* they act between requests, what a caller found permitted stays so.      *)

\* Where a caller goes on after the work on sync metadata.
Resume == {"done", "setpw", "retype", "remove", "getmember", "add", "drop"}

CallerInv(c) == ret[c] \in Resume /\ Cleared(c)

\* The inductive invariant.
ClearInv == TypeOK /\ \A c \in Caller : CallerInv(c)

\* Whatever is touched is clear before and after.
Harmless == \A n \in Name : Touched(n) => {type[n], type'[n]} \cap ProtectedTypes = {}

\* A step of c leaves the local state of the others alone.
Frame(c) ==
    \A d \in Caller \ {c} : /\ pc'[d] = pc[d] /\ ret'[d] = ret[d]
                            /\ target'[d] = target[d] /\ req'[d] = req[d]

LEMMA FrameFacts ==
    ASSUME TypeOK, NEW c \in Caller
    PROVE  /\ \A stage : Enter(c, stage) => Frame(c)
           /\ \A n, stage, next : WorkOn(c, n, stage, next) => Frame(c)
  BY DEF TypeOK, LocalTypeOK, Enter, WorkOn, Frame

LEMMA CallFrame ==
    ASSUME TypeOK, NEW c \in Caller, Start(c) \/ Call(c) \/ Fail(c)
    PROVE  Frame(c)
  <1> USE DEF Finish, Settle, Proceed, LoseReply
  <1>1. CASE Start(c)
    BY <1>1 DEF Start, Frame, TypeOK, LocalTypeOK
  <1>2. CASE LookupForUpdate(c)
    BY <1>2, FrameFacts DEF LookupForUpdate, Frame, TypeOK, LocalTypeOK
  <1>3. CASE ListMissing(c)
    BY <1>3, FrameFacts DEF ListMissing, Frame, TypeOK, LocalTypeOK
  <1>4. CASE AddMarker(c)
    BY <1>4, FrameFacts DEF AddMarker, Frame, TypeOK, LocalTypeOK
  <1>5. CASE CreatePrincipal(c) \/ CreateConflict(c) \/ SetPassword(c) \/ Fail(c)
    BY <1>5, FrameFacts DEF CreatePrincipal, CreateConflict, SetPassword, Fail
  <1>6. CASE GetCreatedUser(c) \/ GetExistingUser(c) \/ LookupForRemoval(c)
    BY <1>6, FrameFacts DEF GetCreatedUser, GetExistingUser, LookupForRemoval, MarkCreated
  <1>7. CASE GetGroup(c) \/ GetMember(c) \/ ViewGroup(c)
    BY <1>7, FrameFacts DEF GetGroup, GetMember, ViewGroup, MarkCreated
  <1>8. CASE ReadStatus(c) \/ CheckManaged(c) \/ Remove(c) \/ ChangeType(c)
    BY <1>8, FrameFacts DEF ReadStatus, CheckManaged, Remove, ChangeType
  <1>9. CASE AddMember(c) \/ DropMember(c)
    BY <1>9, FrameFacts DEF AddMember, DropMember
  <1>10. QED
    BY <1>1, <1>2, <1>3, <1>4, <1>5, <1>6, <1>7, <1>8, <1>9 DEF Call

\* No group and no missing principal is protected, nothing a policy permits is.
LEMMA ClearTypes ==
    /\ "rodsgroup" \notin ProtectedTypes /\ Absent \notin ProtectedTypes
    /\ \A t : MayCreate(t) \/ MayManage(t) => t \notin ProtectedTypes
    /\ \A t : t \notin UserTypes => t \notin ProtectedTypes
  BY UserSyncAssumption DEF MayCreate, MayManage, UserTypes, Absent

\* A call that leaves the catalog alone harms nobody.
LEMMA IdleHarmless == UNCHANGED catalog => Harmless
  BY DEF catalog, Harmless, Touched

LEMMA CallHarmless ==
    ASSUME ClearInv, NEW c \in Caller, Call(c)
    PROVE  Harmless
  <1> DEFINE r == req[c]
             n == r.name
  <1>r. /\ r \in RequestType /\ n \in Name /\ r.member \in Name /\ target[c] \in Name
        /\ StageOf(r.op, pc[c]) /\ CatalogTypeOK /\ Cleared(c)
    BY DEF ClearInv, TypeOK, LocalTypeOK, RequestType, CallerInv
  <1>1. CASE CreatePrincipal(c)
    <2> DEFINE t == IF r.op = "EnsureUser" THEN r.type ELSE "rodsgroup"
    <2>1. AddPrincipal(n, t, Policy[c].source) /\ type[n] = Absent
      BY <1>1 DEF CreatePrincipal
    <2>2. t \notin ProtectedTypes /\ Absent \notin ProtectedTypes
      BY <1>1, <1>r, ClearTypes DEF Cleared, CreatePrincipal
    <2>3. \A m \in Name : Touched(m) => m = n
      BY <2>1, <1>r DEF AddPrincipal, Touched, CatalogTypeOK
    <2>4. {type[n], type'[n]} \cap ProtectedTypes = {}
      BY <2>1, <2>2, <1>r DEF AddPrincipal, CatalogTypeOK
    <2>5. QED
      BY <2>3, <2>4 DEF Harmless
  <1>2. CASE SetPassword(c)
    <2>1. Clear(n)
      BY <1>2, <1>r DEF SetPassword, Cleared
    <2>2. CASE UNCHANGED catalog
      BY <2>2, IdleHarmless
    <2>3. CASE /\ password' = [password EXCEPT ![n] = r.password]
               /\ UNCHANGED <<type, avus, members, origin>>
      BY <2>1, <2>3, <1>r DEF Harmless, Touched, Clear, CatalogTypeOK
    <2>4. QED
      BY <2>2, <2>3, <1>2 DEF SetPassword
  <1>3. CASE AddMarker(c)
    <2>1. Clear(target[c])
      BY <1>3, <1>r DEF AddMarker, Cleared
    <2>2. CASE UNCHANGED catalog
      BY <2>2, IdleHarmless
    <2>3. ASSUME NEW a, avus' = [avus EXCEPT ![target[c]] = @ \cup {a}],
                 UNCHANGED <<type, members, password, origin>>
          PROVE  Harmless
      BY <2>1, <2>3, <1>r DEF Harmless, Touched, Clear, CatalogTypeOK
    <2>4. QED
      BY <2>2, <2>3, <1>3 DEF AddMarker
  <1>4. CASE Remove(c)
    <2>1. Clear(n)
      BY <1>4, <1>r DEF Remove, Cleared
    <2>2. CASE UNCHANGED catalog
      BY <2>2, IdleHarmless
    <2>3. CASE DropPrincipal(n)
      <3>1. type'[n] = Absent /\ {type[n], type'[n]} \cap ProtectedTypes = {}
        BY <2>1, <2>3, <1>r, ClearTypes DEF DropPrincipal, Clear, CatalogTypeOK
      <3>2. \A m \in Name : Touched(m) => m = n
        BY <3>1, <2>3, <1>r DEF DropPrincipal, Touched, CatalogTypeOK
      <3>3. QED
        BY <3>1, <3>2 DEF Harmless
    <2>4. QED
      BY <2>2, <2>3, <1>4 DEF Remove
  <1>5. CASE ChangeType(c)
    <2>1. Clear(n) /\ r.op = "UpdateUser" /\ pc[c] # "done"
      BY <1>5, <1>r DEF ChangeType, Cleared, StageOf
    <2>2. r.type \notin ProtectedTypes
      BY <2>1, <1>r, ClearTypes DEF Cleared
    <2>3. CASE UNCHANGED catalog
      BY <2>3, IdleHarmless
    <2>4. CASE Retype(n, r.type)
      BY <2>1, <2>2, <2>4, <1>r DEF Retype, Harmless, Touched, Clear, CatalogTypeOK
    <2>5. QED
      BY <2>3, <2>4, <1>5 DEF ChangeType
  <1>6. CASE AddMember(c) \/ DropMember(c)
    <2>1. Clear(r.member)
      BY <1>6, <1>r DEF AddMember, DropMember, Cleared
    <2>2. CASE UNCHANGED catalog
      BY <2>2, IdleHarmless
    <2>3. ASSUME NEW m, SetMembers(n, m), m \in {members[n] \cup {r.member}, members[n] \ {r.member}}
          PROVE  Harmless
      <3>1. \A u \in Name : Touched(u) => u = r.member
        BY <2>3, <1>r DEF SetMembers, Touched, CatalogTypeOK
      <3>2. QED
        BY <3>1, <2>1, <2>3 DEF Harmless, SetMembers, Clear
    <2>4. QED
      BY <2>2, <2>3, <1>6 DEF AddMember, DropMember
  <1>7. CASE \/ CreateConflict(c) \/ GetCreatedUser(c) \/ GetExistingUser(c)
             \/ LookupForUpdate(c) \/ LookupForRemoval(c) \/ GetGroup(c) \/ GetMember(c)
             \/ ViewGroup(c) \/ ReadStatus(c) \/ ListMissing(c) \/ CheckManaged(c)
    <2>1. UNCHANGED catalog
      BY <1>7 DEF CreateConflict, GetCreatedUser, GetExistingUser, LookupForUpdate,
         LookupForRemoval, GetGroup, GetMember, ViewGroup, ReadStatus, ListMissing, CheckManaged
    <2>2. QED
      BY <2>1, IdleHarmless
  <1>8. QED
    BY <1>1, <1>2, <1>3, <1>4, <1>5, <1>6, <1>7 DEF Call

\* Where a step leads its caller.
LEMMA EnterLocal ==
    ASSUME TypeOK, NEW c \in Caller, NEW stage, Enter(c, stage)
    PROVE  /\ pc'[c] = stage /\ req' = req
           /\ stage = "done" => ret'[c] = "done"
           /\ stage # "done" => ret'[c] = ret[c] /\ target'[c] = target[c]
  BY DEF TypeOK, LocalTypeOK, Enter

LEMMA WorkOnLocal ==
    ASSUME TypeOK, NEW c \in Caller, NEW n, NEW stage, NEW next, WorkOn(c, n, stage, next)
    PROVE  pc'[c] = stage /\ req' = req /\ ret'[c] = next /\ target'[c] = n
  BY DEF TypeOK, LocalTypeOK, WorkOn

\* A request that has ended claims nothing.
LEMMA FinishClears ==
    ASSUME TypeOK, NEW c \in Caller
    PROVE  /\ \A o : Finish(c, o) => CallerInv(c)'
           /\ LoseReply(c) => CallerInv(c)'
           /\ Proceed(c, "done") => CallerInv(c)'
           /\ \A n : WorkOn(c, n, "done", "done") => CallerInv(c)'
  <1>1. ASSUME pc'[c] = "done", ret'[c] = "done"
        PROVE  CallerInv(c)'
    BY <1>1 DEF CallerInv, Cleared, Resume
  <1>2. QED
    BY <1>1, EnterLocal, WorkOnLocal DEF Finish, Settle, LoseReply, Proceed

\* After the work on sync metadata, a caller goes on with what it is cleared for.
LEMMA ResumeClears ==
    ASSUME ClearInv, NEW c \in Caller, UNCHANGED type, Proceed(c, ret[c]),
           pc[c] \in {"status", "relist", "mark", "check"}
    PROVE  CallerInv(c)'
  <1>1. pc'[c] = ret[c] /\ req' = req /\ ret'[c] \in {ret[c], "done"}
    BY EnterLocal DEF ClearInv, Proceed
  <1>2. ret[c] \in Resume /\ Cleared(c)
    BY DEF ClearInv, CallerInv
  <1>3. QED
    BY <1>1, <1>2 DEF CallerInv, Cleared, Clear, Resume

LEMMA StartClears ==
    ASSUME ClearInv, NEW c \in Caller, Start(c)
    PROVE  CallerInv(c)'
  <1>1. TypeOK
    BY DEF ClearInv
  <1>2. PICK r \in Requests[c] :
           LET checksType == r.op = "EnsureUser" \/ (r.op = "UpdateUser" /\ r.type # Absent)
               refused    == checksType /\ ~MayCreate(r.type)
           IN /\ req'[c] = r /\ ret'[c] = "done"
              /\ pc'[c] = IF refused THEN "done" ELSE FirstStage(r.op)
    BY <1>1 DEF Start, TypeOK, LocalTypeOK
  <1>3. FirstStage(r.op) \in {"create", "lookup", "getgroup"}
    BY DEF FirstStage
  <1>4. ret'[c] \in Resume
    BY <1>2 DEF Resume
  <1>5. QED
    BY <1>2, <1>3, <1>4 DEF CallerInv, Cleared

LEMMA CallClears ==
    ASSUME ClearInv, NEW c \in Caller, Call(c)
    PROVE  CallerInv(c)'
  <1> DEFINE r == req[c]
             n == r.name
             t == type[n]
  <1> USE DEF CallerInv, Clear, Resume
  <1>r. /\ TypeOK /\ n \in Name /\ r.member \in Name /\ target[c] \in Name
        /\ StageOf(r.op, pc[c]) /\ CatalogTypeOK /\ Cleared(c) /\ ret[c] \in Resume
    BY DEF ClearInv, TypeOK, LocalTypeOK, RequestType
  <1>h. \A m \in Name : type[m] \notin ProtectedTypes => type'[m] \notin ProtectedTypes
    BY CallHarmless DEF Harmless, Touched
  <1>f. /\ \A o : Finish(c, o) => CallerInv(c)'
        /\ LoseReply(c) => CallerInv(c)'
        /\ Proceed(c, "done") => CallerInv(c)'
    BY <1>r, FinishClears
  \* The steps that go on with the work on the request's own principal.
  <1>s. ASSUME NEW stage \in {"view", "get", "setpw", "done", "reget"}, NEW o,
               Settle(c, stage, o) \/ Proceed(c, stage), r.op # "UpdateUser",
               stage \in {"get", "setpw"} => type'[n] \notin ProtectedTypes
        PROVE  CallerInv(c)'
    <2>1. pc'[c] = stage /\ req' = req /\ ret'[c] \in {ret[c], "done"}
      BY <1>s, <1>r, EnterLocal DEF Settle, Proceed
    <2>2. QED
      BY <2>1, <1>s, <1>r DEF Cleared
  <1>w. ASSUME NEW m \in Name, NEW stage \in {"status", "relist", "check"}, NEW next \in Resume,
               WorkOn(c, m, stage, next), r.op # "UpdateUser",
               stage # "check" => type'[m] \notin ProtectedTypes,
               next \in {"setpw", "retype", "remove"} => type'[n] \notin ProtectedTypes,
               next \in {"add", "drop"} => type'[r.member] \notin ProtectedTypes
        PROVE  CallerInv(c)'
    <2>1. pc'[c] = stage /\ req' = req /\ ret'[c] = next /\ target'[c] = m
      BY <1>w, <1>r, WorkOnLocal
    <2>2. QED
      BY <2>1, <1>w DEF Cleared
  <1>m. ASSUME MarkCreated(c), UNCHANGED type, t \notin ProtectedTypes, r.op # "UpdateUser"
        PROVE  CallerInv(c)'
    BY <1>m, <1>f, <1>r, <1>w DEF MarkCreated
  <1>1. CASE CreatePrincipal(c)
    <2>1. r.op # "UpdateUser"
      BY <1>1, <1>r DEF CreatePrincipal, StageOf
    <2>2. r.op = "EnsureUser" => type'[n] \notin ProtectedTypes
      BY <1>1, <1>r, ClearTypes DEF CreatePrincipal, AddPrincipal, Cleared, CatalogTypeOK
    <2>3. QED
      BY <2>1, <2>2, <1>1, <1>f, <1>s DEF CreatePrincipal, PasswordStage
  <1>2. CASE CreateConflict(c)
    <2>1. r.op # "UpdateUser"
      BY <1>2, <1>r DEF CreateConflict, StageOf
    <2>2. QED
      BY <2>1, <1>2, <1>s DEF CreateConflict
  <1>3. CASE SetPassword(c)
    <2>1. type'[n] \notin ProtectedTypes
      BY <1>3, <1>r, <1>h DEF SetPassword, Cleared
    <2>2. CASE r.op = "UpdateUser"
      BY <2>2, <1>3, <1>f DEF SetPassword
    <2>3. CASE r.op # "UpdateUser"
      BY <2>1, <2>3, <1>3, <1>f, <1>s DEF SetPassword
    <2>4. QED
      BY <2>2, <2>3
  <1>4. CASE GetCreatedUser(c)
    BY <1>4, <1>r, <1>f, <1>m DEF GetCreatedUser, Cleared, StageOf, catalog
  <1>5. CASE GetExistingUser(c)
    <2>1. r.op # "UpdateUser" /\ UNCHANGED type
      BY <1>5, <1>r DEF GetExistingUser, StageOf, catalog
    <2>2. MayManage(t) => type'[n] \notin ProtectedTypes
      BY <2>1, ClearTypes
    <2>3. QED
      BY <2>1, <2>2, <1>5, <1>r, <1>f, <1>w DEF GetExistingUser, PasswordStage
  <1>6. CASE LookupForUpdate(c)
    <2>1. UNCHANGED type /\ r.op = "UpdateUser" /\ pc[c] = "lookup"
      BY <1>6 DEF LookupForUpdate, catalog
    <2>2. CASE /\ r.type # Absent
               /\ pc' = [pc EXCEPT ![c] = "create"]
               /\ req' = [req EXCEPT ![c].op = "EnsureUser"]
               /\ ret' = [ret EXCEPT ![c] = "done"]
      <3>1. MayCreate(r.type)
        BY <2>1, <2>2, <1>r DEF Cleared
      <3>2. pc'[c] = "create" /\ ret'[c] = "done"
            /\ req'[c].type = r.type /\ req'[c].op = "EnsureUser"
        BY <2>2, <1>r DEF TypeOK, LocalTypeOK, RequestType
      <3>3. QED
        BY <3>1, <3>2 DEF Cleared
    <2>3. CASE /\ MayManage(t)
               /\ pc' = [pc EXCEPT ![c] = "status"]
               /\ target' = [target EXCEPT ![c] = n]
               /\ ret' = [ret EXCEPT ![c] = UpdateStage(c, t)]
               /\ UNCHANGED <<req, todo>>
      <3>1. /\ pc'[c] = "status" /\ target'[c] = n /\ req' = req
            /\ ret'[c] \in {"retype", "setpw", "done"} /\ type'[n] \notin ProtectedTypes
        BY <2>1, <2>3, <1>r, ClearTypes DEF TypeOK, LocalTypeOK, UpdateStage, PasswordStage
      <3>2. QED
        BY <3>1, <2>1, <1>r DEF Cleared
    <2>4. QED
      BY <2>2, <2>3, <1>6, <1>f DEF LookupForUpdate
  <1>7. CASE LookupForRemoval(c)
    <2>1. r.op # "UpdateUser" /\ UNCHANGED type
      BY <1>7 DEF LookupForRemoval, catalog
    <2>2. MayManage(t) => t \notin ProtectedTypes
      BY ClearTypes
    <2>3. ASSUME MayManage(t), WorkOn(c, n, RemovalStage(c), "remove")
          PROVE  CallerInv(c)'
      <3>1. /\ pc'[c] \in {"remove", "check"} /\ req' = req /\ ret'[c] = "remove"
            /\ type'[n] \notin ProtectedTypes
        BY <2>1, <2>2, <2>3, <1>r, WorkOnLocal DEF RemovalStage
      <3>2. QED
        BY <3>1, <2>1 DEF Cleared
    <2>4. QED
      BY <2>3, <1>7, <1>f DEF LookupForRemoval
  <1>8. CASE GetGroup(c)
    <2>1. r.op # "UpdateUser" /\ UNCHANGED type
      BY <1>8, <1>r DEF GetGroup, StageOf, catalog
    <2>2. ASSUME WorkOn(c, n, RemovalStage(c), "remove"), t = "rodsgroup"
          PROVE  CallerInv(c)'
      <3>1. /\ pc'[c] \in {"remove", "check"} /\ req' = req /\ ret'[c] = "remove"
            /\ type'[n] \notin ProtectedTypes
        BY <2>1, <2>2, <1>r, ClearTypes, WorkOnLocal DEF RemovalStage
      <3>2. QED
        BY <3>1, <2>1 DEF Cleared
    <2>3. t = "rodsgroup" /\ WorkOn(c, n, "status", "getmember") => CallerInv(c)'
      BY <2>1, <1>r, <1>w, ClearTypes
    <2>4. QED
      BY <2>2, <2>3, <1>8, <1>f DEF GetGroup
  <1>9. CASE GetMember(c)
    <2> DEFINE u == type[r.member]
    <2>1. r.op # "UpdateUser" /\ UNCHANGED type
      BY <1>9, <1>r DEF GetMember, StageOf, catalog
    <2>2. (isPrincipalUserType(u) => MayManage(u)) => type'[r.member] \notin ProtectedTypes
      BY <2>1, ClearTypes DEF isPrincipalUserType
    <2>3. MayManage(u) /\ WorkOn(c, r.member, "status", "add") => CallerInv(c)'
      BY <2>1, <2>2, <1>r, <1>w
    <2>4. ASSUME isPrincipalUserType(u) => MayManage(u),
                 WorkOn(c, n, IF Policy[c].anyDrop THEN "drop" ELSE "check", "drop")
          PROVE  CallerInv(c)'
      <3>1. /\ pc'[c] \in {"drop", "check"} /\ req' = req /\ ret'[c] = "drop"
            /\ type'[r.member] \notin ProtectedTypes
        BY <2>2, <2>4, <1>r, WorkOnLocal
      <3>2. QED
        BY <3>1, <2>1 DEF Cleared
    <2>5. QED
      BY <2>3, <2>4, <1>9, <1>f DEF GetMember
  <1>10. CASE ViewGroup(c)
    <2>1. r.op # "UpdateUser" /\ UNCHANGED type
      BY <1>10, <1>r DEF ViewGroup, StageOf, catalog
    <2>2. t = "rodsgroup" => type'[n] \notin ProtectedTypes /\ t \notin ProtectedTypes
      BY <2>1, ClearTypes
    <2>3. QED
      BY <2>1, <2>2, <1>10, <1>r, <1>f, <1>m, <1>w DEF ViewGroup
  <1>u. UNCHANGED type /\ pc[c] \in {"status", "relist", "mark", "check"} /\ Proceed(c, ret[c])
        => CallerInv(c)'
    BY ResumeClears
  <1>11. CASE ReadStatus(c)
    <2>1. UNCHANGED type /\ pc[c] = "status"
      BY <1>11 DEF ReadStatus, catalog
    <2>2. ASSUME Proceed(c, "relist")
          PROVE  CallerInv(c)'
      <3>1. pc'[c] = "relist" /\ req' = req /\ ret'[c] = ret[c] /\ target'[c] = target[c]
        BY <2>2, <1>r, EnterLocal DEF Proceed
      <3>2. QED
        BY <3>1, <2>1, <1>r DEF Cleared
    <2>3. QED
      BY <2>1, <2>2, <1>11, <1>f, <1>u DEF ReadStatus
  <1>12. CASE ListMissing(c)
    <2>1. UNCHANGED type /\ pc[c] = "relist"
      BY <1>12 DEF ListMissing, catalog
    <2>2. ASSUME pc' = [pc EXCEPT ![c] = "mark"], UNCHANGED <<req, target, ret>>
          PROVE  CallerInv(c)'
      <3>1. pc'[c] = "mark"
        BY <2>2, <1>r DEF TypeOK, LocalTypeOK
      <3>2. QED
        BY <3>1, <2>1, <2>2, <1>r DEF Cleared
    <2>3. QED
      BY <2>1, <2>2, <1>12, <1>f, <1>u DEF ListMissing
  <1>13. CASE AddMarker(c)
    <2>1. UNCHANGED type /\ pc[c] = "mark"
      BY <1>13 DEF AddMarker, catalog
    <2>2. UNCHANGED <<pc, req, target, ret>> => CallerInv(c)'
      BY <2>1, <1>r DEF Cleared
    <2>3. QED
      BY <2>1, <2>2, <1>13, <1>f, <1>u DEF AddMarker
  <1>14. CASE CheckManaged(c)
    BY <1>14, <1>f, <1>u DEF CheckManaged, catalog
  <1>15. CASE Remove(c)
    BY <1>15, <1>f DEF Remove
  <1>16. CASE ChangeType(c)
    <2>1. r.op = "UpdateUser" /\ pc[c] = "retype" /\ type'[n] \notin ProtectedTypes
      BY <1>16, <1>r, <1>h DEF ChangeType, Cleared, StageOf
    <2>2. ASSUME Settle(c, PasswordStage(c, "done"), "updated")
          PROVE  CallerInv(c)'
      <3>1. pc'[c] \in {"setpw", "done"} /\ req' = req /\ ret'[c] \in {ret[c], "done"}
        BY <2>2, <1>r, EnterLocal DEF Settle, PasswordStage
      <3>2. QED
        BY <3>1, <2>1, <1>r DEF Cleared
    <2>3. QED
      BY <2>2, <1>16, <1>f DEF ChangeType
  <1>17. CASE AddMember(c) \/ DropMember(c)
    <2>1. r.op # "UpdateUser"
      BY <1>17, <1>r DEF AddMember, DropMember, StageOf
    <2>2. QED
      BY <2>1, <1>17, <1>f, <1>s DEF AddMember, DropMember
  <1>18. QED
    BY <1>1, <1>2, <1>3, <1>4, <1>5, <1>6, <1>7, <1>8, <1>9, <1>10, <1>11, <1>12, <1>13,
       <1>14, <1>15, <1>16, <1>17 DEF Call

\* The others keep their clearance: what they rely on was not made protected.
LEMMA FrameClears ==
    ASSUME ClearInv, NEW c \in Caller, Frame(c), Harmless, CallerInv(c)'
    PROVE  \A d \in Caller : CallerInv(d)'
  <1>1. \A m \in Name : type[m] \notin ProtectedTypes => type'[m] \notin ProtectedTypes
    BY DEF Harmless, Touched
  <1>2. SUFFICES ASSUME NEW d \in Caller \ {c} PROVE CallerInv(d)'
    OBVIOUS
  <1>3. req[d].name \in Name /\ req[d].member \in Name /\ target[d] \in Name /\ CallerInv(d)
    BY DEF ClearInv, TypeOK, LocalTypeOK, RequestType
  <1>4. QED
    BY <1>1, <1>3 DEF Frame, CallerInv, Cleared, Clear

LEMMA InitClears == Init => ClearInv
  <1>1. ASSUME Init, NEW c \in Caller
        PROVE  CallerInv(c)
    BY <1>1 DEF Init, CallerInv, Cleared, Resume
  <1>2. QED
    BY <1>1, InitType DEF ClearInv

LEMMA NextClears ==
    ASSUME AdminWhen # "anytime", ClearInv, [Next]_vars
    PROVE  ClearInv'
  <1>1. TypeOK'
    BY NextType DEF ClearInv
  <1>2. ASSUME NEW c \in Caller, Start(c) \/ Call(c) \/ Fail(c)
        PROVE  \A d \in Caller : CallerInv(d)'
    <2>1. Frame(c)
      BY <1>2, CallFrame DEF ClearInv
    <2>2. Harmless
      BY <1>2, CallHarmless, IdleHarmless DEF Start, Fail
    <2>3. CallerInv(c)'
      BY <1>2, CallClears, StartClears, FinishClears DEF Fail, ClearInv
    <2>4. QED
      BY <2>1, <2>2, <2>3, FrameClears
  <1>3. CASE AdminStep
    <2>1. \A d \in Caller : pc'[d] = "done" /\ ret' = ret
      BY <1>3, UserSyncAssumption DEF AdminStep, AdminMayAct, locals
    <2>2. QED
      BY <2>1, <1>1 DEF ClearInv, CallerInv, Cleared
  <1>4. CASE UNCHANGED vars
    BY <1>1, <1>4 DEF ClearInv, CallerInv, Cleared, Clear, vars, locals, catalog
  <1>5. QED
    BY <1>1, <1>2, <1>3, <1>4 DEF Next, ClearInv

\* A permission that was checked is still good when it is used, as long as
\* administrators do not act in the middle of a request.
THEOREM ClearanceStays == AdminWhen # "anytime" /\ Spec => []ClearanceHolds
  <1>1. ClearInv => ClearanceHolds
    BY DEF ClearInv, CallerInv, ClearanceHolds
  <1>2. AdminWhen # "anytime" /\ ClearInv /\ [Next]_vars => ClearInv'
    BY NextClears
  <1>3. CASE AdminWhen # "anytime"
    <2>1. ClearInv /\ [Next]_vars => ClearInv'
      BY <1>2, <1>3
    <2>2. QED
      BY <1>1, <2>1, InitClears, PTL DEF Spec
  <1>4. QED
    BY <1>3

\* Nothing a Service does changes a protected user or makes a user protected,
\* for any number of callers, policies and failures.
THEOREM ProtectedStays == AdminWhen # "anytime" /\ Spec => ProtectedUntouched
  <1> DEFINE A == \A n \in Name :
                    Touched(n) /\ {type[n], type'[n]} \cap ProtectedTypes # {} => AdminStep
  <1>1. ASSUME ClearInv, [Next]_vars
        PROVE  [A]_vars
    <2>1. CASE UNCHANGED vars
      BY <2>1
    <2>2. CASE AdminStep
      BY <2>2
    <2>3. ASSUME NEW c \in Caller, Start(c) \/ Call(c) \/ Fail(c)
          PROVE  A
      <3>1. Harmless
        BY <1>1, <2>3, CallHarmless, IdleHarmless DEF Start, Fail
      <3>2. QED
        BY <3>1 DEF Harmless
    <2>4. QED
      BY <1>1, <2>1, <2>2, <2>3 DEF Next
  <1>2. CASE AdminWhen # "anytime"
    <2>1. ClearInv /\ [Next]_vars => ClearInv'
      BY <1>2, NextClears
    <2>2. ClearInv /\ [Next]_vars => [A]_vars
      BY <1>1
    <2>3. QED
      BY <2>1, <2>2, InitClears, PTL DEF Spec, ProtectedUntouched
  <1>3. QED
    BY <1>2
=============================================================================
