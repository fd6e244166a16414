------------------------ MODULE SearchRegistryProofs ------------------------
(***************************************************************************)
(* Theorems about SearchRegistry, for every set of callers, endpoints,     *)
(* config files and requests.                                              *)
(***************************************************************************)
EXTENDS SearchRegistry, WellFoundedInduction, TLAPS

-----------------------------------------------------------------------------
(* Types.                                                                  *)

\* The first of some endpoints is one of them.
LEMMA FirstId ==
    ASSUME NEW ids \in SUBSET Id, ids # {}
    PROVE  Min(ids) \in ids
  <1> DEFINE Less == OpToRel(<, Nat)
  <1>1. ids \subseteq Nat
    BY SearchRegistryAssumption
  <1>2. IsWellFoundedOn(Less, Nat)
    BY NatLessThanWellFounded
  <1>3. \A x, y \in Nat : x < y => <<x, y>> \in Less
    BY DEF OpToRel
  <1> HIDE DEF Less
  <1>4. PICK x \in ids : \A y \in ids : ~(<<y, x>> \in Less)
    BY <1>1, <1>2, WFMin, Zenon
  <1>5. ASSUME NEW y \in ids
        PROVE  x <= y
    <2>1. x \in Nat /\ y \in Nat
      BY <1>1
    <2>2. ~(y < x)
      BY <1>3, <1>4, <2>1, Zenon
    <2>3. QED
      BY <2>1, <2>2
  <1>6. QED
    BY <1>5 DEF Min

\* What Ask, Return and Served do to the state of a caller.
LEMMA AskType ==
    ASSUME LocalTypeOK, NEW c \in Caller, NEW ids \in SUBSET Id, ids # {}, Ask(c, ids)
    PROVE  req' \in [Caller -> Request] /\ queue' \in [Caller -> SUBSET Id]
  <1>1. Min(ids) \in Id
    BY FirstId
  <1>2. [req[c] EXCEPT !.id = Min(ids)] \in Request
    BY <1>1 DEF LocalTypeOK, Request
  <1>3. QED
    BY <1>2 DEF Ask, LocalTypeOK

LEMMA ReturnType ==
    ASSUME LocalTypeOK, NEW c \in Caller, NEW o \in Outcomes, Return(c, o)
    PROVE  LocalTypeOK'
  BY DEF LocalTypeOK, Return, Goto, Stages

LEMMA ServedType ==
    ASSUME LocalTypeOK, NEW c \in Caller, NEW o \in Outcomes, Served(c, o)
    PROVE  LocalTypeOK'
  <1>1. CASE req[c].op = "Ping" /\ Goto(c, "status") /\ UNCHANGED <<req, queue>>
    BY <1>1 DEF LocalTypeOK, Served, Goto, Stages
  <1>2. CASE queue[c] # {} /\ Ask(c, queue[c]) /\ Goto(c, "get")
    <2>1. req' \in [Caller -> Request] /\ queue' \in [Caller -> SUBSET Id]
      BY <1>2, AskType DEF LocalTypeOK
    <2>2. QED
      BY <1>2, <2>1 DEF LocalTypeOK, Served, Goto, Stages
  <1>3. CASE Goto(c, "done") /\ UNCHANGED <<req, queue>>
    BY <1>3 DEF LocalTypeOK, Served, Goto, Stages
  <1>4. QED
    BY <1>1, <1>2, <1>3 DEF Served

LEMMA StatusTypes ==
    /\ \A e \in Endpoint : InitialStatus(e) \in States
    /\ \A map \in Map : InitialStatuses(map) \in [Id -> States \cup {None}]
    /\ \A e \in Endpoint : \A status, error : Health(e, status, error) \in States
  <1>1. \A e \in Endpoint : InitialStatus(e) \in States
    BY DEF InitialStatus, States
  <1>2. \A map \in Map : InitialStatuses(map) \in [Id -> States \cup {None}]
    BY <1>1 DEF InitialStatuses, Map
  <1>3. \A e \in Endpoint : \A status, error : Health(e, status, error) \in States
    BY <1>1 DEF Health, States
  <1>4. QED
    BY <1>1, <1>2, <1>3

\* The calls that change the Registry.
LEMMA EditType ==
    ASSUME TypeOK, NEW c \in Caller,
           Register(c) \/ Upsert(c) \/ Unregister(c) \/ ReadPath(c) \/ ReadConfig(c)
             \/ LoadConfig(c) \/ SetPath(c)
    PROVE  TypeOK'
  <1> DEFINE r == req[c]
  <1>r. /\ r \in Request /\ r.id \in Id /\ r.endpoint \in Endpoint /\ r.path \in Path
        /\ LocalTypeOK /\ RegistryTypeOK
    BY DEF TypeOK, LocalTypeOK, Request
  <1>o. "ok" \in Outcomes /\ "exists" \in Outcomes /\ "notset" \in Outcomes /\ "badconfig" \in Outcomes
    BY DEF Outcomes
  <1>e. \A o \in Outcomes : Return(c, o) => LocalTypeOK'
    BY <1>r, ReturnType
  <1> USE DEF registry, outside, history, Elsewhere, Overtake
  <1>1. CASE Register(c)
    <2>1. LocalTypeOK'
      BY <1>1, <1>e, <1>o DEF Register
    <2>2. RegistryTypeOK'
      BY <1>1, <1>r, StatusTypes DEF Register, RegistryTypeOK, Map
    <2>3. QED
      BY <2>1, <2>2 DEF TypeOK
  <1>2. CASE Upsert(c)
    <2>1. LocalTypeOK'
      BY <1>2, <1>e, <1>o DEF Upsert
    <2>2. RegistryTypeOK'
      BY <1>2, <1>r, StatusTypes DEF Upsert, RegistryTypeOK, Map
    <2>3. QED
      BY <2>1, <2>2 DEF TypeOK
  <1>3. CASE Unregister(c)
    <2>1. LocalTypeOK'
      BY <1>3, <1>e, <1>o DEF Unregister
    <2>2. RegistryTypeOK'
      BY <1>3, <1>r DEF Unregister, RegistryTypeOK, Map
    <2>3. QED
      BY <2>1, <2>2 DEF TypeOK
  <1>4. CASE ReadPath(c)
    <2>1. RegistryTypeOK'
      BY <1>4, <1>r DEF ReadPath, RegistryTypeOK
    <2>2. CASE Return(c, "notset")
      BY <2>1, <2>2, <1>e, <1>o DEF TypeOK
    <2>3. CASE /\ configPath # None /\ req' = [req EXCEPT ![c].path = configPath]
               /\ Goto(c, "read") /\ UNCHANGED <<file, snapshot, queue, out, seen>>
      <3>1. configPath \in Path
        BY <2>3, <1>r DEF RegistryTypeOK
      <3>2. [req[c] EXCEPT !.path = configPath] \in Request
        BY <3>1, <1>r DEF Request
      <3>3. LocalTypeOK'
        BY <2>3, <3>2, <1>r DEF LocalTypeOK, Goto, Stages
      <3>4. QED
        BY <2>1, <3>3 DEF TypeOK
    <2>4. QED
      BY <2>2, <2>3, <1>4 DEF ReadPath
  <1>5. CASE ReadConfig(c)
    <2>1. RegistryTypeOK'
      BY <1>5, <1>r DEF ReadConfig, RegistryTypeOK
    <2>2. CASE Return(c, "badconfig")
      BY <2>1, <2>2, <1>e, <1>o DEF TypeOK
    <2>3. CASE ~Return(c, "badconfig")
      <3>1. contents[r.path] \in Map
        BY <2>3, <1>5, <1>r, SearchRegistryAssumption DEF ReadConfig, RegistryTypeOK
      <3>2. LocalTypeOK'
        BY <2>3, <3>1, <1>5, <1>r DEF ReadConfig, LocalTypeOK, Goto, Stages
      <3>3. QED
        BY <2>1, <3>2 DEF TypeOK
    <2>4. QED
      BY <2>2, <2>3
  <1>6. CASE LoadConfig(c)
    <2>1. file[c] \in Map
      BY <1>r DEF LocalTypeOK
    <2>2. RegistryTypeOK'
      BY <1>6, <2>1, <1>r, StatusTypes DEF LoadConfig, RegistryTypeOK
    <2>3. LocalTypeOK'
      <3>1. CASE Return(c, "ok")
        BY <3>1, <1>e, <1>o
      <3>2. CASE ~Return(c, "ok")
        BY <3>2, <1>6, <1>r DEF LoadConfig, LocalTypeOK, Goto, Stages
      <3>3. QED
        BY <3>1, <3>2
    <2>4. QED
      BY <2>2, <2>3 DEF TypeOK
  <1>7. CASE SetPath(c)
    <2>1. LocalTypeOK'
      BY <1>7, <1>e, <1>o DEF SetPath
    <2>2. RegistryTypeOK'
      BY <1>7, <1>r DEF SetPath, RegistryTypeOK
    <2>3. QED
      BY <2>1, <2>2 DEF TypeOK
  <1>8. QED
    BY <1>1, <1>2, <1>3, <1>4, <1>5, <1>6, <1>7

\* The calls of the Client.
LEMMA ClientType ==
    ASSUME TypeOK, NEW c \in Caller,
           ListEndpoints(c) \/ GetEndpoint(c) \/ Exchange(c) \/ RecordHealth(c) \/ ReadStatus(c)
    PROVE  TypeOK'
  <1> DEFINE r == req[c]
  <1>r. r \in Request /\ r.id \in Id /\ LocalTypeOK /\ RegistryTypeOK
    BY DEF TypeOK, LocalTypeOK, Request
  <1>o. /\ "ok" \in Outcomes /\ "notfound" \in Outcomes /\ "failed" \in Outcomes
        /\ "disabled" \in Outcomes
    BY DEF Outcomes
  <1> USE DEF registry, outside, history, Elsewhere, Overtake
  <1>1. CASE ListEndpoints(c)
    <2>1. RegistryTypeOK'
      BY <1>1, <1>r DEF ListEndpoints, RegistryTypeOK
    <2>2. CASE Return(c, "ok")
      BY <2>1, <2>2, <1>o, <1>r, ReturnType DEF TypeOK
    <2>3. CASE ~Return(c, "ok")
      <3>1. /\ Registered \in SUBSET Id /\ Registered # {} /\ Ask(c, Registered)
            /\ Goto(c, "get") /\ UNCHANGED <<file, snapshot, out, seen>>
        BY <2>3, <1>1 DEF ListEndpoints, Registered
      <3>2. req' \in [Caller -> Request] /\ queue' \in [Caller -> SUBSET Id]
        BY <3>1, <1>r, AskType
      <3>3. LocalTypeOK'
        BY <3>1, <3>2, <1>r DEF LocalTypeOK, Goto, Stages
      <3>4. QED
        BY <2>1, <3>3 DEF TypeOK
    <2>4. QED
      BY <2>2, <2>3
  <1>2. CASE GetEndpoint(c)
    <2> DEFINE e == endpoints[r.id]
    <2>1. RegistryTypeOK'
      BY <1>2, <1>r DEF GetEndpoint, RegistryTypeOK
    <2>2. CASE Served(c, "notfound")
      BY <2>1, <2>2, <1>o, <1>r, ServedType DEF TypeOK
    <2>3. CASE ~Served(c, "notfound")
      <3>1. e \in Endpoint /\ e # None
        BY <2>3, <1>2, <1>r DEF GetEndpoint, RegistryTypeOK, Map
      <3>2. LocalTypeOK'
        BY <2>3, <3>1, <1>2, <1>r, <1>o DEF GetEndpoint, Callable, LocalTypeOK, Goto, Stages
      <3>3. QED
        BY <2>1, <3>2 DEF TypeOK
    <2>4. QED
      BY <2>2, <2>3
  <1>3. CASE Exchange(c)
    <2>1. RegistryTypeOK'
      BY <1>3, <1>r, SearchRegistryAssumption DEF Exchange, RegistryTypeOK
    <2>2. LocalTypeOK'
      BY <1>3, <1>r, <1>o DEF Exchange, LocalTypeOK, Goto, Stages
    <2>3. QED
      BY <2>1, <2>2 DEF TypeOK
  <1>4. CASE RecordHealth(c)
    <2>1. LocalTypeOK'
      BY <1>4, <1>r, ServedType DEF RecordHealth, LocalTypeOK
    <2>2. endpoints[r.id] # None => Health(endpoints[r.id], statuses[r.id], out[c]) \in States
      BY <1>r, StatusTypes DEF RegistryTypeOK, Map
    <2>3. RegistryTypeOK'
      BY <1>4, <1>r, <2>2 DEF RecordHealth, RegistryTypeOK
    <2>4. QED
      BY <2>1, <2>3 DEF TypeOK
  <1>5. CASE ReadStatus(c)
    <2>1. RegistryTypeOK'
      BY <1>5, <1>r DEF ReadStatus, RegistryTypeOK
    <2>2. LocalTypeOK'
      BY <1>5, <1>r, <1>o DEF ReadStatus, RegistryTypeOK, LocalTypeOK, Goto, Stages
    <2>3. QED
      BY <2>1, <2>2 DEF TypeOK
  <1>6. QED
    BY <1>1, <1>2, <1>3, <1>4, <1>5

LEMMA StartType ==
    ASSUME TypeOK, NEW c \in Caller, Start(c)
    PROVE  TypeOK'
  <1>1. PICK r \in Requests[c] :
           /\ \/ r.op \notin Changes /\ UNCHANGED edits
              \/ r.op \in Changes /\ edits > 0 /\ edits' = edits - 1
           /\ req' = [req EXCEPT ![c] = r]
           /\ Goto(c, FirstStage(r.op))
    BY DEF Start
  <1>2. r \in Request
    BY SearchRegistryAssumption
  <1>3. FirstStage(r.op) \in Stages \ {"send"}
    BY DEF FirstStage, Stages
  <1>4. LocalTypeOK'
    BY <1>1, <1>2, <1>3 DEF Start, TypeOK, LocalTypeOK, Goto
  <1>5. RegistryTypeOK'
    BY <1>1, SearchRegistryAssumption DEF Start, TypeOK, RegistryTypeOK, registry, outside, history
  <1>6. QED
    BY <1>4, <1>5 DEF TypeOK

LEMMA WorldType ==
    ASSUME TypeOK, World
    PROVE  TypeOK'
  <1>1. up' \subseteq Url /\ contents' \in [Path -> Configs \cup {None}]
    <2>1. CASE Toggle
      BY <2>1 DEF Toggle, TypeOK, RegistryTypeOK
    <2>2. CASE Rewrite
      BY <2>2 DEF Rewrite, TypeOK, RegistryTypeOK
    <2>3. QED
      BY <2>1, <2>2 DEF World
  <1>2. QED
    BY <1>1, SearchRegistryAssumption
       DEF World, TypeOK, RegistryTypeOK, LocalTypeOK, registry, locals, history

LEMMA InitType == Init => TypeOK
  <1> SUFFICES ASSUME Init PROVE TypeOK
    OBVIOUS
  <1>1. ASSUME NEW c \in Caller
        PROVE  (CHOOSE r \in Requests[c] : TRUE) \in Request
    BY SearchRegistryAssumption
  <1>2. LocalTypeOK
    BY <1>1 DEF Init, LocalTypeOK, Stages, Outcomes, Map
  <1>3. RegistryTypeOK
    BY SearchRegistryAssumption DEF Init, RegistryTypeOK, Map
  <1>4. QED
    BY <1>2, <1>3 DEF TypeOK

LEMMA NextType == TypeOK /\ [Next]_vars => TypeOK'
  <1> SUFFICES ASSUME TypeOK, [Next]_vars PROVE TypeOK'
    OBVIOUS
  <1>1. ASSUME NEW c \in Caller, Start(c)
        PROVE  TypeOK'
    BY <1>1, StartType
  <1>2. ASSUME NEW c \in Caller, Step(c)
        PROVE  TypeOK'
    BY <1>2, EditType, ClientType DEF Step
  <1>3. CASE World
    BY <1>3, WorldType
  <1>4. CASE UNCHANGED vars
    BY <1>4 DEF vars, registry, outside, locals, history, TypeOK, RegistryTypeOK, LocalTypeOK
  <1>5. QED
    BY <1>1, <1>2, <1>3, <1>4 DEF Next

\* Type correctness: the Registry and its Client keep to their values, and a
\* request is sent only to an endpoint that was enabled when it was read.
THEOREM TypeCorrectness == Spec => []TypeOK
  BY InitType, NextType, PTL DEF Spec

-----------------------------------------------------------------------------
(* The agreement of the two maps.                                          *)

\* One critical section of the mutex keeps the maps in agreement.
LEMMA NextMatch ==
    ASSUME TypeOK, StatusesMatch, [Next]_vars
    PROVE  StatusesMatch'
  <1>t. /\ \A i \in Id : endpoints[i] \in Endpoint \cup {None}
        /\ endpoints \in [Id -> Endpoint \cup {None}] /\ statuses \in [Id -> States \cup {None}]
        /\ None \notin Endpoint /\ None \notin States
    BY SearchRegistryAssumption DEF TypeOK, RegistryTypeOK, Map
  <1>i. \A e \in Endpoint : /\ InitialStatus(e) # None
                            /\ ~e.enabled => InitialStatus(e) = "disabled"
    BY <1>t, StatusTypes DEF InitialStatus
  <1>u. ASSUME UNCHANGED <<endpoints, statuses>>
        PROVE  StatusesMatch'
    BY <1>u DEF StatusesMatch
  <1>1. ASSUME NEW c \in Caller, Register(c)
        PROVE  StatusesMatch'
    <2> DEFINE r == req[c]
    <2>1. r.id \in Id /\ r.endpoint \in Endpoint
      BY DEF TypeOK, LocalTypeOK, Request
    <2>2. CASE /\ endpoints' = [endpoints EXCEPT ![r.id] = r.endpoint]
               /\ statuses' = [statuses EXCEPT ![r.id] = InitialStatus(r.endpoint)]
      BY <2>1, <2>2, <1>t, <1>i DEF StatusesMatch
    <2>3. QED
      BY <2>2, <1>1, <1>u DEF Register, registry
  <1>2. ASSUME NEW c \in Caller, Upsert(c)
        PROVE  StatusesMatch'
    <2>1. req[c].id \in Id /\ req[c].endpoint \in Endpoint
      BY DEF TypeOK, LocalTypeOK, Request
    <2>2. QED
      BY <2>1, <1>2, <1>t, <1>i DEF StatusesMatch, Upsert
  <1>3. ASSUME NEW c \in Caller, Unregister(c)
        PROVE  StatusesMatch'
    <2>1. req[c].id \in Id
      BY DEF TypeOK, LocalTypeOK, Request
    <2>2. QED
      BY <2>1, <1>3, <1>t DEF StatusesMatch, Unregister
  <1>4. ASSUME NEW c \in Caller, LoadConfig(c)
        PROVE  StatusesMatch'
    <2>1. \A i \in Id : file[c][i] \in Endpoint \cup {None}
      BY DEF TypeOK, LocalTypeOK, Map
    <2>2. QED
      BY <2>1, <1>4, <1>t, <1>i DEF StatusesMatch, LoadConfig, InitialStatuses
  <1>5. ASSUME NEW c \in Caller, RecordHealth(c)
        PROVE  StatusesMatch'
    <2> DEFINE i == req[c].id
    <2>1. i \in Id /\ UNCHANGED endpoints
      BY <1>5 DEF TypeOK, LocalTypeOK, Request, RecordHealth
    <2>2. CASE endpoints[i] # None
      <3>1. endpoints[i] \in Endpoint
        BY <2>1, <2>2, <1>t
      <3>2. Health(endpoints[i], statuses[i], out[c]) # None
        BY <3>1, <1>t, StatusTypes
      <3>3. ~endpoints[i].enabled => Health(endpoints[i], statuses[i], out[c]) = "disabled"
        BY <3>1, <1>i DEF Health
      <3>4. QED
        BY <2>1, <2>2, <3>2, <3>3, <1>5, <1>t DEF StatusesMatch, RecordHealth
    <2>3. CASE endpoints[i] = None
      BY <2>1, <2>3, <1>5, <1>u DEF RecordHealth
    <2>4. QED
      BY <2>2, <2>3
  <1>6. ASSUME NEW c \in Caller,
               Start(c) \/ ReadPath(c) \/ ReadConfig(c) \/ SetPath(c) \/ ListEndpoints(c)
                 \/ GetEndpoint(c) \/ Exchange(c) \/ ReadStatus(c)
        PROVE  StatusesMatch'
    BY <1>6, <1>u DEF Start, ReadPath, ReadConfig, SetPath, ListEndpoints, GetEndpoint, Exchange,
       ReadStatus, registry
  <1>7. CASE World \/ UNCHANGED vars
    BY <1>7, <1>u DEF World, vars, registry
  <1>8. QED
    BY <1>1, <1>2, <1>3, <1>4, <1>5, <1>6, <1>7 DEF Next, Step

\* An endpoint has a status exactly as long as it is registered, and a disabled
\* one says so, however many requests are under way while it changes.
THEOREM StatusesStayMatched == Spec => []StatusesMatch
  <1>1. Init => StatusesMatch
    BY DEF Init, StatusesMatch
  <1>2. TypeOK /\ StatusesMatch /\ [Next]_vars => StatusesMatch'
    BY NextMatch
  <1>3. QED
    BY <1>1, <1>2, TypeCorrectness, PTL DEF Spec

-----------------------------------------------------------------------------
(* The path of the loaded file.                                            *)

FileOps == {"LoadConfigFile", "ReloadConfigFile"}

\* Only one caller, if any, loads config files.
LoneLoader ==
    \A c, d \in Caller :
        (\E r \in Requests[c] : r.op \in FileOps) /\ (\E r \in Requests[d] : r.op \in FileOps) => c = d

\* A caller serves a request that it may issue, a load is at a stage of loads,
\* and between the exchange of the maps and that of the path the file of the
\* loader is the one that the endpoints come from.
LoadStage(c) ==
    /\ \E r \in Requests[c] : req[c].op = r.op
    /\ pc[c] \in {"read", "replace"} => req[c].op \in FileOps \cup {"LoadConfig"}
    /\ pc[c] \in {"path", "setpath"} => req[c].op \in FileOps
    /\ pc[c] = "setpath" /\ source # None => source = req[c].path
PathInv == (\A c \in Caller : LoadStage(c)) /\ PathOfEndpoints

\* The steps that leave paths and sources alone, or forget the source.
LEMMA PathFrame ==
    ASSUME TypeOK, PathInv, NEW c \in Caller, configPath' = configPath,
           source' \in {source, None},
           \A d \in Caller \ {c} : pc'[d] = pc[d] /\ req'[d] = req[d],
           req'[c].op = req[c].op, pc[c] # "setpath", pc'[c] # "setpath", pc'[c] # "path",
           pc'[c] \in {"read", "replace"} => req[c].op \in FileOps \cup {"LoadConfig"}
    PROVE  PathInv'
  <1>1. ASSUME NEW d \in Caller \ {c}
        PROVE  LoadStage(d)'
    BY <1>1 DEF PathInv, LoadStage
  <1>2. LoadStage(c)'
    BY DEF PathInv, LoadStage
  <1>3. PathOfEndpoints'
    BY DEF PathInv, PathOfEndpoints
  <1>4. QED
    BY <1>1, <1>2, <1>3 DEF PathInv

LEMMA NextPath ==
    ASSUME LoneLoader, TypeOK, PathInv, [Next]_vars
    PROVE  PathInv'
  <1>t. /\ pc \in [Caller -> Stages] /\ req \in [Caller -> Request]
        /\ req' \in [Caller -> Request] /\ pc' \in [Caller -> Stages]
    BY NextType DEF TypeOK, LocalTypeOK
  <1> USE DEF registry, outside, history, Elsewhere, Overtake
  <1>1. ASSUME NEW c \in Caller, Start(c)
        PROVE  PathInv'
    <2>1. PICK r \in Requests[c] : req' = [req EXCEPT ![c] = r] /\ Goto(c, FirstStage(r.op))
      BY <1>1 DEF Start
    <2>2. ASSUME NEW d \in Caller \ {c}
          PROVE  LoadStage(d)'
      BY <1>1, <1>t, <2>1 DEF PathInv, LoadStage, Goto, Start
    <2>3. LoadStage(c)'
      BY <1>1, <1>t, <2>1 DEF LoadStage, Goto, FirstStage, FileOps
    <2>4. PathOfEndpoints'
      BY <1>1, <1>t, <2>1 DEF Start, Goto, FirstStage, PathInv, PathOfEndpoints
    <2>5. QED
      BY <2>2, <2>3, <2>4 DEF PathInv
  <1>2. ASSUME NEW c \in Caller, Register(c) \/ Upsert(c) \/ Unregister(c)
        PROVE  PathInv'
    BY <1>2, <1>t, PathFrame DEF Register, Upsert, Unregister, Return, Goto
  <1>3. ASSUME NEW c \in Caller, ReadPath(c)
        PROVE  PathInv'
    <2>1. req[c].op \in FileOps
      BY <1>3 DEF ReadPath, PathInv, LoadStage
    <2>2. QED
      BY <1>3, <1>t, <2>1, PathFrame DEF ReadPath, Return, Goto, Request
  <1>4. ASSUME NEW c \in Caller, ReadConfig(c)
        PROVE  PathInv'
    <2>1. req[c].op \in FileOps \cup {"LoadConfig"}
      BY <1>4 DEF ReadConfig, PathInv, LoadStage
    <2>2. QED
      BY <1>4, <1>t, <2>1, PathFrame DEF ReadConfig, Return, Goto
  <1>5. ASSUME NEW c \in Caller, LoadConfig(c)
        PROVE  PathInv'
    <2>1. CASE req[c].op = "LoadConfig"
      BY <1>5, <1>t, <2>1, PathFrame DEF LoadConfig, Return, Goto
    <2>2. CASE req[c].op # "LoadConfig"
      <3>1. /\ source' = req[c].path /\ pc' = [pc EXCEPT ![c] = "setpath"]
            /\ UNCHANGED <<req, configPath>>
        BY <1>5, <2>2 DEF LoadConfig, Goto
      <3>2. req[c].op \in FileOps
        BY <1>5, <2>2 DEF LoadConfig, PathInv, LoadStage
      <3>3. ASSUME NEW d \in Caller \ {c}
            PROVE  req[d].op \notin FileOps
        BY <3>2, <3>3 DEF LoneLoader, PathInv, LoadStage
      <3>4. ASSUME NEW d \in Caller \ {c}
            PROVE  LoadStage(d)'
        BY <1>t, <3>1, <3>3 DEF PathInv, LoadStage
      <3>5. LoadStage(c)'
        BY <1>t, <3>1, <3>2 DEF PathInv, LoadStage
      <3>6. PathOfEndpoints'
        BY <1>t, <3>1 DEF PathOfEndpoints
      <3>7. QED
        BY <3>4, <3>5, <3>6 DEF PathInv
    <2>3. QED
      BY <2>1, <2>2
  <1>6. ASSUME NEW c \in Caller, SetPath(c)
        PROVE  PathInv'
    <2>1. /\ pc' = [pc EXCEPT ![c] = "done"] /\ UNCHANGED <<req, source>>
          /\ configPath' = req[c].path
      BY <1>6 DEF SetPath, Return, Goto
    <2>2. source # None => source = req[c].path
      BY <1>6 DEF SetPath, PathInv, LoadStage
    <2>3. \A d \in Caller : LoadStage(d)'
      BY <1>t, <2>1 DEF PathInv, LoadStage
    <2>4. PathOfEndpoints'
      BY <2>1, <2>2 DEF PathOfEndpoints
    <2>5. QED
      BY <2>3, <2>4 DEF PathInv
  <1>7. ASSUME NEW c \in Caller, ListEndpoints(c)
        PROVE  PathInv'
    BY <1>7, <1>t, PathFrame DEF ListEndpoints, Return, Ask, Goto, Request
  <1>8. ASSUME NEW c \in Caller, GetEndpoint(c)
        PROVE  PathInv'
    BY <1>8, <1>t, PathFrame DEF GetEndpoint, Served, Ask, Goto, Request
  <1>9. ASSUME NEW c \in Caller, Exchange(c) \/ ReadStatus(c)
        PROVE  PathInv'
    BY <1>9, <1>t, PathFrame DEF Exchange, ReadStatus, Goto
  <1>10. ASSUME NEW c \in Caller, RecordHealth(c)
        PROVE  PathInv'
    BY <1>10, <1>t, PathFrame DEF RecordHealth, Served, Ask, Goto, Request
  <1>11. CASE World \/ UNCHANGED vars
    BY <1>11 DEF World, vars, locals, PathInv, LoadStage, PathOfEndpoints
  <1>12. QED
    BY <1>1, <1>2, <1>3, <1>4, <1>5, <1>6, <1>7, <1>8, <1>9, <1>10, <1>11 DEF Next, Step

\* The path that a reload will use is the path of the file that was loaded last,
\* as long as one caller loads files, whatever else others do to the Registry.
THEOREM PathStaysOfEndpoints == LoneLoader /\ Spec => []PathOfEndpoints
  <1>1. Init => PathInv
    <2> SUFFICES ASSUME Init, NEW c \in Caller PROVE LoadStage(c)
      BY DEF Init, PathInv, PathOfEndpoints
    <2>1. req[c] \in Requests[c] /\ pc[c] = "done"
      BY SearchRegistryAssumption DEF Init
    <2>2. QED
      BY <2>1 DEF LoadStage
  <1>2. LoneLoader /\ TypeOK /\ PathInv /\ [Next]_vars => PathInv'
    BY NextPath
  <1>3. PathInv => PathOfEndpoints
    BY DEF PathInv
  <1>4. CASE LoneLoader
    <2>1. TypeOK /\ PathInv /\ [Next]_vars => PathInv'
      BY <1>2, <1>4
    <2>2. QED
      BY <1>1, <1>3, <2>1, TypeCorrectness, PTL DEF Spec
  <1>5. QED
    BY <1>4
-----------------------------------------------------------------------------
(* What Ping returns.                                                      *)

Agrees(o, status) ==
    /\ (o = "ok") <=> (status = "healthy")
    /\ (o = "disabled") <=> (status = "disabled")

\* While nobody overtakes it, a Ping works on the endpoint that is registered,
\* and the status that it is going to return is the one that it recorded.
PingPart(c) ==
    LET i == req[c].id
    IN /\ pc[c] \in {"edit", "path", "read", "replace", "setpath", "list"} => req[c].op # "Ping"
       /\ c \notin overtaken /\ req[c].op = "Ping" =>
             /\ pc[c] = "send" => endpoints[i] = snapshot[c]
             /\ pc[c] = "record" => /\ endpoints[i] # None /\ out[c] \in {"ok", "failed", "disabled"}
                                    /\ (out[c] = "disabled") <=> ~endpoints[i].enabled
             /\ pc[c] = "status" => \/ statuses[i] = None
                                    \/ statuses[i] # None /\ Agrees(out[c], statuses[i])
             /\ pc[c] = "done" /\ seen[c] # None => Agrees(out[c], seen[c])
PingInv == \A c \in Caller : PingPart(c)

\* A step of another caller that does not overtake a Ping keeps its part.
LEMMA PingFrame ==
    ASSUME NEW c \in Caller, PingPart(c),
           pc'[c] = pc[c], req'[c] = req[c], snapshot'[c] = snapshot[c], out'[c] = out[c], seen'[c] = seen[c],
           c \notin overtaken' => c \notin overtaken,
           c \notin overtaken' /\ Pinging(c) => endpoints'[req[c].id] = endpoints[req[c].id],
           c \notin overtaken' /\ Pinging(c) /\ pc[c] = "status" => statuses'[req[c].id] = statuses[req[c].id]
    PROVE  PingPart(c)'
  BY DEF PingPart, Pinging, Agrees

LEMMA NextPing ==
    ASSUME TypeOK, StatusesMatch, PingInv, [Next]_vars
    PROVE  PingInv'
  <1>t. /\ pc \in [Caller -> Stages] /\ req \in [Caller -> Request] /\ out \in [Caller -> Outcomes]
        /\ snapshot \in [Caller -> Endpoint \cup {None}] /\ seen \in [Caller -> States \cup {None}]
        /\ endpoints \in Map /\ statuses \in [Id -> States \cup {None}]
        /\ \A c \in Caller : req[c].id \in Id
    BY DEF TypeOK, LocalTypeOK, RegistryTypeOK, Request
  <1> USE DEF registry, outside, history, Elsewhere, Overtake
  <1>1. ASSUME NEW d \in Caller, Start(d)
        PROVE  PingInv'
    <2>1. PICK r \in Requests[d] : req' = [req EXCEPT ![d] = r] /\ Goto(d, FirstStage(r.op))
      BY <1>1 DEF Start
    <2>2. ASSUME NEW c \in Caller \ {d}
          PROVE  PingPart(c)'
      BY <1>1, <1>t, <2>1, PingFrame DEF PingInv, Start, Goto
    <2>3. PingPart(d)'
      BY <1>t, <2>1 DEF PingPart, Goto, FirstStage
    <2>4. QED
      BY <2>2, <2>3 DEF PingInv
  <1>2. ASSUME NEW d \in Caller, Register(d) \/ Upsert(d) \/ Unregister(d)
        PROVE  PingInv'
    <2>1. /\ pc' = [pc EXCEPT ![d] = "done"] /\ \E o : out' = [out EXCEPT ![d] = o]
          /\ UNCHANGED <<req, snapshot, seen>> /\ req[d].op # "Ping"
          /\ overtaken' = overtaken \cup {c \in Caller \ {d} : Pinging(c)}
      BY <1>2 DEF Register, Upsert, Unregister, Return, Goto
    <2>2. ASSUME NEW c \in Caller \ {d}
          PROVE  PingPart(c)'
      BY <1>t, <2>1, PingFrame DEF PingInv
    <2>3. PingPart(d)'
      BY <1>t, <2>1 DEF PingPart
    <2>4. QED
      BY <2>2, <2>3 DEF PingInv
  <1>3. ASSUME NEW d \in Caller, LoadConfig(d)
        PROVE  PingInv'
    <2>1. /\ \E p : pc' = [pc EXCEPT ![d] = p]
          /\ \E o : out' = [out EXCEPT ![d] = o]
          /\ UNCHANGED <<req, snapshot, seen>> /\ req[d].op # "Ping"
          /\ overtaken' = overtaken \cup {c \in Caller \ {d} : Pinging(c)}
      <3>1. req[d].op # "Ping"
        BY <1>3 DEF LoadConfig, PingInv, PingPart
      <3>2. out = [out EXCEPT ![d] = out[d]]
        BY <1>t
      <3>3. QED
        BY <1>3, <3>1, <3>2 DEF LoadConfig, Return, Goto
    <2>2. ASSUME NEW c \in Caller \ {d}
          PROVE  PingPart(c)'
      BY <1>t, <2>1, PingFrame DEF PingInv
    <2>3. PingPart(d)'
      BY <1>t, <2>1 DEF PingPart
    <2>4. QED
      BY <2>2, <2>3 DEF PingInv
  <1>4. ASSUME NEW d \in Caller, ReadPath(d) \/ ReadConfig(d) \/ SetPath(d) \/ ListEndpoints(d)
        PROVE  PingInv'
    <2>1. /\ req[d].op # "Ping" /\ req'[d].op = req[d].op
          /\ UNCHANGED <<endpoints, statuses, overtaken, snapshot, seen>>
          /\ \A c \in Caller \ {d} : pc'[c] = pc[c] /\ req'[c] = req[c] /\ out'[c] = out[c]
      BY <1>4, <1>t DEF ReadPath, ReadConfig, SetPath, ListEndpoints, Return, Ask, Goto, PingInv, PingPart, Request
    <2>2. ASSUME NEW c \in Caller \ {d}
          PROVE  PingPart(c)'
      BY <1>t, <2>1, PingFrame DEF PingInv
    <2>3. PingPart(d)'
      BY <2>1 DEF PingPart
    <2>4. QED
      BY <2>2, <2>3 DEF PingInv
  <1>5. ASSUME NEW d \in Caller, GetEndpoint(d)
        PROVE  PingInv'
    <2> DEFINE e == endpoints[req[d].id]
    <2>1. /\ UNCHANGED <<endpoints, statuses, seen>> /\ overtaken' = overtaken \ {d}
          /\ \A c \in Caller \ {d} : /\ pc'[c] = pc[c] /\ req'[c] = req[c] /\ out'[c] = out[c]
                                     /\ snapshot'[c] = snapshot[c]
      BY <1>5, <1>t DEF GetEndpoint, Served, Ask, Goto
    <2>2. ASSUME NEW c \in Caller \ {d}
          PROVE  PingPart(c)'
      BY <1>t, <2>1, PingFrame DEF PingInv
    <2>3. ASSUME e = None, Served(d, "notfound")
          PROVE  PingPart(d)'
      <3>1. CASE req[d].op = "Ping"
        <4>1. pc'[d] = "status" /\ req'[d] = req[d]
          BY <1>t, <2>3, <3>1 DEF Served, Goto
        <4>2. statuses'[req[d].id] = None
          BY <1>t, <2>1, <2>3 DEF StatusesMatch
        <4>3. QED
          BY <4>1, <4>2 DEF PingPart
      <3>2. CASE req[d].op # "Ping"
        BY <1>t, <2>3, <3>2 DEF Served, Ask, Goto, PingPart, Request
      <3>3. QED
        BY <3>1, <3>2
    <2>4. ASSUME e # None, snapshot' = [snapshot EXCEPT ![d] = e], UNCHANGED <<req, seen>>,
                 \/ Callable(e) /\ Goto(d, "send") /\ UNCHANGED out
                 \/ ~Callable(e) /\ Goto(d, "record") /\ out' = [out EXCEPT ![d] = "disabled"]
          PROVE  PingPart(d)'
      BY <1>t, <2>1, <2>4 DEF PingPart, Goto, Callable
    <2>5. PingPart(d)'
      BY <1>5, <2>3, <2>4 DEF GetEndpoint
    <2>6. QED
      BY <2>2, <2>5 DEF PingInv
  <1>6. ASSUME NEW d \in Caller, Exchange(d)
        PROVE  PingInv'
    <2>1. /\ UNCHANGED <<endpoints, statuses, overtaken, seen, snapshot, req>>
          /\ pc[d] = "send" /\ pc' = [pc EXCEPT ![d] = "record"]
          /\ \E o \in {"ok", "failed"} : out' = [out EXCEPT ![d] = o]
      BY <1>6 DEF Exchange, Goto
    <2>2. ASSUME NEW c \in Caller \ {d}
          PROVE  PingPart(c)'
      BY <1>t, <2>1, PingFrame DEF PingInv
    <2>3. snapshot[d] # None /\ snapshot[d].enabled
      BY <2>1 DEF TypeOK, LocalTypeOK
    <2>4. PingPart(d)'
      BY <1>t, <2>1, <2>3 DEF PingInv, PingPart
    <2>5. QED
      BY <2>2, <2>4 DEF PingInv
  <1>7. ASSUME NEW d \in Caller, RecordHealth(d)
        PROVE  PingInv'
    <2> DEFINE i == req[d].id
    <2>1. /\ pc[d] = "record" /\ UNCHANGED <<endpoints, seen, snapshot>>
          /\ overtaken' = overtaken \cup {c \in Caller \ {d} : pc[c] = "status" /\ req[c].id = i}
          /\ \A c \in Caller \ {d} : pc'[c] = pc[c] /\ req'[c] = req[c] /\ out'[c] = out[c]
          /\ \A j \in Id \ {i} : statuses'[j] = statuses[j]
          /\ out'[d] = out[d]
      BY <1>7, <1>t DEF RecordHealth, Served, Ask, Goto
    <2>2. ASSUME NEW c \in Caller \ {d}
          PROVE  PingPart(c)'
      BY <1>t, <2>1, PingFrame DEF PingInv
    <2>3. ASSUME req[d].op = "Ping"
          PROVE  PingPart(d)'
      <3>1. pc'[d] = "status" /\ req'[d] = req[d]
        BY <1>7, <1>t, <2>3 DEF RecordHealth, Served, Goto
      <3>2. ASSUME d \notin overtaken
            PROVE  statuses'[i] # None /\ Agrees(out[d], statuses'[i])
        <4>1. /\ endpoints[i] \in Endpoint /\ out[d] \in {"ok", "failed", "disabled"}
              /\ endpoints[i] # None /\ endpoints[i].enabled \in BOOLEAN
              /\ (out[d] = "disabled") <=> ~endpoints[i].enabled
          BY <1>t, <2>1, <2>3, <3>2 DEF PingInv, PingPart, Map, Endpoint
        <4>2. statuses'[i] = Health(endpoints[i], statuses[i], out[d])
          <5>1. statuses' = [statuses EXCEPT ![i] = Health(endpoints[i], statuses[i], out[d])]
            BY <1>7, <4>1 DEF RecordHealth
          <5>2. QED
            BY <1>t, <5>1
        <4>3. statuses'[i] # None
          BY <4>1, <4>2, StatusTypes, SearchRegistryAssumption
        <4>4. QED
          BY <4>1, <4>2, <4>3 DEF Health, InitialStatus, Agrees
      <3>3. QED
        BY <2>1, <3>1, <3>2 DEF PingPart
    <2>4. ASSUME req[d].op # "Ping"
          PROVE  PingPart(d)'
      BY <1>7, <1>t, <2>4 DEF RecordHealth, Served, Ask, Goto, PingPart, Request
    <2>5. QED
      BY <2>2, <2>3, <2>4 DEF PingInv
  <1>8. ASSUME NEW d \in Caller, ReadStatus(d)
        PROVE  PingInv'
    <2> DEFINE status == statuses[req[d].id]
    <2>1. /\ pc[d] = "status" /\ UNCHANGED <<endpoints, statuses, overtaken, snapshot, req>>
          /\ pc' = [pc EXCEPT ![d] = "done"] /\ seen' = [seen EXCEPT ![d] = status]
          /\ out' = [out EXCEPT ![d] = IF status = None THEN "notfound" ELSE @]
      BY <1>8 DEF ReadStatus, Goto
    <2>2. ASSUME NEW c \in Caller \ {d}
          PROVE  PingPart(c)'
      BY <1>t, <2>1, PingFrame DEF PingInv
    <2>3. PingPart(d)'
      BY <1>t, <2>1 DEF PingInv, PingPart, Agrees
    <2>4. QED
      BY <2>2, <2>3 DEF PingInv
  <1>9. CASE World \/ UNCHANGED vars
    BY <1>9, PingFrame DEF World, vars, locals, PingInv
  <1>10. QED
    BY <1>1, <1>2, <1>3, <1>4, <1>5, <1>6, <1>7, <1>8, <1>9 DEF Next, Step

\* However many callers share the Client, a Ping that nobody overtakes returns
\* the status that goes with its error.
THEOREM PingsAgree == Spec => []PingAgrees
  <1>1. Init => PingInv
    BY DEF Init, PingInv, PingPart
  <1>2. TypeOK /\ StatusesMatch /\ PingInv /\ [Next]_vars => PingInv'
    BY NextPing
  <1>3. PingInv => PingAgrees
    BY DEF PingInv, PingPart, PingAgrees, Agrees
  <1>4. QED
    BY <1>1, <1>2, <1>3, TypeCorrectness, StatusesStayMatched, PTL DEF Spec
=============================================================================
