--------------------------- MODULE SearchRegistry ---------------------------
(***************************************************************************)
(* The registry of search plugin endpoints and the client that calls them  *)
(* (src/searchplugin).  Every access to the Registry is one critical       *)
(* section of its mutex, and so one step; a request of the Client is a     *)
(* read of the endpoint, the HTTP exchange without the mutex, and the      *)
(* recording of its health under the endpoint's ID.  Loading a config file *)
(* is a read, an exchange of both maps, and a change of the path.          *)
(*                                                                         *)
(* Routes, query parameters, response bodies and latencies are left out; a *)
(* missing map entry is None.                                              *)
(***************************************************************************)
EXTENDS FiniteSets, FiniteSetsExt, Naturals

CONSTANTS
    Caller,     \* goroutines that use one Registry and its Client
    Id,         \* endpoint IDs, numbered in the order in which they sort
    Url,        \* base URLs
    Path,       \* config files
    Configs,    \* what a config file may hold
    None,       \* a missing entry; a config file that cannot be used
    Requests,   \* Requests[c]: the requests c may issue
    MaxEdits,   \* bound on registry changes, and on those of files and servers
    MaxFaults   \* bound on the HTTP exchanges that fail on their own

Endpoint == [url : Url, enabled : BOOLEAN]
States   == {"unknown", "healthy", "unhealthy", "disabled"}
Map      == [Id -> Endpoint \cup {None}]

Changes  == {"Register", "Upsert", "Unregister", "LoadConfig", "LoadConfigFile",
             "ReloadConfigFile"}
Ops      == Changes \cup {"Perform", "Ping", "SearchAll"}
Request  == [op : Ops, id : Id, endpoint : Endpoint, path : Path]
Stages   == {"done", "edit", "path", "read", "replace", "setpath", "list", "get", "send",
             "record", "status"}
Outcomes == {"ok", "exists", "notfound", "notset", "badconfig", "disabled", "failed"}

ASSUME SearchRegistryAssumption ==
    /\ Id \subseteq Nat /\ IsFiniteSet(Id)
    /\ None \notin Endpoint /\ None \notin States /\ None \notin Path /\ None \notin Map
    /\ Configs \subseteq Map
    /\ Requests \in [Caller -> SUBSET Request] /\ \A c \in Caller : Requests[c] # {}
    /\ MaxEdits \in Nat /\ MaxFaults \in Nat

VARIABLES
    endpoints,  \* Registry.endpoints
    statuses,   \* Registry.statuses: the State of each
    configPath, \* Registry.configPath
    contents,   \* contents[p]: what config file p holds
    up,         \* the base URLs whose server answers
    pc,         \* pc[c]: the next step of c
    req,        \* req[c]: the request c is serving, or served last
    file,       \* file[c]: the config c has read
    snapshot,   \* snapshot[c]: the endpoint c has read, with its ID
    queue,      \* queue[c]: the IDs a SearchAll still has to ask
    out,        \* out[c]: the error of c's last request or of its HTTP exchange
    seen,       \* seen[c]: the state that a Ping returned
    source,     \* history: the config file the endpoints were loaded from last
    old,        \* history: callers whose request began before the last load
    overtaken,  \* history: callers in whose Ping others changed the Registry
    edits, faults

registry == <<endpoints, statuses, configPath, source>>
outside  == <<contents, up>>
locals   == <<pc, req, file, snapshot, queue, out, seen>>
history  == <<old, overtaken>>
vars     == <<registry, outside, locals, history, edits, faults>>

-----------------------------------------------------------------------------
\* initialStatusForEndpoint.
InitialStatus(e) == IF e.enabled THEN "unknown" ELSE "disabled"

InitialStatuses(map) == [i \in Id |-> IF map[i] = None THEN None ELSE InitialStatus(map[i])]

\* recordHealth: the new status of an endpoint, given what is registered now.
IgnoreFailure(e, status, error) ==                                  \* mutant
    IF ~e.enabled THEN "disabled" ELSE IF error = "ok" THEN "healthy" ELSE status
Health(e, status, error) ==
    IF ~e.enabled THEN InitialStatus(e) ELSE IF error = "ok" THEN "healthy" ELSE "unhealthy"

\* perform calls enabled endpoints only.
AlwaysCallable(e) == TRUE                                           \* mutant
Callable(e) == e.enabled

\* List: the registered IDs.
Registered == {i \in Id : endpoints[i] # None}

-----------------------------------------------------------------------------
Goto(c, stage) == pc' = [pc EXCEPT ![c] = stage]

Return(c, o) ==
    /\ Goto(c, "done")
    /\ out' = [out EXCEPT ![c] = o]
    /\ UNCHANGED <<req, file, snapshot, queue, seen>>

\* SearchAll asks the first of some endpoints and keeps the rest for later.
Ask(c, ids) ==
    /\ req' = [req EXCEPT ![c].id = Min(ids)]
    /\ queue' = [queue EXCEPT ![c] = ids \ {Min(ids)}]

\* A request of the client is over: Ping reads the status, SearchAll goes on.
Served(c, o) ==
    /\ out' = [out EXCEPT ![c] = o]
    /\ \/ req[c].op = "Ping" /\ Goto(c, "status") /\ UNCHANGED <<req, queue>>
       \/ /\ req[c].op = "SearchAll" /\ queue[c] # {}
          /\ Ask(c, queue[c])
          /\ Goto(c, "get")
       \/ /\ req[c].op = "Perform" \/ (req[c].op = "SearchAll" /\ queue[c] = {})
          /\ Goto(c, "done") /\ UNCHANGED <<req, queue>>
    /\ UNCHANGED <<file, snapshot, seen>>

Elsewhere == UNCHANGED <<outside, edits, faults>>

\* Pings between their reading of an endpoint and that of its status, and
\* what a change does to the answers of some callers.
Pinging(d) == req[d].op = "Ping" /\ pc[d] \in {"send", "record", "status"}
Overtake(callers) == overtaken' = overtaken \cup callers /\ UNCHANGED old

-----------------------------------------------------------------------------
FirstStage(op) ==
    CASE op \in {"Register", "Upsert", "Unregister"} -> "edit"
      [] op \in {"LoadConfig", "LoadConfigFile"}      -> "read"
      [] op = "ReloadConfigFile"                      -> "path"
      [] op = "SearchAll"                             -> "list"
      [] OTHER                                        -> "get"

Start(c) ==
    /\ pc[c] = "done"
    /\ \E r \in Requests[c] :
          /\ \/ r.op \notin Changes /\ UNCHANGED edits
             \/ r.op \in Changes /\ edits > 0 /\ edits' = edits - 1
          /\ req' = [req EXCEPT ![c] = r]
          /\ Goto(c, FirstStage(r.op))
    /\ UNCHANGED <<registry, outside, file, snapshot, queue, out, seen, history, faults>>

Register(c) ==
    LET r == req[c]
    IN /\ pc[c] = "edit" /\ r.op = "Register"
       /\ \/ endpoints[r.id] # None /\ Return(c, "exists") /\ UNCHANGED registry
          \/ /\ endpoints[r.id] = None
             /\ endpoints' = [endpoints EXCEPT ![r.id] = r.endpoint]
             /\ statuses' = [statuses EXCEPT ![r.id] = InitialStatus(r.endpoint)]
             /\ source' = None
             /\ UNCHANGED configPath
             /\ Return(c, "ok")
       /\ Overtake({d \in Caller \ {c} : Pinging(d)})
       /\ Elsewhere

\* An endpoint that is replaced keeps its status unless it is now disabled.
Upsert(c) ==
    LET r == req[c]
        status == statuses[r.id]
    IN /\ pc[c] = "edit" /\ r.op = "Upsert"
       /\ endpoints' = [endpoints EXCEPT ![r.id] = r.endpoint]
       /\ statuses' = [statuses EXCEPT ![r.id] =
                          IF status = None \/ ~r.endpoint.enabled
                          THEN InitialStatus(r.endpoint) ELSE status]
       /\ source' = None
       /\ UNCHANGED configPath
       /\ Return(c, "ok")
       /\ Overtake({d \in Caller \ {c} : Pinging(d)})
       /\ Elsewhere

Unregister(c) ==
    LET r == req[c]
    IN /\ pc[c] = "edit" /\ r.op = "Unregister"
       /\ endpoints' = [endpoints EXCEPT ![r.id] = None]
       /\ statuses' = [statuses EXCEPT ![r.id] = None]
       /\ source' = None
       /\ UNCHANGED configPath
       /\ Return(c, "ok")
       /\ Overtake({d \in Caller \ {c} : Pinging(d)})
       /\ Elsewhere

\* ReloadConfigFile reads the path and goes on as LoadConfigFile.
ReadPath(c) ==
    /\ pc[c] = "path"
    /\ \/ configPath = None /\ Return(c, "notset")
       \/ /\ configPath # None
          /\ req' = [req EXCEPT ![c].path = configPath]
          /\ Goto(c, "read")
          /\ UNCHANGED <<file, snapshot, queue, out, seen>>
    /\ Elsewhere /\ UNCHANGED <<registry, history>>

\* ReadConfigFile, and the checks that LoadConfig makes before it locks.
PathFirst(c) ==                                                     \* mutant
    /\ pc[c] = "read"
    /\ configPath' = req[c].path
    /\ UNCHANGED <<endpoints, statuses, source, history>>
    /\ IF contents[req[c].path] = None THEN Return(c, "badconfig")
       ELSE /\ file' = [file EXCEPT ![c] = contents[req[c].path]]
            /\ Goto(c, "replace")
            /\ UNCHANGED <<req, snapshot, queue, out, seen>>
    /\ Elsewhere
ReadConfig(c) ==
    LET config == contents[req[c].path]
    IN /\ pc[c] = "read"
       /\ \/ config = None /\ Return(c, "badconfig")
          \/ /\ config # None
             /\ file' = [file EXCEPT ![c] = config]
             /\ Goto(c, "replace")
             /\ UNCHANGED <<req, snapshot, queue, out, seen>>
       /\ Elsewhere /\ UNCHANGED <<registry, history>>

\* LoadConfig, called for itself or by LoadConfigFile, exchanges both maps ...
LoadConfig(c) ==
    /\ pc[c] = "replace"
    /\ endpoints' = file[c]
    /\ statuses' = InitialStatuses(file[c])
    /\ old' = old \cup {d \in Caller : pc[d] \in {"send", "record"}}
    /\ overtaken' = overtaken \cup {d \in Caller \ {c} : Pinging(d)}
    /\ \/ req[c].op = "LoadConfig" /\ source' = None /\ Return(c, "ok")
       \/ /\ req[c].op # "LoadConfig" /\ source' = req[c].path
          /\ Goto(c, "setpath") /\ UNCHANGED <<req, file, snapshot, queue, out, seen>>
    /\ UNCHANGED configPath /\ Elsewhere

\* ... and LoadConfigFile locks again to set the path.
SetPath(c) ==
    /\ pc[c] = "setpath"
    /\ configPath' = req[c].path
    /\ UNCHANGED <<endpoints, statuses, source, history>>
    /\ Return(c, "ok") /\ Elsewhere

-----------------------------------------------------------------------------
\* SearchAll lists the endpoints and asks them one after the other.
ListEndpoints(c) ==
    /\ pc[c] = "list"
    /\ \/ Registered = {} /\ Return(c, "ok")
       \/ /\ Registered # {}
          /\ Ask(c, Registered)
          /\ Goto(c, "get")
          /\ UNCHANGED <<file, snapshot, out, seen>>
    /\ Elsewhere /\ UNCHANGED <<registry, history>>

\* perform reads the endpoint; a disabled one is not called, but recorded.
GetEndpoint(c) ==
    LET e == endpoints[req[c].id]
    IN /\ pc[c] = "get"
       /\ old' = old \ {c} /\ overtaken' = overtaken \ {c}
       /\ \/ e = None /\ Served(c, "notfound")
          \/ /\ e # None
             /\ snapshot' = [snapshot EXCEPT ![c] = e]
             /\ \/ Callable(e) /\ Goto(c, "send") /\ UNCHANGED out
                \/ /\ ~Callable(e)
                   /\ Goto(c, "record")
                   /\ out' = [out EXCEPT ![c] = "disabled"]
             /\ UNCHANGED <<req, file, queue, seen>>
       /\ Elsewhere /\ UNCHANGED registry

\* The HTTP exchange, or a request that cannot be built or authorized.
Exchange(c) ==
    /\ pc[c] = "send"
    /\ Goto(c, "record")
    /\ \/ /\ out' = [out EXCEPT ![c] = IF snapshot[c].url \in up THEN "ok" ELSE "failed"]
          /\ UNCHANGED faults
       \/ /\ faults > 0 /\ faults' = faults - 1
          /\ out' = [out EXCEPT ![c] = "failed"]
    /\ UNCHANGED <<registry, outside, req, file, snapshot, queue, seen, history, edits>>

\* recordHealth, by the ID that was read before the exchange; what belongs to
\* no registered endpoint any more is dropped.
RecordAnyway(c) ==                                                  \* mutant
    LET i == req[c].id
    IN /\ pc[c] = "record"
       /\ statuses' = [statuses EXCEPT ![i] =
                         IF endpoints[i] = None THEN "disabled"
                         ELSE Health(endpoints[i], statuses[i], out[c])]
       /\ UNCHANGED <<endpoints, configPath, source>>
       /\ Overtake({d \in Caller \ {c} : pc[d] = "status" /\ req[d].id = i})
       /\ Served(c, out[c]) /\ Elsewhere
RecordHealth(c) ==
    LET i == req[c].id
    IN /\ pc[c] = "record"
       /\ \/ /\ endpoints[i] # None
             /\ statuses' = [statuses EXCEPT ![i] = Health(endpoints[i], statuses[i], out[c])]
          \/ endpoints[i] = None /\ UNCHANGED statuses
       /\ UNCHANGED <<endpoints, configPath, source>>
       /\ Overtake({d \in Caller \ {c} : pc[d] = "status" /\ req[d].id = i})
       /\ Served(c, out[c]) /\ Elsewhere

\* Ping returns the status it finds then, whoever recorded it.
ReadStatus(c) ==
    LET status == statuses[req[c].id]
    IN /\ pc[c] = "status"
       /\ Goto(c, "done")
       /\ seen' = [seen EXCEPT ![c] = status]
       /\ out' = [out EXCEPT ![c] = IF status = None THEN "notfound" ELSE @]
       /\ UNCHANGED <<req, file, snapshot, queue>> /\ Elsewhere /\ UNCHANGED <<registry, history>>

-----------------------------------------------------------------------------
\* Servers start and stop, and administrators rewrite config files.
Toggle == \E u \in Url : up' = (up \ {u}) \cup ({u} \ up) /\ UNCHANGED contents
Rewrite == \E p \in Path : \E config \in (Configs \cup {None}) \ {contents[p]} :
    contents' = [contents EXCEPT ![p] = config] /\ UNCHANGED up

World ==
    /\ edits > 0 /\ edits' = edits - 1
    /\ Toggle \/ Rewrite
    /\ UNCHANGED <<registry, locals, history, faults>>

Init ==
    /\ endpoints = [i \in Id |-> None]
    /\ statuses = [i \in Id |-> None]
    /\ configPath = None
    /\ source = None
    /\ contents \in [Path -> Configs \cup {None}]
    /\ up = Url
    /\ pc = [c \in Caller |-> "done"]
    /\ req = [c \in Caller |-> CHOOSE r \in Requests[c] : TRUE]
    /\ file = [c \in Caller |-> [i \in Id |-> None]]
    /\ snapshot = [c \in Caller |-> None]
    /\ queue = [c \in Caller |-> {}]
    /\ out = [c \in Caller |-> "ok"]
    /\ seen = [c \in Caller |-> None]
    /\ old = {} /\ overtaken = {}
    /\ edits = MaxEdits
    /\ faults = MaxFaults

Step(c) ==
    \/ Register(c) \/ Upsert(c) \/ Unregister(c)
    \/ ReadPath(c) \/ ReadConfig(c) \/ LoadConfig(c) \/ SetPath(c)
    \/ ListEndpoints(c) \/ GetEndpoint(c) \/ Exchange(c) \/ RecordHealth(c) \/ ReadStatus(c)

Next == (\E c \in Caller : Start(c) \/ Step(c)) \/ World

Spec == Init /\ [][Next]_vars

\* Every HTTP exchange ends (the client times out after 30 seconds), and those
\* who only ask keep asking.
Asker == {c \in Caller : \A r \in Requests[c] : r.op \notin Changes}
FairSpec == Spec /\ (\A c \in Caller : WF_vars(Step(c))) /\ (\A c \in Asker : WF_vars(Start(c)))

-----------------------------------------------------------------------------
(* Properties.                                                             *)

RegistryTypeOK ==
    /\ endpoints \in Map
    /\ statuses \in [Id -> States \cup {None}]
    /\ configPath \in Path \cup {None} /\ source \in Path \cup {None}
    /\ contents \in [Path -> Configs \cup {None}] /\ up \subseteq Url
    /\ old \subseteq Caller /\ overtaken \subseteq Caller
    /\ edits \in 0 .. MaxEdits /\ faults \in 0 .. MaxFaults

LocalTypeOK ==
    /\ pc \in [Caller -> Stages]
    /\ req \in [Caller -> Request]
    /\ file \in [Caller -> Map]
    /\ snapshot \in [Caller -> Endpoint \cup {None}]
    /\ queue \in [Caller -> SUBSET Id]
    /\ out \in [Caller -> Outcomes]
    /\ seen \in [Caller -> States \cup {None}]
    /\ \A c \in Caller : pc[c] = "send" => snapshot[c] # None /\ snapshot[c].enabled

\* Every variable keeps to its values; a request is sent only to an endpoint
\* that was enabled when it was read.
TypeOK == RegistryTypeOK /\ LocalTypeOK

\* The two maps of the Registry agree: an endpoint has a status exactly as long
\* as it is registered, and while it is disabled the status says so, however
\* late the answer of a request arrives that was made before.
StatusesMatch ==
    \A i \in Id : /\ (statuses[i] = None) <=> (endpoints[i] = None)
                  /\ endpoints[i] # None /\ ~endpoints[i].enabled => statuses[i] = "disabled"

\* The path that a reload will use is the path of the file that the endpoints
\* were loaded from last, while no load is under way and nobody changed them
\* by other means; a load that fails leaves both as they were.
PathOfEndpoints ==
    (\A c \in Caller : pc[c] # "setpath") /\ source # None => configPath = source

\* Ping returns the status that goes with its error, unless another caller
\* changed the endpoints meanwhile, or recorded an answer of the same endpoint
\* between the two critical sections in which Ping records and reads.
PingAgrees ==
    \A c \in Caller \ overtaken :
        pc[c] = "done" /\ req[c].op = "Ping" /\ seen[c] # None
            => /\ (out[c] = "ok") <=> (seen[c] = "healthy")
               /\ (out[c] = "disabled") <=> (seen[c] = "disabled")

\* Once servers, config files and the Registry are left alone, the status of
\* an enabled endpoint that somebody keeps asking says whether it answers, and
\* stays so: no answer from before overtakes for ever.
EventuallyTruthful ==
    <>[](\A i \in Registered :
           endpoints[i].enabled => (statuses[i] = "healthy") <=> (endpoints[i].url \in up))

\* "Reloads reset status state": the answer to a request that was made before
\* a load never becomes a status after it.
ReloadResets ==
    [][\A c \in Caller :
         c \in old /\ pc[c] = "record" /\ pc'[c] # "record" => statuses' = statuses]_vars
=============================================================================
