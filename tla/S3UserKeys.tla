----------------------------- MODULE S3UserKeys -----------------------------
(***************************************************************************)
(* S3 secret keys of users (src/s3admin): one data object in each user     *)
(* home, marked with an AVU that names its user, and mirrored into the     *)
(* user mapping file of the S3 API.  An S3UserMappingService holds the     *)
(* mutex of its UserMappingFile during an operation; an S3UserKeyService   *)
(* works on the same data objects without any mutex or mapping file.       *)
(*                                                                         *)
(* Writing a data object is a sequence of calls: the old object, with its  *)
(* AVUs, is removed, an empty one is created, and the secret is written.   *)
(* The collections around it, which are made when missing, are left out.   *)
(***************************************************************************)
EXTENDS FiniteSets, Naturals

CONSTANTS
    Caller,     \* concurrent users of a service
    Guard,      \* Guard[c]: the UserMappingFile, and the process, of c
    Home,       \* home collections, each with one place for a secret
    User,       \* user IDs
    Secret,     \* secret keys of the required format
    Invalid,    \* a secret key that is not
    None,       \* no data object; no entry in the mapping
    Requests,   \* Requests[c]: the requests c may issue
    MaxEdits,   \* bound on requests that change secrets, and on iCommands
    MaxFaults   \* bound on failed calls, lost replies and crashes

Empty == "empty"     \* a data object between its creation and its writing

Refreshes == {"RefreshUserMapping", "RebuildUserMappingFromAVUs"}
Mappings  == {"StoreUserSecretKey", "DeleteUserSecretKey"} \cup Refreshes
Stores    == {"StoreUserSecretKey", "StoreS3UserKey"}
Ops       == Mappings \cup {"StoreS3UserKey", "DeleteS3UserKey"}
Request   == [op : Ops, home : Home, user : User, secret : Secret \cup {Invalid}]
Stages    == {"done", "lock", "ensure", "stat", "unlink", "create", "write", "marks",
              "unmark", "mark", "delete", "load", "query", "read", "publish"}
Outcomes  == {"ok", "error", "invalid", "notfound", "ambiguous", "duplicate", "unreadable"}
Mapping   == [User -> Secret \cup {None}]

ASSUME S3UserKeysAssumption ==
    /\ Invalid \notin Secret /\ None \notin Secret /\ Empty \notin Secret
    /\ None # Empty /\ None \notin Home
    /\ IsFiniteSet(User)
    /\ Requests \in [Caller -> SUBSET Request] /\ \A c \in Caller : Requests[c] # {}
    /\ MaxEdits \in Nat /\ MaxFaults \in Nat

VARIABLES
    content,    \* content[h]: the secret in the data object of h, Empty or None
    markers,    \* markers[h]: the users that its marker AVUs name
    file,       \* the user mapping file
    locked,     \* the UserMappingFiles whose mutex is held
    pc,         \* pc[c]: the call c makes next
    req,        \* req[c]: the request c is serving, or served last
    todo,       \* todo[c]: the markers c still has to delete
    matches,    \* matches[c]: the homes c still has to read, with their users
    draft,      \* draft[c]: the mapping c is going to write
    out,        \* out[c]: the result of c's last request
    disturbed,  \* history: callers whose secrets somebody changed by hand
    edits, faults

objects == <<content, markers>>
locals  == <<pc, req, todo, matches, draft, out>>
vars    == <<objects, file, locked, locals, disturbed, edits, faults>>

-----------------------------------------------------------------------------
NoEntries == [u \in User |-> None]

Locks(op) == op \in Mappings

\* The operation returns; what has locked unlocks.
Finish(c, o) ==
    /\ pc' = [pc EXCEPT ![c] = "done"]
    /\ out' = [out EXCEPT ![c] = o]
    /\ locked' = IF Locks(req[c].op) THEN locked \ {Guard[c]} ELSE locked
    /\ todo' = [todo EXCEPT ![c] = {}]
    /\ matches' = [matches EXCEPT ![c] = {}]
    /\ draft' = [draft EXCEPT ![c] = NoEntries]
    /\ UNCHANGED req

Goto(c, stage) == pc' = [pc EXCEPT ![c] = stage]

Proceed(c, stage) ==
    Goto(c, stage) /\ UNCHANGED <<locked, req, todo, matches, draft, out>>

\* Go on, or return when the stage is "done".
Continue(c, stage) == IF stage = "done" THEN Finish(c, "ok") ELSE Proceed(c, stage)

\* What follows the marking or the deletion of a secret.
AfterChange(c) == IF Locks(req[c].op) THEN "load" ELSE "done"

\* A call changed the data object of h; then its caller goes on, or its reply
\* is lost.
Change(c, secret, users, stage) ==
    /\ content' = [content EXCEPT ![req[c].home] = secret]
    /\ markers' = [markers EXCEPT ![req[c].home] = users]
    /\ UNCHANGED <<file, disturbed, edits>>
    /\ \/ Continue(c, stage) /\ UNCHANGED faults
       \/ faults > 0 /\ faults' = faults - 1 /\ Finish(c, "error")

Reads == UNCHANGED <<objects, file, disturbed, edits, faults>>

Missing(c) == content[req[c].home] = None /\ Finish(c, "error") /\ Reads

-----------------------------------------------------------------------------
(* Beginning an operation.                                                 *)

FirstStage(op) == IF op \in Stores THEN "ensure" ELSE IF op \in Refreshes THEN "query" ELSE "delete"

Start(c) ==
    /\ pc[c] = "done"
    /\ \E r \in Requests[c] :
          /\ \/ r.op \in Refreshes /\ UNCHANGED edits
             \/ r.op \notin Refreshes /\ edits > 0 /\ edits' = edits - 1
          /\ req' = [req EXCEPT ![c] = r]
          /\ Goto(c, IF Locks(r.op) THEN "lock" ELSE FirstStage(r.op))
    /\ out' = [out EXCEPT ![c] = "error"]
    /\ disturbed' = disturbed \ {c}
    /\ UNCHANGED <<objects, file, locked, todo, matches, draft, faults>>

AlwaysFree(g) == TRUE                                               \* mutant
Free(g) == g \notin locked
Acquire(c) ==
    /\ pc[c] = "lock" /\ Free(Guard[c])
    /\ locked' = locked \cup {Guard[c]}
    /\ Goto(c, FirstStage(req[c].op))
    /\ UNCHANGED <<req, todo, matches, draft, out>> /\ Reads

-----------------------------------------------------------------------------
(* StoreS3UserKeyForHomeAndUser.                                           *)

\* The secret is validated before anything is touched.
ReturnLocked(c) ==                                                  \* mutant
    /\ pc[c] = "ensure" /\ Reads
    /\ Proceed(c, IF req[c].secret = Invalid THEN "done" ELSE "stat")
Ensure(c) ==
    /\ pc[c] = "ensure"
    /\ IF req[c].secret = Invalid THEN Finish(c, "invalid") ELSE Proceed(c, "stat")
    /\ Reads

\* WriteDataObject: an object that exists is removed, with its AVUs.
Overwrite(c) == pc[c] = "stat" /\ Proceed(c, "create") /\ Reads      \* mutant
Stat(c) ==
    /\ pc[c] = "stat"
    /\ Proceed(c, IF content[req[c].home] = None THEN "create" ELSE "unlink")
    /\ Reads

Unlink(c) ==
    /\ pc[c] = "unlink"
    /\ \/ Missing(c)
       \/ content[req[c].home] # None /\ Change(c, None, {}, "create")

\* An object that appeared meanwhile is truncated and keeps its AVUs.
Create(c) ==
    /\ pc[c] = "create"
    /\ Change(c, Empty, markers[req[c].home], "write")

Write(c) ==
    /\ pc[c] = "write"
    /\ \/ Missing(c)
       \/ /\ content[req[c].home] # None
          /\ Change(c, req[c].secret, markers[req[c].home], "marks")

\* replaceSecretMarkerAVUs.
ListMarkers(c) ==
    LET h == req[c].home
    IN /\ pc[c] = "marks"
       /\ \/ Missing(c)
          \/ /\ content[h] # None
             /\ todo' = [todo EXCEPT ![c] = markers[h]]
             /\ Goto(c, IF markers[h] = {} THEN "mark" ELSE "unmark")
             /\ UNCHANGED <<locked, req, matches, draft, out>> /\ Reads

Unmark(c) ==
    LET h == req[c].home
    IN /\ pc[c] = "unmark"
       /\ \E u \in todo[c] :
          \/ u \notin markers[h] /\ Finish(c, "error") /\ Reads
          \/ /\ u \in markers[h]
             /\ content' = content
             /\ markers' = [markers EXCEPT ![h] = @ \ {u}]
             /\ UNCHANGED <<file, disturbed, edits>>
             /\ \/ /\ todo' = [todo EXCEPT ![c] = @ \ {u}]
                   /\ Goto(c, IF todo[c] = {u} THEN "mark" ELSE "unmark")
                   /\ UNCHANGED <<locked, req, matches, draft, out, faults>>
                \/ faults > 0 /\ faults' = faults - 1 /\ Finish(c, "error")

\* The catalog refuses a second equal AVU.
Mark(c) ==
    LET h == req[c].home
        u == req[c].user
    IN /\ pc[c] = "mark"
       /\ \/ Missing(c)
          \/ content[h] # None /\ u \in markers[h] /\ Finish(c, "error") /\ Reads
          \/ /\ content[h] # None /\ u \notin markers[h]
             /\ Change(c, content[h], markers[h] \cup {u}, AfterChange(c))

-----------------------------------------------------------------------------
(* DeleteS3UserKeyForHome, and the mapping file after a change.            *)

Delete(c) ==
    /\ pc[c] = "delete"
    /\ \/ content[req[c].home] = None /\ Finish(c, "notfound") /\ Reads
       \/ content[req[c].home] # None /\ Change(c, None, {}, AfterChange(c))

\* The entry of the user is set or deleted in what the file holds.
KeepEntry(c) == file                                                \* mutant
Updated(c) == [file EXCEPT ![req[c].user] = IF req[c].op \in Stores THEN req[c].secret ELSE None]
Load(c) ==
    /\ pc[c] = "load"
    /\ draft' = [draft EXCEPT ![c] = Updated(c)]
    /\ Goto(c, "publish")
    /\ UNCHANGED <<locked, req, todo, matches, out>> /\ Reads

\* UserMappingFile.replaceLocked: a temporary file is renamed over the file.
Publish(c) ==
    /\ pc[c] = "publish"
    /\ file' = draft[c]
    /\ Finish(c, "ok")
    /\ UNCHANGED <<objects, disturbed, edits, faults>>

-----------------------------------------------------------------------------
(* RefreshUserMapping and RebuildUserMappingFromAVUs.                      *)

\* QueryDataObjectMetadata with the wildcard finds the marked data objects.
Marked == {[home |-> h, users |-> markers[h]] : h \in {k \in Home : markers[k] # {}}}

QueryOntoFile(c) ==                                                 \* mutant
    /\ pc[c] = "query"
    /\ matches' = [matches EXCEPT ![c] = Marked]
    /\ draft' = [draft EXCEPT ![c] = [u \in User |->
                    IF \E m \in Marked : u \in m.users THEN None ELSE file[u]]]
    /\ Goto(c, IF Marked = {} THEN "publish" ELSE "read")
    /\ UNCHANGED <<locked, req, todo, out>> /\ Reads
Query(c) ==
    /\ pc[c] = "query"
    /\ matches' = [matches EXCEPT ![c] = Marked]
    /\ Goto(c, IF Marked = {} THEN "publish" ELSE "read")
    /\ UNCHANGED <<locked, req, todo, draft, out>> /\ Reads

\* Each is read in turn, and the first that is unfit ends the operation; a
\* user with two homes is found out at the end, and here when the second is read.
ReadSecret(c) ==
    /\ pc[c] = "read"
    /\ \E m \in matches[c] : \E u \in m.users :
       \/ m.users # {u} /\ Finish(c, "ambiguous")
       \/ m.users = {u} /\ content[m.home] \notin Secret /\ Finish(c, "unreadable")
       \/ /\ m.users = {u} /\ content[m.home] \in Secret /\ draft[c][u] # None
          /\ Finish(c, "duplicate")
       \/ /\ m.users = {u} /\ content[m.home] \in Secret /\ draft[c][u] = None
          /\ draft' = [draft EXCEPT ![c][u] = content[m.home]]
          /\ matches' = [matches EXCEPT ![c] = @ \ {m}]
          /\ Goto(c, IF matches[c] = {m} THEN "publish" ELSE "read")
          /\ UNCHANGED <<locked, req, todo, out>>
    /\ Reads

-----------------------------------------------------------------------------
(* Failures, and administrators.                                           *)

\* A call fails without effect.
Fail(c) ==
    /\ pc[c] \notin {"done", "lock"}
    /\ faults > 0 /\ faults' = faults - 1
    /\ Finish(c, "error")
    /\ UNCHANGED <<objects, file, disturbed, edits>>

\* The process that holds a UserMappingFile stops: all its callers do.
Crash(g) ==
    /\ faults > 0 /\ faults' = faults - 1
    /\ LET hit(c) == Guard[c] = g /\ pc[c] # "done"
       IN /\ \E c \in Caller : hit(c)
          /\ pc' = [c \in Caller |-> IF hit(c) THEN "done" ELSE pc[c]]
          /\ out' = [c \in Caller |-> IF hit(c) THEN "error" ELSE out[c]]
          /\ todo' = [c \in Caller |-> IF hit(c) THEN {} ELSE todo[c]]
          /\ matches' = [c \in Caller |-> IF hit(c) THEN {} ELSE matches[c]]
          /\ draft' = [c \in Caller |-> IF hit(c) THEN NoEntries ELSE draft[c]]
    /\ locked' = locked \ {g}
    /\ UNCHANGED <<objects, file, req, disturbed, edits>>

\* irm of a secret; imeta add on a secret that is complete.
RemoveByHand(h) ==
    /\ content[h] # None
    /\ content' = [content EXCEPT ![h] = None] /\ markers' = [markers EXCEPT ![h] = {}]
MarkByHand(h) ==
    /\ content[h] \in Secret
    /\ \E u \in User \ markers[h] : markers' = [markers EXCEPT ![h] = @ \cup {u}]
    /\ UNCHANGED content

Edit ==
    /\ edits > 0 /\ edits' = edits - 1
    /\ \E h \in Home :
          /\ RemoveByHand(h) \/ MarkByHand(h)
          /\ disturbed' = disturbed \cup
                {c \in Caller : pc[c] # "done" /\ (req[c].home = h \/ req[c].op \in Refreshes)}
    /\ UNCHANGED <<file, locked, locals, faults>>

-----------------------------------------------------------------------------
Init ==
    /\ content = [h \in Home |-> None]
    /\ markers = [h \in Home |-> {}]
    /\ file = NoEntries
    /\ locked = {}
    /\ pc = [c \in Caller |-> "done"]
    /\ req = [c \in Caller |-> CHOOSE r \in Requests[c] : TRUE]
    /\ todo = [c \in Caller |-> {}]
    /\ matches = [c \in Caller |-> {}]
    /\ draft = [c \in Caller |-> NoEntries]
    /\ out = [c \in Caller |-> "error"]
    /\ disturbed = {}
    /\ edits = MaxEdits
    /\ faults = MaxFaults

Step(c) ==
    \/ Ensure(c) \/ Stat(c) \/ Unlink(c) \/ Create(c) \/ Write(c) \/ ListMarkers(c)
    \/ Unmark(c) \/ Mark(c) \/ Delete(c) \/ Load(c) \/ Publish(c) \/ Query(c) \/ ReadSecret(c)

Next == \/ \E c \in Caller : Start(c) \/ Acquire(c) \/ Step(c) \/ Fail(c)
        \/ \E g \in {Guard[c] : c \in Caller} : Crash(g)
        \/ Edit

Spec == Init /\ [][Next]_vars

\* An operation goes on to its end, Go's mutex starves nobody, and those who
\* refresh keep refreshing.
FairSpec ==
    /\ Spec
    /\ \A c \in Caller : /\ WF_vars(Step(c)) /\ SF_vars(Acquire(c))
                         /\ WF_vars(Start(c) /\ req'[c].op \in Refreshes)

-----------------------------------------------------------------------------
(* Properties.                                                             *)

Inside(c) == pc[c] \notin {"done", "lock"} /\ Locks(req[c].op)

ObjectsTypeOK ==
    /\ content \in [Home -> Secret \cup {Empty, None}]
    /\ markers \in [Home -> SUBSET User]
    /\ file \in Mapping
    /\ edits \in 0 .. MaxEdits /\ faults \in 0 .. MaxFaults

LocalTypeOK ==
    /\ pc \in [Caller -> Stages]
    /\ req \in [Caller -> Request]
    /\ todo \in [Caller -> SUBSET User]
    /\ matches \in [Caller -> SUBSET [home : Home, users : SUBSET User]]
    /\ draft \in [Caller -> Mapping]
    /\ out \in [Caller -> Outcomes]
    /\ disturbed \subseteq Caller
    /\ \A c \in Caller : pc[c] \in {"stat", "unlink", "create", "write", "marks", "unmark", "mark"}
                            => req[c].op \in Stores /\ req[c].secret \in Secret
    /\ \A c \in Caller : pc[c] \in {"lock", "load", "publish", "query", "read"} => Locks(req[c].op)

\* Every variable keeps to its values, an invalid secret is never written, and
\* the mutex is held exactly while one of its callers is within an operation.
TypeOK == /\ ObjectsTypeOK /\ LocalTypeOK
          /\ locked = {Guard[c] : c \in {d \in Caller : Inside(d)}}

\* A data object that carries a marker holds a complete secret, whatever stops
\* or crashes while it is rewritten: one that did not would make every refresh
\* fail, for all users.
MarkedSecretsReadable == \A h \in Home : markers[h] # {} => content[h] \in Secret

\* An operation on one user's secret leaves the entries of all other users in
\* the mapping file as they are at that moment, though it loaded the file in an
\* earlier step ("collision-safe for concurrent writers in the same process").
UpdatesKeepOthers ==
    [][\A c \in Caller :
         pc[c] = "publish" /\ pc'[c] = "done" /\ req[c].op \notin Refreshes
             => \A u \in User \ {req[c].user} : file'[u] = file[u]]_vars

Ambiguous ==
    \/ \E h \in Home : Cardinality(markers[h]) > 1
    \/ \E h, k \in Home : h # k /\ markers[h] \cap markers[k] # {}

\* The mapping that the markers describe.
Mirror == [u \in User |-> IF \E h \in Home : u \in markers[h]
                          THEN content[CHOOSE h \in Home : u \in markers[h]] ELSE None]

\* The request of c is served, in its home and in the mapping file.
Served(c) ==
    LET r == req[c]
    IN CASE r.op \in Stores    -> /\ file'[r.user] = r.secret /\ content[r.home] = r.secret
                                  /\ r.user \in markers[r.home]
         [] r.op \in Refreshes -> ~Ambiguous /\ file' = Mirror
         [] OTHER              -> file'[r.user] = None /\ content[r.home] = None

\* What an operation of the mapping service reports as done is so, in the home
\* and in the mapping file alike, unless somebody changed it by hand meanwhile.
SuccessPublishes ==
    [][\A c \in Caller \ disturbed :
          pc[c] = "publish" /\ pc'[c] = "done" /\ out'[c] = "ok" => Served(c)]_vars

\* When somebody keeps refreshing, the mapping file comes to mirror the marked
\* secrets and stays so, whatever failed or crashed before (a deleted secret
\* does not stay published); unless two homes, or two markers, claim one user.
EventuallyMirrored == <>[](Ambiguous \/ file = Mirror)
=============================================================================
