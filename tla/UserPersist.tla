----------------------------- MODULE UserPersist -----------------------------
(***************************************************************************)
(* Documents that the services of one user keep beneath ~/.irodsext        *)
(* (src/userpersist): a collection for each service, and in it data        *)
(* objects with contents and AVUs.  The modules Favorites, FileCarts and   *)
(* SavedQueries say what the services do with them, UserDocuments puts the *)
(* three together.                                                         *)
(*                                                                         *)
(* Nothing is locked: each action is one call of the filesystem, and the   *)
(* calls of several callers interleave.  A call may fail without effect,   *)
(* and the reply to one that took effect may be lost.                      *)
(***************************************************************************)
EXTENDS FiniteSets, Naturals

CONSTANTS
    Caller,     \* concurrent callers, each with a service object of its own
    Files,      \* Files[s]: the data objects that service s may come to keep
    Path,       \* paths that favorites are about
    Item,       \* paths of cart items
    Name,       \* names given to favorites and carts
    Text,       \* definitions of saved queries
    Blank,      \* a blank name, an invalid definition, a bad reference
    None,       \* no such data object; no contents
    Requests,   \* Requests[s]: what the callers of service s may ask
    Stored,     \* Stored[k]: what data object k may be at first
    MaxEdits,   \* bound on requests
    MaxFaults   \* bound on failed calls and lost replies

Services  == {"favorites", "filecarts", "metadata_queries"}
Key       == UNION {Files[s] : s \in Services}
Creations == {"CreateCart", "CreateSavedQuery"}

EntryTypes == {"file", "collection"}
Favorite   == [path : Path, name : Name]
Entry      == [item : Item, type : EntryTypes]

\* The value of a favorite AVU is canonical when it is just what encoding the
\* favorite gives; the name in it may be blank when others wrote it.
AVU == [attr : {"favorite"}, path : Path, name : Name \cup {Blank}, canonical : BOOLEAN]
       \cup [attr : {"name"}, name : Name]
       \cup [attr : {"entry"}, entry : Entry]

\* The JSON of a saved query; CreatedAt tells when it was created, or it tells
\* a later time.  A file without contents has none.
Empty    == None
Query    == [id : Key, created : {"creation", "later"}, text : Text]
Document == [body : Query \cup {Empty}, avus : SUBSET AVU]

RequestType == [op : STRING, at : Key \cup {None},
                value : Favorite \cup Entry \cup Item \cup Name \cup Text \cup {Blank}]
Stages == {"done", "root", "mkroot", "category", "mkcategory", "create", "write", "list",
           "delete", "add", "scan", "read", "copy", "name", "load", "remove"}
Outcomes == {"ok", "error", "notfound", "invalid"}

ASSUME UserPersistAssumption ==
    /\ \A s, t \in Services : s # t => Files[s] \cap Files[t] = {}
    /\ None \notin Key /\ Blank \notin Name \cup Text
    /\ Services \cap Key = {}
    /\ MaxEdits \in Nat /\ MaxFaults \in Nat

VARIABLES
    service,      \* service[c]: the service that c uses
    collections,  \* the collections there are: ~/.irodsext is "root"
    store,        \* store[k]: the data object k
    used,         \* keys that have been given out: an ID is never used again
    pc,           \* pc[c]: the call c makes next
    req,          \* req[c]: the request c is serving, or served last
    target,       \* target[c]: the data object c is working on
    draft,        \* draft[c]: the AVU or the contents c is going to write
    todo,         \* todo[c]: the AVUs c is going to delete, or the files it reads
    out,          \* out[c]: the result of c's last request
    disturbed,    \* history: callers whose subject another request was about
    edits, faults

locals == <<pc, req, target, draft, todo, out>>
vars   == <<service, collections, store, used, locals, disturbed, edits, faults>>

-----------------------------------------------------------------------------
Finish(c, o) ==
    /\ pc' = [pc EXCEPT ![c] = "done"]
    /\ out' = [out EXCEPT ![c] = o]
    /\ todo' = [todo EXCEPT ![c] = {}]
    /\ UNCHANGED <<req, target, draft>>

Goto(c, stage) == pc' = [pc EXCEPT ![c] = stage]

Proceed(c, stage) ==
    IF stage = "done" THEN Finish(c, "ok")
    ELSE Goto(c, stage) /\ UNCHANGED <<req, target, draft, todo, out>>

Calls(c) == UNCHANGED <<service, disturbed, edits>>

\* A call that reads, or is refused, changes nothing.
Reads(c) == Calls(c) /\ UNCHANGED <<collections, store, used, faults>>

Refused(c, o) == Finish(c, o) /\ Reads(c)

\* A call took effect: its caller goes on, or the reply is lost.
Answered(c, stage) ==
    /\ Calls(c)
    /\ \/ Proceed(c, stage) /\ UNCHANGED faults
       \/ faults > 0 /\ faults' = faults - 1 /\ Finish(c, "error")

\* A call fails without effect, or the caller stops for good.
Fail(c) ==
    /\ pc[c] # "done"
    /\ faults > 0 /\ faults' = faults - 1
    /\ Finish(c, "error")
    /\ Calls(c) /\ UNCHANGED <<collections, store, used>>

-----------------------------------------------------------------------------
(* ensureCollection, for ~/.irodsext and for the collection of the service. *)

NeverFind(c, collection, found, missing) ==                         \* mutant
    Proceed(c, missing) /\ Reads(c)
Find(c, collection, found, missing) ==
    /\ Proceed(c, IF collection \in collections THEN found ELSE missing)
    /\ Reads(c)

\* A collection that appeared meanwhile may be taken as made, or as an error.
Make(c, collection, next) ==
    \/ collection \in collections /\ Refused(c, "error")
    \/ /\ collections' = collections \cup {collection}
       /\ UNCHANGED <<store, used>> /\ Answered(c, next)

EnsureContext(c, next) ==
    \/ pc[c] = "root"       /\ Find(c, "root", "category", "mkroot")
    \/ pc[c] = "mkroot"     /\ Make(c, "root", "category")
    \/ pc[c] = "category"   /\ Find(c, service[c], next, "mkcategory")
    \/ pc[c] = "mkcategory" /\ Make(c, service[c], next)

-----------------------------------------------------------------------------
(* Data objects.                                                           *)

Missing(c) == store[target[c]] = None

Change(c, document, next) ==
    /\ store' = [store EXCEPT ![target[c]] = document]
    /\ UNCHANGED <<collections, used>>
    /\ Answered(c, next)

\* WriteDataObject: the object is created, or truncated and keeps its AVUs;
\* contents, when there are any, are written in a second call.
CreateFile(c, next) ==
    /\ pc[c] = "create"
    /\ Change(c, IF Missing(c) THEN [body |-> Empty, avus |-> {}]
                 ELSE [store[target[c]] EXCEPT !.body = Empty], next)

WriteFile(c) ==
    /\ pc[c] = "write"
    /\ \/ Missing(c) /\ Refused(c, "error")
       \/ ~Missing(c) /\ Change(c, [store[target[c]] EXCEPT !.body = draft[c]], "done")

RemoveFile(c) ==
    /\ pc[c] = "remove"
    /\ \/ Missing(c) /\ Refused(c, "error")
       \/ ~Missing(c) /\ Change(c, None, "done")

Carries(c, avu) == ~Missing(c) /\ avu \in store[target[c]].avus

\* The AVUs that were listed are deleted one after the other.  The catalog
\* refuses to delete one that is gone, and to add one that is there.
DeleteAVU(c, next) ==
    /\ pc[c] = "delete"
    /\ \E avu \in todo[c] :
       \/ ~Carries(c, avu) /\ Refused(c, "error")
       \/ /\ Carries(c, avu)
          /\ store' = [store EXCEPT ![target[c]].avus = @ \ {avu}]
          /\ UNCHANGED <<collections, used>> /\ Calls(c)
          /\ \/ /\ todo[c] # {avu} \/ next # "done"
                /\ todo' = [todo EXCEPT ![c] = @ \ {avu}]
                /\ Goto(c, IF todo[c] = {avu} THEN next ELSE "delete")
                /\ UNCHANGED <<req, target, draft, out, faults>>
             \/ todo[c] = {avu} /\ next = "done" /\ Finish(c, "ok") /\ UNCHANGED faults
             \/ faults > 0 /\ faults' = faults - 1 /\ Finish(c, "error")

AddAVU(c) ==
    /\ pc[c] = "add"
    /\ \/ (Missing(c) \/ Carries(c, draft[c])) /\ Refused(c, "error")
       \/ /\ ~Missing(c) /\ ~Carries(c, draft[c])
          /\ Change(c, [store[target[c]] EXCEPT !.avus = @ \cup {draft[c]}], "done")

\* What was listed is deleted first, if there is any.
DeleteFirst(c, avus, next) ==
    /\ todo' = [todo EXCEPT ![c] = avus]
    /\ Goto(c, IF avus = {} THEN next ELSE "delete")
    /\ UNCHANGED <<req, target, draft, out>> /\ Reads(c)

\* ListDataObjects, and then each of the files is read.
Scan(c) ==
    LET files == {k \in Files[service[c]] : store[k] # None}
    IN /\ pc[c] = "scan" /\ Reads(c)
       /\ IF files = {} THEN Finish(c, "ok")
          ELSE /\ todo' = [todo EXCEPT ![c] = files]
               /\ Goto(c, "read") /\ UNCHANGED <<req, target, draft, out>>

\* The first that cannot be read makes the whole listing fail.
ReadEach(c, readable) ==
    /\ pc[c] = "read" /\ Reads(c)
    /\ \E k \in todo[c] :
       \/ k \notin readable /\ Finish(c, "error")
       \/ k \in readable /\ todo[c] = {k} /\ Finish(c, "ok")
       \/ /\ k \in readable /\ todo[c] # {k}
          /\ todo' = [todo EXCEPT ![c] = @ \ {k}] /\ UNCHANGED <<pc, req, target, draft, out>>
=============================================================================
