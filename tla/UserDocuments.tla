---------------------------- MODULE UserDocuments ----------------------------
(***************************************************************************)
(* The services of one user at work side by side: favorites, file carts    *)
(* and saved queries share ~/.irodsext, and nothing serialises them.       *)
(***************************************************************************)
EXTENDS Favorites, FileCarts, SavedQueries

Valid(r) == IF r.op \in FavoriteOps THEN FavoriteValid(r)
            ELSE IF r.op \in CartOps THEN CartValid(r)
            ELSE QueryValid(r)

FirstStage(op) == IF op \in FavoriteOps THEN "root"
                  ELSE IF op \in CartOps THEN FirstCartStage(op)
                  ELSE FirstQueryStage(op)

\* What may be asked of a service.
Askable(s, r) ==
    /\ s = "favorites" =>
          r.op \in FavoriteOps /\ r.at \in Files[s] /\ r.value \in Favorite \cup {Blank}
    /\ s = "filecarts" =>
          /\ r.op \in CartOps /\ r.at \in Files[s] \cup {None}
          /\ r.op \in {"CreateCart", "SetCartName", "CopyCart"} => r.value \in Name \cup {Blank}
          /\ r.op = "AddItem" => r.value \in Entry
    /\ s = "metadata_queries" =>
          r.op \in QueryOps /\ r.at \in Files[s] \cup {None} /\ r.value \in Text \cup {Blank}

ASSUME UserDocumentsAssumption ==
    /\ \A s \in Services : \A r \in Requests[s] : Askable(s, r)
    /\ \A k \in Key : \A d \in Stored[k] : d = None \/ d \in Document
    /\ \A k \in Queries : \A d \in Stored[k] :
          d # None => d.body # Empty /\ (d.body.id = k => d.body.created = "creation")
    /\ None \notin Query /\ None \notin Document

\* What a request is about: a favorite path, or a file.
Subject(r) == IF r.op \in FavoriteOps THEN r.value.path ELSE r.at

Rivals(c, r) ==
    {d \in Caller \ {c} :
        /\ pc[d] # "done" /\ service[d] = service[c]
        /\ Subject(r) = Subject(req[d]) \/ (r.op \notin FavoriteOps /\ r.at = target[d])}

\* The AVU or the contents that the request is going to write.
DraftOf(r, k) ==
    CASE r.op \in {"AddFavorite", "RenameFavorite"} -> Encode(r.value)
      [] r.op \in {"CreateCart", "SetCartName", "CopyCart"} -> NameAVU(r.value)
      [] r.op = "AddItem" -> EntryAVU(r.value)
      [] r.op = "CreateSavedQuery" -> NewQuery(k, r.value)
      [] OTHER -> None

\* The ID of a cart or a query is known once it was given out.
Known(r) == r.op \in FavoriteOps \/ r.at \in used \cup {None}

\* A request with bad arguments is refused at once.
Reject(c, r) ==
    /\ ~Valid(r)
    /\ out' = [out EXCEPT ![c] = "invalid"]
    /\ UNCHANGED <<pc, target, draft, used, disturbed>>

Begin(c, r) ==
    LET rivals == Rivals(c, r)
    IN /\ Valid(r)
       /\ \/ /\ r.op \in Creations
             /\ \E k \in Files[service[c]] \ used :
                   /\ used' = used \cup {k}
                   /\ target' = [target EXCEPT ![c] = k]
                   /\ draft' = [draft EXCEPT ![c] = DraftOf(r, k)]
          \/ /\ r.op \notin Creations
             /\ target' = [target EXCEPT ![c] = r.at]
             /\ draft' = [draft EXCEPT ![c] = DraftOf(r, r.at)]
             /\ UNCHANGED used
       /\ pc' = [pc EXCEPT ![c] = FirstStage(r.op)]
       /\ disturbed' = IF rivals = {} THEN disturbed \ {c} ELSE disturbed \cup rivals \cup {c}
       /\ UNCHANGED out

Start(c) ==
    /\ pc[c] = "done" /\ edits > 0 /\ edits' = edits - 1
    /\ \E r \in Requests[service[c]] :
          /\ Known(r)
          /\ req' = [req EXCEPT ![c] = r]
          /\ Reject(c, r) \/ Begin(c, r)
    /\ UNCHANGED <<service, collections, store, todo, faults>>

\* A caller whose request failed may repeat it, but for one that makes a new
\* document each time.
Once == Creations \cup {"CopyCart"}
Retry(c) ==
    /\ pc[c] = "done" /\ out[c] = "error" /\ req[c].op \notin Once
    /\ Begin(c, req[c])
    /\ UNCHANGED <<service, collections, store, req, todo, edits, faults>>

Idle == [op |-> "none", at |-> None, value |-> Blank]

Init ==
    /\ service \in [Caller -> Services]
    /\ store \in [Key -> UNION {Stored[k] : k \in Key}]
    /\ \A s \in Services : \A k \in Files[s] :
          store[k] \in IF \E c \in Caller : service[c] = s THEN Stored[k] ELSE {None}
    /\ collections \in {{}, {"root"} \cup Services}
    /\ collections = {} => \A k \in Key : store[k] = None
    /\ used = {k \in Key : store[k] # None}
    /\ pc = [c \in Caller |-> "done"]
    /\ req = [c \in Caller |-> Idle]
    /\ target = [c \in Caller |-> None]
    /\ draft = [c \in Caller |-> None]
    /\ todo = [c \in Caller |-> {}]
    /\ out = [c \in Caller |-> "ok"]
    /\ disturbed = {}
    /\ edits = MaxEdits
    /\ faults = MaxFaults

Step(c) == FavoritesStep(c) \/ CartsStep(c) \/ QueriesStep(c)

Next == \E c \in Caller : Start(c) \/ Retry(c) \/ Step(c) \/ Fail(c)

Spec == Init /\ [][Next]_vars

\* An operation goes on to its end, and what failed is repeated.
FairSpec == Spec /\ \A c \in Caller : WF_vars(Step(c)) /\ WF_vars(Retry(c))

-----------------------------------------------------------------------------
(* Properties.                                                             *)

\* Every variable keeps to its values; a caller works only on documents of its
\* own service, and adds or writes only what is valid there.
TypeOK ==
    /\ service \in [Caller -> Services]
    /\ collections \subseteq {"root"} \cup Services
    /\ used \subseteq Key /\ \A k \in Key : store[k] = None \/ store[k].body \in Query \cup {Empty}
    /\ pc \in [Caller -> Stages]
    /\ out \in [Caller -> Outcomes]
    /\ disturbed \subseteq Caller
    /\ edits \in 0 .. MaxEdits /\ faults \in 0 .. MaxFaults
    /\ \A c \in Caller :
          /\ target[c] \in Files[service[c]] \cup {None}
          /\ pc[c] = "add" => draft[c] \in AVU /\ ((draft[c].attr = "favorite") <=> (service[c] = "favorites"))
          /\ pc[c] = "write" => draft[c] \in Query /\ draft[c].id = target[c]

\* What makes a request fail for ever: its document is gone or unreadable.
Hopeless(c) ==
    LET op == req[c].op
        k  == req[c].at
    IN /\ op \in CartOps \cup QueryOps
       /\ IF op = "ListSavedQueries"
          THEN \E q \in Queries : store[q] # None /\ ~Readable(q)
          ELSE /\ k # None
               /\ store[k] = None \/ (op \in {"PutSavedQuery", "GetSavedQuery"} /\ ~Readable(k))

\* Repeating helps: callers that stand in each other's way, making the same
\* collections and replacing the same AVUs, all come to an end, and none is
\* refused for ever because of what a failed attempt left behind, unless its
\* document is gone or unreadable.
EventuallySettled ==
    \A c \in Caller :
        <>[](\/ Hopeless(c)
             \/ pc[c] = "done" /\ (out[c] = "error" => req[c].op \in Once))
=============================================================================
