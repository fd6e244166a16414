------------------------ MODULE UserDocumentsProofs ------------------------
(***************************************************************************)
(* Theorems about UserDocuments, for every set of callers, documents and   *)
(* requests, and any number of failures.                                   *)
(***************************************************************************)
EXTENDS UserDocuments, TLAPS

-----------------------------------------------------------------------------
(* The inductive invariant.                                                *)

Making == {"root", "mkroot", "category", "mkcategory"}

\* A caller of favorites that serves r is at a stage of r, on the favorites
\* file, with the AVU that r asks for.
FavoriteFits(stage, r, k, d) ==
    /\ stage \in Making \cup {"create", "list", "delete", "add"}
    /\ k \in Files["favorites"]
    /\ stage = "add" => r.op \in {"AddFavorite", "RenameFavorite"}
    /\ stage = "delete" => r.op \in {"AddFavorite", "RenameFavorite", "RemoveFavorite"}
    /\ r.op \in {"AddFavorite", "RenameFavorite"} => d \in AVU /\ d.attr = "favorite"

\* A copy without a name of its own has its draft when it comes to the list.
CartFits(stage, r, k, d) ==
    /\ stage \in Making \cup {"create", "scan", "read", "copy", "name", "list", "delete", "add", "remove"}
    /\ stage \in Making => r.op \in {"CreateCart", "ListCarts", "CopyCart"}
    /\ stage = "create" => r.op = "CreateCart"
    /\ stage \in {"scan", "read"} => r.op = "ListCarts"
    /\ stage \in {"copy", "name"} => r.op = "CopyCart"
    /\ stage = "list" => r.op \in {"SetCartName", "CopyCart", "AddItem", "RemoveItem", "ListItems"}
    /\ stage = "delete" => r.op \in {"SetCartName", "CopyCart", "RemoveItem"}
    /\ stage = "add" => r.op \in {"CreateCart", "SetCartName", "CopyCart", "AddItem"}
    /\ stage = "remove" => r.op = "DeleteCart"
    /\ r.op # "ListCarts" => k \in Files["filecarts"]
    /\ \/ r.op \in {"CreateCart", "SetCartName", "AddItem"}
       \/ r.op = "CopyCart" /\ (r.value # Blank \/ stage \in {"list", "delete", "add"})
       => d \in AVU /\ d.attr # "favorite"

\* An update has its draft when it has loaded the file.
QueryFits(stage, r, k, d) ==
    /\ stage \in Making \cup {"create", "write", "scan", "read", "load", "remove"}
    /\ stage \in Making => r.op \in {"CreateSavedQuery", "PutSavedQuery", "ListSavedQueries"}
    /\ stage \in {"create", "write"} => r.op \in {"CreateSavedQuery", "PutSavedQuery"}
    /\ stage \in {"scan", "read"} => r.op = "ListSavedQueries"
    /\ stage = "load" => r.op \in {"PutSavedQuery", "GetSavedQuery"}
    /\ stage = "remove" => r.op = "DeleteSavedQuery"
    /\ r.op # "ListSavedQueries" => k \in Queries
    /\ r.op = "CreateSavedQuery" \/ (r.op = "PutSavedQuery" /\ stage # "load")
       => d \in Query /\ d.id = k /\ d.created = "creation"

Fits(s, stage, r, k, d) ==
    /\ s = "favorites" => FavoriteFits(stage, r, k, d)
    /\ s = "filecarts" => CartFits(stage, r, k, d)
    /\ s = "metadata_queries" => QueryFits(stage, r, k, d)

CallerOK(c) ==
    /\ req[c] = Idle => out[c] = "ok"
    /\ req[c] # Idle => req[c] \in Requests[service[c]]
    /\ target[c] \in Files[service[c]] \cup {None}
    /\ pc[c] # "done" =>
          /\ req[c] # Idle /\ Valid(req[c])
          /\ Fits(service[c], pc[c], req[c], target[c], draft[c])

CallersOK ==
    /\ service \in [Caller -> Services]
    /\ pc \in [Caller -> Stages] /\ out \in [Caller -> Outcomes]
    /\ DOMAIN req = Caller /\ DOMAIN target = Caller /\ DOMAIN draft = Caller
    /\ \A c \in Caller : CallerOK(c)

StoreOK == store \in [Key -> Document \cup {None}] /\ CreationKept

BoundsOK ==
    /\ disturbed \subseteq Caller
    /\ edits \in 0 .. MaxEdits /\ faults \in 0 .. MaxFaults

DocInv ==
    /\ CallersOK /\ StoreOK /\ BoundsOK
    /\ collections \subseteq {"root"} \cup Services /\ used \subseteq Key

-----------------------------------------------------------------------------
(* What the parts of a step do to the callers.                             *)

LEMMA RequestsAsked ==
    ASSUME NEW s \in Services, NEW r \in Requests[s]
    PROVE  Askable(s, r) /\ r # Idle
  <1>1. Askable(s, r)
    BY UserDocumentsAssumption
  <1>2. r.op \in FavoriteOps \cup CartOps \cup QueryOps
    BY <1>1 DEF Askable, Services
  <1>3. Idle.op = "none"
    BY DEF Idle
  <1>4. QED
    BY <1>1, <1>2, <1>3 DEF FavoriteOps, CartOps, QueryOps

\* A caller that is left alone stays as it is.
LEMMA OthersOK ==
    ASSUME NEW d \in Caller, CallerOK(d), service' = service, pc'[d] = pc[d], req'[d] = req[d],
           target'[d] = target[d], draft'[d] = draft[d], out'[d] = out[d]
    PROVE  CallerOK(d)'
  BY DEF CallerOK

LEMMA FinishOK ==
    ASSUME CallersOK, NEW c \in Caller, pc[c] # "done", service' = service,
           NEW o \in Outcomes, Finish(c, o)
    PROVE  CallersOK'
  <1>1. ASSUME NEW d \in Caller \ {c}
        PROVE  CallerOK(d)'
    BY <1>1, OthersOK DEF CallersOK, Finish
  <1>2. CallerOK(c)'
    BY DEF CallersOK, CallerOK, Finish
  <1>3. QED
    BY <1>1, <1>2 DEF CallersOK, Finish, Stages

\* A caller goes on to a stage that fits.
LEMMA MoveOK ==
    ASSUME CallersOK, NEW c \in Caller, pc[c] # "done", service' = service,
           NEW stage \in Stages \ {"done"}, Goto(c, stage), UNCHANGED <<req, target, draft, out>>,
           Fits(service[c], stage, req[c], target[c], draft[c])
    PROVE  CallersOK'
  <1>1. ASSUME NEW d \in Caller \ {c}
        PROVE  CallerOK(d)'
    BY <1>1, OthersOK DEF CallersOK, Goto
  <1>2. CallerOK(c)'
    BY DEF CallersOK, CallerOK, Goto
  <1>3. QED
    BY <1>1, <1>2 DEF CallersOK, Goto

LEMMA ProceedOK ==
    ASSUME CallersOK, NEW c \in Caller, pc[c] # "done", service' = service,
           NEW stage \in Stages, Proceed(c, stage),
           stage # "done" => Fits(service[c], stage, req[c], target[c], draft[c])
    PROVE  CallersOK'
  <1>1. CASE stage = "done"
    BY <1>1, FinishOK DEF Proceed, Outcomes
  <1>2. CASE stage # "done"
    BY <1>2, MoveOK DEF Proceed
  <1>3. QED
    BY <1>1, <1>2

LEMMA FaultOK ==
    ASSUME BoundsOK, UNCHANGED <<disturbed, edits>>,
           UNCHANGED faults \/ (faults > 0 /\ faults' = faults - 1)
    PROVE  BoundsOK'
  BY UserPersistAssumption DEF BoundsOK

LEMMA AnsweredOK ==
    ASSUME CallersOK, BoundsOK, NEW c \in Caller, pc[c] # "done",
           NEW stage \in Stages, Answered(c, stage),
           stage # "done" => Fits(service[c], stage, req[c], target[c], draft[c])
    PROVE  CallersOK' /\ BoundsOK'
  <1>1. BoundsOK'
    BY FaultOK DEF Answered, Calls
  <1>2. CASE Proceed(c, stage)
    BY <1>1, <1>2, ProceedOK DEF Answered, Calls
  <1>3. CASE Finish(c, "error")
    BY <1>1, <1>3, FinishOK DEF Answered, Calls, Outcomes
  <1>4. QED
    BY <1>2, <1>3 DEF Answered

\* What is read, or refused, changes only the caller.
LEMMA ReadsOK ==
    ASSUME DocInv, NEW c \in Caller, Reads(c), CallersOK'
    PROVE  DocInv'
  BY DEF DocInv, Reads, Calls, StoreOK, CreationKept, Readable, BoundsOK

LEMMA RefusedOK ==
    ASSUME DocInv, NEW c \in Caller, pc[c] # "done", NEW o \in Outcomes, Refused(c, o)
    PROVE  DocInv'
  BY FinishOK, ReadsOK DEF DocInv, Refused, Reads, Calls

\* One data object is replaced.
LEMMA StoreKept ==
    ASSUME StoreOK, NEW k \in Key, NEW document \in Document \cup {None},
           store' = [store EXCEPT ![k] = document],
           k \in Queries => \/ document = None \/ document.body = Empty
                            \/ document.body.created = "creation"
    PROVE  StoreOK'
  <1>1. Queries \subseteq Key
    BY DEF Queries, Key, Services
  <1>2. store' \in [Key -> Document \cup {None}]
    BY DEF StoreOK
  <1>3. CreationKept'
    BY <1>1 DEF StoreOK, CreationKept, Readable
  <1>4. QED
    BY <1>2, <1>3 DEF StoreOK

LEMMA ChangeOK ==
    ASSUME DocInv, NEW c \in Caller, pc[c] # "done", target[c] \in Key,
           NEW stage \in Stages, NEW document \in Document \cup {None}, Change(c, document, stage),
           target[c] \in Queries => \/ document = None \/ document.body = Empty
                                    \/ document.body.created = "creation",
           stage # "done" => Fits(service[c], stage, req[c], target[c], draft[c])
    PROVE  DocInv'
  <1>1. StoreOK'
    BY StoreKept DEF DocInv, Change
  <1>2. CallersOK' /\ BoundsOK'
    BY AnsweredOK DEF DocInv, Change
  <1>3. QED
    BY <1>1, <1>2 DEF DocInv, Change

-----------------------------------------------------------------------------
(* The steps that several services share.                                  *)

\* What is known of a caller that is at work.
LEMMA AtWork ==
    ASSUME DocInv, NEW c \in Caller, pc[c] # "done"
    PROVE  /\ service[c] \in Services /\ req[c] \in Requests[service[c]]
           /\ Askable(service[c], req[c]) /\ Valid(req[c])
           /\ Fits(service[c], pc[c], req[c], target[c], draft[c])
           /\ target[c] \in Files[service[c]] => target[c] \in Key
  <1>1. service[c] \in Services /\ req[c] \in Requests[service[c]]
    BY DEF DocInv, CallersOK, CallerOK
  <1>2. Askable(service[c], req[c])
    BY <1>1, RequestsAsked
  <1>3. Valid(req[c]) /\ Fits(service[c], pc[c], req[c], target[c], draft[c])
    BY DEF DocInv, CallersOK, CallerOK
  <1>4. target[c] \in Files[service[c]] => target[c] \in Key
    BY <1>1 DEF Key
  <1>5. QED
    BY <1>1, <1>2, <1>3, <1>4

\* While the collections are made, any of these stages fits.
LEMMA EnsureOK ==
    ASSUME DocInv, NEW c \in Caller, NEW next \in Stages \ {"done"}, EnsureContext(c, next),
           Fits(service[c], next, req[c], target[c], draft[c])
    PROVE  DocInv'
  <1>1. pc[c] \in Making /\ pc[c] # "done"
    BY DEF EnsureContext, Making
  <1>2. ASSUME NEW stage \in Making
        PROVE  stage \in Stages \ {"done"} /\ Fits(service[c], stage, req[c], target[c], draft[c])
    <2>1. Fits(service[c], pc[c], req[c], target[c], draft[c])
      BY <1>1, AtWork
    <2>2. QED
      BY <1>1, <2>1 DEF Fits, FavoriteFits, CartFits, QueryFits, Making, Stages
  <1>3. ASSUME NEW collection, NEW found \in Stages \ {"done"}, NEW missing \in Making,
               Find(c, collection, found, missing),
               Fits(service[c], found, req[c], target[c], draft[c])
        PROVE  DocInv'
    BY <1>1, <1>2, <1>3, ProceedOK, ReadsOK DEF Find, DocInv, Reads, Calls
  <1>4. ASSUME NEW collection \in {"root"} \cup Services, NEW stage \in Stages \ {"done"},
               Make(c, collection, stage), Fits(service[c], stage, req[c], target[c], draft[c])
        PROVE  DocInv'
    <2>1. CASE Refused(c, "error")
      BY <1>1, <2>1, RefusedOK DEF Outcomes
    <2>2. CASE /\ collections' = collections \cup {collection}
               /\ UNCHANGED <<store, used>> /\ Answered(c, stage)
      <3>1. CallersOK' /\ BoundsOK'
        BY <1>1, <1>4, <2>2, AnsweredOK DEF DocInv
      <3>2. StoreOK'
        BY <2>2 DEF DocInv, StoreOK, CreationKept, Readable
      <3>3. QED
        BY <2>2, <3>1, <3>2 DEF DocInv
    <2>3. QED
      BY <1>4, <2>1, <2>2 DEF Make
  <1>5. service[c] \in Services
    BY <1>1, AtWork
  <1>6. CASE Find(c, "root", "category", "mkroot")
    BY <1>2, <1>3, <1>6 DEF Making
  <1>7. CASE Make(c, "root", "category")
    BY <1>2, <1>4, <1>7 DEF Making
  <1>8. CASE Find(c, service[c], next, "mkcategory")
    BY <1>3, <1>8 DEF Making
  <1>9. CASE Make(c, service[c], next)
    BY <1>4, <1>5, <1>9
  <1>10. QED
    BY <1>6, <1>7, <1>8, <1>9 DEF EnsureContext

LEMMA CreateFileOK ==
    ASSUME DocInv, NEW c \in Caller, NEW next \in Stages \ {"done"}, CreateFile(c, next),
           target[c] \in Key, Fits(service[c], next, req[c], target[c], draft[c])
    PROVE  DocInv'
  <1> DEFINE document == IF Missing(c) THEN [body |-> Empty, avus |-> {}]
                         ELSE [store[target[c]] EXCEPT !.body = Empty]
  <1>1. document \in Document /\ document.body = Empty
    BY DEF DocInv, StoreOK, Missing, Document
  <1>2. pc[c] # "done" /\ Change(c, document, next)
    BY DEF CreateFile
  <1>3. QED
    BY <1>1, <1>2, ChangeOK

LEMMA RemoveFileOK ==
    ASSUME DocInv, NEW c \in Caller, RemoveFile(c), target[c] \in Key
    PROVE  DocInv'
  <1>1. CASE Refused(c, "error")
    BY <1>1, RefusedOK DEF RemoveFile, Outcomes
  <1>2. CASE Change(c, None, "done")
    BY <1>2, ChangeOK DEF RemoveFile, Stages
  <1>3. QED
    BY <1>1, <1>2 DEF RemoveFile

\* A document whose AVUs change keeps its contents.
LEMMA NewAVUs ==
    ASSUME DocInv, NEW k \in Key, k \notin Queries, store[k] # None, NEW avus \in SUBSET AVU,
           store' = [store EXCEPT ![k].avus = avus]
    PROVE  StoreOK'
  <1> DEFINE document == [store[k] EXCEPT !.avus = avus]
  <1>1. document \in Document
    BY DEF DocInv, StoreOK, Document
  <1>2. store' = [store EXCEPT ![k] = document]
    BY DEF DocInv, StoreOK
  <1>3. QED
    BY <1>1, <1>2, StoreKept DEF DocInv

LEMMA DeleteAVUOK ==
    ASSUME DocInv, NEW c \in Caller, NEW next \in {"done", "add"}, DeleteAVU(c, next),
           target[c] \in Key \ Queries,
           Fits(service[c], "delete", req[c], target[c], draft[c]),
           next # "done" => Fits(service[c], next, req[c], target[c], draft[c])
    PROVE  DocInv'
  <1>1. PICK avu \in todo[c] :
           \/ ~Carries(c, avu) /\ Refused(c, "error")
           \/ /\ Carries(c, avu)
              /\ store' = [store EXCEPT ![target[c]].avus = @ \ {avu}]
              /\ UNCHANGED <<collections, used>> /\ Calls(c)
              /\ \/ /\ todo[c] # {avu} \/ next # "done"
                    /\ todo' = [todo EXCEPT ![c] = @ \ {avu}]
                    /\ Goto(c, IF todo[c] = {avu} THEN next ELSE "delete")
                    /\ UNCHANGED <<req, target, draft, out, faults>>
                 \/ todo[c] = {avu} /\ next = "done" /\ Finish(c, "ok") /\ UNCHANGED faults
                 \/ faults > 0 /\ faults' = faults - 1 /\ Finish(c, "error")
    BY DEF DeleteAVU
  <1>2. pc[c] # "done"
    BY DEF DeleteAVU
  <1>3. CASE Refused(c, "error")
    BY <1>2, <1>3, RefusedOK DEF Outcomes
  <1>4. CASE ~Refused(c, "error")
    <2>1. StoreOK'
      <3>1. store[target[c]] # None /\ store[target[c]] \in Document
        BY <1>1, <1>4 DEF Carries, Missing, DocInv, StoreOK
      <3>2. store[target[c]].avus \ {avu} \in SUBSET AVU
        BY <3>1 DEF Document
      <3>3. QED
        BY <1>1, <1>4, <3>1, <3>2, NewAVUs
    <2>2. BoundsOK'
      BY <1>1, <1>4, FaultOK DEF DocInv, Calls
    <2>3. CallersOK'
      <3>1. CASE Goto(c, IF todo[c] = {avu} THEN next ELSE "delete") /\ UNCHANGED <<req, target, draft, out>>
                 /\ (todo[c] # {avu} \/ next # "done")
        <4> DEFINE stage == IF todo[c] = {avu} THEN next ELSE "delete"
        <4>1. stage \in Stages \ {"done"} /\ Fits(service[c], stage, req[c], target[c], draft[c])
          BY <3>1 DEF Stages
        <4>2. Goto(c, stage) /\ service' = service
          BY <1>1, <1>4, <3>1 DEF Calls
        <4> HIDE DEF stage
        <4>3. QED
          BY <1>2, <3>1, <4>1, <4>2, MoveOK DEF DocInv
      <3>2. CASE \E o \in {"ok", "error"} : Finish(c, o)
        BY <1>1, <1>2, <1>4, <3>2, FinishOK DEF DocInv, Calls, Outcomes
      <3>3. QED
        BY <1>1, <1>4, <3>1, <3>2
    <2>4. QED
      BY <1>1, <1>4, <2>1, <2>2, <2>3 DEF DocInv
  <1>5. QED
    BY <1>3, <1>4

LEMMA AddAVUOK ==
    ASSUME DocInv, NEW c \in Caller, AddAVU(c), target[c] \in Key \ Queries, draft[c] \in AVU
    PROVE  DocInv'
  <1>1. CASE Refused(c, "error")
    BY <1>1, RefusedOK DEF AddAVU, Outcomes
  <1>2. CASE ~Refused(c, "error")
    <2> DEFINE document == [store[target[c]] EXCEPT !.avus = @ \cup {draft[c]}]
    <2>1. ~Missing(c) /\ Change(c, document, "done") /\ pc[c] # "done"
      BY <1>2 DEF AddAVU
    <2>2. document \in Document
      BY <2>1 DEF DocInv, StoreOK, Missing, Document
    <2>3. QED
      BY <2>1, <2>2, ChangeOK DEF Stages
  <1>3. QED
    BY <1>1, <1>2

LEMMA DeleteFirstOK ==
    ASSUME DocInv, NEW c \in Caller, pc[c] # "done", NEW avus, NEW next \in {"done", "add"},
           DeleteFirst(c, avus, next), avus = {} => next # "done",
           Fits(service[c], "delete", req[c], target[c], draft[c]) \/ avus = {},
           next # "done" => Fits(service[c], next, req[c], target[c], draft[c])
    PROVE  DocInv'
  <1> DEFINE stage == IF avus = {} THEN next ELSE "delete"
  <1>1. stage \in Stages \ {"done"} /\ Fits(service[c], stage, req[c], target[c], draft[c])
    BY DEF Stages
  <1>2. Goto(c, stage) /\ UNCHANGED <<req, target, draft, out>> /\ Reads(c) /\ service' = service
    BY DEF DeleteFirst, Reads, Calls
  <1> HIDE DEF stage
  <1>3. CallersOK'
    BY <1>1, <1>2, MoveOK DEF DocInv
  <1>4. QED
    BY <1>2, <1>3, ReadsOK

\* Listings read one file after the other.
LEMMA ListingOK ==
    ASSUME DocInv, NEW c \in Caller, pc[c] # "done", Fits(service[c], "read", req[c], target[c], draft[c]),
           NEW readable, Scan(c) \/ ReadEach(c, readable)
    PROVE  DocInv'
  <1>1. Reads(c) /\ service' = service
    BY DEF Scan, ReadEach, Reads, Calls
  <1>2. \/ \E o \in {"ok", "error"} : Finish(c, o)
        \/ Goto(c, "read") /\ UNCHANGED <<req, target, draft, out>>
        \/ UNCHANGED <<pc, req, target, draft, out>>
    BY DEF Scan, ReadEach
  <1>3. CASE \E o \in {"ok", "error"} : Finish(c, o)
    BY <1>1, <1>3, FinishOK, ReadsOK DEF DocInv, Outcomes
  <1>4. CASE Goto(c, "read") /\ UNCHANGED <<req, target, draft, out>>
    BY <1>1, <1>4, MoveOK, ReadsOK DEF DocInv, Stages
  <1>5. CASE UNCHANGED <<pc, req, target, draft, out>>
    BY <1>1, <1>5, OthersOK, ReadsOK DEF DocInv, CallersOK
  <1>6. QED
    BY <1>2, <1>3, <1>4, <1>5
-----------------------------------------------------------------------------
(* The steps of each service.                                              *)

\* The files of the services are apart, and all of them are keys.
LEMMA KeysApart ==
    /\ \A s \in Services : Files[s] \subseteq Key
    /\ Files["favorites"] \cap Queries = {} /\ Files["filecarts"] \cap Queries = {}
    /\ {"favorites", "filecarts", "metadata_queries"} = Services
  BY UserPersistAssumption DEF Key, Queries, Services

LEMMA FavoritesOK ==
    ASSUME DocInv, NEW c \in Caller, FavoritesStep(c)
    PROVE  DocInv'
  <1> DEFINE r == req[c]
             k == target[c]
             d == draft[c]
  <1>1. pc[c] # "done" /\ service[c] = "favorites"
    BY DEF FavoritesStep, EnsureFile, EnsureContext, CreateFile, ListFavoriteAVUs, DeleteFavorite,
           DeleteAVU, AddAVU
  <1>2. FavoriteFits(pc[c], r, k, d)
    BY <1>1, AtWork DEF Fits
  <1>3. r.op \in FavoriteOps /\ k \in Key \ Queries
    BY <1>1, <1>2, AtWork, KeysApart DEF Askable, FavoriteFits
  <1>4. ASSUME NEW stage, FavoriteFits(stage, r, k, d)
        PROVE  Fits(service[c], stage, r, k, d)
    BY <1>1, <1>4 DEF Fits
  <1>5. CASE EnsureContext(c, "create")
    <2>1. FavoriteFits("create", r, k, d)
      BY <1>2 DEF FavoriteFits, Making
    <2>2. QED
      BY <1>4, <1>5, <2>1, EnsureOK DEF Stages
  <1>6. CASE CreateFile(c, "list")
    <2>1. FavoriteFits("list", r, k, d)
      BY <1>2 DEF FavoriteFits, Making
    <2>2. QED
      BY <1>3, <1>4, <1>6, <2>1, CreateFileOK DEF Stages
  <1>7. CASE ListFavoriteAVUs(c)
    <2> DEFINE found == FavoritesAt(k, r.value.path)
    <2>1. CASE \E o \in Outcomes : Refused(c, o)
      BY <1>1, <2>1, RefusedOK
    <2>2. CASE r.op \in {"AddFavorite", "RenameFavorite"} /\ DeleteFirst(c, found, "add")
      <3>1. FavoriteFits("add", r, k, d) /\ FavoriteFits("delete", r, k, d)
        BY <1>2, <2>2 DEF FavoriteFits
      <3>2. QED
        BY <1>1, <1>4, <2>2, <3>1, DeleteFirstOK
    <2>3. CASE r.op = "RemoveFavorite" /\ found # {} /\ DeleteFirst(c, found, "done")
      <3>1. FavoriteFits("delete", r, k, d)
        BY <1>2, <2>3 DEF FavoriteFits
      <3>2. QED
        BY <1>1, <1>4, <2>3, <3>1, DeleteFirstOK
    <2>4. QED
      BY <1>7, <2>1, <2>2, <2>3 DEF ListFavoriteAVUs, Outcomes
  <1>8. CASE DeleteFavorite(c)
    <2>1. pc[c] = "delete"
      BY <1>8 DEF DeleteFavorite, DeleteAVU
    <2>2. r.op # "RemoveFavorite" => FavoriteFits("add", r, k, d)
      BY <1>2, <2>1 DEF FavoriteFits
    <2>3. QED
      BY <1>2, <1>3, <1>4, <1>8, <2>1, <2>2, DeleteAVUOK DEF DeleteFavorite
  <1>9. CASE AddAVU(c)
    <2>1. d \in AVU
      BY <1>2, <1>9 DEF FavoriteFits, AddAVU
    <2>2. QED
      BY <1>3, <1>9, <2>1, AddAVUOK
  <1>10. QED
    BY <1>5, <1>6, <1>7, <1>8, <1>9 DEF FavoritesStep, EnsureFile

LEMMA CopyOK ==
    ASSUME DocInv, NEW c \in Caller, CopyDataObject(c), service[c] = "filecarts",
           req[c].op = "CopyCart"
    PROVE  DocInv'
  <1>1. CASE Refused(c, "error")
    BY <1>1, RefusedOK DEF CopyDataObject, Outcomes
  <1>2. CASE ~Refused(c, "error")
    <2>1. PICK k \in Files["filecarts"] \ used, avus \in {store[target[c]].avus, {}} :
             /\ store' = [store EXCEPT ![k] = [body |-> Empty, avus |-> avus]]
             /\ used' = used \cup {k}
             /\ UNCHANGED collections /\ Calls(c)
             /\ \/ /\ target' = [target EXCEPT ![c] = k]
                   /\ Goto(c, IF req[c].value = Blank THEN "name" ELSE "list")
                   /\ UNCHANGED <<req, draft, todo, out, faults>>
                \/ faults > 0 /\ faults' = faults - 1 /\ Finish(c, "error")
      BY <1>2 DEF CopyDataObject
    <2>2. k \in Key \ Queries /\ k \in Files["filecarts"]
      BY KeysApart
    <2>3. StoreOK'
      <3>1. target[c] \in Key /\ store[target[c]] # None
        <4>1. Fits(service[c], pc[c], req[c], target[c], draft[c]) /\ pc[c] # "done"
          BY AtWork DEF CopyDataObject
        <4>2. target[c] \in Files["filecarts"]
          BY <4>1 DEF Fits, CartFits
        <4>3. QED
          BY <1>2, <4>2, KeysApart DEF CopyDataObject, Missing
      <3>2. avus \in SUBSET AVU
        BY <3>1 DEF DocInv, StoreOK, Document
      <3>3. [body |-> Empty, avus |-> avus] \in Document
        BY <3>2 DEF Document
      <3>4. QED
        BY <2>1, <2>2, <3>3, StoreKept DEF DocInv
    <2>4. BoundsOK'
      BY <2>1, FaultOK DEF DocInv, Calls
    <2>5. CallersOK'
      <3>1. CASE Finish(c, "error")
        BY <2>1, <3>1, FinishOK DEF DocInv, CopyDataObject, Calls, Outcomes
      <3>2. CASE /\ target' = [target EXCEPT ![c] = k]
                 /\ Goto(c, IF req[c].value = Blank THEN "name" ELSE "list")
                 /\ UNCHANGED <<req, draft, out>>
        <4> DEFINE stage == IF req[c].value = Blank THEN "name" ELSE "list"
        <4>1. Goto(c, stage) /\ stage \in {"name", "list"} /\ service' = service
          BY <2>1, <3>2 DEF Calls
        <4>2. CartFits(stage, req[c], k, draft[c])
          <5>1. Fits(service[c], pc[c], req[c], target[c], draft[c]) /\ pc[c] = "copy"
            BY AtWork DEF CopyDataObject
          <5>2. QED
            BY <2>2, <5>1 DEF Fits, CartFits, Making
        <4> HIDE DEF stage
        <4>3. ASSUME NEW e \in Caller \ {c}
              PROVE  CallerOK(e)'
          BY <3>2, <4>1, <4>3, OthersOK DEF DocInv, CallersOK, Goto
        <4>4. CallerOK(c)'
          <5>1. pc[c] # "done" /\ CallerOK(c)
            BY DEF DocInv, CallersOK, CopyDataObject
          <5>2. pc'[c] = stage /\ target'[c] = k /\ req'[c] = req[c] /\ draft'[c] = draft[c] /\ out'[c] = out[c]
            BY <3>2, <4>1 DEF DocInv, CallersOK, Goto
          <5>3. QED
            BY <2>2, <4>1, <4>2, <5>1, <5>2 DEF CallerOK, Fits
        <4>5. QED
          BY <3>2, <4>1, <4>3, <4>4 DEF DocInv, CallersOK, Goto, Stages
      <3>3. QED
        BY <2>1, <3>1, <3>2
    <2>6. QED
      BY <2>1, <2>2, <2>3, <2>4, <2>5 DEF DocInv
  <1>3. QED
    BY <1>1, <1>2

\* The name of the source becomes the draft of the copy.
LEMMA SourceNameOK ==
    ASSUME DocInv, NEW c \in Caller, ReadSourceName(c), service[c] = "filecarts"
    PROVE  DocInv'
  <1> DEFINE source == req[c].at
  <1>1. Reads(c) /\ pc[c] = "name" /\ service' = service
    BY DEF ReadSourceName, Reads, Calls
  <1>2. CASE \E o \in {"ok", "error"} : Finish(c, o)
    BY <1>1, <1>2, FinishOK, ReadsOK DEF DocInv, Outcomes
  <1>3. CASE ~\E o \in {"ok", "error"} : Finish(c, o)
    <2>1. PICK avu \in NamesOf(source) : draft' = [draft EXCEPT ![c] = avu]
      BY <1>3 DEF ReadSourceName
    <2>2. store[source] # None /\ Goto(c, "list") /\ UNCHANGED <<req, target, todo, out>>
      BY <1>3 DEF ReadSourceName
    <2>3. CartFits("name", req[c], target[c], draft[c])
      BY <1>1, AtWork DEF Fits
    <2>4. source \in Files["filecarts"]
      <3>1. Askable("filecarts", req[c]) /\ Valid(req[c]) /\ req[c].op = "CopyCart"
        BY <1>1, <2>3, AtWork DEF CartFits
      <3>2. QED
        BY <3>1 DEF Askable, Valid, CartValid, FavoriteOps, CartOps
    <2>5. avu \in AVU /\ avu.attr # "favorite"
      <3>1. store[source] \in Document
        BY <2>2, <2>4, KeysApart DEF DocInv, StoreOK
      <3>2. QED
        BY <2>1, <3>1 DEF NamesOf, Document
    <2>6. CartFits("list", req[c], target[c], avu)
      BY <2>3, <2>5 DEF CartFits, Making
    <2>7. ASSUME NEW e \in Caller \ {c}
          PROVE  CallerOK(e)'
      BY <1>1, <2>1, <2>2, <2>7, OthersOK DEF DocInv, CallersOK, Goto
    <2>8. CallerOK(c)'
      <3>1. /\ pc'[c] = "list" /\ draft'[c] = avu /\ target'[c] = target[c] /\ req'[c] = req[c]
            /\ out'[c] = out[c] /\ CallerOK(c)
        BY <2>1, <2>2 DEF DocInv, CallersOK, Goto
      <3>2. QED
        BY <1>1, <2>6, <3>1 DEF CallerOK, Fits
    <2>9. CallersOK'
      BY <1>1, <2>1, <2>2, <2>7, <2>8 DEF DocInv, CallersOK, Goto, Stages
    <2>10. QED
      BY <1>1, <2>9, ReadsOK
  <1>4. QED
    BY <1>2, <1>3

LEMMA CartsOK ==
    ASSUME DocInv, NEW c \in Caller, CartsStep(c)
    PROVE  DocInv'
  <1> DEFINE r == req[c]
             k == target[c]
             d == draft[c]
  <1>1. pc[c] # "done" /\ service[c] = "filecarts"
    BY DEF CartsStep, EnsureCarts, EnsureContext, CreateFile, Scan, ReadNames, ReadEach,
           CopyDataObject, ReadSourceName, ListCartAVUs, DeleteCartAVU, DeleteAVU, AddAVU, RemoveFile
  <1>2. CartFits(pc[c], r, k, d)
    BY <1>1, AtWork DEF Fits
  <1>3. r.op \in CartOps /\ (r.op # "ListCarts" => k \in Key \ Queries)
    BY <1>1, <1>2, AtWork, KeysApart DEF Askable, CartFits
  <1>4. ASSUME NEW stage, CartFits(stage, r, k, d)
        PROVE  Fits(service[c], stage, r, k, d)
    BY <1>1, <1>4 DEF Fits
  <1>5. CASE EnsureContext(c, CASE r.op = "CreateCart" -> "create"
                                [] r.op = "ListCarts" -> "scan"
                                [] OTHER -> "copy")
    <2> DEFINE next == CASE r.op = "CreateCart" -> "create"
                         [] r.op = "ListCarts" -> "scan"
                         [] OTHER -> "copy"
    <2>1. pc[c] \in Making
      BY <1>5 DEF EnsureContext, Making
    <2>2. next \in Stages \ {"done"} /\ CartFits(next, r, k, d)
      BY <1>2, <2>1 DEF CartFits, Making, Stages
    <2> HIDE DEF next
    <2>3. EnsureContext(c, next)
      BY <1>5 DEF next
    <2>4. QED
      BY <1>4, <2>2, <2>3, EnsureOK
  <1>6. CASE CreateFile(c, "add")
    <2>1. CartFits("add", r, k, d) /\ r.op # "ListCarts"
      BY <1>2, <1>6 DEF CartFits, CreateFile, Making
    <2>2. QED
      BY <1>3, <1>4, <1>6, <2>1, CreateFileOK DEF Stages
  <1>7. CASE Scan(c) \/ ReadNames(c)
    <2>1. CartFits("read", r, k, d)
      BY <1>2, <1>7 DEF CartFits, Scan, ReadNames, ReadEach, Making
    <2>2. QED
      BY <1>1, <1>4, <1>7, <2>1, ListingOK DEF ReadNames
  <1>8. CASE CopyDataObject(c)
    <2>1. r.op = "CopyCart"
      BY <1>2, <1>8 DEF CartFits, CopyDataObject
    <2>2. QED
      BY <1>1, <1>8, <2>1, CopyOK
  <1>9. CASE ReadSourceName(c)
    BY <1>1, <1>9, SourceNameOK
  <1>10. CASE ListCartAVUs(c)
    <2> DEFINE names == NamesOf(k)
               doomed == EntriesAt(k, r.value)
    <2>1. CASE \E o \in Outcomes : Refused(c, o)
      BY <1>1, <2>1, RefusedOK
    <2>2. CASE r.op \in {"SetCartName", "CopyCart"} /\ DeleteFirst(c, names, "add")
      <3>1. CartFits("add", r, k, d) /\ CartFits("delete", r, k, d)
        BY <1>2, <1>10, <2>2 DEF CartFits, ListCartAVUs, Making
      <3>2. QED
        BY <1>1, <1>4, <2>2, <3>1, DeleteFirstOK
    <2>3. CASE r.op = "AddItem" /\ DeleteFirst(c, {}, "add")
      <3>1. CartFits("add", r, k, d)
        BY <1>2, <1>10, <2>3 DEF CartFits, ListCartAVUs, Making
      <3>2. QED
        BY <1>1, <1>4, <2>3, <3>1, DeleteFirstOK
    <2>4. CASE r.op = "RemoveItem" /\ doomed # {} /\ DeleteFirst(c, doomed, "done")
      <3>1. CartFits("delete", r, k, d)
        BY <1>2, <1>10, <2>4 DEF CartFits, ListCartAVUs, Making
      <3>2. QED
        BY <1>1, <1>4, <2>4, <3>1, DeleteFirstOK
    <2>5. QED
      BY <1>10, <2>1, <2>2, <2>3, <2>4 DEF ListCartAVUs, Outcomes
  <1>11. CASE DeleteCartAVU(c)
    <2>1. pc[c] = "delete"
      BY <1>11 DEF DeleteCartAVU, DeleteAVU
    <2>2. r.op # "ListCarts" /\ (r.op # "RemoveItem" => CartFits("add", r, k, d))
      BY <1>2, <2>1 DEF CartFits, Making
    <2>3. QED
      BY <1>2, <1>3, <1>4, <1>11, <2>1, <2>2, DeleteAVUOK DEF DeleteCartAVU
  <1>12. CASE AddAVU(c)
    <2>1. d \in AVU /\ r.op # "ListCarts"
      BY <1>2, <1>12 DEF CartFits, AddAVU
    <2>2. QED
      BY <1>3, <1>12, <2>1, AddAVUOK
  <1>13. CASE RemoveFile(c)
    <2>1. r.op # "ListCarts"
      BY <1>2, <1>13 DEF CartFits, RemoveFile
    <2>2. QED
      BY <1>3, <1>13, <2>1, RemoveFileOK
  <1>14. QED
    BY <1>5, <1>6, <1>7, <1>8, <1>9, <1>10, <1>11, <1>12, <1>13 DEF CartsStep, EnsureCarts

\* What is loaded becomes the draft of an update.
LEMMA LoadOK ==
    ASSUME DocInv, NEW c \in Caller, Load(c), service[c] = "metadata_queries"
    PROVE  DocInv'
  <1>1. Reads(c) /\ pc[c] = "load" /\ service' = service
    BY DEF Load, Reads, Calls
  <1>2. CASE \E o \in {"ok", "error", "invalid"} : Finish(c, o)
    BY <1>1, <1>2, FinishOK, ReadsOK DEF DocInv, Outcomes
  <1>3. CASE ~\E o \in {"ok", "error", "invalid"} : Finish(c, o)
    <2> DEFINE k == target[c]
               d == [store[k].body EXCEPT !.text = req[c].value]
    <2>1. /\ Readable(k) /\ req[c].op = "PutSavedQuery" /\ req[c].value # Blank
          /\ draft' = [draft EXCEPT ![c] = d]
          /\ Goto(c, "root") /\ UNCHANGED <<req, target, todo, out>>
      BY <1>3 DEF Load
    <2>2. QueryFits("load", req[c], k, draft[c]) /\ Askable("metadata_queries", req[c])
      BY <1>1, AtWork DEF Fits
    <2>3. k \in Queries /\ req[c].value \in Text
      BY <2>1, <2>2 DEF QueryFits, Askable
    <2>4. store[k].body \in Query /\ store[k].body.id = k /\ store[k].body.created = "creation"
      <3>1. store[k] \in Document
        BY <2>1, <2>3, KeysApart DEF DocInv, StoreOK, Readable, Queries
      <3>2. QED
        BY <2>1, <2>3, <3>1 DEF Document, Readable, DocInv, StoreOK, CreationKept
    <2>5. d \in Query /\ d.id = k /\ d.created = "creation"
      BY <2>3, <2>4 DEF Query
    <2>6. QueryFits("root", req[c], k, d)
      BY <2>1, <2>2, <2>5 DEF QueryFits, Making
    <2> HIDE DEF d
    <2>7. ASSUME NEW e \in Caller \ {c}
          PROVE  CallerOK(e)'
      BY <1>1, <2>1, <2>7, OthersOK DEF DocInv, CallersOK, Goto
    <2>8. CallerOK(c)'
      <3>1. /\ pc'[c] = "root" /\ draft'[c] = d /\ target'[c] = target[c] /\ req'[c] = req[c]
            /\ out'[c] = out[c] /\ CallerOK(c)
        BY <2>1 DEF DocInv, CallersOK, Goto
      <3>2. QED
        BY <1>1, <2>6, <3>1 DEF CallerOK, Fits
    <2>9. CallersOK'
      BY <1>1, <2>1, <2>7, <2>8 DEF DocInv, CallersOK, Goto, Stages
    <2>10. QED
      BY <1>1, <2>9, ReadsOK
  <1>4. QED
    BY <1>2, <1>3

LEMMA WriteFileOK ==
    ASSUME DocInv, NEW c \in Caller, WriteFile(c), target[c] \in Key,
           draft[c] \in Query, draft[c].created = "creation"
    PROVE  DocInv'
  <1>1. CASE Refused(c, "error")
    BY <1>1, RefusedOK DEF WriteFile, Outcomes
  <1>2. CASE ~Refused(c, "error")
    <2> DEFINE document == [store[target[c]] EXCEPT !.body = draft[c]]
    <2>1. ~Missing(c) /\ Change(c, document, "done") /\ pc[c] # "done"
      BY <1>2 DEF WriteFile
    <2>2. document \in Document /\ document.body = draft[c]
      BY <2>1 DEF DocInv, StoreOK, Missing, Document
    <2>3. QED
      BY <2>1, <2>2, ChangeOK DEF Stages
  <1>3. QED
    BY <1>1, <1>2

LEMMA QueriesOK ==
    ASSUME DocInv, NEW c \in Caller, QueriesStep(c)
    PROVE  DocInv'
  <1> DEFINE r == req[c]
             k == target[c]
             d == draft[c]
  <1>1. pc[c] # "done" /\ service[c] = "metadata_queries"
    BY DEF QueriesStep, EnsureQueries, EnsureContext, CreateFile, Load, WriteFile, RemoveFile, Scan,
           ReadQueries, ReadEach
  <1>2. QueryFits(pc[c], r, k, d)
    BY <1>1, AtWork DEF Fits
  <1>3. r.op # "ListSavedQueries" => k \in Key
    BY <1>2, KeysApart DEF QueryFits, Queries
  <1>4. ASSUME NEW stage, QueryFits(stage, r, k, d)
        PROVE  Fits(service[c], stage, r, k, d)
    BY <1>1, <1>4 DEF Fits
  <1>5. CASE EnsureContext(c, IF r.op = "ListSavedQueries" THEN "scan" ELSE "create")
    <2> DEFINE next == IF r.op = "ListSavedQueries" THEN "scan" ELSE "create"
    <2>1. pc[c] \in Making
      BY <1>5 DEF EnsureContext, Making
    <2>2. next \in Stages \ {"done"} /\ QueryFits(next, r, k, d)
      BY <1>2, <2>1 DEF QueryFits, Making, Stages
    <2> HIDE DEF next
    <2>3. EnsureContext(c, next)
      BY <1>5 DEF next
    <2>4. QED
      BY <1>4, <2>2, <2>3, EnsureOK
  <1>6. CASE CreateFile(c, "write")
    <2>1. QueryFits("write", r, k, d) /\ r.op # "ListSavedQueries"
      BY <1>2, <1>6 DEF QueryFits, CreateFile, Making
    <2>2. QED
      BY <1>3, <1>4, <1>6, <2>1, CreateFileOK DEF Stages
  <1>7. CASE Load(c)
    BY <1>1, <1>7, LoadOK
  <1>8. CASE WriteFile(c)
    <2>1. d \in Query /\ d.created = "creation" /\ r.op # "ListSavedQueries"
      BY <1>2, <1>8 DEF QueryFits, WriteFile
    <2>2. QED
      BY <1>3, <1>8, <2>1, WriteFileOK
  <1>9. CASE RemoveFile(c)
    <2>1. r.op # "ListSavedQueries"
      BY <1>2, <1>9 DEF QueryFits, RemoveFile
    <2>2. QED
      BY <1>3, <1>9, <2>1, RemoveFileOK
  <1>10. CASE Scan(c) \/ ReadQueries(c)
    <2>1. QueryFits("read", r, k, d)
      BY <1>2, <1>10 DEF QueryFits, Scan, ReadQueries, ReadEach, Making
    <2>2. QED
      BY <1>1, <1>4, <1>10, <2>1, ListingOK DEF ReadQueries
  <1>11. QED
    BY <1>5, <1>6, <1>7, <1>8, <1>9, <1>10 DEF QueriesStep, EnsureQueries

-----------------------------------------------------------------------------
(* Requests, failures and the beginning.                                   *)

\* The first stage of a request fits, with its target and its draft.
LEMMA FirstFits ==
    ASSUME NEW s \in Services, NEW r \in Requests[s], Valid(r), NEW k,
           r.op \in Creations => k \in Files[s], r.op \notin Creations => k = r.at
    PROVE  Fits(s, FirstStage(r.op), r, k, DraftOf(r, k))
  <1>1. Askable(s, r)
    BY RequestsAsked
  <1>2. CASE s = "favorites"
    <2>1. r.op \in FavoriteOps /\ k \in Files[s] /\ r.value \in Favorite
      BY <1>1, <1>2 DEF Askable, FavoriteOps, Creations, Valid, FavoriteValid
    <2>2. Encode(r.value) \in AVU /\ Encode(r.value).attr = "favorite"
      BY <2>1 DEF Encode, AVU, Favorite
    <2>3. FavoriteFits("root", r, k, DraftOf(r, k))
      BY <1>2, <2>1, <2>2 DEF FavoriteFits, DraftOf, Making
    <2>4. QED
      BY <1>2, <2>1, <2>3 DEF Fits, FirstStage
  <1>3. CASE s = "filecarts"
    <2>1. r.op \in CartOps /\ r.op \notin FavoriteOps /\ CartValid(r)
      BY <1>1, <1>3 DEF Askable, CartOps, FavoriteOps, Valid
    <2>2. r.op # "ListCarts" => k \in Files["filecarts"]
      BY <1>1, <1>3, <2>1 DEF Askable, CartValid, Creations, CartOps
    <2>3. r.op \in {"CreateCart", "SetCartName", "AddItem"} \/ (r.op = "CopyCart" /\ r.value # Blank)
             => DraftOf(r, k) \in AVU /\ DraftOf(r, k).attr # "favorite"
      <3>1. CASE r.op \in {"CreateCart", "SetCartName", "CopyCart"}
        BY <1>1, <1>3, <2>1, <3>1 DEF Askable, CartValid, DraftOf, NameAVU, AVU
      <3>2. CASE r.op = "AddItem"
        BY <1>1, <1>3, <3>2 DEF Askable, DraftOf, EntryAVU, AVU
      <3>3. QED
        BY <3>1, <3>2
    <2>4. CartFits(FirstCartStage(r.op), r, k, DraftOf(r, k))
      BY <2>1, <2>2, <2>3 DEF CartFits, FirstCartStage, CartOps, Making
    <2>5. QED
      BY <1>3, <2>1, <2>4 DEF Fits, FirstStage
  <1>4. CASE s = "metadata_queries"
    <2>1. r.op \in QueryOps /\ r.op \notin FavoriteOps \cup CartOps /\ QueryValid(r)
      BY <1>1, <1>4 DEF Askable, QueryOps, CartOps, FavoriteOps, Valid
    <2>2. r.op # "ListSavedQueries" => k \in Queries
      BY <1>1, <1>4, <2>1 DEF Askable, QueryValid, QueryOps, Creations, Queries
    <2>3. r.op = "CreateSavedQuery" => /\ DraftOf(r, k) \in Query /\ DraftOf(r, k).id = k
                                       /\ DraftOf(r, k).created = "creation"
      BY <1>1, <1>4, <2>1, <2>2, KeysApart DEF Askable, QueryValid, DraftOf, NewQuery, Query, Queries
    <2>4. QueryFits(FirstQueryStage(r.op), r, k, DraftOf(r, k))
      BY <2>1, <2>2, <2>3 DEF QueryFits, FirstQueryStage, QueryOps, Making
    <2>5. QED
      BY <1>4, <2>1, <2>4 DEF Fits, FirstStage
  <1>5. QED
    BY <1>2, <1>3, <1>4 DEF Services

\* A request that begins, on a request that may be asked of the service.
LEMMA BeginOK ==
    ASSUME DocInv, NEW c \in Caller, pc[c] = "done", NEW r \in Requests[service[c]],
           Begin(c, r), req' = [req EXCEPT ![c] = r] \/ (req' = req /\ r = req[c]),
           UNCHANGED <<service, collections, store, faults>>, edits' \in 0 .. MaxEdits
    PROVE  DocInv'
  <1>1. service[c] \in Services
    BY DEF DocInv, CallersOK
  <1>2. PICK k : /\ r.op \in Creations => k \in Files[service[c]]
                 /\ r.op \notin Creations => k = r.at
                 /\ target' = [target EXCEPT ![c] = k]
                 /\ draft' = [draft EXCEPT ![c] = DraftOf(r, k)]
    BY DEF Begin
  <1>3. Fits(service[c], FirstStage(r.op), r, k, DraftOf(r, k))
    BY <1>1, <1>2, FirstFits DEF Begin
  <1>4. Askable(service[c], r) /\ r # Idle
    BY <1>1, RequestsAsked
  <1>5. k \in Files[service[c]] \cup {None}
    BY <1>1, <1>2, <1>4 DEF Askable, Services
  <1>6. FirstStage(r.op) \in Stages
    BY DEF FirstStage, FirstCartStage, FirstQueryStage, Stages
  <1>7. ASSUME NEW d \in Caller \ {c}
        PROVE  CallerOK(d)'
    BY <1>2, <1>7, OthersOK DEF DocInv, CallersOK, Begin
  <1>8. CallerOK(c)'
    <2>1. /\ pc'[c] = FirstStage(r.op) /\ req'[c] = r /\ target'[c] = k
          /\ draft'[c] = DraftOf(r, k) /\ service'[c] = service[c]
      BY <1>2 DEF DocInv, CallersOK, Begin
    <2>2. QED
      BY <1>3, <1>4, <1>5, <2>1 DEF CallerOK, Begin
  <1>9. CallersOK'
    BY <1>2, <1>6, <1>7, <1>8 DEF DocInv, CallersOK, Begin
  <1>10. BoundsOK'
    BY DEF DocInv, BoundsOK, Begin, Rivals
  <1>11. StoreOK' /\ collections' \subseteq {"root"} \cup Services
    BY DEF DocInv, StoreOK, CreationKept, Readable
  <1>12. used' \subseteq Key
    BY <1>1 DEF DocInv, Begin, Key
  <1>13. QED
    BY <1>9, <1>10, <1>11, <1>12 DEF DocInv

LEMMA StartOK ==
    ASSUME DocInv, NEW c \in Caller, Start(c)
    PROVE  DocInv'
  <1>1. service[c] \in Services /\ pc[c] = "done" /\ edits' \in 0 .. MaxEdits
    BY UserPersistAssumption DEF DocInv, CallersOK, BoundsOK, Start
  <1>2. PICK r \in Requests[service[c]] :
           req' = [req EXCEPT ![c] = r] /\ (Reject(c, r) \/ Begin(c, r))
    BY DEF Start
  <1>3. CASE Begin(c, r)
    BY <1>1, <1>2, <1>3, BeginOK DEF Start
  <1>4. CASE Reject(c, r)
    <2>1. ASSUME NEW d \in Caller \ {c}
          PROVE  CallerOK(d)'
      BY <1>2, <1>4, <2>1, OthersOK DEF DocInv, CallersOK, Reject, Start
    <2>2. CallerOK(c)'
      <3>1. r # Idle
        BY <1>1, RequestsAsked
      <3>2. QED
        BY <1>1, <1>2, <1>4, <3>1 DEF DocInv, CallersOK, CallerOK, Reject, Start
    <2>3. CallersOK'
      BY <1>2, <1>4, <2>1, <2>2 DEF DocInv, CallersOK, Reject, Start, Outcomes
    <2>4. BoundsOK'
      BY <1>1, <1>4 DEF DocInv, BoundsOK, Reject, Start
    <2>5. StoreOK'
      BY DEF DocInv, StoreOK, CreationKept, Readable, Start
    <2>6. QED
      BY <1>4, <2>3, <2>4, <2>5 DEF DocInv, Reject, Start
  <1>5. QED
    BY <1>2, <1>3, <1>4

LEMMA RetryOK ==
    ASSUME DocInv, NEW c \in Caller, Retry(c)
    PROVE  DocInv'
  <1>1. pc[c] = "done" /\ req[c] \in Requests[service[c]]
    BY DEF DocInv, CallersOK, CallerOK, Retry
  <1>2. QED
    BY <1>1, BeginOK DEF DocInv, BoundsOK, Retry

LEMMA FailOK ==
    ASSUME DocInv, NEW c \in Caller, Fail(c)
    PROVE  DocInv'
  <1>1. CallersOK'
    BY FinishOK DEF DocInv, Fail, Calls, Outcomes
  <1>2. BoundsOK' /\ StoreOK'
    BY FaultOK DEF DocInv, Fail, Calls, StoreOK, CreationKept, Readable
  <1>3. QED
    BY <1>1, <1>2 DEF DocInv, Fail, Calls

LEMMA InitOK == Init => DocInv
  <1> SUFFICES ASSUME Init
               PROVE  DocInv
    OBVIOUS
  <1>1. CallersOK
    BY DEF Init, CallersOK, CallerOK, Stages, Outcomes
  <1>2. ASSUME NEW k \in Key
        PROVE  store[k] = None \/ (store[k] \in Stored[k] /\ store[k] \in Document)
    BY UserDocumentsAssumption DEF Init, Key
  <1>3. StoreOK
    <2>1. store \in [Key -> Document \cup {None}]
      BY <1>2 DEF Init
    <2>2. CreationKept
      BY <1>2, KeysApart, UserDocumentsAssumption DEF CreationKept, Readable, Queries
    <2>3. QED
      BY <2>1, <2>2 DEF StoreOK
  <1>4. BoundsOK
    BY UserPersistAssumption DEF Init, BoundsOK
  <1>5. QED
    BY <1>1, <1>3, <1>4 DEF Init, DocInv

LEMMA NextOK == DocInv /\ [Next]_vars => DocInv'
  <1> SUFFICES ASSUME DocInv, [Next]_vars
               PROVE  DocInv'
    OBVIOUS
  <1>1. CASE UNCHANGED vars
    BY <1>1 DEF vars, locals, DocInv, CallersOK, CallerOK, StoreOK, CreationKept, Readable, BoundsOK
  <1>2. ASSUME NEW c \in Caller, Start(c) \/ Retry(c) \/ Step(c) \/ Fail(c)
        PROVE  DocInv'
    BY <1>2, StartOK, RetryOK, FailOK, FavoritesOK, CartsOK, QueriesOK DEF Step
  <1>3. QED
    BY <1>1, <1>2 DEF Next

LEMMA Invariance == Spec => []DocInv
  BY InitOK, NextOK, PTL DEF Spec

-----------------------------------------------------------------------------
(* The theorems.                                                           *)

LEMMA TypesFollow == DocInv => TypeOK
  <1> SUFFICES ASSUME DocInv
               PROVE  TypeOK
    OBVIOUS
  <1>1. ASSUME NEW k \in Key
        PROVE  store[k] = None \/ store[k].body \in Query \cup {Empty}
    BY DEF DocInv, StoreOK, Document
  <1>2. ASSUME NEW c \in Caller, pc[c] = "add"
        PROVE  draft[c] \in AVU /\ ((draft[c].attr = "favorite") <=> (service[c] = "favorites"))
    <2>1. Fits(service[c], "add", req[c], target[c], draft[c]) /\ service[c] \in Services
      BY <1>2, AtWork
    <2>2. QED
      BY <2>1 DEF Fits, FavoriteFits, CartFits, QueryFits, Services, Making
  <1>3. ASSUME NEW c \in Caller, pc[c] = "write"
        PROVE  draft[c] \in Query /\ draft[c].id = target[c]
    <2>1. Fits(service[c], "write", req[c], target[c], draft[c]) /\ service[c] \in Services
      BY <1>3, AtWork
    <2>2. QED
      BY <2>1 DEF Fits, FavoriteFits, CartFits, QueryFits, Services, Making
  <1>4. QED
    BY <1>1, <1>2, <1>3 DEF DocInv, CallersOK, CallerOK, BoundsOK, TypeOK

\* Every caller of the services of ~/.irodsext works only on documents of its
\* own service, and adds or writes only what is valid there.
THEOREM TypeCorrectness == Spec => []TypeOK
  BY Invariance, TypesFollow, PTL

\* However updates of saved queries race, and whatever fails: CreatedAt stays
\* what it was when the query was created.
THEOREM CreationStays == Spec => []CreationKept
  <1>1. DocInv => CreationKept
    BY DEF DocInv, StoreOK
  <1>2. QED
    BY <1>1, Invariance, PTL

-----------------------------------------------------------------------------
(* Files without contents.                                                 *)

\* What a caller does to the saved queries: unless a failure is used up, one
\* that is left empty is still being written.
Harmless(c) ==
    /\ \A d \in Caller \ {c} : pc'[d] = pc[d] /\ target'[d] = target[d]
    /\ faults' = faults \/ (faults > 0 /\ faults' = faults - 1)
    /\ faults' = faults =>
          \A k \in Queries :
             \/ store'[k] = store[k] /\ ~(pc[c] = "write" /\ target[c] = k)
             \/ store'[k] = None \/ store'[k].body # Empty
             \/ pc'[c] = "write" /\ target'[c] = k

LEMMA HarmlessKeeps ==
    ASSUME DocInv, EmptyOnlyByFailure, NEW c \in Caller, Harmless(c)
    PROVE  EmptyOnlyByFailure'
  <1>1. CASE faults' # faults
    BY <1>1, UserPersistAssumption DEF DocInv, BoundsOK, Harmless, EmptyOnlyByFailure
  <1>2. CASE faults' = faults
    <2> SUFFICES ASSUME NEW k \in Queries, store'[k] # None, store'[k].body = Empty,
                        ~(faults' < MaxFaults)
                 PROVE  \E d \in Caller : pc'[d] = "write" /\ target'[d] = k
      BY DEF EmptyOnlyByFailure
    <2>1. CASE store'[k] = store[k] /\ ~(pc[c] = "write" /\ target[c] = k)
      <3>1. PICK d \in Caller : pc[d] = "write" /\ target[d] = k
        BY <1>2, <2>1 DEF EmptyOnlyByFailure
      <3>2. QED
        BY <2>1, <3>1 DEF Harmless
    <2>2. QED
      BY <1>2, <2>1 DEF Harmless
  <1>3. QED
    BY <1>1, <1>2

\* How a caller's own variables change in one call.
OwnStep(c) == \/ \E o \in Outcomes : Finish(c, o)
              \/ \E stage \in Stages : Goto(c, stage) /\ UNCHANGED target
              \/ UNCHANGED <<pc, target>>

LEMMA OwnStepAlone ==
    ASSUME DocInv, NEW c \in Caller, OwnStep(c)
    PROVE  \A d \in Caller \ {c} : pc'[d] = pc[d] /\ target'[d] = target[d]
  BY DEF DocInv, CallersOK, OwnStep, Finish, Goto

LEMMA ReadsHarmless ==
    ASSUME DocInv, NEW c \in Caller, Reads(c), OwnStep(c),
           pc[c] # "write" \/ store[target[c]] = None
    PROVE  Harmless(c)
  BY OwnStepAlone DEF Reads, Harmless

LEMMA AnsweredOwn ==
    ASSUME BoundsOK, NEW c \in Caller, NEW stage \in Stages, Answered(c, stage)
    PROVE  /\ OwnStep(c) /\ (faults' = faults \/ (faults > 0 /\ faults' = faults - 1))
           /\ faults' = faults /\ stage # "done" => pc' = [pc EXCEPT ![c] = stage] /\ target' = target
  BY UserPersistAssumption DEF BoundsOK, Answered, Proceed, OwnStep, Outcomes, Finish, Goto

\* The replaced data object is no saved query, or it has contents or is gone,
\* or its contents follow.
LEMMA ChangeHarmless ==
    ASSUME DocInv, NEW c \in Caller, target[c] \in Key, NEW document, NEW stage \in Stages,
           Change(c, document, stage),
           \/ target[c] \notin Queries /\ pc[c] # "write"
           \/ document = None \/ document.body # Empty \/ stage = "write"
    PROVE  Harmless(c)
  <1>1. /\ OwnStep(c) /\ (faults' = faults \/ (faults > 0 /\ faults' = faults - 1))
        /\ faults' = faults /\ stage # "done" => pc' = [pc EXCEPT ![c] = stage] /\ target' = target
    BY AnsweredOwn DEF Change, DocInv
  <1>2. \A k \in Key : store'[k] = IF k = target[c] THEN document ELSE store[k]
    BY DEF DocInv, StoreOK, Change
  <1>3. Queries \subseteq Key
    BY KeysApart DEF Queries
  <1>4. stage = "write" /\ faults' = faults => pc'[c] = "write" /\ target'[c] = target[c]
    BY <1>1 DEF DocInv, CallersOK
  <1>5. QED
    BY <1>1, <1>2, <1>3, <1>4, OwnStepAlone DEF Harmless

LEMMA EnsureHarmless ==
    ASSUME DocInv, NEW c \in Caller, NEW next \in Stages \ {"done"}, EnsureContext(c, next)
    PROVE  Harmless(c)
  <1>1. pc[c] # "write" /\ store' = store
    BY DEF EnsureContext, Find, Make, Reads, Refused
  <1>2. OwnStep(c) /\ (faults' = faults \/ (faults > 0 /\ faults' = faults - 1))
    <2>1. ASSUME NEW collection, NEW found \in Stages, NEW missing \in Stages,
                 Find(c, collection, found, missing)
          PROVE  OwnStep(c) /\ faults' = faults
      BY <2>1 DEF Find, Proceed, OwnStep, Outcomes, Reads, Goto
    <2>2. ASSUME NEW collection, NEW stage \in Stages, Make(c, collection, stage)
          PROVE  OwnStep(c) /\ (faults' = faults \/ (faults > 0 /\ faults' = faults - 1))
      BY <2>2, AnsweredOwn DEF DocInv, Make, Refused, Reads, OwnStep, Outcomes
    <2>3. QED
      BY <2>1, <2>2 DEF EnsureContext, Stages
  <1>3. QED
    BY <1>1, <1>2, OwnStepAlone DEF Harmless

\* The steps of favorites and carts write to no saved query.
LEMMA OthersHarmless ==
    ASSUME DocInv, NEW c \in Caller, FavoritesStep(c) \/ CartsStep(c)
    PROVE  Harmless(c)
  <1>1. pc[c] # "done" /\ pc[c] # "write"
    BY DEF FavoritesStep, EnsureFile, ListFavoriteAVUs, DeleteFavorite, CartsStep, EnsureCarts,
           EnsureContext, CreateFile, Scan, ReadNames, ReadEach, CopyDataObject, ReadSourceName,
           ListCartAVUs, DeleteCartAVU, DeleteAVU, AddAVU, RemoveFile
  <1>2. Fits(service[c], pc[c], req[c], target[c], draft[c])
    BY <1>1, AtWork
  <1>3. pc[c] \in {"create", "delete", "add", "remove"} => target[c] \in Key \ Queries
    BY <1>2, KeysApart DEF Fits, FavoriteFits, CartFits, FavoritesStep, CartsStep, Making
  <1>4. ASSUME NEW next \in Stages \ {"done"}, EnsureContext(c, next)
        PROVE  Harmless(c)
    BY <1>4, EnsureHarmless
  <1>5. ASSUME NEW next \in Stages, CreateFile(c, next)
        PROVE  Harmless(c)
    BY <1>1, <1>3, <1>5, ChangeHarmless DEF CreateFile
  <1>6. ASSUME OwnStep(c), Reads(c)
        PROVE  Harmless(c)
    BY <1>1, <1>6, ReadsHarmless
  <1>7. ASSUME NEW o \in Outcomes, Refused(c, o)
        PROVE  Harmless(c)
    BY <1>6, <1>7 DEF Refused, OwnStep
  <1>8. ASSUME NEW avus, NEW next \in Stages, DeleteFirst(c, avus, next)
        PROVE  Harmless(c)
    BY <1>6, <1>8 DEF DeleteFirst, OwnStep, Stages
  <1>9. ASSUME NEW next \in Stages, DeleteAVU(c, next)
        PROVE  Harmless(c)
    <2>1. PICK avu \in todo[c] :
             \/ ~Carries(c, avu) /\ Refused(c, "error")
             \/ /\ Carries(c, avu)
                /\ store' = [store EXCEPT ![target[c]].avus = @ \ {avu}]
                /\ \/ \E stage \in Stages : Goto(c, stage) /\ UNCHANGED <<target, faults>>
                   \/ \E o \in Outcomes : Finish(c, o) /\ (faults' = faults \/ (faults > 0 /\ faults' = faults - 1))
      BY <1>9 DEF DeleteAVU, Stages, Outcomes
    <2>2. CASE Refused(c, "error")
      BY <1>7, <2>2 DEF Outcomes
    <2>3. CASE ~Refused(c, "error")
      <3>1. \A k \in Queries : store'[k] = store[k]
        <4>1. target[c] \in Key \ Queries
          BY <1>3, <1>9 DEF DeleteAVU
        <4>2. QED
          BY <2>1, <2>3, <4>1, KeysApart DEF DocInv, StoreOK, Queries
      <3>2. OwnStep(c) /\ (faults' = faults \/ (faults > 0 /\ faults' = faults - 1))
        BY <2>1, <2>3 DEF OwnStep
      <3>3. QED
        BY <1>1, <3>1, <3>2, OwnStepAlone DEF Harmless
    <2>4. QED
      BY <2>2, <2>3
  <1>10. CASE AddAVU(c)
    <2>1. CASE Refused(c, "error")
      BY <1>7, <2>1 DEF Outcomes
    <2>2. CASE ~Refused(c, "error")
      BY <1>1, <1>3, <1>10, <2>2, ChangeHarmless DEF AddAVU, Stages
    <2>3. QED
      BY <2>1, <2>2
  <1>11. CASE RemoveFile(c)
    <2>1. CASE Refused(c, "error")
      BY <1>7, <2>1 DEF Outcomes
    <2>2. CASE ~Refused(c, "error")
      BY <1>1, <1>3, <1>11, <2>2, ChangeHarmless DEF RemoveFile, Stages
    <2>3. QED
      BY <2>1, <2>2
  <1>12. CASE FavoritesStep(c)
    <2>1. CASE ListFavoriteAVUs(c)
      BY <1>7, <1>8, <2>1 DEF ListFavoriteAVUs, Outcomes, Stages
    <2>2. CASE DeleteFavorite(c)
      BY <1>9, <2>2 DEF DeleteFavorite, Stages
    <2>3. QED
      BY <1>4, <1>5, <1>10, <1>12, <2>1, <2>2 DEF FavoritesStep, EnsureFile, Stages
  <1>13. CASE CartsStep(c)
    <2>1. CASE EnsureCarts(c)
      BY <1>4, <1>5, <2>1 DEF EnsureCarts, Stages
    <2>2. CASE Scan(c) \/ ReadNames(c)
      BY <1>6, <2>2 DEF Scan, ReadNames, ReadEach, OwnStep, Outcomes, Stages
    <2>3. CASE CopyDataObject(c)
      <3>1. CASE Refused(c, "error")
        BY <1>7, <3>1 DEF Outcomes
      <3>2. CASE ~Refused(c, "error")
        <4>1. PICK k \in Files["filecarts"], avus \in {store[target[c]].avus, {}} :
                 /\ store' = [store EXCEPT ![k] = [body |-> Empty, avus |-> avus]]
                 /\ \/ /\ target' = [target EXCEPT ![c] = k] /\ UNCHANGED faults
                       /\ Goto(c, IF req[c].value = Blank THEN "name" ELSE "list")
                    \/ faults > 0 /\ faults' = faults - 1 /\ Finish(c, "error")
          BY <2>3, <3>2 DEF CopyDataObject
        <4>2. \A q \in Queries : store'[q] = store[q]
          BY <4>1, KeysApart DEF DocInv, StoreOK, Queries
        <4>3. \A d \in Caller \ {c} : pc'[d] = pc[d] /\ target'[d] = target[d]
          BY <4>1 DEF Goto, Finish, DocInv, CallersOK
        <4>4. QED
          BY <1>1, <4>1, <4>2, <4>3 DEF Harmless
      <3>3. QED
        BY <3>1, <3>2
    <2>4. CASE ReadSourceName(c)
      BY <1>6, <2>4 DEF ReadSourceName, OwnStep, Outcomes, Stages
    <2>5. CASE ListCartAVUs(c)
      BY <1>7, <1>8, <2>5 DEF ListCartAVUs, Outcomes, Stages
    <2>6. CASE DeleteCartAVU(c)
      BY <1>9, <2>6 DEF DeleteCartAVU, Stages
    <2>7. QED
      BY <1>10, <1>11, <1>13, <2>1, <2>2, <2>3, <2>4, <2>5, <2>6 DEF CartsStep
  <1>14. QED
    BY <1>12, <1>13

LEMMA QueriesHarmless ==
    ASSUME DocInv, NEW c \in Caller, QueriesStep(c)
    PROVE  Harmless(c)
  <1>1. pc[c] # "done" /\ service[c] = "metadata_queries"
    BY DEF QueriesStep, EnsureQueries, EnsureContext, CreateFile, Load, WriteFile, RemoveFile, Scan,
           ReadQueries, ReadEach
  <1>2. QueryFits(pc[c], req[c], target[c], draft[c])
    BY <1>1, AtWork DEF Fits
  <1>3. CASE EnsureQueries(c)
    <2>1. CASE CreateFile(c, "write")
      <3>1. target[c] \in Key
        BY <1>2, <2>1, KeysApart DEF QueryFits, CreateFile, Queries
      <3>2. QED
        BY <2>1, <3>1, ChangeHarmless DEF CreateFile, Stages
    <2>2. QED
      BY <1>3, <2>1, EnsureHarmless DEF EnsureQueries, Stages
  <1>4. CASE Load(c)
    BY <1>4, ReadsHarmless DEF Load, OwnStep, Outcomes, Stages
  <1>5. CASE WriteFile(c)
    <2>1. target[c] \in Key /\ draft[c] \in Query
      BY <1>2, <1>5, KeysApart DEF QueryFits, WriteFile, Queries
    <2>2. CASE Missing(c) /\ Refused(c, "error")
      BY <2>2, ReadsHarmless DEF Refused, Missing, OwnStep, Outcomes
    <2>3. CASE ~Missing(c) /\ Change(c, [store[target[c]] EXCEPT !.body = draft[c]], "done")
      <3> DEFINE document == [store[target[c]] EXCEPT !.body = draft[c]]
      <3>1. document.body # Empty
        BY <2>1, <2>3, UserDocumentsAssumption DEF DocInv, StoreOK, Missing, Document, Empty
      <3>2. QED
        BY <2>1, <2>3, <3>1, ChangeHarmless DEF Stages
    <2>4. QED
      BY <1>5, <2>2, <2>3 DEF WriteFile
  <1>6. CASE RemoveFile(c)
    <2>1. target[c] \in Key /\ pc[c] = "remove"
      BY <1>2, <1>6, KeysApart DEF QueryFits, RemoveFile, Queries
    <2>2. CASE Refused(c, "error")
      BY <2>1, <2>2, ReadsHarmless DEF Refused, OwnStep, Outcomes
    <2>3. CASE Change(c, None, "done")
      BY <2>1, <2>3, ChangeHarmless DEF Stages
    <2>4. QED
      BY <1>6, <2>2, <2>3 DEF RemoveFile
  <1>7. CASE Scan(c) \/ ReadQueries(c)
    BY <1>7, ReadsHarmless DEF Scan, ReadQueries, ReadEach, OwnStep, Outcomes, Stages
  <1>8. QED
    BY <1>3, <1>4, <1>5, <1>6, <1>7 DEF QueriesStep

\* No race leaves a saved query without contents, which would make every
\* listing fail: only a caller that is still writing it, or a failure.
THEOREM EmptyNeedsFailure == Spec => []EmptyOnlyByFailure
  <1>1. Init => EmptyOnlyByFailure
    <2> SUFFICES ASSUME Init, NEW k \in Queries, store[k] # None
                 PROVE  store[k].body # Empty
      BY DEF EmptyOnlyByFailure
    <2>1. store[k] \in Stored[k]
      BY KeysApart DEF Init, Queries, Services
    <2>2. QED
      BY <2>1, UserDocumentsAssumption
  <1>2. DocInv /\ EmptyOnlyByFailure /\ [Next]_vars => EmptyOnlyByFailure'
    <2> SUFFICES ASSUME DocInv, EmptyOnlyByFailure, [Next]_vars
                 PROVE  EmptyOnlyByFailure'
      OBVIOUS
    <2>1. CASE UNCHANGED vars
      BY <2>1 DEF vars, locals, EmptyOnlyByFailure
    <2>2. ASSUME NEW c \in Caller, Step(c)
          PROVE  EmptyOnlyByFailure'
      BY <2>2, OthersHarmless, QueriesHarmless, HarmlessKeeps DEF Step
    <2>3. ASSUME NEW c \in Caller, Fail(c)
          PROVE  EmptyOnlyByFailure'
      BY <2>3, UserPersistAssumption DEF Fail, DocInv, BoundsOK, EmptyOnlyByFailure
    <2>4. ASSUME NEW c \in Caller, Start(c) \/ Retry(c)
          PROVE  EmptyOnlyByFailure'
      <3>1. pc[c] = "done" /\ store' = store /\ faults' = faults
        BY <2>4 DEF Start, Retry
      <3>2. \A d \in Caller \ {c} : pc'[d] = pc[d] /\ target'[d] = target[d]
        BY <2>4 DEF Start, Retry, Begin, Reject, DocInv, CallersOK
      <3>3. QED
        BY <3>1, <3>2, HarmlessKeeps DEF Harmless
    <2>5. QED
      BY <2>1, <2>2, <2>3, <2>4 DEF Next
  <1>3. QED
    BY <1>1, <1>2, Invariance, PTL DEF Spec

-----------------------------------------------------------------------------
(* Requests that nobody disturbs.                                          *)

\* What a caller of favorites knows: the AVUs that it listed are those of its
\* path, and once they are deleted there are none.
FavoriteKnows(c) ==
    LET k     == target[c]
        path  == req[c].value.path
        quiet == c \notin disturbed
    IN /\ req[c].op \in {"AddFavorite", "RenameFavorite"} => draft[c] = Encode(req[c].value)
       /\ pc[c] \in {"list", "delete", "add"} => store[k] # None
       /\ pc[c] = "delete" => \A avu \in todo[c] : avu.path = path
       /\ quiet /\ pc[c] = "delete" => todo[c] = FavoritesAt(k, path)
       /\ quiet /\ pc[c] = "add" => FavoritesAt(k, path) = {}

\* What a caller of filecarts is going to write, and where.
CartDrafts(c) ==
    LET op == req[c].op
    IN /\ \/ op \in {"CreateCart", "SetCartName"}
          \/ op = "CopyCart" /\ (req[c].value # Blank \/ pc[c] \in {"list", "delete", "add"})
          => draft[c].attr = "name"
       /\ op = "AddItem" => draft[c].attr = "entry"
       /\ op = "CopyCart" /\ pc[c] \in Making \cup {"copy"} => target[c] = req[c].at

\* What it knows of its cart, and of the one it copies.
CartKnows(c) ==
    LET op     == req[c].op
        k      == target[c]
        source == req[c].at
    IN /\ op = "CreateCart" /\ pc[c] \in Making \cup {"create"} => store[k] = None
       /\ op = "CreateCart" /\ pc[c] = "add" => store[k] # None /\ NamesOf(k) = {}
       /\ op \in {"SetCartName", "CopyCart"} /\ pc[c] = "delete" => todo[c] = NamesOf(k)
       /\ op \in {"SetCartName", "CopyCart"} /\ pc[c] = "add" => NamesOf(k) = {}
       /\ op = "RemoveItem" /\ pc[c] = "delete" => todo[c] = EntriesAt(k, req[c].value)
       /\ pc[c] \in {"delete", "add"} => store[k] # None
       /\ op = "CopyCart" /\ pc[c] \in {"name", "list", "delete", "add"} =>
             /\ store[k] # None /\ store[source] # None /\ k # source
             /\ EntriesOf(k) \subseteq EntriesOf(source)
       /\ pc[c] = "name" => store[k].avus \subseteq store[source].avus

\* The carts that a request is about.
Uses(c) == {target[c], req[c].at} \ {None}

Knows(c) ==
    /\ service[c] = "favorites" /\ pc[c] # "done" => FavoriteKnows(c)
    /\ service[c] = "filecarts" =>
          /\ Uses(c) \subseteq used
          /\ pc[c] # "done" => CartDrafts(c) /\ (c \notin disturbed => CartKnows(c))

\* Unless it is disturbed, nobody works on the same path, or cart, as c.
Apart(c, d) ==
    pc[c] # "done" /\ pc[d] # "done" /\ c \notin disturbed /\ service[c] = service[d] =>
        /\ service[c] = "favorites" => req[c].value.path # req[d].value.path
        /\ service[c] = "filecarts" => Uses(c) \cap Uses(d) = {}

AskedInv ==
    /\ DocInv /\ DOMAIN todo = Caller
    /\ \A k \in Files["filecarts"] \ used : store[k] = None
    /\ \A c \in Caller : Knows(c) /\ \A d \in Caller \ {c} : Apart(c, d) /\ Apart(d, c)

-----------------------------------------------------------------------------
(* A step leaves the variables of the other callers alone.                 *)

Alone(c) ==
    /\ DOMAIN todo' = Caller /\ service' = service
    /\ \A d \in Caller \ {c} : /\ pc'[d] = pc[d] /\ req'[d] = req[d] /\ target'[d] = target[d]
                               /\ draft'[d] = draft[d] /\ todo'[d] = todo[d]

\* In the middle of a request: the request stays, and the history too.
Within(c) == Alone(c) /\ req' = req /\ disturbed' = disturbed

LEMMA FinishWithin ==
    ASSUME AskedInv, NEW c \in Caller, NEW o, Finish(c, o), Calls(c)
    PROVE  Within(c) /\ pc'[c] = "done" /\ target' = target /\ draft' = draft
  BY DEF AskedInv, DocInv, CallersOK, Finish, Calls, Within, Alone

LEMMA GotoWithin ==
    ASSUME AskedInv, NEW c \in Caller, NEW stage, Goto(c, stage), Calls(c),
           UNCHANGED <<req, target, draft>>, todo' = todo \/ \E list : todo' = [todo EXCEPT ![c] = list]
    PROVE  Within(c) /\ pc'[c] = stage
  BY DEF AskedInv, DocInv, CallersOK, Goto, Calls, Within, Alone

\* What was answered: the caller is at the stage, or it failed.
LEMMA AnsweredWithin ==
    ASSUME AskedInv, NEW c \in Caller, NEW stage, Answered(c, stage)
    PROVE  /\ Within(c) /\ target' = target /\ draft' = draft
           /\ pc'[c] = "done" \/ (pc'[c] = stage /\ todo' = todo)
           /\ pc'[c] = "done" /\ out'[c] = "ok" => stage = "done"
  <1>1. CASE Proceed(c, stage) /\ stage # "done"
    BY <1>1, GotoWithin DEF Answered, Proceed
  <1>2. CASE Proceed(c, stage) /\ stage = "done"
    BY <1>2, FinishWithin DEF Answered, Proceed
  <1>3. CASE Finish(c, "error")
    <2>1. out'[c] = "error"
      BY <1>3 DEF Finish, AskedInv, DocInv, CallersOK
    <2>2. QED
      BY <1>3, <2>1, FinishWithin DEF Answered
  <1>4. QED
    BY <1>1, <1>2, <1>3 DEF Answered

LEMMA RefusedWithin ==
    ASSUME AskedInv, NEW c \in Caller, NEW o, Refused(c, o)
    PROVE  /\ Within(c) /\ pc'[c] = "done" /\ out'[c] = o
           /\ UNCHANGED <<target, draft, store, used, collections>>
  BY FinishWithin DEF Refused, Reads, Finish, AskedInv, DocInv, CallersOK

LEMMA EnsureWithin ==
    ASSUME AskedInv, NEW c \in Caller, NEW next \in Stages \ {"done"}, EnsureContext(c, next)
    PROVE  /\ Within(c) /\ pc[c] \in Making /\ pc'[c] \in Making \cup {next, "done"}
           /\ UNCHANGED <<target, draft, store, used>>
           /\ pc'[c] = "done" => out'[c] = "error"
  <1>1. pc[c] \in Making
    BY DEF EnsureContext, Making
  <1>2. ASSUME NEW collection, NEW found \in Making \cup {next}, NEW missing \in Making,
               Find(c, collection, found, missing)
        PROVE  /\ Within(c) /\ pc'[c] \in Making \cup {next} /\ pc'[c] # "done"
               /\ UNCHANGED <<target, draft, store, used>>
    <2> DEFINE stage == IF collection \in collections THEN found ELSE missing
    <2>1. stage # "done" /\ stage \in Making \cup {next}
      BY DEF Making
    <2>2. Goto(c, stage) /\ UNCHANGED <<req, target, draft, todo>> /\ Reads(c)
      BY <1>2, <2>1 DEF Find, Proceed
    <2> HIDE DEF stage
    <2>3. QED
      BY <2>1, <2>2, GotoWithin DEF Reads
  <1>3. ASSUME NEW collection, NEW stage \in Making \cup {next}, Make(c, collection, stage)
        PROVE  /\ Within(c) /\ pc'[c] \in {stage, "done"} /\ UNCHANGED <<target, draft, store, used>>
               /\ pc'[c] = "done" => out'[c] = "error"
    <2>1. CASE Refused(c, "error")
      BY <2>1, RefusedWithin
    <2>2. CASE Answered(c, stage) /\ UNCHANGED <<store, used>>
      <3>1. stage # "done"
        BY DEF Making
      <3>2. out'[c] \in {"ok", "error"} \/ pc'[c] # "done"
        BY <2>2, <3>1 DEF Answered, Finish, Proceed, Goto, AskedInv, DocInv, CallersOK
      <3>3. QED
        BY <2>2, <3>1, <3>2, AnsweredWithin
    <2>3. QED
      BY <1>3, <2>1, <2>2 DEF Make
  <1>4. CASE Find(c, "root", "category", "mkroot")
    BY <1>1, <1>2, <1>4 DEF Making
  <1>5. CASE Make(c, "root", "category")
    BY <1>1, <1>3, <1>5 DEF Making
  <1>6. CASE Find(c, service[c], next, "mkcategory")
    BY <1>1, <1>2, <1>6 DEF Making
  <1>7. CASE Make(c, service[c], next)
    BY <1>1, <1>3, <1>7
  <1>8. QED
    BY <1>4, <1>5, <1>6, <1>7 DEF EnsureContext
-----------------------------------------------------------------------------
(* The steps of a caller of favorites.                                     *)

FavoriteServed(c) ==
    req[c].op # "ListFavorites" /\ c \notin disturbed =>
        FavoritesAt(target[c], req[c].value.path)' =
            IF req[c].op = "RemoveFavorite" THEN {} ELSE {draft[c]}

\* It knows of its own path what it has to, and leaves the AVUs of other paths
\* and other files alone.
FavoriteEffect(c) ==
    /\ Within(c) /\ UNCHANGED <<target, draft, used>>
    /\ pc'[c] # "done" => FavoriteKnows(c)'
    /\ pc'[c] = "done" /\ out'[c] = "ok" => FavoriteServed(c)
    /\ \A k \in Key \ {target[c]} : store'[k] = store[k]
    /\ store[target[c]] # None =>
          /\ store'[target[c]] # None
          /\ \A path : path # req[c].value.path =>
                FavoritesAt(target[c], path)' = FavoritesAt(target[c], path)

\* What is known of the caller before the step.
LEMMA FavoriteAtWork ==
    ASSUME AskedInv, NEW c \in Caller, pc[c] # "done", service[c] = "favorites"
    PROVE  /\ FavoriteKnows(c) /\ target[c] \in Key /\ req[c].op \in FavoriteOps
           /\ FavoriteFits(pc[c], req[c], target[c], draft[c])
  BY AtWork, KeysApart DEF AskedInv, Knows, Fits, FavoriteFits, Askable

\* Where the data stay as they are, so do those of other paths.
LEMMA FavoriteReads ==
    ASSUME AskedInv, NEW c \in Caller, pc[c] # "done", service[c] = "favorites",
           Within(c), UNCHANGED <<target, draft, store, used>>,
           pc'[c] # "done" => FavoriteKnows(c)',
           pc'[c] = "done" /\ out'[c] = "ok" => FavoriteServed(c)
    PROVE  FavoriteEffect(c)
  BY DEF FavoriteEffect, FavoritesAt

LEMMA FavoriteCreates ==
    ASSUME AskedInv, NEW c \in Caller, service[c] = "favorites", EnsureFile(c)
    PROVE  FavoriteEffect(c)
  <1>1. pc[c] # "done" /\ pc[c] \in Making \cup {"create"}
    BY DEF EnsureFile, EnsureContext, CreateFile, Making
  <1>2. FavoriteKnows(c) /\ target[c] \in Key
    BY <1>1, FavoriteAtWork
  <1>3. CASE EnsureContext(c, "create")
    <2>1. /\ Within(c) /\ pc'[c] \in Making \cup {"create", "done"}
          /\ UNCHANGED <<target, draft, store, used>>
          /\ pc'[c] = "done" => out'[c] = "error"
      BY <1>3, EnsureWithin DEF Stages
    <2>2. FavoriteKnows(c)'
      BY <1>2, <2>1 DEF FavoriteKnows, Within, Making
    <2>3. QED
      BY <1>1, <2>1, <2>2, FavoriteReads
  <1>4. CASE CreateFile(c, "list")
    <2> DEFINE document == IF Missing(c) THEN [body |-> Empty, avus |-> {}]
                           ELSE [store[target[c]] EXCEPT !.body = Empty]
    <2>1. store' = [store EXCEPT ![target[c]] = document] /\ used' = used /\ Answered(c, "list")
      BY <1>4 DEF CreateFile, Change
    <2>2. /\ Within(c) /\ UNCHANGED <<target, draft>> /\ pc'[c] \in {"list", "done"}
          /\ ~(pc'[c] = "done" /\ out'[c] = "ok")
      BY <2>1, AnsweredWithin
    <2>3. /\ \A k \in Key : store'[k] = IF k = target[c] THEN document ELSE store[k]
          /\ document \in Document /\ document # None
          /\ store[target[c]] # None => document.avus = store[target[c]].avus
      <3>1. document \in Document
        BY <1>2 DEF AskedInv, DocInv, StoreOK, Missing, Document
      <3>2. store[target[c]] # None => document.avus = store[target[c]].avus
        <4>1. store[target[c]] # None => store[target[c]] \in Document
          BY <1>2 DEF AskedInv, DocInv, StoreOK
        <4>2. QED
          BY <4>1 DEF Missing, Document
      <3> HIDE DEF document
      <3>3. \A k \in Key : store'[k] = IF k = target[c] THEN document ELSE store[k]
        BY <1>2, <2>1 DEF AskedInv, DocInv, StoreOK
      <3>4. QED
        BY <3>1, <3>2, <3>3, UserDocumentsAssumption
    <2> HIDE DEF document
    <2>4. pc'[c] # "done" => FavoriteKnows(c)'
      BY <1>2, <2>2, <2>3 DEF FavoriteKnows, Within
    <2>5. \A path : store[target[c]] # None =>
             FavoritesAt(target[c], path)' = FavoritesAt(target[c], path)
      BY <1>2, <2>2, <2>3 DEF FavoritesAt
    <2>6. QED
      BY <1>2, <2>1, <2>2, <2>3, <2>4, <2>5 DEF FavoriteEffect
  <1>5. QED
    BY <1>3, <1>4 DEF EnsureFile

LEMMA FavoriteLists ==
    ASSUME AskedInv, NEW c \in Caller, service[c] = "favorites", ListFavoriteAVUs(c)
    PROVE  FavoriteEffect(c)
  <1> DEFINE op    == req[c].op
             found == FavoritesAt(target[c], req[c].value.path)
  <1>1. pc[c] = "list" /\ pc[c] # "done"
    BY DEF ListFavoriteAVUs
  <1>2. FavoriteKnows(c) /\ target[c] \in Key
    BY <1>1, FavoriteAtWork
  <1>3. ASSUME NEW o, Refused(c, o), o = "ok" => FavoriteServed(c)
        PROVE  FavoriteEffect(c)
    BY <1>1, <1>3, RefusedWithin, FavoriteReads
  <1>4. ASSUME NEW next \in {"done", "add"}, DeleteFirst(c, found, next), found = {} => next # "done"
        PROVE  FavoriteEffect(c)
    <2> DEFINE stage == IF found = {} THEN next ELSE "delete"
    <2>1. /\ todo' = [todo EXCEPT ![c] = found] /\ Goto(c, stage)
          /\ UNCHANGED <<req, target, draft, out>> /\ Reads(c)
      BY <1>4 DEF DeleteFirst
    <2>2. stage = (IF found = {} THEN "add" ELSE "delete")
      BY <1>4
    <2> HIDE DEF stage
    <2>3. Within(c) /\ pc'[c] = stage
      BY <2>1, GotoWithin DEF Reads
    <2>4. UNCHANGED <<target, draft, store, used>> /\ todo'[c] = found
      BY <2>1 DEF Reads, AskedInv
    <2>5. FavoriteKnows(c)'
      BY <1>1, <1>2, <2>2, <2>3, <2>4 DEF FavoriteKnows, FavoritesAt, Within
    <2>6. QED
      BY <1>1, <2>2, <2>3, <2>4, <2>5, FavoriteReads
  <1>5. ASSUME Refused(c, "ok")
        PROVE  found' = found
    BY <1>5, RefusedWithin DEF FavoritesAt, Within
  <1> HIDE DEF found
  <1>6. CASE op = "ListFavorites" /\ Refused(c, "ok")
    BY <1>3, <1>6 DEF FavoriteServed
  <1>7. CASE op = "AddFavorite" /\ found = {draft[c]} /\ Refused(c, "ok")
    <2>1. FavoriteServed(c)
      BY <1>5, <1>7, RefusedWithin DEF FavoriteServed, found, FavoritesAt, Within
    <2>2. QED
      BY <1>3, <1>7, <2>1
  <1>8. CASE op = "RemoveFavorite" /\ found = {} /\ Refused(c, "ok")
    <2>1. FavoriteServed(c)
      BY <1>5, <1>8, RefusedWithin DEF FavoriteServed, found, FavoritesAt, Within
    <2>2. QED
      BY <1>3, <1>8, <2>1
  <1>9. CASE Refused(c, "notfound")
    BY <1>3, <1>9
  <1>10. CASE DeleteFirst(c, found, "add") \/ (found # {} /\ DeleteFirst(c, found, "done"))
    BY <1>4, <1>10
  <1>11. QED
    BY <1>6, <1>7, <1>8, <1>9, <1>10 DEF ListFavoriteAVUs, found

\* What deleting one AVU does, whatever service asks for it.
LEMMA Deleted ==
    ASSUME AskedInv, NEW c \in Caller, NEW next \in {"done", "add"}, DeleteAVU(c, next),
           target[c] \in Key
    PROVE  /\ Within(c) /\ UNCHANGED <<target, draft, used>>
           /\ \A k \in Key \ {target[c]} : store'[k] = store[k]
           /\ \/ pc'[c] = "done" /\ out'[c] = "error" /\ store' = store
              \/ \E avu \in todo[c] :
                   /\ store[target[c]] # None /\ store'[target[c]] # None
                   /\ store'[target[c]].avus = store[target[c]].avus \ {avu}
                   /\ \/ pc'[c] = "done" /\ out'[c] = "error"
                      \/ pc'[c] = "done" /\ todo[c] = {avu} /\ next = "done"
                      \/ /\ todo[c] = {avu} => next # "done"
                         /\ pc'[c] = IF todo[c] = {avu} THEN next ELSE "delete"
                         /\ todo'[c] = todo[c] \ {avu}
  <1>1. PICK avu \in todo[c] :
           \/ ~Carries(c, avu) /\ Refused(c, "error")
           \/ /\ Carries(c, avu)
              /\ store' = [store EXCEPT ![target[c]].avus = @ \ {avu}]
              /\ UNCHANGED <<collections, used>> /\ Calls(c)
              /\ \/ /\ todo[c] # {avu} \/ next # "done"
                    /\ todo' = [todo EXCEPT ![c] = @ \ {avu}]
                    /\ Goto(c, IF todo[c] = {avu} THEN next ELSE "delete")
                    /\ UNCHANGED <<req, target, draft, out, faults>>
                 \/ todo[c] = {avu} /\ next = "done" /\ Finish(c, "ok") /\ UNCHANGED faults
                 \/ faults > 0 /\ faults' = faults - 1 /\ Finish(c, "error")
    BY DEF DeleteAVU
  <1>2. CASE Refused(c, "error")
    BY <1>2, RefusedWithin
  <1>3. CASE ~Refused(c, "error")
    <2>1. /\ \A k \in Key \ {target[c]} : store'[k] = store[k]
          /\ store[target[c]] # None /\ store'[target[c]] # None
          /\ store'[target[c]].avus = store[target[c]].avus \ {avu}
      <3>1. store[target[c]] # None /\ store[target[c]] \in Document /\ DOMAIN store = Key
        BY <1>1, <1>3 DEF Carries, Missing, AskedInv, DocInv, StoreOK
      <3> DEFINE document == [store[target[c]] EXCEPT !.avus = @ \ {avu}]
      <3>2. document \in Document /\ document.avus = store[target[c]].avus \ {avu}
        BY <3>1 DEF Document
      <3>3. store' = [store EXCEPT ![target[c]] = document]
        BY <1>1, <1>3, <3>1
      <3> HIDE DEF document
      <3>4. QED
        BY <3>1, <3>2, <3>3, UserDocumentsAssumption
    <2>2. CASE Finish(c, "ok") /\ todo[c] = {avu} /\ next = "done"
      BY <1>1, <1>3, <2>1, <2>2, FinishWithin
    <2>3. CASE Finish(c, "error")
      <3>1. out'[c] = "error"
        BY <2>3 DEF Finish, AskedInv, DocInv, CallersOK
      <3>2. QED
        BY <1>1, <1>3, <2>1, <2>3, <3>1, FinishWithin
    <2>4. CASE /\ todo[c] # {avu} \/ next # "done"
               /\ todo' = [todo EXCEPT ![c] = @ \ {avu}]
               /\ Goto(c, IF todo[c] = {avu} THEN next ELSE "delete")
               /\ UNCHANGED <<req, target, draft, out, faults>>
      <3> DEFINE stage == IF todo[c] = {avu} THEN next ELSE "delete"
      <3>1. Goto(c, stage)
        BY <2>4
      <3> HIDE DEF stage
      <3>2. Within(c) /\ pc'[c] = stage
        BY <1>1, <1>3, <2>4, <3>1, GotoWithin
      <3>3. todo'[c] = todo[c] \ {avu}
        BY <2>4 DEF AskedInv
      <3>4. QED
        BY <1>1, <1>3, <2>1, <2>4, <3>2, <3>3 DEF stage
    <2>5. QED
      BY <1>1, <1>3, <2>2, <2>3, <2>4
  <1>4. QED
    BY <1>2, <1>3

\* What adding an AVU does.
LEMMA Added ==
    ASSUME AskedInv, NEW c \in Caller, AddAVU(c), target[c] \in Key, draft[c] \in AVU
    PROVE  /\ Within(c) /\ UNCHANGED <<target, draft, used>> /\ pc'[c] = "done"
           /\ \A k \in Key \ {target[c]} : store'[k] = store[k]
           /\ \/ out'[c] = "error" /\ store' = store
              \/ /\ store[target[c]] # None /\ store'[target[c]] # None
                 /\ store'[target[c]].avus = store[target[c]].avus \cup {draft[c]}
  <1>1. CASE Refused(c, "error")
    BY <1>1, RefusedWithin
  <1>2. CASE ~Refused(c, "error")
    <2> DEFINE document == [store[target[c]] EXCEPT !.avus = @ \cup {draft[c]}]
    <2>1. store[target[c]] # None /\ store[target[c]] \in Document /\ DOMAIN store = Key
      BY <1>2 DEF AddAVU, Missing, AskedInv, DocInv, StoreOK
    <2>2. document.avus = store[target[c]].avus \cup {draft[c]} /\ document # None
      <3>1. document \in Document
        BY <2>1 DEF Document
      <3>2. document.avus = store[target[c]].avus \cup {draft[c]}
        BY <2>1 DEF Document
      <3>3. QED
        BY <3>1, <3>2, UserDocumentsAssumption
    <2>3. store' = [store EXCEPT ![target[c]] = document] /\ used' = used /\ Answered(c, "done")
      BY <1>2 DEF AddAVU, Change
    <2> HIDE DEF document
    <2>4. QED
      BY <2>1, <2>2, <2>3, AnsweredWithin
  <1>3. QED
    BY <1>1, <1>2

LEMMA FavoriteDeletes ==
    ASSUME AskedInv, NEW c \in Caller, service[c] = "favorites", DeleteFavorite(c)
    PROVE  FavoriteEffect(c)
  <1> DEFINE k    == target[c]
             path == req[c].value.path
             next == IF req[c].op = "RemoveFavorite" THEN "done" ELSE "add"
  <1>1. pc[c] = "delete" /\ pc[c] # "done"
    BY DEF DeleteFavorite, DeleteAVU
  <1>2. FavoriteKnows(c) /\ k \in Key /\ req[c].op \in FavoriteOps
    BY <1>1, FavoriteAtWork
  <1>3. /\ store[k] # None /\ \A avu \in todo[c] : avu.path = path
        /\ c \notin disturbed => todo[c] = FavoritesAt(k, path)
    BY <1>1, <1>2 DEF FavoriteKnows
  <1>4. DeleteAVU(c, next) /\ next \in {"done", "add"}
    BY DEF DeleteFavorite
  <1>5. /\ Within(c) /\ UNCHANGED <<target, draft, used>>
        /\ \A j \in Key \ {k} : store'[j] = store[j]
    BY <1>2, <1>4, Deleted
  <1>6. CASE pc'[c] = "done" /\ out'[c] = "error" /\ store' = store
    BY <1>5, <1>6 DEF FavoriteEffect, FavoritesAt
  <1>7. ASSUME NEW avu \in todo[c], store'[k] # None, store'[k].avus = store[k].avus \ {avu},
               \/ pc'[c] = "done" /\ out'[c] = "error"
               \/ pc'[c] = "done" /\ todo[c] = {avu} /\ next = "done"
               \/ /\ todo[c] = {avu} => next # "done"
                  /\ pc'[c] = IF todo[c] = {avu} THEN next ELSE "delete"
                  /\ todo'[c] = todo[c] \ {avu}
        PROVE  FavoriteEffect(c)
    <2>1. FavoritesAt(k, path)' = FavoritesAt(k, path) \ {avu}
      BY <1>5, <1>7 DEF FavoritesAt, Within
    <2>2. ASSUME NEW other, other # path
          PROVE  FavoritesAt(k, other)' = FavoritesAt(k, other)
      BY <1>3, <1>5, <1>7, <2>2 DEF FavoritesAt
    <2>3. pc'[c] # "done" => FavoriteKnows(c)'
      <3> SUFFICES ASSUME pc'[c] # "done"
                   PROVE  FavoriteKnows(c)'
        OBVIOUS
      <3>1. /\ pc'[c] = (IF todo[c] = {avu} THEN "add" ELSE "delete")
            /\ todo'[c] = todo[c] \ {avu}
        BY <1>7
      <3>2. disturbed' = disturbed /\ req' = req /\ target' = target /\ draft' = draft
        BY <1>5 DEF Within
      <3>3. QED
        BY <1>2, <1>3, <1>7, <2>1, <3>1, <3>2 DEF FavoriteKnows
    <2>4. pc'[c] = "done" /\ out'[c] = "ok" => FavoriteServed(c)
      BY <1>3, <1>7, <2>1 DEF FavoriteServed
    <2>5. QED
      BY <1>3, <1>5, <1>7, <2>2, <2>3, <2>4 DEF FavoriteEffect
  <1>8. QED
    BY <1>2, <1>4, <1>6, <1>7, Deleted

LEMMA FavoriteAdds ==
    ASSUME AskedInv, NEW c \in Caller, service[c] = "favorites", AddAVU(c)
    PROVE  FavoriteEffect(c)
  <1> DEFINE k    == target[c]
             path == req[c].value.path
  <1>1. pc[c] = "add" /\ pc[c] # "done"
    BY DEF AddAVU
  <1>2. /\ FavoriteKnows(c) /\ k \in Key
        /\ req[c].op \in {"AddFavorite", "RenameFavorite"} /\ draft[c] \in AVU
    BY <1>1, FavoriteAtWork DEF FavoriteFits
  <1>3. draft[c].path = path /\ (c \notin disturbed => FavoritesAt(k, path) = {})
    BY <1>1, <1>2 DEF FavoriteKnows, Encode
  <1>4. /\ Within(c) /\ UNCHANGED <<target, draft, used>> /\ pc'[c] = "done"
        /\ \A j \in Key \ {k} : store'[j] = store[j]
        /\ \/ out'[c] = "error" /\ store' = store
           \/ /\ store[k] # None /\ store'[k] # None
              /\ store'[k].avus = store[k].avus \cup {draft[c]}
    BY <1>2, Added
  <1>5. CASE out'[c] = "error" /\ store' = store
    BY <1>4, <1>5 DEF FavoriteEffect, FavoritesAt
  <1>6. CASE /\ store[k] # None /\ store'[k] # None
             /\ store'[k].avus = store[k].avus \cup {draft[c]}
    <2>1. FavoritesAt(k, path)' = FavoritesAt(k, path) \cup {draft[c]}
      BY <1>3, <1>4, <1>6 DEF FavoritesAt, Within
    <2>2. ASSUME NEW other, other # path
          PROVE  FavoritesAt(k, other)' = FavoritesAt(k, other)
      BY <1>3, <1>4, <1>6, <2>2 DEF FavoritesAt
    <2>3. FavoriteServed(c)
      BY <1>2, <1>3, <2>1 DEF FavoriteServed
    <2>4. QED
      BY <1>4, <1>6, <2>2, <2>3 DEF FavoriteEffect
  <1>7. QED
    BY <1>4, <1>5, <1>6

LEMMA FavoriteSteps ==
    ASSUME AskedInv, NEW c \in Caller, FavoritesStep(c)
    PROVE  pc[c] # "done" /\ FavoriteEffect(c)
  <1>1. pc[c] # "done"
    BY DEF FavoritesStep, EnsureFile, EnsureContext, CreateFile, ListFavoriteAVUs, DeleteFavorite,
           DeleteAVU, AddAVU
  <1>2. QED
    BY <1>1, FavoriteCreates, FavoriteLists, FavoriteDeletes, FavoriteAdds DEF FavoritesStep
-----------------------------------------------------------------------------
(* The steps of a caller of filecarts.                                     *)

CartServed(c) ==
    LET op == req[c].op
        k  == target[c]
    IN CASE op \in {"CreateCart", "SetCartName"} -> NamesOf(k)' = {draft[c]}
         [] op = "CopyCart" ->
               /\ NamesOf(k)' = IF pc[c] = "name" THEN {} ELSE {draft[c]}
               /\ EntriesOf(k)' \subseteq EntriesOf(req[c].at)
         [] op = "AddItem" -> draft[c] \in EntriesOf(k)'
         [] op = "RemoveItem" -> EntriesAt(k, req[c].value)' = {}
         [] OTHER -> TRUE

\* What the caller itself comes to know.
CartLearns(c) ==
    /\ pc'[c] # "done" => CartDrafts(c)' /\ (c \notin disturbed => CartKnows(c)')
    /\ pc'[c] = "done" /\ out'[c] = "ok" /\ c \notin disturbed => CartServed(c)

\* It changes the carts that it works on, and new ones.
CartEffect(c) ==
    /\ Within(c) /\ CartLearns(c)
    /\ used \subseteq used' /\ \A k \in Files["filecarts"] \ used' : store'[k] = None
    /\ \A k \in Key \ {target[c]} : store'[k] = store[k] \/ k \in Files["filecarts"] \ used
    /\ Uses(c)' \subseteq used' /\ Uses(c)' \subseteq Uses(c) \cup (Files["filecarts"] \ used)

LEMMA CartAtWork ==
    ASSUME AskedInv, NEW c \in Caller, pc[c] # "done", service[c] = "filecarts"
    PROVE  /\ CartDrafts(c) /\ (c \notin disturbed => CartKnows(c))
           /\ CartFits(pc[c], req[c], target[c], draft[c]) /\ req[c].op \in CartOps
           /\ Uses(c) \subseteq used /\ (req[c].op # "ListCarts" => target[c] \in Key \cap used)
  <1>1. /\ CartDrafts(c) /\ (c \notin disturbed => CartKnows(c)) /\ Uses(c) \subseteq used
    BY DEF AskedInv, Knows
  <1>2. CartFits(pc[c], req[c], target[c], draft[c]) /\ req[c].op \in CartOps
    BY AtWork DEF AskedInv, Fits, Askable
  <1>3. req[c].op # "ListCarts" => target[c] \in Key \cap used
    <2>1. req[c].op # "ListCarts" => target[c] \in Key
      BY <1>2, KeysApart DEF CartFits
    <2>2. target[c] \in Key => target[c] # None
      BY UserPersistAssumption
    <2>3. QED
      BY <1>1, <2>1, <2>2 DEF Uses
  <1>4. QED
    BY <1>1, <1>2, <1>3

LEMMA CartReads ==
    ASSUME AskedInv, NEW c \in Caller, pc[c] # "done", service[c] = "filecarts",
           Within(c), UNCHANGED <<target, store, used>>, CartLearns(c)
    PROVE  CartEffect(c)
  BY CartAtWork DEF CartEffect, Within, Uses, AskedInv

LEMMA CartWrites ==
    ASSUME AskedInv, NEW c \in Caller, pc[c] # "done", service[c] = "filecarts",
           target[c] \in Key \cap used,
           Within(c), UNCHANGED <<target, used>>, CartLearns(c),
           \A k \in Key \ {target[c]} : store'[k] = store[k]
    PROVE  CartEffect(c)
  BY CartAtWork, KeysApart DEF CartEffect, Within, Uses, AskedInv

LEMMA CartRefused ==
    ASSUME AskedInv, NEW c \in Caller, pc[c] # "done", service[c] = "filecarts",
           NEW o, Refused(c, o), o = "ok" /\ c \notin disturbed => CartServed(c)
    PROVE  CartEffect(c)
  BY RefusedWithin, CartReads DEF CartLearns

\* Nothing but collections was made: what was known stays known.
LEMMA CartEnsures ==
    ASSUME AskedInv, NEW c \in Caller, service[c] = "filecarts",
           NEW next \in {"create", "scan", "copy"}, EnsureContext(c, next),
           next = "create" <=> req[c].op = "CreateCart", next = "scan" <=> req[c].op = "ListCarts"
    PROVE  CartEffect(c)
  <1>1. /\ Within(c) /\ pc[c] \in Making /\ pc'[c] \in Making \cup {next, "done"}
        /\ UNCHANGED <<target, draft, store, used>>
        /\ pc'[c] = "done" => out'[c] = "error"
    BY EnsureWithin DEF Stages
  <1>2. pc[c] # "done"
    BY <1>1 DEF Making
  <1>3. CartDrafts(c) /\ (c \notin disturbed => CartKnows(c))
    BY <1>2, CartAtWork
  <1>4. CartDrafts(c)'
    BY <1>1, <1>3 DEF CartDrafts, Within, Making
  <1>5. ASSUME c \notin disturbed, pc'[c] # "done"
        PROVE  CartKnows(c)'
    <2>1. pc'[c] \notin {"add", "delete", "name", "list"}
      BY <1>1 DEF Making
    <2>2. pc'[c] \in Making \cup {"create"} => pc[c] \in Making \cup {"create"}
      BY <1>1
    <2>3. req' = req /\ target' = target /\ store' = store
      BY <1>1 DEF Within
    <2>4. QED
      BY <1>3, <1>5, <2>1, <2>2, <2>3 DEF CartKnows
  <1>6. QED
    BY <1>1, <1>2, <1>4, <1>5, CartReads DEF CartLearns

LEMMA CartCreates ==
    ASSUME AskedInv, NEW c \in Caller, service[c] = "filecarts", CreateFile(c, "add")
    PROVE  CartEffect(c)
  <1> DEFINE k == target[c]
             document == IF Missing(c) THEN [body |-> Empty, avus |-> {}]
                         ELSE [store[k] EXCEPT !.body = Empty]
  <1>1. pc[c] = "create" /\ pc[c] # "done"
    BY DEF CreateFile
  <1>2. /\ CartDrafts(c) /\ (c \notin disturbed => CartKnows(c)) /\ req[c].op = "CreateCart"
        /\ k \in Key \cap used
    BY <1>1, CartAtWork DEF CartFits
  <1>3. store' = [store EXCEPT ![k] = document] /\ used' = used /\ Answered(c, "add")
    BY DEF CreateFile, Change
  <1>4. /\ Within(c) /\ UNCHANGED <<target, draft>> /\ pc'[c] \in {"add", "done"}
        /\ ~(pc'[c] = "done" /\ out'[c] = "ok")
    BY <1>3, AnsweredWithin
  <1>5. document \in Document
    BY <1>2 DEF AskedInv, DocInv, StoreOK, Missing, Document
  <1>6. c \notin disturbed => document.avus = {}
    BY <1>1, <1>2 DEF CartKnows, Missing
  <1> HIDE DEF document
  <1>7. \A j \in Key : store'[j] = IF j = k THEN document ELSE store[j]
    BY <1>2, <1>3 DEF AskedInv, DocInv, StoreOK
  <1>8. CartDrafts(c)'
    BY <1>1, <1>2, <1>4 DEF CartDrafts, Within, Making
  <1>9. ASSUME c \notin disturbed, pc'[c] = "add"
        PROVE  CartKnows(c)'
    <2>1. (store[k] # None)' /\ NamesOf(k)' = {}
      BY <1>2, <1>4, <1>5, <1>6, <1>7, <1>9, UserDocumentsAssumption DEF NamesOf
    <2>2. QED
      BY <1>2, <1>4, <1>9, <2>1 DEF CartKnows, Within, Making
  <1>10. QED
    BY <1>1, <1>2, <1>3, <1>4, <1>7, <1>8, <1>9, CartWrites DEF CartLearns

\* Listing and reading the carts is nothing that any property is about.
LEMMA CartScans ==
    ASSUME AskedInv, NEW c \in Caller, service[c] = "filecarts", Scan(c) \/ ReadNames(c)
    PROVE  CartEffect(c)
  <1>1. pc[c] \in {"scan", "read"} /\ pc[c] # "done"
    BY DEF Scan, ReadNames, ReadEach
  <1>2. req[c].op = "ListCarts"
    BY <1>1, CartAtWork DEF CartFits
  <1>3. Reads(c) /\ UNCHANGED <<req, target, draft>>
    BY DEF Scan, ReadNames, ReadEach, Finish
  <1>4. Within(c) /\ pc'[c] \in {"done", "read"}
    BY <1>1 DEF AskedInv, DocInv, CallersOK, Scan, ReadNames, ReadEach, Finish, Goto, Reads, Calls,
                Within, Alone
  <1>5. CartLearns(c)
    BY <1>2, <1>3, <1>4 DEF CartLearns, CartDrafts, CartKnows, CartServed
  <1>6. QED
    BY <1>1, <1>3, <1>4, <1>5, CartReads DEF Reads

LEMMA CartCopies ==
    ASSUME AskedInv, NEW c \in Caller, service[c] = "filecarts", CopyDataObject(c)
    PROVE  CartEffect(c)
  <1> DEFINE source == target[c]
  <1>1. pc[c] = "copy" /\ pc[c] # "done"
    BY DEF CopyDataObject
  <1>2. /\ CartDrafts(c) /\ req[c].op = "CopyCart" /\ source = req[c].at
        /\ source \in Key \cap used /\ Uses(c) \subseteq used
    BY <1>1, CartAtWork DEF CartFits, CartDrafts
  <1>3. CASE Refused(c, "error")
    BY <1>1, <1>3, CartRefused
  <1>4. CASE ~Refused(c, "error")
    <2>1. ~Missing(c)
      BY <1>4 DEF CopyDataObject
    <2>2. PICK k \in Files["filecarts"] \ used, avus \in {store[source].avus, {}} :
             /\ store' = [store EXCEPT ![k] = [body |-> Empty, avus |-> avus]]
             /\ used' = used \cup {k}
             /\ UNCHANGED collections /\ Calls(c)
             /\ \/ /\ target' = [target EXCEPT ![c] = k]
                   /\ Goto(c, IF req[c].value = Blank THEN "name" ELSE "list")
                   /\ UNCHANGED <<req, draft, todo, out, faults>>
                \/ faults > 0 /\ faults' = faults - 1 /\ Finish(c, "error")
      BY <1>4 DEF CopyDataObject
    <2>3. k \in Key /\ k # source /\ k # None
      BY <1>2, KeysApart, UserPersistAssumption
    <2> DEFINE document == [body |-> Empty, avus |-> avus]
    <2>4. document # None /\ document.avus = avus
      <3>1. store[source] \in Document
        BY <1>2, <2>1 DEF AskedInv, DocInv, StoreOK, Missing
      <3>2. document \in Document
        BY <3>1 DEF Document
      <3>3. QED
        BY <3>2, UserDocumentsAssumption
    <2>5. \A j \in Key : store'[j] = IF j = k THEN document ELSE store[j]
      BY <2>2, <2>3 DEF AskedInv, DocInv, StoreOK
    <2> HIDE DEF document
    <2>6. CASE Finish(c, "error")
      <3>1. /\ Within(c) /\ pc'[c] = "done" /\ out'[c] = "error" /\ UNCHANGED <<target, draft>>
        BY <2>2, <2>6, FinishWithin DEF Finish, AskedInv, DocInv, CallersOK
      <3>2. CartLearns(c) /\ Uses(c)' = Uses(c)
        BY <3>1 DEF CartLearns, Uses, Within
      <3>3. QED
        BY <1>2, <2>2, <2>5, <3>1, <3>2, KeysApart DEF CartEffect, AskedInv
    <2>7. CASE /\ target' = [target EXCEPT ![c] = k]
               /\ Goto(c, IF req[c].value = Blank THEN "name" ELSE "list")
               /\ UNCHANGED <<req, draft, todo, out, faults>>
      <3> DEFINE stage == IF req[c].value = Blank THEN "name" ELSE "list"
      <3>1. Goto(c, stage)
        BY <2>7
      <3>2. /\ Within(c) /\ pc'[c] = stage /\ target'[c] = k /\ req' = req /\ draft' = draft
        BY <2>2, <2>7, <3>1 DEF Calls, Goto, AskedInv, DocInv, CallersOK, Within, Alone
      <3>3. Uses(c)' \subseteq used' /\ Uses(c)' \subseteq Uses(c) \cup (Files["filecarts"] \ used)
        BY <1>2, <2>2, <3>2 DEF Uses
      <3>4. CartDrafts(c)'
        BY <1>1, <1>2, <3>2 DEF CartDrafts, Making
      <3>5. CartKnows(c)'
        <4>1. /\ (store[target[c]])' = document /\ (store[req[c].at])' = store[source]
              /\ store[source] # None
          BY <1>2, <2>1, <2>3, <2>5, <3>2 DEF Missing
        <4>2. (target[c] # req[c].at)' /\ document.avus \subseteq store[source].avus
          BY <1>2, <2>2, <2>3, <2>4, <3>2
        <4>3. /\ EntriesOf(target[c])' \subseteq EntriesOf(req[c].at)'
              /\ (store[target[c]].avus)' \subseteq (store[req[c].at].avus)'
          BY <4>1, <4>2 DEF EntriesOf
        <4>4. QED
          BY <1>2, <2>4, <3>2, <4>1, <4>2, <4>3 DEF CartKnows, Making
      <3>6. CartLearns(c)
        BY <3>2, <3>4, <3>5 DEF CartLearns
      <3>7. QED
        BY <1>2, <2>2, <2>5, <3>2, <3>3, <3>6, KeysApart DEF CartEffect, AskedInv
    <2>8. QED
      BY <2>2, <2>6, <2>7
  <1>5. QED
    BY <1>3, <1>4

LEMMA CartReadsName ==
    ASSUME AskedInv, NEW c \in Caller, service[c] = "filecarts", ReadSourceName(c)
    PROVE  CartEffect(c)
  <1> DEFINE source == req[c].at
             k      == target[c]
  <1>1. pc[c] = "name" /\ pc[c] # "done" /\ Reads(c)
    BY DEF ReadSourceName
  <1>2. /\ CartDrafts(c) /\ req[c].op = "CopyCart" /\ (c \notin disturbed => CartKnows(c))
        /\ k \in Key \cap used
    BY <1>1, CartAtWork DEF CartFits
  <1>3. c \notin disturbed => store[k].avus \subseteq store[source].avus
                              /\ EntriesOf(k) \subseteq EntriesOf(source)
    BY <1>1, <1>2 DEF CartKnows
  <1>4. CASE Refused(c, "error")
    BY <1>1, <1>4, CartRefused
  <1>5. CASE NamesOf(source) = {} /\ Refused(c, "ok")
    <2>1. UNCHANGED <<req, target, store>>
      BY <1>5, RefusedWithin DEF Within
    <2>2. c \notin disturbed => NamesOf(k) = {}
      BY <1>3, <1>5 DEF NamesOf
    <2>3. c \notin disturbed => CartServed(c)
      <3>1. NamesOf(k)' = NamesOf(k) /\ EntriesOf(k)' = EntriesOf(k)
        BY <2>1 DEF NamesOf, EntriesOf
      <3>2. QED
        BY <1>1, <1>2, <1>3, <2>2, <3>1 DEF CartServed
    <2>4. QED
      BY <1>1, <1>5, <2>3, CartRefused
  <1>6. CASE /\ \E avu \in NamesOf(source) : draft' = [draft EXCEPT ![c] = avu]
             /\ Goto(c, "list") /\ UNCHANGED <<req, target, todo, out>>
    <2>1. PICK avu \in NamesOf(source) : draft' = [draft EXCEPT ![c] = avu]
      BY <1>6
    <2>2. Within(c) /\ pc'[c] = "list" /\ draft'[c] = avu
      BY <1>1, <1>6, <2>1 DEF Reads, Calls, Goto, AskedInv, DocInv, CallersOK, Within, Alone
    <2>3. CartDrafts(c)'
      BY <1>2, <1>6, <2>2 DEF CartDrafts, NamesOf, Making
    <2>4. c \notin disturbed => CartKnows(c)'
      BY <1>1, <1>2, <1>6, <2>2 DEF CartKnows, Reads, EntriesOf, Making
    <2>5. CartLearns(c)
      BY <2>2, <2>3, <2>4 DEF CartLearns
    <2>6. QED
      BY <1>1, <1>6, <2>2, <2>5, CartReads DEF Reads
  <1>7. QED
    BY <1>1, <1>4, <1>5, <1>6 DEF ReadSourceName, Refused

LEMMA CartLists ==
    ASSUME AskedInv, NEW c \in Caller, service[c] = "filecarts", ListCartAVUs(c)
    PROVE  CartEffect(c)
  <1> DEFINE op   == req[c].op
             k    == target[c]
             item == req[c].value
  <1>1. pc[c] = "list" /\ pc[c] # "done"
    BY DEF ListCartAVUs
  <1>2. /\ CartDrafts(c) /\ (c \notin disturbed => CartKnows(c)) /\ k \in Key \cap used
        /\ op \in {"SetCartName", "CopyCart", "AddItem", "RemoveItem", "ListItems"}
    BY <1>1, CartAtWork DEF CartFits
  <1>3. CASE Refused(c, "error")
    BY <1>1, <1>3, CartRefused
  <1>4. CASE /\ Refused(c, "ok")
             /\ \/ op = "ListItems"
                \/ op = "AddItem" /\ draft[c] \in EntriesOf(k)
                \/ op = "RemoveItem" /\ EntriesAt(k, item) = {}
    <2>1. /\ EntriesOf(k)' = EntriesOf(k) /\ EntriesAt(k, item)' = EntriesAt(k, item)
      BY <1>4, RefusedWithin DEF EntriesOf, EntriesAt, Within
    <2>2. CartServed(c)
      BY <1>4, <2>1 DEF CartServed
    <2>3. QED
      BY <1>1, <1>4, <2>2, CartRefused
  <1>5. ASSUME NEW avus, NEW next \in {"done", "add"}, DeleteFirst(c, avus, next), ~Missing(c),
               \/ op \in {"SetCartName", "CopyCart"} /\ avus = NamesOf(k) /\ next = "add"
               \/ op = "AddItem" /\ avus = {} /\ next = "add"
               \/ op = "RemoveItem" /\ avus = EntriesAt(k, item) /\ avus # {}
        PROVE  CartEffect(c)
    <2> DEFINE stage == IF avus = {} THEN next ELSE "delete"
    <2>1. /\ todo' = [todo EXCEPT ![c] = avus] /\ Goto(c, stage)
          /\ UNCHANGED <<req, target, draft, out>> /\ Reads(c)
      BY <1>5 DEF DeleteFirst
    <2>2. stage = (IF avus = {} THEN "add" ELSE "delete")
      BY <1>5
    <2> HIDE DEF stage
    <2>3. Within(c) /\ pc'[c] = stage /\ UNCHANGED <<store, used>> /\ todo'[c] = avus
      BY <2>1, GotoWithin DEF Reads, AskedInv
    <2>4. CartDrafts(c)'
      BY <1>1, <1>2, <2>1, <2>2, <2>3 DEF CartDrafts, Making
    <2>5. c \notin disturbed => CartKnows(c)'
      <3> SUFFICES ASSUME c \notin disturbed
                   PROVE  CartKnows(c)'
        OBVIOUS
      <3>1. CartKnows(c)
        BY <1>2
      <3>2. op = "CopyCart" => /\ (store[target[c]] # None /\ store[req[c].at] # None)'
                               /\ (target[c] # req[c].at)'
                               /\ EntriesOf(target[c])' \subseteq EntriesOf(req[c].at)'
        BY <1>1, <2>1, <2>3, <3>1 DEF CartKnows, EntriesOf
      <3>3. (store[target[c]] # None)' /\ NamesOf(target[c])' = NamesOf(k)
            /\ EntriesAt(target[c], item)' = EntriesAt(k, item)
        BY <1>5, <2>1, <2>3 DEF Missing, NamesOf, EntriesOf, EntriesAt
      <3>4. pc'[c] \in {"add", "delete"} /\ pc'[c] \notin Making \cup {"create", "name", "list"}
        BY <2>2, <2>3 DEF Making
      <3>5. req'[c] = req[c] /\ target'[c] = k
        BY <2>1
      <3>6. QED
        BY <1>5, <2>2, <2>3, <3>2, <3>3, <3>4, <3>5 DEF CartKnows
    <2>6. CartLearns(c)
      BY <2>2, <2>3, <2>4, <2>5 DEF CartLearns
    <2>7. QED
      BY <1>1, <2>1, <2>3, <2>6, CartReads
  <1>6. CASE Missing(c)
    BY <1>3, <1>6 DEF ListCartAVUs
  <1>7. CASE ~Missing(c) /\ op \in {"SetCartName", "CopyCart"}
    <2>1. DeleteFirst(c, NamesOf(k), "add")
      BY <1>7 DEF ListCartAVUs
    <2>2. QED
      BY <1>5, <1>7, <2>1
  <1>8. CASE ~Missing(c) /\ op = "AddItem"
    <2>1. CASE draft[c] \in EntriesOf(k)
      BY <1>4, <1>8, <2>1 DEF ListCartAVUs
    <2>2. CASE draft[c] \notin EntriesOf(k)
      BY <1>5, <1>8, <2>2 DEF ListCartAVUs
    <2>3. QED
      BY <2>1, <2>2
  <1>9. CASE ~Missing(c) /\ op = "RemoveItem"
    <2>1. CASE EntriesAt(k, item) = {}
      <3>1. Refused(c, "ok")
        BY <1>9, <2>1 DEF ListCartAVUs
      <3>2. QED
        BY <1>4, <1>9, <2>1, <3>1
    <2>2. CASE EntriesAt(k, item) # {}
      <3>1. DeleteFirst(c, EntriesAt(k, item), "done")
        BY <1>9, <2>2 DEF ListCartAVUs
      <3>2. QED
        BY <1>5, <1>9, <2>2, <3>1
    <2>3. QED
      BY <2>1, <2>2
  <1>10. CASE ~Missing(c) /\ op = "ListItems"
    <2>1. Refused(c, "ok")
      BY <1>10 DEF ListCartAVUs
    <2>2. QED
      BY <1>4, <1>10, <2>1
  <1>11. QED
    BY <1>2, <1>6, <1>7, <1>8, <1>9, <1>10

LEMMA CartDeletes ==
    ASSUME AskedInv, NEW c \in Caller, service[c] = "filecarts", DeleteCartAVU(c)
    PROVE  CartEffect(c)
  <1> DEFINE op     == req[c].op
             k      == target[c]
             source == req[c].at
             item   == req[c].value
             next   == IF op = "RemoveItem" THEN "done" ELSE "add"
  <1>1. pc[c] = "delete" /\ pc[c] # "done"
    BY DEF DeleteCartAVU, DeleteAVU
  <1>2. /\ CartDrafts(c) /\ (c \notin disturbed => CartKnows(c)) /\ k \in Key \cap used
        /\ op \in {"SetCartName", "CopyCart", "RemoveItem"} /\ Uses(c) \subseteq used
    BY <1>1, CartAtWork DEF CartFits
  <1>3. DeleteAVU(c, next) /\ next \in {"done", "add"}
    BY DEF DeleteCartAVU
  <1>4. /\ Within(c) /\ UNCHANGED <<target, draft, used>>
        /\ \A j \in Key \ {k} : store'[j] = store[j]
    BY <1>2, <1>3, Deleted
  <1>5. CASE pc'[c] = "done" /\ out'[c] = "error"
    BY <1>1, <1>2, <1>4, <1>5, CartWrites DEF CartLearns
  <1>6. ASSUME NEW avu \in todo[c], store'[k] # None, store'[k].avus = store[k].avus \ {avu},
               \/ pc'[c] = "done" /\ todo[c] = {avu} /\ next = "done"
               \/ /\ todo[c] = {avu} => next # "done"
                  /\ pc'[c] = IF todo[c] = {avu} THEN next ELSE "delete"
                  /\ todo'[c] = todo[c] \ {avu}
        PROVE  CartEffect(c)
    <2>1. /\ NamesOf(k)' = NamesOf(k) \ {avu} /\ EntriesOf(k)' = EntriesOf(k) \ {avu}
          /\ EntriesAt(k, item)' = EntriesAt(k, item) \ {avu}
      BY <1>4, <1>6 DEF NamesOf, EntriesOf, EntriesAt, Within
    <2>2. pc'[c] = "done" => op = "RemoveItem" /\ todo[c] = {avu}
      BY <1>6
    <2>3. pc'[c] = "done" /\ c \notin disturbed => CartServed(c)
      <3>1. op = "RemoveItem" /\ c \notin disturbed => todo[c] = EntriesAt(k, item)
        BY <1>1, <1>2 DEF CartKnows
      <3>2. QED
        BY <2>1, <2>2, <3>1 DEF CartServed
    <2>4. ASSUME pc'[c] # "done"
          PROVE  CartDrafts(c)' /\ (c \notin disturbed => CartKnows(c)')
      <3>1. /\ pc'[c] = (IF todo[c] = {avu} THEN next ELSE "delete")
            /\ todo'[c] = todo[c] \ {avu} /\ (todo[c] = {avu} => next = "add")
            /\ pc'[c] \notin Making \cup {"create", "name", "list", "copy"}
        BY <1>6, <2>4 DEF Making
      <3>2. req' = req /\ target' = target /\ draft' = draft
        BY <1>4 DEF Within
      <3>3. CartDrafts(c)'
        BY <1>1, <1>2, <3>1, <3>2 DEF CartDrafts, Making
      <3>4. ASSUME c \notin disturbed
            PROVE  CartKnows(c)'
        <4>1. /\ op \in {"SetCartName", "CopyCart"} => todo[c] = NamesOf(k)
              /\ op = "RemoveItem" => todo[c] = EntriesAt(k, item)
              /\ op = "CopyCart" => /\ store[source] # None /\ k # source
                                    /\ EntriesOf(k) \subseteq EntriesOf(source)
          BY <1>1, <1>2, <3>4 DEF CartKnows
        <4>2. op = "CopyCart" => source \in Key /\ store'[source] = store[source]
          <5>1. op = "CopyCart" => source \in Key
            BY <1>1, AtWork DEF AskedInv, Valid, CartValid, Askable, FavoriteOps, CartOps, Key,
                                Services
          <5>2. QED
            BY <1>4, <4>1, <5>1
        <4>3. op = "CopyCart" => EntriesOf(source)' = EntriesOf(source)
          BY <3>2, <4>2 DEF EntriesOf
        <4>4. op = "CopyCart" => EntriesOf(target[c])' \subseteq EntriesOf(req[c].at)'
          BY <2>1, <3>2, <4>1, <4>3
        <4>5. /\ todo[c] = {avu} /\ op \in {"SetCartName", "CopyCart"} => NamesOf(target[c])' = {}
              /\ op \in {"SetCartName", "CopyCart"} => todo'[c] = NamesOf(target[c])'
              /\ op = "RemoveItem" => todo'[c] = EntriesAt(target[c], req[c].value)'
          BY <2>1, <3>1, <3>2, <4>1
        <4>6. QED
          BY <1>2, <1>6, <3>1, <3>2, <4>1, <4>2, <4>4, <4>5 DEF CartKnows
      <3>5. QED
        BY <3>3, <3>4
    <2>5. CartLearns(c)
      BY <2>3, <2>4 DEF CartLearns
    <2>6. QED
      BY <1>1, <1>2, <1>4, <2>5, CartWrites
  <1>7. QED
    BY <1>2, <1>3, <1>5, <1>6, Deleted

LEMMA CartAdds ==
    ASSUME AskedInv, NEW c \in Caller, service[c] = "filecarts", AddAVU(c)
    PROVE  CartEffect(c)
  <1> DEFINE op == req[c].op
             k  == target[c]
  <1>1. pc[c] = "add" /\ pc[c] # "done"
    BY DEF AddAVU
  <1>2. /\ CartDrafts(c) /\ (c \notin disturbed => CartKnows(c)) /\ k \in Key \cap used
        /\ op \in {"CreateCart", "SetCartName", "CopyCart", "AddItem"} /\ draft[c] \in AVU
    BY <1>1, CartAtWork DEF CartFits
  <1>3. /\ Within(c) /\ UNCHANGED <<target, draft, used>> /\ pc'[c] = "done"
        /\ \A j \in Key \ {k} : store'[j] = store[j]
        /\ \/ out'[c] = "error" /\ store' = store
           \/ /\ store[k] # None /\ store'[k] # None
              /\ store'[k].avus = store[k].avus \cup {draft[c]}
    BY <1>2, Added
  <1>4. CASE out'[c] = "error"
    BY <1>1, <1>2, <1>3, <1>4, CartWrites DEF CartLearns
  <1>5. ASSUME store'[k].avus = store[k].avus \cup {draft[c]}, c \notin disturbed
        PROVE  CartServed(c)
    <2>1. CASE op = "AddItem"
      <3>1. draft[c].attr = "entry"
        BY <1>2, <2>1 DEF CartDrafts
      <3>2. draft[c] \in EntriesOf(k)'
        BY <1>3, <1>5, <3>1 DEF EntriesOf
      <3>3. QED
        BY <2>1, <3>2 DEF CartServed
    <2>2. CASE op # "AddItem"
      <3>1. draft[c].attr = "name" /\ NamesOf(k) = {}
        BY <1>1, <1>2, <1>5, <2>2 DEF CartDrafts, CartKnows
      <3>2. NamesOf(k)' = {draft[c]} /\ EntriesOf(k)' = EntriesOf(k)
        BY <1>3, <1>5, <3>1 DEF NamesOf, EntriesOf
      <3>3. op = "CopyCart" => EntriesOf(k) \subseteq EntriesOf(req[c].at)
        BY <1>1, <1>2, <1>5 DEF CartKnows
      <3>4. QED
        BY <1>1, <1>2, <2>2, <3>2, <3>3 DEF CartServed
    <2>3. QED
      BY <2>1, <2>2
  <1>6. QED
    BY <1>1, <1>2, <1>3, <1>4, <1>5, CartWrites DEF CartLearns

LEMMA CartRemoves ==
    ASSUME AskedInv, NEW c \in Caller, service[c] = "filecarts", RemoveFile(c)
    PROVE  CartEffect(c)
  <1>1. pc[c] = "remove" /\ pc[c] # "done"
    BY DEF RemoveFile
  <1>2. req[c].op = "DeleteCart" /\ target[c] \in Key \cap used
    BY <1>1, CartAtWork DEF CartFits
  <1>3. CASE Refused(c, "error")
    BY <1>1, <1>3, CartRefused
  <1>4. CASE Change(c, None, "done")
    <2>1. Within(c) /\ UNCHANGED <<target, used>> /\ pc'[c] = "done"
      BY <1>4, AnsweredWithin DEF Change
    <2>2. \A k \in Key \ {target[c]} : store'[k] = store[k]
      BY <1>4 DEF Change, AskedInv, DocInv, StoreOK
    <2>3. CartLearns(c)
      BY <1>2, <2>1 DEF CartLearns, CartServed
    <2>4. QED
      BY <1>1, <1>2, <2>1, <2>2, <2>3, CartWrites
  <1>5. QED
    BY <1>3, <1>4 DEF RemoveFile

LEMMA CartSteps ==
    ASSUME AskedInv, NEW c \in Caller, CartsStep(c)
    PROVE  pc[c] # "done" /\ CartEffect(c)
  <1>1. pc[c] # "done" /\ service[c] = "filecarts"
    BY DEF CartsStep, EnsureCarts, EnsureContext, CreateFile, Scan, ReadNames, ReadEach,
           CopyDataObject, ReadSourceName, ListCartAVUs, DeleteCartAVU, DeleteAVU, AddAVU, RemoveFile
  <1>2. CASE EnsureCarts(c)
    <2>1. CASE CreateFile(c, "add")
      BY <1>1, <2>1, CartCreates
    <2>2. CASE ~CreateFile(c, "add")
      <3>1. CASE req[c].op = "CreateCart"
        BY <1>1, <1>2, <2>2, <3>1, CartEnsures DEF EnsureCarts
      <3>2. CASE req[c].op = "ListCarts"
        BY <1>1, <1>2, <2>2, <3>2, CartEnsures DEF EnsureCarts
      <3>3. CASE req[c].op \notin {"CreateCart", "ListCarts"}
        BY <1>1, <1>2, <2>2, <3>3, CartEnsures DEF EnsureCarts
      <3>4. QED
        BY <3>1, <3>2, <3>3
    <2>3. QED
      BY <2>1, <2>2
  <1>3. QED
    BY <1>1, <1>2, CartScans, CartCopies, CartReadsName, CartLists, CartDeletes, CartAdds,
       CartRemoves DEF CartsStep
-----------------------------------------------------------------------------
(* What a step does to the other callers, and the invariant.               *)

\* What a caller knows stays true while nobody touches what it is about.
LEMMA OtherKnows ==
    ASSUME AskedInv, NEW c \in Caller, NEW d \in Caller \ {c}, Alone(c), used \subseteq used',
           d \in disturbed => d \in disturbed',
           service[d] = "favorites" /\ pc[d] # "done" /\ store[target[d]] # None =>
              /\ store'[target[d]] # None
              /\ d \notin disturbed' =>
                    FavoritesAt(target[d], req[d].value.path)' = FavoritesAt(target[d], req[d].value.path),
           service[d] = "filecarts" /\ pc[d] # "done" /\ d \notin disturbed' =>
              \A k \in Uses(d) : store'[k] = store[k]
    PROVE  Knows(d)'
  <1>1. /\ pc'[d] = pc[d] /\ req'[d] = req[d] /\ target'[d] = target[d]
        /\ draft'[d] = draft[d] /\ todo'[d] = todo[d] /\ service' = service
    BY DEF Alone
  <1>2. Knows(d)
    BY DEF AskedInv
  <1>3. ASSUME service[d] = "favorites", pc[d] # "done"
        PROVE  FavoriteKnows(d)'
    BY <1>1, <1>2, <1>3 DEF Knows, FavoriteKnows
  <1>4. ASSUME service[d] = "filecarts", pc[d] # "done"
        PROVE  CartDrafts(d)'
    BY <1>1, <1>2, <1>4 DEF Knows, CartDrafts
  <1>5. ASSUME service[d] = "filecarts", pc[d] # "done", d \notin disturbed'
        PROVE  CartKnows(d)'
    <2>1. CartKnows(d) /\ CartFits(pc[d], req[d], target[d], draft[d])
      BY <1>2, <1>5, CartAtWork DEF Knows
    <2>2. CASE req[d].op = "ListCarts"
      <3>1. pc[d] \notin {"add", "delete", "name", "list"}
        BY <2>1, <2>2 DEF CartFits
      <3>2. QED
        BY <1>1, <2>2, <3>1 DEF CartKnows
    <2>3. CASE req[d].op # "ListCarts"
      <3>1. target[d] \in Uses(d)
        BY <1>5, <2>3, CartAtWork, UserPersistAssumption DEF Uses
      <3>2. req[d].op = "CopyCart" => req[d].at \in Uses(d)
        BY <1>5, AtWork DEF AskedInv, Valid, CartValid, FavoriteOps, CartOps, Uses
      <3>3. /\ store'[target[d]] = store[target[d]]
            /\ req[d].op = "CopyCart" => store'[req[d].at] = store[req[d].at]
        BY <1>5, <3>1, <3>2
      <3>4. /\ NamesOf(target[d])' = NamesOf(target[d]) /\ EntriesOf(target[d])' = EntriesOf(target[d])
            /\ EntriesAt(target[d], req[d].value)' = EntriesAt(target[d], req[d].value)
            /\ req[d].op = "CopyCart" => EntriesOf(req[d].at)' = EntriesOf(req[d].at)
        BY <1>1, <3>3 DEF NamesOf, EntriesOf, EntriesAt
      <3>5. pc[d] = "name" => req[d].op = "CopyCart"
        BY <2>1 DEF CartFits
      <3>6. QED
        BY <1>1, <2>1, <3>3, <3>4, <3>5 DEF CartKnows
    <2>4. QED
      BY <2>2, <2>3
  <1>6. service[d] = "filecarts" => Uses(d)' \subseteq used'
    BY <1>1, <1>2 DEF Knows, Uses
  <1>7. QED
    BY <1>1, <1>3, <1>4, <1>5, <1>6 DEF Knows

\* A request that goes on meets no new rival.
LEMMA WorkAsked ==
    ASSUME AskedInv, DocInv', NEW c \in Caller, pc[c] # "done", Within(c),
           \A k \in Files["filecarts"] \ used' : store'[k] = None,
           Knows(c)', \A d \in Caller \ {c} : Knows(d)',
           service[c] = "filecarts" => Uses(c)' \subseteq Uses(c) \cup (Files["filecarts"] \ used)
    PROVE  AskedInv'
  <1>1. \A d \in Caller \ {c} : pc'[d] = pc[d] /\ req'[d] = req[d] /\ Uses(d)' = Uses(d)
    BY DEF Within, Alone, Uses
  <1>2. service' = service /\ disturbed' = disturbed /\ req' = req /\ DOMAIN todo' = Caller
    BY DEF Within, Alone
  <1>3. ASSUME NEW d \in Caller, NEW e \in Caller \ {d}
        PROVE  Apart(d, e)'
    <2>1. Apart(d, e)
      BY <1>3 DEF AskedInv
    <2>2. pc'[d] # "done" => pc[d] # "done"
      BY <1>1
    <2>3. pc'[e] # "done" => pc[e] # "done"
      BY <1>1
    <2>4. ASSUME service[d] = "filecarts", service[e] = "filecarts", Uses(d) \cap Uses(e) = {}
          PROVE  (Uses(d) \cap Uses(e))' = {}
      <3>1. Uses(d) \subseteq used /\ Uses(e) \subseteq used
        BY <2>4 DEF AskedInv, Knows
      <3>2. Uses(d)' \subseteq Uses(d) \cup (IF d = c THEN Files["filecarts"] \ used ELSE {})
        BY <1>1, <2>4
      <3>3. Uses(e)' \subseteq Uses(e) \cup (IF e = c THEN Files["filecarts"] \ used ELSE {})
        BY <1>1, <2>4
      <3>4. QED
        BY <1>3, <2>4, <3>1, <3>2, <3>3
    <2>5. QED
      BY <1>2, <2>1, <2>2, <2>3, <2>4 DEF Apart
  <1>4. QED
    BY <1>2, <1>3 DEF AskedInv

LEMMA FavoriteAsked ==
    ASSUME AskedInv, DocInv', NEW c \in Caller, FavoritesStep(c)
    PROVE  AskedInv'
  <1>1. service[c] = "favorites" /\ pc[c] # "done" /\ FavoriteEffect(c)
    BY FavoriteSteps DEF FavoritesStep
  <1>2. /\ Within(c) /\ Alone(c) /\ used' = used /\ service' = service /\ disturbed' = disturbed
        /\ \A k \in Key \ {target[c]} : store'[k] = store[k]
    BY <1>1 DEF FavoriteEffect, Within, Alone
  <1>3. target[c] \in Files["favorites"]
    BY <1>1, FavoriteAtWork DEF FavoriteFits
  <1>4. Files["filecarts"] \subseteq Key \ {target[c]}
    BY <1>3, KeysApart, UserPersistAssumption
  <1>5. Knows(c)'
    BY <1>1, <1>2 DEF FavoriteEffect, Knows
  <1>6. ASSUME NEW d \in Caller \ {c}
        PROVE  Knows(d)'
    <2>1. ASSUME service[d] = "favorites", pc[d] # "done", store[target[d]] # None
          PROVE  /\ store'[target[d]] # None
                 /\ d \notin disturbed' =>
                       FavoritesAt(target[d], req[d].value.path)'
                           = FavoritesAt(target[d], req[d].value.path)
      <3>1. target[d] \in Key
        BY <2>1, FavoriteAtWork
      <3>2. d \notin disturbed' => req[d].value.path # req[c].value.path
        BY <1>1, <1>2, <1>6, <2>1 DEF AskedInv, Apart
      <3>3. target'[d] = target[d] /\ req'[d] = req[d]
        BY <1>2 DEF Alone
      <3>4. CASE target[d] = target[c]
        <4>1. store'[target[c]] # None
          BY <1>1, <2>1, <3>4 DEF FavoriteEffect
        <4>2. d \notin disturbed' => FavoritesAt(target[c], req[d].value.path)'
                                        = FavoritesAt(target[c], req[d].value.path)
          BY <1>1, <2>1, <3>2, <3>3, <3>4 DEF FavoriteEffect, FavoritesAt
        <4>3. QED
          BY <1>1, <3>3, <3>4, <4>1, <4>2 DEF FavoriteEffect, FavoritesAt
      <3>5. CASE target[d] # target[c]
        BY <1>2, <2>1, <3>1, <3>3, <3>5 DEF FavoritesAt
      <3>6. QED
        BY <3>4, <3>5
    <2>2. ASSUME service[d] = "filecarts", NEW k \in Uses(d), pc[d] # "done"
          PROVE  store'[k] = store[k]
      <3>1. k \in Files["filecarts"]
        BY <2>2, AtWork DEF AskedInv, DocInv, CallersOK, CallerOK, Askable, Uses
      <3>2. QED
        BY <1>2, <1>4, <3>1
    <2>3. QED
      BY <1>2, <2>1, <2>2, OtherKnows
  <1>7. \A k \in Files["filecarts"] \ used' : store'[k] = None
    BY <1>2, <1>4 DEF AskedInv
  <1>8. QED
    BY <1>1, <1>2, <1>5, <1>6, <1>7, WorkAsked

LEMMA CartAsked ==
    ASSUME AskedInv, DocInv', NEW c \in Caller, CartsStep(c)
    PROVE  AskedInv'
  <1>1. service[c] = "filecarts" /\ pc[c] # "done" /\ CartEffect(c)
    BY CartSteps DEF CartsStep
  <1>2. /\ Within(c) /\ Alone(c) /\ service' = service /\ disturbed' = disturbed
        /\ used \subseteq used' /\ CartLearns(c)
    BY <1>1 DEF CartEffect, Within, Alone
  <1>3. target[c] \in Files["filecarts"] \cup {None}
    BY <1>1 DEF AskedInv, DocInv, CallersOK, CallerOK
  <1>4. \A k \in Key : k # target[c] => store'[k] = store[k] \/ k \in Files["filecarts"] \ used
    BY <1>1 DEF CartEffect
  <1>5. Knows(c)'
    BY <1>1, <1>2 DEF CartEffect, CartLearns, Knows
  <1>6. ASSUME NEW d \in Caller \ {c}
        PROVE  Knows(d)'
    <2>1. ASSUME service[d] = "favorites", pc[d] # "done", store[target[d]] # None
          PROVE  /\ store'[target[d]] # None
                 /\ FavoritesAt(target[d], req[d].value.path)'
                        = FavoritesAt(target[d], req[d].value.path)
      <3>1. target[d] \in Key /\ target[d] \in Files["favorites"]
        BY <2>1, FavoriteAtWork DEF FavoriteFits
      <3>2. target[d] \notin Files["filecarts"] /\ target[d] # None
        BY <3>1, KeysApart, UserPersistAssumption
      <3>3. store'[target[d]] = store[target[d]] /\ target'[d] = target[d] /\ req'[d] = req[d]
        BY <1>2, <1>3, <1>4, <3>1, <3>2 DEF Alone
      <3>4. QED
        BY <2>1, <3>3 DEF FavoritesAt
    <2>2. ASSUME service[d] = "filecarts", NEW k \in Uses(d), pc[d] # "done", d \notin disturbed'
          PROVE  store'[k] = store[k]
      <3>1. k \in Key /\ k \in used /\ k # None
        <4>1. Uses(d) \subseteq used
          BY <2>2 DEF AskedInv, Knows
        <4>2. used \subseteq Key
          BY DEF AskedInv, DocInv
        <4>3. QED
          BY <4>1, <4>2 DEF Uses
      <3>2. Uses(d) \cap Uses(c) = {}
        BY <1>1, <1>2, <1>6, <2>2 DEF AskedInv, Apart
      <3>3. k # target[c]
        BY <3>1, <3>2 DEF Uses
      <3>4. QED
        BY <1>4, <3>1, <3>3
    <2>3. QED
      BY <1>2, <2>1, <2>2, OtherKnows
  <1>7. QED
    BY <1>1, <1>2, <1>5, <1>6, WorkAsked DEF CartEffect

LEMMA QuerySteps ==
    ASSUME AskedInv, NEW c \in Caller, QueriesStep(c)
    PROVE  /\ service[c] = "metadata_queries" /\ pc[c] # "done" /\ Within(c) /\ used' = used
           /\ \A k \in Key \ Queries : store'[k] = store[k]
  <1>1. pc[c] # "done" /\ service[c] = "metadata_queries"
    BY DEF QueriesStep, EnsureQueries, EnsureContext, CreateFile, Load, WriteFile, RemoveFile, Scan,
           ReadQueries, ReadEach
  <1>2. QueryFits(pc[c], req[c], target[c], draft[c])
    BY <1>1, AtWork DEF AskedInv, Fits
  <1>3. pc[c] \in {"create", "write", "remove"} => target[c] \in Queries
    BY <1>2 DEF QueryFits
  <1>4. ASSUME NEW document, NEW next, Change(c, document, next), target[c] \in Queries
        PROVE  Within(c) /\ used' = used /\ \A k \in Key \ Queries : store'[k] = store[k]
    BY <1>4, AnsweredWithin DEF Change, AskedInv, DocInv, StoreOK
  <1>5. ASSUME NEW o, Refused(c, o)
        PROVE  Within(c) /\ used' = used /\ \A k \in Key \ Queries : store'[k] = store[k]
    BY <1>5, RefusedWithin
  <1>6. CASE CreateFile(c, "write")
    BY <1>1, <1>3, <1>4, <1>6 DEF CreateFile
  <1>7. ASSUME NEW next \in {"create", "scan"}, EnsureContext(c, next)
        PROVE  Within(c) /\ UNCHANGED <<store, used>>
    BY <1>7, EnsureWithin DEF Stages
  <1>8. CASE WriteFile(c)
    BY <1>1, <1>3, <1>4, <1>5, <1>8 DEF WriteFile
  <1>9. CASE RemoveFile(c)
    BY <1>1, <1>3, <1>4, <1>5, <1>9 DEF RemoveFile
  <1>10. CASE Load(c) \/ Scan(c) \/ ReadQueries(c)
    <2>1. Reads(c)
      BY <1>10 DEF Load, Scan, ReadQueries, ReadEach
    <2>2. Within(c)
      BY <1>10, <2>1 DEF Load, Scan, ReadQueries, ReadEach, Finish, Goto, Reads, Calls, AskedInv,
                         DocInv, CallersOK, Within, Alone
    <2>3. QED
      BY <1>1, <2>1, <2>2 DEF Reads
  <1>11. QED
    BY <1>1, <1>6, <1>7, <1>8, <1>9, <1>10 DEF QueriesStep, EnsureQueries

\* Saved queries are no favorites and no carts.
LEMMA QueryAsked ==
    ASSUME AskedInv, DocInv', NEW c \in Caller, QueriesStep(c)
    PROVE  AskedInv'
  <1>1. /\ service[c] = "metadata_queries" /\ pc[c] # "done" /\ Within(c) /\ Alone(c) /\ used' = used
        /\ \A k \in Key \ Queries : store'[k] = store[k]
        /\ service' = service /\ disturbed' = disturbed
    BY QuerySteps DEF Within, Alone
  <1>2. Knows(c)'
    BY <1>1 DEF Knows
  <1>3. Files["filecarts"] \subseteq Key \ Queries
    BY KeysApart
  <1>4. ASSUME NEW d \in Caller \ {c}
        PROVE  Knows(d)'
    <2>1. ASSUME service[d] = "favorites", pc[d] # "done", store[target[d]] # None
          PROVE  /\ store'[target[d]] # None
                 /\ FavoritesAt(target[d], req[d].value.path)'
                        = FavoritesAt(target[d], req[d].value.path)
      <3>1. target[d] \in Key \ Queries
        BY <2>1, FavoriteAtWork, KeysApart DEF FavoriteFits
      <3>2. store'[target[d]] = store[target[d]] /\ target'[d] = target[d] /\ req'[d] = req[d]
        BY <1>1, <3>1 DEF Alone
      <3>3. QED
        BY <2>1, <3>2 DEF FavoritesAt
    <2>2. ASSUME service[d] = "filecarts", NEW k \in Uses(d), pc[d] # "done"
          PROVE  store'[k] = store[k]
      <3>1. k \in Files["filecarts"]
        BY <2>2, AtWork DEF AskedInv, DocInv, CallersOK, CallerOK, Askable, Uses
      <3>2. QED
        BY <1>1, <1>3, <3>1
    <2>3. QED
      BY <1>1, <2>1, <2>2, OtherKnows
  <1>5. \A k \in Files["filecarts"] \ used' : store'[k] = None
    BY <1>1, <1>3 DEF AskedInv
  <1>6. QED
    BY <1>1, <1>2, <1>4, <1>5, WorkAsked

LEMMA FailAsked ==
    ASSUME AskedInv, DocInv', NEW c \in Caller, Fail(c)
    PROVE  AskedInv'
  <1>1. /\ pc[c] # "done" /\ pc'[c] = "done" /\ Within(c) /\ Alone(c)
        /\ UNCHANGED <<target, store, used, service, req, disturbed>>
    BY FinishWithin DEF Fail, Calls, Within
  <1>2. Knows(c)'
    BY <1>1 DEF AskedInv, Knows, Uses
  <1>3. \A d \in Caller \ {c} : Knows(d)'
    BY <1>1, OtherKnows DEF FavoritesAt
  <1>4. QED
    BY <1>1, <1>2, <1>3, WorkAsked DEF AskedInv, Uses

\* The subject of a cart request is a cart, that of a favorite a path.
LEMMA Subjects ==
    ASSUME AskedInv, NEW d \in Caller, pc[d] # "done"
    PROVE  /\ service[d] = "favorites" => Subject(req[d]) = req[d].value.path
           /\ service[d] = "filecarts" => Subject(req[d]) = req[d].at
  BY AtWork DEF AskedInv, Askable, Subject, FavoriteOps, CartOps

LEMMA BeginAsked ==
    ASSUME AskedInv, DocInv', NEW c \in Caller, pc[c] = "done", NEW r, Valid(r),
           r \in Requests[service[c]], Begin(c, r),
           req'[c] = r, \A d \in Caller \ {c} : req'[d] = req[d],
           service[c] = "filecarts" => r.at \in used \cup {None},
           UNCHANGED <<service, collections, store, todo>>
    PROVE  AskedInv'
  <1>1. service[c] \in Services /\ Askable(service[c], r)
    BY RequestsAsked DEF AskedInv, DocInv, CallersOK
  <1>2. /\ DOMAIN pc = Caller /\ DOMAIN req = Caller /\ DOMAIN target = Caller /\ DOMAIN draft = Caller
    BY DEF AskedInv, DocInv, CallersOK
  <1>3. PICK k : /\ target' = [target EXCEPT ![c] = k] /\ draft' = [draft EXCEPT ![c] = DraftOf(r, k)]
                 /\ \/ /\ r.op \in Creations /\ k \in Files[service[c]] \ used
                       /\ used' = used \cup {k}
                    \/ r.op \notin Creations /\ k = r.at /\ used' = used
    BY DEF Begin
  <1>4. /\ Alone(c) /\ pc'[c] = FirstStage(r.op) /\ target'[c] = k /\ draft'[c] = DraftOf(r, k)
        /\ req'[c] = r /\ used \subseteq used'
    BY <1>2, <1>3 DEF Begin, Alone, AskedInv
  <1>5. ASSUME NEW d \in Caller, d \notin disturbed', pc[d] # "done", d # c
        PROVE  d \notin disturbed
    BY <1>5 DEF Begin
  <1>6. ASSUME NEW d \in Caller \ {c}, c \notin disturbed' \/ d \notin disturbed'
        PROVE  d \notin Rivals(c, r)
    BY <1>6 DEF Begin, Rivals
  <1>7. Knows(c)'
    <2>1. CASE service[c] = "favorites"
      <3>1. /\ r.op \in FavoriteOps /\ pc'[c] = "root"
            /\ r.op \in {"AddFavorite", "RenameFavorite"} => draft'[c] = Encode(r.value)
        BY <1>1, <1>4, <2>1 DEF Askable, FirstStage, DraftOf
      <3>2. FavoriteKnows(c)'
        BY <1>4, <3>1 DEF FavoriteKnows
      <3>3. QED
        BY <1>4, <2>1, <3>2 DEF Knows, Alone
    <2>2. CASE service[c] = "filecarts"
      <3>1. r.op \in CartOps /\ r.op \notin FavoriteOps
        BY <1>1, <2>2 DEF Askable, CartOps, FavoriteOps
      <3>2. Uses(c)' \subseteq used'
        BY <1>3, <1>4, <2>2 DEF Uses
      <3>3. pc'[c] = FirstCartStage(r.op) /\ pc'[c] \in {"root", "remove", "list"}
        BY <1>4, <3>1 DEF FirstStage, FirstCartStage
      <3>4. CartDrafts(c)'
        <4>1. /\ r.op \in {"CreateCart", "SetCartName", "CopyCart"} => draft'[c].attr = "name"
              /\ r.op = "AddItem" => draft'[c].attr = "entry"
          BY <1>4 DEF DraftOf, NameAVU, EntryAVU
        <4>2. r.op = "CopyCart" => target'[c] = r.at
          BY <1>3, <1>4 DEF Creations
        <4>3. QED
          BY <1>4, <4>1, <4>2 DEF CartDrafts
      <3>5. CartKnows(c)'
        <4>1. r.op = "CreateCart" => store'[k] = None
          BY <1>3, <2>2 DEF Creations, AskedInv
        <4>2. r.op = "CopyCart" => pc'[c] = "root"
          BY <3>3 DEF FirstCartStage
        <4>3. QED
          BY <1>4, <3>3, <4>1, <4>2 DEF CartKnows, Making
      <3>6. QED
        BY <1>4, <2>2, <3>2, <3>4, <3>5 DEF Knows, Alone
    <2>3. CASE service[c] = "metadata_queries"
      BY <1>4, <2>3 DEF Knows, Alone
    <2>4. QED
      BY <1>1, <2>1, <2>2, <2>3 DEF Services
  <1>8. ASSUME NEW d \in Caller \ {c}
        PROVE  Knows(d)'
    <2>1. FavoritesAt(target[d], req[d].value.path)' = FavoritesAt(target[d], req[d].value.path)
      BY <1>4 DEF FavoritesAt, Alone
    <2>2. CASE pc[d] # "done"
      BY <1>4, <1>5, <2>1, <2>2, OtherKnows
    <2>3. CASE pc[d] = "done"
      BY <1>4, <2>3 DEF AskedInv, Knows, Alone, Uses
    <2>4. QED
      BY <2>2, <2>3
  <1>9. ASSUME NEW d \in Caller \ {c}, pc[d] # "done", service[d] = service[c], d \notin Rivals(c, r)
        PROVE  /\ service[c] = "favorites" => r.value.path # req[d].value.path
               /\ service[c] = "filecarts" => Uses(c)' \cap Uses(d) = {}
    <2>1. Subject(r) # Subject(req[d]) /\ (r.op \in FavoriteOps \/ r.at # target[d])
      BY <1>9 DEF Rivals
    <2>2. CASE service[c] = "favorites"
      BY <1>1, <1>9, <2>1, <2>2, Subjects DEF Askable, Subject
    <2>3. CASE service[c] = "filecarts"
      <3>1. r.op \notin FavoriteOps
        BY <1>1, <2>3 DEF Askable, CartOps, FavoriteOps
      <3>2. r.at # req[d].at /\ r.at # target[d]
        BY <1>9, <2>1, <2>3, <3>1, Subjects DEF Subject
      <3>3. Uses(d) \subseteq used
        BY <1>9, <2>3 DEF AskedInv, Knows
      <3>4. k = r.at \/ k \notin used
        BY <1>3
      <3>5. QED
        BY <1>4, <2>3, <3>2, <3>3, <3>4 DEF Uses
    <2>4. QED
      BY <2>2, <2>3
  <1>10. ASSUME NEW d \in Caller, NEW e \in Caller \ {d}
         PROVE  Apart(d, e)'
    <2>1. service' = service /\ \A x \in Caller \ {c} : Uses(x)' = Uses(x) /\ pc'[x] = pc[x] /\ req'[x] = req[x]
      BY <1>4 DEF Alone, Uses
    <2>2. CASE d = c
      BY <1>4, <1>6, <1>9, <1>10, <2>1, <2>2 DEF Apart
    <2>3. CASE e = c
      BY <1>4, <1>6, <1>9, <1>10, <2>1, <2>3 DEF Apart
    <2>4. CASE d # c /\ e # c
      BY <1>5, <1>10, <2>1, <2>4 DEF AskedInv, Apart
    <2>5. QED
      BY <2>2, <2>3, <2>4
  <1>11. \A j \in Files["filecarts"] \ used' : store'[j] = None
    BY <1>4 DEF AskedInv
  <1>12. QED
    BY <1>4, <1>7, <1>8, <1>10, <1>11 DEF AskedInv, Alone

LEMMA RejectAsked ==
    ASSUME AskedInv, DocInv', NEW c \in Caller, pc[c] = "done", NEW r, Reject(c, r),
           req' = [req EXCEPT ![c] = r], service[c] = "filecarts" => r.at \in used \cup {None},
           UNCHANGED <<service, collections, store, todo>>
    PROVE  AskedInv'
  <1>1. /\ UNCHANGED <<pc, target, draft, used, disturbed>> /\ DOMAIN req = Caller
        /\ Alone(c) /\ req'[c] = r
    BY DEF Reject, Alone, AskedInv, DocInv, CallersOK
  <1>2. Knows(c)'
    BY <1>1 DEF AskedInv, Knows, Uses
  <1>3. \A d \in Caller \ {c} : Knows(d)'
    BY <1>1, OtherKnows DEF FavoritesAt, Alone
  <1>4. \A d \in Caller : \A e \in Caller \ {d} : Apart(d, e)'
    BY <1>1 DEF AskedInv, Apart, Alone, Uses
  <1>5. QED
    BY <1>1, <1>2, <1>3, <1>4 DEF AskedInv

LEMMA StartAsked ==
    ASSUME AskedInv, DocInv', NEW c \in Caller, Start(c)
    PROVE  AskedInv'
  <1>1. PICK r \in Requests[service[c]] :
           Known(r) /\ req' = [req EXCEPT ![c] = r] /\ (Reject(c, r) \/ Begin(c, r))
    BY DEF Start
  <1>2. service[c] = "filecarts" => r.at \in used \cup {None}
    <2>1. service[c] \in Services
      BY DEF AskedInv, DocInv, CallersOK
    <2>2. QED
      BY <1>1, <2>1, RequestsAsked DEF Known, Askable, CartOps, FavoriteOps
  <1>3. pc[c] = "done" /\ UNCHANGED <<service, collections, store, todo>>
    BY DEF Start
  <1>4. req'[c] = r /\ (\A d \in Caller \ {c} : req'[d] = req[d]) /\ (Begin(c, r) => Valid(r))
    BY <1>1 DEF Begin, AskedInv, DocInv, CallersOK
  <1>5. QED
    BY <1>1, <1>2, <1>3, <1>4, BeginAsked, RejectAsked

LEMMA RetryAsked ==
    ASSUME AskedInv, DocInv', NEW c \in Caller, Retry(c)
    PROVE  AskedInv'
  <1>1. /\ pc[c] = "done" /\ out[c] = "error" /\ Begin(c, req[c]) /\ Valid(req[c])
        /\ UNCHANGED <<service, collections, store, req, todo>>
    BY DEF Retry, Begin
  <1>2. req[c] \in Requests[service[c]] /\ DOMAIN req = Caller
    BY <1>1 DEF AskedInv, DocInv, CallersOK, CallerOK
  <1>3. service[c] = "filecarts" => req[c].at \in used \cup {None}
    BY DEF AskedInv, Knows, Uses
  <1>4. QED
    BY <1>1, <1>2, <1>3, BeginAsked

LEMMA InitAsked == Init => AskedInv
  <1> SUFFICES ASSUME Init
               PROVE  AskedInv
    OBVIOUS
  <1>1. DocInv
    BY InitOK
  <1>2. \A k \in Files["filecarts"] \ used : store[k] = None
    BY KeysApart DEF Init
  <1>3. \A c \in Caller : Knows(c) /\ pc[c] = "done"
    BY DEF Init, Knows, Uses, Idle
  <1>4. QED
    BY <1>1, <1>2, <1>3 DEF AskedInv, Apart, Init

LEMMA NextAsked == AskedInv /\ [Next]_vars => AskedInv'
  <1> SUFFICES ASSUME AskedInv, [Next]_vars
               PROVE  AskedInv'
    OBVIOUS
  <1>1. DocInv'
    BY NextOK DEF AskedInv
  <1>2. CASE UNCHANGED vars
    <2>1. ASSUME NEW c \in Caller
          PROVE  Knows(c)' /\ \A d \in Caller : Apart(c, d)' <=> Apart(c, d)
      <3>1. Knows(c)' <=> Knows(c)
        BY <1>2 DEF vars, locals, Knows, FavoriteKnows, CartDrafts, CartKnows, Uses, FavoritesAt,
                    NamesOf, EntriesOf, EntriesAt
      <3>2. \A d \in Caller : Apart(c, d)' <=> Apart(c, d)
        BY <1>2 DEF vars, locals, Apart, Uses
      <3>3. QED
        BY <3>1, <3>2 DEF AskedInv
    <2>2. QED
      BY <1>1, <1>2, <2>1 DEF vars, locals, AskedInv
  <1>3. ASSUME NEW c \in Caller, Start(c) \/ Retry(c) \/ Step(c) \/ Fail(c)
        PROVE  AskedInv'
    BY <1>1, <1>3, StartAsked, RetryAsked, FavoriteAsked, CartAsked, QueryAsked, FailAsked DEF Step
  <1>4. QED
    BY <1>2, <1>3 DEF Next

LEMMA Asked == Spec => []AskedInv
  BY InitAsked, NextAsked, PTL DEF Spec

\* A request is finished well only by a step of its service.
LEMMA EndsInStep ==
    ASSUME AskedInv, [Next]_vars, NEW c \in Caller, pc[c] # "done", pc'[c] = "done", out'[c] = "ok"
    PROVE  Step(c)
  <1>1. CASE UNCHANGED vars
    BY <1>1 DEF vars, locals
  <1>2. ASSUME NEW d \in Caller, Start(d) \/ Retry(d) \/ Step(d) \/ Fail(d)
        PROVE  Step(c)
    <2>1. CASE Start(d) \/ Retry(d)
      <3>1. pc'[c] = pc[c]
        BY <2>1 DEF Start, Retry, Begin, Reject, AskedInv, DocInv, CallersOK
      <3>2. QED
        BY <3>1
    <2>2. CASE Step(d)
      <3>1. Alone(d)
        BY <2>2, FavoriteSteps, CartSteps, QuerySteps DEF Step, FavoriteEffect, CartEffect, Within
      <3>2. QED
        BY <2>2, <3>1 DEF Alone
    <2>3. CASE Fail(d)
      BY <2>3 DEF Fail, Finish, AskedInv, DocInv, CallersOK
    <2>4. QED
      BY <1>2, <2>1, <2>2, <2>3
  <1>3. QED
    BY <1>1, <1>2 DEF Next

\* The path is the key of a favorite: adding or renaming it leaves exactly one
\* canonical AVU of the path, and removing it none, unless somebody else works
\* on the same path.
THEOREM FavoritesAreKeyed == Spec => OneFavoritePerPath
  <1>1. AskedInv /\ [Next]_vars =>
          [\A c \in Caller :
             /\ service[c] = "favorites" /\ req[c].op # "ListFavorites"
             /\ pc[c] # "done" /\ pc'[c] = "done" /\ out'[c] = "ok" /\ c \notin disturbed
             => FavoritesAt(target[c], req[c].value.path)' =
                   IF req[c].op = "RemoveFavorite" THEN {} ELSE {draft[c]}]_vars
    <2> SUFFICES ASSUME AskedInv, [Next]_vars, NEW c \in Caller,
                        service[c] = "favorites", req[c].op # "ListFavorites",
                        pc[c] # "done", pc'[c] = "done", out'[c] = "ok", c \notin disturbed
                 PROVE  FavoritesAt(target[c], req[c].value.path)' =
                           IF req[c].op = "RemoveFavorite" THEN {} ELSE {draft[c]}
      OBVIOUS
    <2>1. FavoritesStep(c)
      BY EndsInStep DEF Step, CartsStep, QueriesStep
    <2>2. FavoriteServed(c)
      BY <2>1, FavoriteSteps DEF FavoriteEffect
    <2>3. QED
      BY <2>2 DEF FavoriteServed
  <1>2. QED
    BY <1>1, Asked, PTL DEF Spec, OneFavoritePerPath

\* A cart that was created, named or copied has the one name that was asked for,
\* a copy has entries only of its source, and an entry is there once added and
\* gone once removed, unless somebody else works on the same cart.
THEOREM CartsAreAsAsked == Spec => CartAsAsked
  <1>1. AskedInv /\ [Next]_vars =>
          [\A c \in Caller :
             LET op == req[c].op
                 k  == target[c]
             IN /\ service[c] = "filecarts"
                /\ pc[c] # "done" /\ pc'[c] = "done" /\ out'[c] = "ok" /\ c \notin disturbed
                => CASE op \in {"CreateCart", "SetCartName"} -> NamesOf(k)' = {draft[c]}
                     [] op = "CopyCart" ->
                           /\ NamesOf(k)' = IF pc[c] = "name" THEN {} ELSE {draft[c]}
                           /\ EntriesOf(k)' \subseteq EntriesOf(req[c].at)
                     [] op = "AddItem" -> draft[c] \in EntriesOf(k)'
                     [] op = "RemoveItem" -> EntriesAt(k, req[c].value)' = {}
                     [] OTHER -> TRUE]_vars
    <2> SUFFICES ASSUME AskedInv, [Next]_vars, NEW c \in Caller, service[c] = "filecarts",
                        pc[c] # "done", pc'[c] = "done", out'[c] = "ok", c \notin disturbed
                 PROVE  CartServed(c)
      BY DEF CartServed
    <2>1. CartsStep(c)
      BY EndsInStep DEF Step, FavoritesStep, QueriesStep
    <2>2. QED
      BY <2>1, CartSteps DEF CartEffect, CartLearns
  <1>2. QED
    BY <1>1, Asked, PTL DEF Spec, CartAsAsked
=============================================================================
