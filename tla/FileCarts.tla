------------------------------ MODULE FileCarts ------------------------------
(***************************************************************************)
(* The file carts of a user (src/filecart): an empty file for each cart,   *)
(* its name and its entries in AVUs.                                       *)
(***************************************************************************)
EXTENDS UserPersist

CartOps == {"CreateCart", "ListCarts", "SetCartName", "DeleteCart", "CopyCart",
            "AddItem", "RemoveItem", "ListItems"}

NameAVU(name)   == [attr |-> "name", name |-> name]
EntryAVU(entry) == [attr |-> "entry", entry |-> entry]

NamesOf(k)     == {avu \in store[k].avus : avu.attr = "name"}
EntriesOf(k)   == {avu \in store[k].avus : avu.attr = "entry"}
EntriesAt(k, item) == {avu \in EntriesOf(k) : avu.entry.item = item}

\* A name is needed except for a copy, which takes the name of its source.
CartValid(r) ==
    /\ r.op \in {"CreateCart", "SetCartName"} => r.value # Blank
    /\ r.op \in {"SetCartName", "DeleteCart", "CopyCart", "AddItem", "RemoveItem", "ListItems"}
          => r.at # None

FirstCartStage(op) ==
    CASE op \in {"CreateCart", "ListCarts", "CopyCart"} -> "root"
      [] op = "DeleteCart" -> "remove"
      [] OTHER -> "list"

EnsureCarts(c) ==
    \/ EnsureContext(c, CASE req[c].op = "CreateCart" -> "create"
                          [] req[c].op = "ListCarts" -> "scan"
                          [] OTHER -> "copy")
    \/ CreateFile(c, "add")

\* getAssignedName fails when the cart is gone.
ReadNames(c) == ReadEach(c, {k \in Files["filecarts"] : store[k] # None})

\* The copy has a new ID.  Whether the AVUs of a data object are copied with it
\* is up to the filesystem.
CopyDataObject(c) ==
    /\ pc[c] = "copy"
    /\ \/ Missing(c) /\ Refused(c, "error")
       \/ /\ ~Missing(c)
          /\ \E k \in Files["filecarts"] \ used, avus \in {store[target[c]].avus, {}} :
                /\ store' = [store EXCEPT ![k] = [body |-> Empty, avus |-> avus]]
                /\ used' = used \cup {k}
                /\ UNCHANGED collections /\ Calls(c)
                /\ \/ /\ target' = [target EXCEPT ![c] = k]
                      /\ Goto(c, IF req[c].value = Blank THEN "name" ELSE "list")
                      /\ UNCHANGED <<req, draft, todo, out, faults>>
                   \/ faults > 0 /\ faults' = faults - 1 /\ Finish(c, "error")

\* Any of several names may be listed first.
ReadSourceName(c) ==
    LET source == req[c].at
    IN /\ pc[c] = "name" /\ Reads(c)
       /\ \/ store[source] = None /\ Finish(c, "error")
          \/ store[source] # None /\ NamesOf(source) = {} /\ Finish(c, "ok")
          \/ /\ store[source] # None
             /\ \E avu \in NamesOf(source) : draft' = [draft EXCEPT ![c] = avu]
             /\ Goto(c, "list") /\ UNCHANGED <<req, target, todo, out>>

KeepOldName(c) ==                                                   \* mutant
    /\ pc[c] = "list" /\ service[c] = "filecarts"
    /\ IF Missing(c) THEN Refused(c, "error") ELSE DeleteFirst(c, {}, "add")
ListCartAVUs(c) ==
    LET op == req[c].op
        k  == target[c]
    IN /\ pc[c] = "list" /\ service[c] = "filecarts"
       /\ \/ Missing(c) /\ Refused(c, "error")
          \/ /\ ~Missing(c)
             /\ \/ op = "ListItems" /\ Refused(c, "ok")
                \/ op \in {"SetCartName", "CopyCart"} /\ DeleteFirst(c, NamesOf(k), "add")
                \/ op = "AddItem" /\ draft[c] \in EntriesOf(k) /\ Refused(c, "ok")
                \/ op = "AddItem" /\ draft[c] \notin EntriesOf(k) /\ DeleteFirst(c, {}, "add")
                \/ /\ op = "RemoveItem" /\ EntriesAt(k, req[c].value) = {}
                   /\ Refused(c, "ok")
                \/ /\ op = "RemoveItem" /\ EntriesAt(k, req[c].value) # {}
                   /\ DeleteFirst(c, EntriesAt(k, req[c].value), "done")

DeleteCartAVU(c) == DeleteAVU(c, IF req[c].op = "RemoveItem" THEN "done" ELSE "add")

CartsStep(c) ==
    /\ service[c] = "filecarts"
    /\ \/ EnsureCarts(c) \/ Scan(c) \/ ReadNames(c) \/ CopyDataObject(c) \/ ReadSourceName(c)
       \/ ListCartAVUs(c) \/ DeleteCartAVU(c) \/ AddAVU(c) \/ RemoveFile(c)

-----------------------------------------------------------------------------
\* When nobody else works on the cart, one that was created, named or copied
\* has the one name that the call returns, and a copy has entries only of its
\* source; an entry is there once it was added and in neither type once it was
\* removed.
CartAsAsked ==
    [][\A c \in Caller :
         LET op == req[c].op
             k  == target[c]
         IN /\ service[c] = "filecarts"
            /\ pc[c] # "done" /\ pc'[c] = "done" /\ out'[c] = "ok" /\ c \notin disturbed
            => CASE op \in {"CreateCart", "SetCartName"} -> NamesOf(k)' = {draft[c]}
                 [] op = "CopyCart" ->
                       /\ NamesOf(k)' = IF pc[c] = "name" THEN {} ELSE {draft[c]}
                       /\ EntriesOf(k)' \subseteq EntriesOf(req[c].at)
                 [] op = "AddItem" -> draft[c] \in EntriesOf(k)'
                 [] op = "RemoveItem" -> EntriesAt(k, req[c].value)' = {}
                 [] OTHER -> TRUE]_vars
=============================================================================
