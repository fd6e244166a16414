---------------------------- MODULE SavedQueries ----------------------------
(***************************************************************************)
(* The saved entry queries of a user (saved_entry_query.go of              *)
(* src/metadata): one JSON file for each.                                  *)
(***************************************************************************)
EXTENDS UserPersist

QueryOps == {"CreateSavedQuery", "PutSavedQuery", "GetSavedQuery", "ListSavedQueries",
             "DeleteSavedQuery"}

Queries == Files["metadata_queries"]

\* ParseSavedEntryQuery succeeds, and the file is not a copy of another.
Readable(k) == /\ store[k] # None /\ store[k].body # Empty
               /\ store[k].body.id = k

FirstQueryStage(op) ==
    CASE op \in {"CreateSavedQuery", "ListSavedQueries"} -> "root"
      [] op = "DeleteSavedQuery" -> "remove"
      [] OTHER -> "load"

\* canonicalSavedEntryQuery refuses a bad definition before a file is touched;
\* PutSavedQuery has read the file by then.
QueryValid(r) == /\ r.op = "CreateSavedQuery" => r.value # Blank
                 /\ r.op \in {"PutSavedQuery", "GetSavedQuery", "DeleteSavedQuery"} => r.at # None

NewQuery(k, text) == [id |-> k, created |-> "creation", text |-> text]

UpdateUnchecked(c) ==                                               \* mutant
    /\ pc[c] = "load" /\ Reads(c)
    /\ IF ~Readable(target[c]) THEN Finish(c, "error")
       ELSE /\ draft' = [draft EXCEPT ![c] = [store[target[c]].body EXCEPT !.text = req[c].value]]
            /\ Goto(c, "root") /\ UNCHANGED <<req, target, todo, out>>

\* GetSavedQuery; PutSavedQuery keeps the ID and CreatedAt.
StampAnew(c) ==                                                     \* mutant
    /\ pc[c] = "load" /\ Reads(c)
    /\ IF ~Readable(target[c]) \/ req[c].value = Blank THEN Finish(c, "error")
       ELSE /\ draft' = [draft EXCEPT ![c] = [NewQuery(target[c], req[c].value)
                                                EXCEPT !.created = "later"]]
            /\ Goto(c, "root") /\ UNCHANGED <<req, target, todo, out>>
Load(c) ==
    LET k == target[c]
    IN /\ pc[c] = "load" /\ Reads(c)
       /\ \/ ~Readable(k) /\ Finish(c, "error")
          \/ Readable(k) /\ req[c].op = "GetSavedQuery" /\ Finish(c, "ok")
          \/ /\ Readable(k) /\ req[c].op = "PutSavedQuery" /\ req[c].value = Blank
             /\ Finish(c, "invalid")
          \/ /\ Readable(k) /\ req[c].op = "PutSavedQuery" /\ req[c].value # Blank
             /\ draft' = [draft EXCEPT ![c] = [store[k].body EXCEPT !.text = req[c].value]]
             /\ Goto(c, "root") /\ UNCHANGED <<req, target, todo, out>>

TouchOnly(c) ==                                                     \* mutant
    EnsureContext(c, "create") \/ CreateFile(c, "done")
EnsureQueries(c) ==
    \/ EnsureContext(c, IF req[c].op = "ListSavedQueries" THEN "scan" ELSE "create")
    \/ CreateFile(c, "write")

ReadQueries(c) == ReadEach(c, {k \in Queries : Readable(k)})

QueriesStep(c) ==
    /\ service[c] = "metadata_queries"
    /\ \/ EnsureQueries(c) \/ Load(c) \/ WriteFile(c) \/ RemoveFile(c)
       \/ Scan(c) \/ ReadQueries(c)

-----------------------------------------------------------------------------
\* A saved query keeps its own ID and the time of its creation through any
\* number of updates, however they race, and whatever fails.
CreationKept ==
    \A k \in Queries :
        Readable(k) => store[k].body.created = "creation"

\* A file without contents is being written or is left by a failure: only that,
\* and no race, makes a saved query unreadable and the listing of all fail.
EmptyOnlyByFailure ==
    \A k \in Queries :
        store[k] # None /\ store[k].body = Empty
            => faults < MaxFaults \/ \E c \in Caller : pc[c] = "write" /\ target[c] = k
=============================================================================
