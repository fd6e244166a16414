--------------------------- MODULE S3UserKeysProofs ---------------------------
(***************************************************************************)
(* Theorems about S3UserKeys, for every set of callers, UserMappingFiles,  *)
(* homes, users and secrets.                                               *)
(***************************************************************************)
EXTENDS S3UserKeys, FiniteSetTheorems, TLAPS

-----------------------------------------------------------------------------
(* Types and the mutex.                                                    *)

Rewriting == {"stat", "unlink", "create", "write", "marks", "unmark", "mark"}

\* A caller that serves r may be at a stage.
Fits(r, stage) ==
    /\ stage \in Rewriting \cup {"ensure"} => r.op \in Stores
    /\ stage \in Rewriting => r.secret \in Secret
    /\ stage \in {"load", "publish"} /\ r.op \in Stores => r.secret \in Secret
    /\ stage \in {"lock", "load", "publish", "query", "read"} => Locks(r.op)
    /\ stage \in {"query", "read"} => r.op \in Refreshes
    /\ stage = "delete" => r.op \notin Stores \cup Refreshes

AllFit == \A c \in Caller : Fits(req[c], pc[c])

LockOK == locked = {Guard[c] : c \in {d \in Caller : Inside(d)}}

\* Callers that share a UserMappingFile are never both within an operation.
Exclusion == \A c, d \in Caller : Inside(c) /\ Inside(d) /\ Guard[c] = Guard[d] => c = d

\* The inductive invariant.
TypeInv == TypeOK /\ AllFit /\ Exclusion

Active(c) == pc[c] \notin {"done", "lock"}
Onward    == Stages \ {"done", "lock"}

\* Local variables keep to their values apart from the stages.
ValuesOK ==
    /\ pc \in [Caller -> Stages]
    /\ req \in [Caller -> Request]
    /\ todo \in [Caller -> SUBSET User]
    /\ matches \in [Caller -> SUBSET [home : Home, users : SUBSET User]]
    /\ draft \in [Caller -> Mapping]
    /\ out \in [Caller -> Outcomes]
    /\ disturbed \subseteq Caller

LEMMA LocalSplit == AllFit => (LocalTypeOK <=> ValuesOK)
  BY DEF AllFit, LocalTypeOK, ValuesOK, Fits, Rewriting

\* The types of what a request says.
LEMMA RequestFacts ==
    ASSUME TypeInv, NEW c \in Caller
    PROVE  /\ req[c] \in Request /\ req[c].home \in Home /\ req[c].user \in User
           /\ req[c].op \in Ops /\ Fits(req[c], pc[c])
           /\ ValuesOK /\ ObjectsTypeOK /\ LockOK /\ Exclusion /\ AllFit
  <1>1. TypeOK /\ AllFit /\ Exclusion
    BY DEF TypeInv
  <1>2. ValuesOK
    BY <1>1, LocalSplit DEF TypeOK
  <1>3. req[c] \in Request
    BY <1>2 DEF ValuesOK
  <1>4. QED
    BY <1>1, <1>2, <1>3 DEF TypeOK, LockOK, AllFit, Request

\* What is to be shown of a step: the parts of TypeInv.
LEMMA Gather ==
    ASSUME ValuesOK', ObjectsTypeOK', LockOK', Exclusion', AllFit'
    PROVE  TypeInv'
  <1>1. LocalTypeOK'
    BY DEF AllFit, LocalTypeOK, ValuesOK, Fits, Rewriting
  <1>2. QED
    BY <1>1 DEF TypeInv, TypeOK, LockOK

\* Leaving an operation, and going on within it.
LEMMA LeaveLock ==
    ASSUME TypeInv, NEW c \in Caller, Active(c), pc' = [pc EXCEPT ![c] = "done"], UNCHANGED req,
           locked' = IF Locks(req[c].op) THEN locked \ {Guard[c]} ELSE locked
    PROVE  LockOK' /\ Exclusion' /\ AllFit'
  <1>0. ValuesOK /\ LockOK /\ Exclusion /\ AllFit
    BY RequestFacts
  <1>1. \A d \in Caller : Inside(d)' <=> d # c /\ Inside(d)
    BY <1>0 DEF ValuesOK, Inside
  <1>2. Inside(c) <=> Locks(req[c].op)
    BY DEF Active, Inside
  <1>3. Exclusion'
    BY <1>0, <1>1 DEF Exclusion
  <1>4. LockOK'
    <2>1. CASE Locks(req[c].op)
      <3>1. \A d \in Caller : Inside(d) /\ Guard[d] = Guard[c] => d = c
        BY <2>1, <1>0, <1>2 DEF Exclusion
      <3>2. QED
        BY <2>1, <3>1, <1>0, <1>1 DEF LockOK
    <2>2. CASE ~Locks(req[c].op)
      <3>1. \A d \in Caller : Inside(d)' <=> Inside(d)
        BY <2>2, <1>1, <1>2
      <3>2. QED
        BY <2>2, <3>1, <1>0 DEF LockOK
    <2>3. QED
      BY <2>1, <2>2
  <1>5. AllFit'
    BY <1>0 DEF AllFit, Fits, Rewriting, ValuesOK
  <1>6. QED
    BY <1>3, <1>4, <1>5

LEMMA StayLock ==
    ASSUME TypeInv, NEW c \in Caller, Active(c), NEW stage \in Onward, Fits(req[c], stage),
           pc' = [pc EXCEPT ![c] = stage], UNCHANGED <<locked, req>>
    PROVE  LockOK' /\ Exclusion' /\ AllFit'
  <1>0. ValuesOK /\ LockOK /\ Exclusion /\ AllFit
    BY RequestFacts
  <1>1. \A d \in Caller : Inside(d)' <=> Inside(d)
    BY <1>0 DEF ValuesOK, Inside, Active, Onward
  <1>2. AllFit'
    BY <1>0 DEF AllFit, ValuesOK
  <1>3. QED
    BY <1>0, <1>1, <1>2 DEF LockOK, Exclusion

LEMMA EmptyDraft == NoEntries \in Mapping
  BY DEF NoEntries, Mapping

LEMMA FinishType ==
    ASSUME TypeInv, NEW c \in Caller, Active(c), NEW o \in Outcomes, Finish(c, o),
           disturbed' \subseteq Caller
    PROVE  ValuesOK' /\ LockOK' /\ Exclusion' /\ AllFit'
  <1>0. ValuesOK
    BY RequestFacts
  <1>1. ValuesOK'
    BY <1>0, EmptyDraft DEF ValuesOK, Finish, Stages
  <1>2. QED
    BY <1>1, LeaveLock DEF Finish

\* A step that changes no more than local state and goes on to a stage.
LEMMA GotoType ==
    ASSUME TypeInv, NEW c \in Caller, Active(c), NEW stage \in Onward, Fits(req[c], stage),
           Goto(c, stage), UNCHANGED <<locked, req, out>>, Reads,
           todo' \in [Caller -> SUBSET User], draft' \in [Caller -> Mapping],
           matches' \in [Caller -> SUBSET [home : Home, users : SUBSET User]]
    PROVE  TypeInv'
  <1>0. ValuesOK /\ ObjectsTypeOK
    BY RequestFacts
  <1>1. ValuesOK' /\ ObjectsTypeOK'
    BY <1>0 DEF ValuesOK, ObjectsTypeOK, Goto, Onward, Reads, objects
  <1>2. LockOK' /\ Exclusion' /\ AllFit'
    BY StayLock DEF Goto
  <1>3. QED
    BY <1>1, <1>2, Gather

LEMMA ProceedType ==
    ASSUME TypeInv, NEW c \in Caller, Active(c), NEW stage \in Onward, Fits(req[c], stage),
           Proceed(c, stage), Reads
    PROVE  TypeInv'
  <1>0. ValuesOK
    BY RequestFacts
  <1>1. QED
    BY <1>0, GotoType DEF Proceed, ValuesOK

LEMMA ReturnType ==
    ASSUME TypeInv, NEW c \in Caller, Active(c), NEW o \in Outcomes, Finish(c, o), Reads
    PROVE  TypeInv'
  <1>0. ValuesOK /\ ObjectsTypeOK
    BY RequestFacts
  <1>1. disturbed' \subseteq Caller /\ ObjectsTypeOK'
    BY <1>0 DEF ValuesOK, ObjectsTypeOK, Reads, objects
  <1>2. QED
    BY <1>1, FinishType, Gather

LEMMA ChangeType ==
    ASSUME TypeInv, NEW c \in Caller, Active(c), NEW stage \in Onward \cup {"done"},
           Fits(req[c], stage), NEW secret \in Secret \cup {Empty, None},
           NEW users \in SUBSET User, Change(c, secret, users, stage)
    PROVE  TypeInv'
  <1>0. /\ ValuesOK /\ ObjectsTypeOK /\ req[c].home \in Home
        /\ disturbed' \subseteq Caller /\ "error" \in Outcomes /\ "ok" \in Outcomes
    BY RequestFacts DEF Change, ValuesOK, Outcomes
  <1>1. ObjectsTypeOK'
    BY <1>0, S3UserKeysAssumption DEF Change, ObjectsTypeOK
  <1>2. CASE Finish(c, "error")
    BY <1>0, <1>1, <1>2, FinishType, Gather
  <1>3. CASE Continue(c, stage)
    <2>1. CASE stage = "done"
      BY <2>1, <1>0, <1>1, <1>3, FinishType, Gather DEF Continue
    <2>2. CASE stage # "done"
      <3>1. Proceed(c, stage) /\ stage \in Onward
        BY <2>2, <1>3 DEF Continue
      <3>2. LockOK' /\ Exclusion' /\ AllFit'
        BY <3>1, StayLock DEF Proceed, Goto
      <3>3. ValuesOK'
        BY <3>1, <1>0 DEF Proceed, Goto, ValuesOK, Onward
      <3>4. QED
        BY <3>2, <3>3, <1>1, Gather
    <2>3. QED
      BY <2>1, <2>2
  <1>4. QED
    BY <1>2, <1>3 DEF Change

\* The steps that store or delete a secret.
LEMMA StoreType ==
    ASSUME TypeInv, NEW c \in Caller,
           Ensure(c) \/ Stat(c) \/ Unlink(c) \/ Create(c) \/ Write(c) \/ ListMarkers(c)
             \/ Unmark(c) \/ Mark(c) \/ Delete(c)
    PROVE  TypeInv'
  <1> DEFINE r == req[c]
             h == r.home
  <1>0. /\ ValuesOK /\ ObjectsTypeOK /\ r \in Request /\ h \in Home /\ r.user \in User
        /\ Fits(r, pc[c])
    BY RequestFacts
  <1>1. Active(c)
    BY DEF Active, Ensure, Stat, Unlink, Create, Write, ListMarkers, Unmark, Mark, Delete
  <1>f. /\ Finish(c, "error") /\ Reads => TypeInv'
        /\ Finish(c, "invalid") /\ Reads => TypeInv'
        /\ Finish(c, "notfound") /\ Reads => TypeInv'
    BY <1>1, ReturnType DEF Outcomes
  <1>n. \A stage \in Rewriting : stage \in Onward /\ (pc[c] \in Rewriting => Fits(r, stage))
    BY <1>0 DEF Rewriting, Onward, Stages, Fits
  <1>a. /\ AfterChange(c) \in Onward \cup {"done"}
        /\ pc[c] \in {"mark", "delete"} => Fits(r, AfterChange(c))
    BY <1>0 DEF AfterChange, Onward, Stages, Fits, Rewriting
  <1>p. \A stage \in Rewriting : pc[c] \in Rewriting /\ Proceed(c, stage) /\ Reads => TypeInv'
    BY <1>1, <1>n, ProceedType
  <1>2. CASE Ensure(c)
    <2>1. r.secret # Invalid => Fits(r, "stat")
      BY <1>0, <1>2 DEF Ensure, Fits, Rewriting, Request
    <2>2. QED
      BY <2>1, <1>1, <1>2, <1>f, <1>n, ProceedType DEF Ensure, Rewriting
  <1>3. CASE Stat(c)
    BY <1>3, <1>p DEF Stat, Rewriting
  <1>4. CASE Unlink(c)
    <2>1. Change(c, None, {}, "create") => TypeInv'
      BY <1>1, <1>4, <1>n, ChangeType DEF Unlink, Rewriting
    <2>2. QED
      BY <2>1, <1>4, <1>f DEF Unlink, Missing
  <1>5. CASE Create(c)
    <2>1. markers[h] \in SUBSET User
      BY <1>0 DEF ObjectsTypeOK
    <2>2. QED
      BY <2>1, <1>1, <1>5, <1>n, ChangeType DEF Create, Rewriting
  <1>6. CASE Write(c)
    <2>1. markers[h] \in SUBSET User /\ r.secret \in Secret
      BY <1>0, <1>6 DEF ObjectsTypeOK, Write, Fits, Rewriting
    <2>2. Change(c, r.secret, markers[h], "marks") => TypeInv'
      BY <2>1, <1>1, <1>6, <1>n, ChangeType DEF Write, Rewriting
    <2>3. QED
      BY <2>2, <1>6, <1>f DEF Write, Missing
  <1>7. CASE ListMarkers(c)
    <2> DEFINE stage == IF markers[h] = {} THEN "mark" ELSE "unmark"
    <2>1. CASE /\ todo' = [todo EXCEPT ![c] = markers[h]] /\ Goto(c, stage)
               /\ UNCHANGED <<locked, req, matches, draft, out>> /\ Reads
      <3>1. stage \in Onward /\ Fits(r, stage)
        BY <1>7, <1>n DEF ListMarkers, Rewriting
      <3>2. todo' \in [Caller -> SUBSET User]
        BY <2>1, <1>0 DEF ValuesOK, ObjectsTypeOK
      <3>3. QED
        BY <2>1, <3>1, <3>2, <1>0, <1>1, GotoType DEF ValuesOK
    <2>2. QED
      BY <2>1, <1>7, <1>f DEF ListMarkers, Missing
  <1>8. CASE Unmark(c)
    <2>1. PICK u \in todo[c] :
             \/ u \notin markers[h] /\ Finish(c, "error") /\ Reads
             \/ /\ content' = content /\ markers' = [markers EXCEPT ![h] = @ \ {u}]
                /\ UNCHANGED <<file, disturbed, edits>>
                /\ \/ /\ todo' = [todo EXCEPT ![c] = @ \ {u}]
                      /\ Goto(c, IF todo[c] = {u} THEN "mark" ELSE "unmark")
                      /\ UNCHANGED <<locked, req, matches, draft, out, faults>>
                   \/ faults > 0 /\ faults' = faults - 1 /\ Finish(c, "error")
      BY <1>8 DEF Unmark
    <2>2. CASE content' = content /\ markers' = [markers EXCEPT ![h] = @ \ {u}]
               /\ UNCHANGED <<file, disturbed, edits>>
      <3>1. CASE /\ todo' = [todo EXCEPT ![c] = @ \ {u}]
                 /\ Goto(c, IF todo[c] = {u} THEN "mark" ELSE "unmark")
                 /\ UNCHANGED <<locked, req, matches, draft, out, faults>>
        <4>1. ObjectsTypeOK' /\ ValuesOK'
          BY <2>2, <3>1, <1>0 DEF ObjectsTypeOK, ValuesOK, Goto, Stages
        <4>2. LockOK' /\ Exclusion' /\ AllFit'
          BY <3>1, <1>1, <1>8, <1>n, StayLock DEF Goto, Unmark, Rewriting
        <4>3. QED
          BY <4>1, <4>2, Gather
      <3>2. CASE faults > 0 /\ faults' = faults - 1 /\ Finish(c, "error")
        <4>1. ObjectsTypeOK' /\ disturbed' \subseteq Caller /\ "error" \in Outcomes
          BY <2>2, <3>2, <1>0, S3UserKeysAssumption DEF ObjectsTypeOK, ValuesOK, Outcomes
        <4>2. QED
          BY <4>1, <3>2, <1>1, FinishType, Gather
      <3>3. QED
        BY <2>1, <2>2, <3>1, <3>2, <1>f
    <2>3. QED
      BY <2>1, <2>2, <1>f
  <1>9. CASE Mark(c)
    <2>1. /\ content[h] \in Secret \cup {Empty, None}
          /\ markers[h] \cup {r.user} \in SUBSET User
          /\ Fits(r, AfterChange(c))
      BY <1>0, <1>9, <1>a DEF ObjectsTypeOK, Mark
    <2>2. Change(c, content[h], markers[h] \cup {r.user}, AfterChange(c)) => TypeInv'
      BY <2>1, <1>1, <1>a, ChangeType
    <2>3. QED
      BY <2>2, <1>9, <1>f DEF Mark, Missing
  <1>10. CASE Delete(c)
    <2>1. CASE Change(c, None, {}, AfterChange(c))
      <3>1. Fits(r, AfterChange(c))
        BY <1>10, <1>a DEF Delete
      <3>2. QED
        BY <2>1, <3>1, <1>1, <1>a, ChangeType
    <2>2. QED
      BY <2>1, <1>10, <1>f DEF Delete
  <1>11. QED
    BY <1>2, <1>3, <1>4, <1>5, <1>6, <1>7, <1>8, <1>9, <1>10

\* The steps that work on the mapping.
LEMMA MappingType ==
    ASSUME TypeInv, NEW c \in Caller, Load(c) \/ Publish(c) \/ Query(c) \/ ReadSecret(c)
    PROVE  TypeInv'
  <1> DEFINE r == req[c]
  <1>0. /\ ValuesOK /\ ObjectsTypeOK /\ r \in Request /\ r.user \in User /\ Fits(r, pc[c])
    BY RequestFacts
  <1>1. Active(c)
    BY DEF Active, Load, Publish, Query, ReadSecret
  <1>2. CASE Load(c)
    <2>1. Updated(c) \in Mapping
      BY <1>0, <1>2 DEF Load, Updated, Mapping, Fits, ObjectsTypeOK
    <2>2. draft' \in [Caller -> Mapping]
      BY <2>1, <1>0, <1>2 DEF Load, ValuesOK
    <2>3. "publish" \in Onward /\ Fits(r, "publish")
      BY <1>0, <1>2 DEF Load, Onward, Stages, Fits, Rewriting
    <2>4. QED
      BY <2>2, <2>3, <1>0, <1>1, <1>2, GotoType DEF Load, ValuesOK
  <1>3. CASE Publish(c)
    <2>1. ObjectsTypeOK' /\ disturbed' \subseteq Caller /\ "ok" \in Outcomes
      BY <1>0, <1>3 DEF Publish, ObjectsTypeOK, ValuesOK, Outcomes, objects
    <2>2. QED
      BY <2>1, <1>1, <1>3, FinishType, Gather DEF Publish
  <1>4. CASE Query(c)
    <2> DEFINE stage == IF Marked = {} THEN "publish" ELSE "read"
    <2>1. stage \in Onward /\ Fits(r, stage)
      BY <1>0, <1>4 DEF Query, Onward, Stages, Fits, Rewriting, Stores, Refreshes
    <2>m. Marked \in SUBSET [home : Home, users : SUBSET User]
      BY <1>0 DEF Marked, ObjectsTypeOK
    <2>2. matches' \in [Caller -> SUBSET [home : Home, users : SUBSET User]]
      BY <2>m, <1>0, <1>4 DEF Query, ValuesOK
    <2>3. QED
      BY <2>1, <2>2, <1>0, <1>1, <1>4, GotoType DEF Query, ValuesOK
  <1>5. CASE ReadSecret(c)
    <2>1. PICK m \in matches[c] : \E u \in m.users :
             \/ m.users # {u} /\ Finish(c, "ambiguous")
             \/ m.users = {u} /\ content[m.home] \notin Secret /\ Finish(c, "unreadable")
             \/ /\ m.users = {u} /\ content[m.home] \in Secret /\ draft[c][u] # None
                /\ Finish(c, "duplicate")
             \/ /\ m.users = {u} /\ content[m.home] \in Secret /\ draft[c][u] = None
                /\ draft' = [draft EXCEPT ![c][u] = content[m.home]]
                /\ matches' = [matches EXCEPT ![c] = @ \ {m}]
                /\ Goto(c, IF matches[c] = {m} THEN "publish" ELSE "read")
                /\ UNCHANGED <<locked, req, todo, out>>
      BY <1>5 DEF ReadSecret
    <2>2. /\ Finish(c, "ambiguous") => TypeInv'
          /\ Finish(c, "unreadable") => TypeInv'
          /\ Finish(c, "duplicate") => TypeInv'
      BY <1>1, <1>5, ReturnType DEF ReadSecret, Outcomes
    <2>3. CASE \E u \in m.users :
                  /\ m.users = {u} /\ content[m.home] \in Secret /\ draft[c][u] = None
                  /\ draft' = [draft EXCEPT ![c][u] = content[m.home]]
                  /\ matches' = [matches EXCEPT ![c] = @ \ {m}]
                  /\ Goto(c, IF matches[c] = {m} THEN "publish" ELSE "read")
                  /\ UNCHANGED <<locked, req, todo, out>>
      <3> DEFINE stage == IF matches[c] = {m} THEN "publish" ELSE "read"
      <3>1. draft' \in [Caller -> Mapping]
        BY <2>3, <1>0 DEF ValuesOK, Mapping
      <3>2. matches' \in [Caller -> SUBSET [home : Home, users : SUBSET User]]
        BY <2>3, <1>0 DEF ValuesOK
      <3>3. stage \in Onward /\ Fits(r, stage)
        BY <1>0, <1>5 DEF ReadSecret, Onward, Stages, Fits, Rewriting, Stores, Refreshes
      <3>4. Goto(c, stage) /\ UNCHANGED <<locked, req, todo, out>> /\ todo' \in [Caller -> SUBSET User]
        BY <2>3, <1>0 DEF ValuesOK
      <3>5. Reads
        BY <1>5 DEF ReadSecret
      <3> HIDE DEF stage
      <3>6. QED
        BY <3>1, <3>2, <3>3, <3>4, <3>5, <1>1, GotoType
    <2>4. QED
      BY <2>1, <2>2, <2>3
  <1>6. QED
    BY <1>2, <1>3, <1>4, <1>5

\* The steps outside an operation, or of its environment.
LEMMA StartType ==
    ASSUME TypeInv, NEW c \in Caller, Start(c)
    PROVE  TypeInv'
  <1>0. ValuesOK /\ ObjectsTypeOK /\ LockOK /\ Exclusion /\ AllFit
    BY RequestFacts
  <1>1. PICK r \in Requests[c] :
           /\ edits' \in {edits} \/ (edits > 0 /\ edits' = edits - 1)
           /\ req' = [req EXCEPT ![c] = r]
           /\ pc' = [pc EXCEPT ![c] = IF Locks(r.op) THEN "lock" ELSE FirstStage(r.op)]
    BY DEF Start, Goto
  <1>2. r \in Request /\ r.op \in Ops
    BY S3UserKeysAssumption DEF Request
  <1>3. ~Locks(r.op) => r.op \in {"StoreS3UserKey", "DeleteS3UserKey"}
    BY <1>2 DEF Locks, Ops
  <1>4. FirstStage(r.op) \in Stages /\ Fits(r, IF Locks(r.op) THEN "lock" ELSE FirstStage(r.op))
    BY <1>3 DEF FirstStage, Stores, Refreshes, Fits, Rewriting, Stages
  <1>5. ValuesOK' /\ ObjectsTypeOK'
    <2>1. ObjectsTypeOK'
      BY <1>0, <1>1, S3UserKeysAssumption DEF Start, ObjectsTypeOK, objects
    <2>2. pc' \in [Caller -> Stages]
      BY <1>0, <1>1, <1>4 DEF ValuesOK, Stages
    <2>3. QED
      BY <2>1, <2>2, <1>0, <1>1, <1>2 DEF Start, ValuesOK, Outcomes
  <1>6. AllFit'
    BY <1>0, <1>1, <1>4 DEF AllFit, ValuesOK
  <1>7. \A d \in Caller : Inside(d)' <=> Inside(d)
    BY <1>0, <1>1, <1>3 DEF Inside, ValuesOK, Start
  <1>8. LockOK' /\ Exclusion'
    BY <1>0, <1>7 DEF LockOK, Exclusion, Start
  <1>9. QED
    BY <1>5, <1>6, <1>8, Gather

LEMMA AcquireType ==
    ASSUME TypeInv, NEW c \in Caller, Acquire(c)
    PROVE  TypeInv'
  <1> DEFINE stage == FirstStage(req[c].op)
  <1>0. ValuesOK /\ ObjectsTypeOK /\ LockOK /\ Exclusion /\ AllFit /\ Fits(req[c], pc[c])
    BY RequestFacts
  <1>1. Locks(req[c].op) /\ stage \in Onward /\ Fits(req[c], stage)
    BY <1>0 DEF Acquire, Fits, FirstStage, Onward, Stages, Stores, Refreshes, Rewriting
  <1>2. ValuesOK' /\ ObjectsTypeOK'
    BY <1>0, <1>1 DEF Acquire, Goto, ValuesOK, ObjectsTypeOK, Onward, Reads, objects
  <1>3. AllFit'
    BY <1>0, <1>1 DEF Acquire, Goto, AllFit, ValuesOK
  <1>4. \A d \in Caller : Inside(d)' <=> d = c \/ Inside(d)
    BY <1>0, <1>1 DEF Acquire, Goto, Inside, ValuesOK, Onward
  <1>5. \A d \in Caller : Inside(d) => Guard[d] # Guard[c]
    BY <1>0 DEF Acquire, Free, LockOK
  <1>6. Exclusion'
    BY <1>0, <1>4, <1>5 DEF Exclusion
  <1>7. LockOK'
    BY <1>0, <1>4 DEF Acquire, LockOK
  <1>8. QED
    BY <1>2, <1>3, <1>6, <1>7, Gather

LEMMA FailType ==
    ASSUME TypeInv, NEW c \in Caller, Fail(c)
    PROVE  TypeInv'
  <1>0. ValuesOK /\ ObjectsTypeOK
    BY RequestFacts
  <1>1. Active(c) /\ "error" \in Outcomes
    BY DEF Fail, Active, Outcomes
  <1>2. ObjectsTypeOK' /\ disturbed' \subseteq Caller
    BY <1>0, S3UserKeysAssumption DEF Fail, ObjectsTypeOK, ValuesOK, objects
  <1>3. QED
    BY <1>1, <1>2, FinishType, Gather DEF Fail

LEMMA CrashType ==
    ASSUME TypeInv, NEW g, Crash(g)
    PROVE  TypeInv'
  <1>c. PICK c \in Caller : TRUE
    BY DEF Crash
  <1>0. ValuesOK /\ ObjectsTypeOK /\ LockOK /\ Exclusion /\ AllFit
    BY <1>c, RequestFacts
  <1> DEFINE hit(d) == Guard[d] = g /\ pc[d] # "done"
  <1>1. /\ pc' = [d \in Caller |-> IF hit(d) THEN "done" ELSE pc[d]]
        /\ out' = [d \in Caller |-> IF hit(d) THEN "error" ELSE out[d]]
        /\ todo' = [d \in Caller |-> IF hit(d) THEN {} ELSE todo[d]]
        /\ matches' = [d \in Caller |-> IF hit(d) THEN {} ELSE matches[d]]
        /\ draft' = [d \in Caller |-> IF hit(d) THEN NoEntries ELSE draft[d]]
        /\ locked' = locked \ {g} /\ faults > 0 /\ faults' = faults - 1
        /\ UNCHANGED <<objects, file, req, disturbed, edits>>
    BY DEF Crash
  <1>2. ValuesOK'
    BY <1>0, <1>1, EmptyDraft DEF ValuesOK, Stages, Outcomes
  <1>3. ObjectsTypeOK'
    BY <1>0, <1>1, S3UserKeysAssumption DEF ObjectsTypeOK, objects
  <1>4. \A d \in Caller : Inside(d)' <=> Guard[d] # g /\ Inside(d)
    BY <1>0, <1>1 DEF Inside, ValuesOK
  <1>5. LockOK' /\ Exclusion'
    BY <1>0, <1>1, <1>4 DEF LockOK, Exclusion
  <1>6. AllFit'
    BY <1>0, <1>1 DEF AllFit, Fits, Rewriting
  <1>7. QED
    BY <1>2, <1>3, <1>5, <1>6, Gather

LEMMA EditType ==
    ASSUME TypeInv, Edit
    PROVE  TypeInv'
  <1>0. ValuesOK /\ ObjectsTypeOK /\ LockOK /\ Exclusion /\ AllFit
    BY LocalSplit DEF TypeInv, TypeOK, LockOK
  <1>1. content' \in [Home -> Secret \cup {Empty, None}] /\ markers' \in [Home -> SUBSET User]
    BY <1>0 DEF Edit, RemoveByHand, MarkByHand, ObjectsTypeOK
  <1>2. ObjectsTypeOK'
    BY <1>0, <1>1, S3UserKeysAssumption DEF Edit, ObjectsTypeOK
  <1>3. disturbed' \subseteq Caller
    BY <1>0 DEF Edit, ValuesOK
  <1>4. ValuesOK'
    BY <1>0, <1>3 DEF Edit, locals, ValuesOK
  <1>5. LockOK' /\ Exclusion' /\ AllFit'
    BY <1>0 DEF Edit, locals, LockOK, Exclusion, AllFit, Inside
  <1>6. QED
    BY <1>2, <1>4, <1>5, Gather

LEMMA InitType == Init => TypeInv
  <1> SUFFICES ASSUME Init PROVE TypeInv
    OBVIOUS
  <1>1. \A c \in Caller : req[c] \in Request
    BY S3UserKeysAssumption DEF Init
  <1>2. ValuesOK
    BY <1>1, EmptyDraft DEF Init, ValuesOK, Stages, Outcomes
  <1>3. ObjectsTypeOK
    BY EmptyDraft, S3UserKeysAssumption DEF Init, ObjectsTypeOK
  <1>4. AllFit
    BY DEF Init, AllFit, Fits, Rewriting
  <1>5. \A c \in Caller : ~Inside(c)
    BY DEF Init, Inside
  <1>6. QED
    BY <1>2, <1>3, <1>4, <1>5, LocalSplit DEF Init, TypeInv, TypeOK, Exclusion

LEMMA NextType == TypeInv /\ [Next]_vars => TypeInv'
  <1> SUFFICES ASSUME TypeInv, [Next]_vars PROVE TypeInv'
    OBVIOUS
  <1>1. CASE UNCHANGED vars
    BY <1>1 DEF vars, objects, locals, TypeInv, TypeOK, ObjectsTypeOK, LocalTypeOK, AllFit,
       Exclusion, Inside
  <1>2. ASSUME NEW c \in Caller, Step(c)
        PROVE  TypeInv'
    BY <1>2, StoreType, MappingType DEF Step
  <1>3. QED
    BY <1>1, <1>2, StartType, AcquireType, FailType, CrashType, EditType DEF Next

\* Type correctness; in particular every way out of an operation unlocks, no
\* operation writes an invalid secret, and each makes only its own calls.
THEOREM TypeCorrectness == Spec => []TypeOK
  BY InitType, NextType, PTL DEF Spec, TypeInv

-----------------------------------------------------------------------------
(* Entries of other users, for services that share one UserMappingFile.    *)

SharedFile == \A c, d \in Caller : Guard[c] = Guard[d]

\* What a caller is about to publish is what the file holds, with its entry.
KeepInv ==
    /\ TypeInv
    /\ \A c \in Caller : pc[c] = "publish" /\ req[c].op \notin Refreshes => draft[c] = Updated(c)

Moves(c) == Start(c) \/ Acquire(c) \/ Step(c) \/ Fail(c)

\* A step of c leaves the local state of the others alone.
Kept(d) == /\ pc'[d] = pc[d] /\ req'[d] = req[d] /\ draft'[d] = draft[d]
           /\ matches'[d] = matches[d]

LEMMA MoveFrame ==
    ASSUME TypeInv, NEW c \in Caller, Moves(c), NEW d \in Caller \ {c}
    PROVE  Kept(d)
  <1>0. ValuesOK
    BY RequestFacts
  <1>1. ASSUME NEW o, Finish(c, o)
        PROVE  Kept(d)
    BY <1>0, <1>1 DEF Kept, Finish, ValuesOK
  <1>2. ASSUME NEW stage, Proceed(c, stage) \/ Continue(c, stage)
        PROVE  Kept(d)
    BY <1>0, <1>1, <1>2 DEF Kept, Proceed, Continue, Goto, ValuesOK
  <1>3. ASSUME NEW secret, NEW users, NEW stage, Change(c, secret, users, stage)
        PROVE  Kept(d)
    BY <1>1, <1>2, <1>3 DEF Change
  <1>4. CASE Start(c)
    BY <1>0, <1>4 DEF Kept, Start, Goto, ValuesOK
  <1>5. CASE Acquire(c)
    BY <1>0, <1>5 DEF Kept, Acquire, Goto, ValuesOK
  <1>6. CASE Fail(c)
    BY <1>1, <1>6 DEF Fail
  <1>7. CASE Ensure(c) \/ Stat(c) \/ Unlink(c) \/ Create(c) \/ Write(c) \/ Mark(c) \/ Delete(c)
    BY <1>1, <1>2, <1>3, <1>7 DEF Ensure, Stat, Unlink, Create, Write, Mark, Delete, Missing
  <1>8. CASE ListMarkers(c) \/ Unmark(c)
    BY <1>0, <1>1, <1>8 DEF Kept, ListMarkers, Unmark, Missing, Goto, ValuesOK
  <1>9. CASE Load(c) \/ Publish(c) \/ Query(c)
    BY <1>0, <1>1, <1>9 DEF Kept, Load, Publish, Query, Goto, ValuesOK
  <1>10. CASE ReadSecret(c)
    BY <1>0, <1>1, <1>10 DEF Kept, ReadSecret, Goto, ValuesOK
  <1>11. QED
    BY <1>4, <1>5, <1>6, <1>7, <1>8, <1>9, <1>10 DEF Moves, Step

\* How a caller comes to publish.
LEMMA ToPublish ==
    ASSUME TypeInv, NEW c \in Caller, Moves(c), pc'[c] = "publish"
    PROVE  Load(c) \/ (req'[c].op \in Refreshes)
  <1>0. ValuesOK /\ Fits(req[c], pc[c])
    BY RequestFacts
  <1>1. ASSUME NEW o, Finish(c, o) PROVE FALSE
    BY <1>0, <1>1 DEF Finish, ValuesOK
  <1>2. ASSUME NEW stage, stage # "publish", Proceed(c, stage) \/ Continue(c, stage) PROVE FALSE
    BY <1>0, <1>1, <1>2 DEF Proceed, Continue, Goto, ValuesOK
  <1>3. ASSUME NEW secret, NEW users, NEW stage, stage # "publish",
               Change(c, secret, users, stage)
        PROVE  FALSE
    BY <1>1, <1>2, <1>3 DEF Change
  <1>4. CASE Start(c)
    BY <1>0, <1>4 DEF Start, FirstStage, Goto, ValuesOK
  <1>5. CASE Acquire(c)
    BY <1>0, <1>5 DEF Acquire, FirstStage, Goto, ValuesOK
  <1>6. CASE Fail(c)
    BY <1>1, <1>6 DEF Fail
  <1>7. CASE Ensure(c) \/ Stat(c) \/ Unlink(c) \/ Create(c) \/ Write(c) \/ Mark(c) \/ Delete(c)
    BY <1>1, <1>2, <1>3, <1>7
       DEF Ensure, Stat, Unlink, Create, Write, Mark, Delete, Missing, AfterChange
  <1>8. CASE ListMarkers(c) \/ Unmark(c)
    BY <1>0, <1>1, <1>8 DEF ListMarkers, Unmark, Missing, Goto, ValuesOK
  <1>9. CASE Publish(c)
    BY <1>1, <1>9 DEF Publish
  <1>10. CASE Query(c)
    BY <1>0, <1>10 DEF Query, Fits
  <1>11. CASE ReadSecret(c)
    BY <1>0, <1>1, <1>11 DEF ReadSecret, Fits
  <1>12. QED
    BY <1>4, <1>5, <1>6, <1>7, <1>8, <1>9, <1>10, <1>11 DEF Moves, Step

\* Only Publish writes the file.
LEMMA FileKept ==
    ASSUME NEW c \in Caller, Moves(c), ~Publish(c)
    PROVE  file' = file
  <1>1. ASSUME Reads PROVE file' = file
    BY <1>1 DEF Reads
  <1>2. ASSUME NEW secret, NEW users, NEW stage, Change(c, secret, users, stage)
        PROVE  file' = file
    BY <1>2 DEF Change
  <1>3. QED
    BY <1>1, <1>2 DEF Moves, Step, Start, Acquire, Fail, Ensure, Stat, Unlink, Create, Write,
       ListMarkers, Unmark, Mark, Delete, Load, Query, ReadSecret, Missing

\* Nobody else publishes while c is about to.
LEMMA LonePublisher ==
    ASSUME SharedFile, TypeInv, NEW c \in Caller, NEW d \in Caller,
           pc[c] = "publish", pc[d] = "publish"
    PROVE  c = d
  <1>1. Inside(c) /\ Inside(d)
    BY RequestFacts DEF Inside, Fits
  <1>2. QED
    BY <1>1, RequestFacts DEF SharedFile, Exclusion

LEMMA NextKeeps ==
    ASSUME SharedFile, KeepInv, [Next]_vars
    PROVE  KeepInv'
  <1>0. TypeInv /\ TypeInv'
    BY NextType DEF KeepInv
  <1>1. ASSUME NEW d \in Caller, Moves(d), NEW c \in Caller,
               pc'[c] = "publish", req'[c].op \notin Refreshes
        PROVE  draft'[c] = Updated(c)'
    <2>1. CASE c = d
      <3>1. Load(c)
        BY <2>1, <1>0, <1>1, ToPublish
      <3>2. draft'[c] = Updated(c)
        BY <3>1, <1>0, RequestFacts DEF Load, ValuesOK
      <3>3. QED
        BY <3>1, <3>2 DEF Load, Reads, Updated
    <2>2. CASE c # d
      <3>1. pc[c] = "publish" /\ req'[c] = req[c] /\ draft'[c] = draft[c]
        BY <2>2, <1>0, <1>1, MoveFrame DEF Kept
      <3>2. ~Publish(d)
        BY <2>2, <3>1, <1>0, LonePublisher DEF Publish
      <3>3. QED
        BY <3>1, <3>2, <1>1, FileKept DEF KeepInv, Updated
    <2>3. QED
      BY <2>1, <2>2
  <1>2. ASSUME NEW g, Crash(g), NEW c \in Caller, pc'[c] = "publish"
        PROVE  pc[c] = "publish" /\ req'[c] = req[c] /\ draft'[c] = draft[c] /\ file' = file
    BY <1>2 DEF Crash
  <1>3. CASE Edit \/ UNCHANGED vars
    BY <1>0, <1>3 DEF Edit, vars, locals, KeepInv, Updated
  <1>4. ASSUME NEW g, Crash(g)
        PROVE  KeepInv'
    BY <1>0, <1>2, <1>4 DEF KeepInv, Updated
  <1>5. ASSUME NEW d \in Caller, Moves(d)
        PROVE  KeepInv'
    BY <1>0, <1>1, <1>5 DEF KeepInv
  <1>6. QED
    BY <1>3, <1>4, <1>5 DEF Next, Moves

\* Callers that share one UserMappingFile never lose the entry of another user,
\* although each loads the mapping and replaces it in two steps.
THEOREM SharedFileKeepsOthers == SharedFile /\ Spec => UpdatesKeepOthers
  <1> DEFINE A == \A c \in Caller :
                    pc[c] = "publish" /\ pc'[c] = "done" /\ req[c].op \notin Refreshes
                      => \A u \in User \ {req[c].user} : file'[u] = file[u]
  <1>1. CASE SharedFile
    <2>1. Init => KeepInv
      BY InitType DEF Init, KeepInv
    <2>2. KeepInv /\ [Next]_vars => KeepInv'
      BY <1>1, NextKeeps
    <2>3. ASSUME KeepInv, [Next]_vars
          PROVE  [A]_vars
      <3>1. ASSUME NEW c \in Caller, pc[c] = "publish", pc'[c] = "done",
                   req[c].op \notin Refreshes, NEW u \in User \ {req[c].user}
            PROVE  file'[u] = file[u]
        <4>1. CASE Publish(c)
          <5>1. file' = Updated(c)
            BY <4>1, <2>3, <3>1 DEF KeepInv, Publish
          <5>2. QED
            BY <5>1, <2>3, RequestFacts DEF KeepInv, Updated, ObjectsTypeOK, Mapping
        <4>2. ASSUME NEW d \in Caller, Publish(d)
              PROVE  d = c
          BY <4>2, <1>1, <2>3, <3>1, LonePublisher DEF KeepInv, Publish
        <4>3. CASE \E d \in Caller : Moves(d)
          BY <4>1, <4>2, <4>3, FileKept
        <4>4. CASE (\E g \in {Guard[d] : d \in Caller} : Crash(g)) \/ Edit \/ UNCHANGED vars
          BY <4>4 DEF Crash, Edit, vars
        <4>5. QED
          BY <4>3, <4>4, <2>3 DEF Next, Moves
      <3>2. QED
        BY <3>1
    <2>4. Spec => [][A]_vars
      BY <2>1, <2>2, <2>3, PTL DEF Spec
    <2>5. QED
      BY <2>4 DEF UpdatesKeepOthers
  <1>2. QED
    BY <1>1

-----------------------------------------------------------------------------
(* Marked secrets, when the writers of a home exclude one another.         *)

\* Callers that change the secret of one home use one mapping service.
OneWriter ==
    \A c, d \in Caller : \A r \in Requests[c], s \in Requests[d] :
        c # d /\ r.home = s.home /\ {r.op, s.op} \cap Refreshes = {}
            => Guard[c] = Guard[d] /\ Locks(r.op) /\ Locks(s.op)

\* What c knows of the data object that it is rewriting.
Rewrites(c) ==
    LET secret == content[req[c].home]
    IN /\ pc[c] = "create" => secret = None
       /\ pc[c] = "write" => secret \in {Empty, None}
       /\ pc[c] \in {"marks", "unmark", "mark"} => secret \in Secret \cup {None}

ReadInv ==
    /\ TypeInv
    /\ MarkedSecretsReadable
    /\ \A c \in Caller : req[c] \in Requests[c] /\ Rewrites(c)

\* A step of c changes the data object of its own home only, while it is
\* storing or deleting a secret.
LEMMA OwnHome ==
    ASSUME TypeInv, NEW c \in Caller, Moves(c), NEW h \in Home
    PROVE  \/ content'[h] = content[h] /\ markers'[h] = markers[h]
           \/ h = req[c].home /\ Active(c) /\ req[c].op \notin Refreshes
  <1>0. ValuesOK /\ ObjectsTypeOK /\ Fits(req[c], pc[c])
    BY RequestFacts
  <1>1. ASSUME Reads PROVE content'[h] = content[h] /\ markers'[h] = markers[h]
    BY <1>1 DEF Reads, objects
  <1>2. ASSUME NEW secret, NEW users, NEW stage, Change(c, secret, users, stage), h # req[c].home
        PROVE  content'[h] = content[h] /\ markers'[h] = markers[h]
    BY <1>0, <1>2 DEF Change, ObjectsTypeOK
  <1>3. pc[c] \in {"unlink", "create", "write", "unmark", "mark", "delete"}
           => Active(c) /\ req[c].op \notin Refreshes
    BY <1>0 DEF Active, Fits, Rewriting, Stores, Refreshes
  <1>4. CASE Start(c) \/ Acquire(c) \/ Fail(c) \/ Publish(c)
    BY <1>1, <1>4 DEF Start, Acquire, Fail, Publish, Reads, objects
  <1>5. CASE Ensure(c) \/ Stat(c) \/ ListMarkers(c) \/ Load(c) \/ Query(c) \/ ReadSecret(c)
    BY <1>1, <1>5 DEF Ensure, Stat, ListMarkers, Load, Query, ReadSecret, Missing
  <1>6. CASE Unlink(c) \/ Create(c) \/ Write(c) \/ Mark(c) \/ Delete(c)
    BY <1>1, <1>2, <1>3, <1>6 DEF Unlink, Create, Write, Mark, Delete, Missing
  <1>7. CASE Unmark(c)
    BY <1>0, <1>1, <1>3, <1>7 DEF Unmark, ObjectsTypeOK
  <1>8. QED
    BY <1>4, <1>5, <1>6, <1>7 DEF Moves, Step

\* The requests of a caller are its own.
LEMMA OwnRequest ==
    ASSUME TypeInv, NEW c \in Caller, Moves(c), req[c] \in Requests[c]
    PROVE  /\ req'[c] \in Requests[c]
           /\ pc[c] # "done" => req'[c] = req[c]
  <1>0. ValuesOK
    BY RequestFacts
  <1>1. ASSUME UNCHANGED req
        PROVE  req'[c] \in Requests[c] /\ req'[c] = req[c]
    BY <1>1
  <1>2. ASSUME NEW o, Finish(c, o) PROVE UNCHANGED req
    BY <1>2 DEF Finish
  <1>3. ASSUME NEW stage, Proceed(c, stage) \/ Continue(c, stage) PROVE UNCHANGED req
    BY <1>2, <1>3 DEF Proceed, Continue
  <1>4. ASSUME NEW secret, NEW users, NEW stage, Change(c, secret, users, stage)
        PROVE  UNCHANGED req
    BY <1>2, <1>3, <1>4 DEF Change
  <1>5. CASE Start(c)
    BY <1>0, <1>5 DEF Start, ValuesOK
  <1>6. CASE Acquire(c) \/ Fail(c) \/ Ensure(c) \/ Stat(c) \/ Unlink(c) \/ Create(c) \/ Write(c)
             \/ Mark(c) \/ Delete(c)
    BY <1>1, <1>2, <1>3, <1>4, <1>6
       DEF Acquire, Fail, Ensure, Stat, Unlink, Create, Write, Mark, Delete, Missing
  <1>7. CASE ListMarkers(c) \/ Unmark(c) \/ Load(c) \/ Publish(c) \/ Query(c) \/ ReadSecret(c)
    BY <1>1, <1>2, <1>7 DEF ListMarkers, Unmark, Load, Publish, Query, ReadSecret, Missing
  <1>8. QED
    BY <1>5, <1>6, <1>7 DEF Moves, Step

\* A caller keeps what it knows of its own data object, and never marks one
\* that is not complete.
LEMMA OwnStep ==
    ASSUME ReadInv, NEW c \in Caller, Moves(c), NEW h, h = req[c].home
    PROVE  Rewrites(c)' /\ (markers'[h] # {} => content'[h] \in Secret)
  <1> DEFINE r == req[c]
             Right == Rewrites(c)' /\ (markers'[h] # {} => content'[h] \in Secret)
  <1>0. /\ ValuesOK /\ ObjectsTypeOK /\ h \in Home /\ Fits(r, pc[c])
        /\ markers[h] # {} => content[h] \in Secret
        /\ Rewrites(c) /\ r \in Requests[c]
    BY RequestFacts DEF ReadInv, MarkedSecretsReadable
  <1>s. None \notin Secret /\ Empty \notin Secret
    BY S3UserKeysAssumption
  <1>1. ASSUME Reads PROVE content'[h] = content[h] /\ markers'[h] = markers[h]
    BY <1>1 DEF Reads, objects
  <1>2. ASSUME NEW o, Finish(c, o), markers'[h] # {} => content'[h] \in Secret
        PROVE  Right
    BY <1>0, <1>2 DEF Finish, Rewrites, ValuesOK
  <1>f. ASSUME NEW o, Finish(c, o), Reads
        PROVE  Right
    BY <1>0, <1>1, <1>2, <1>f
  <1>3. ASSUME NEW secret, NEW users, NEW stage, Change(c, secret, users, stage),
               users # {} => secret \in Secret,
               stage = "create" => secret = None,
               stage = "write" => secret \in {Empty, None},
               stage = "marks" => secret \in Secret \cup {None},
               stage \notin {"unmark", "mark"}
        PROVE  Right
    <2>1. content'[h] = secret /\ markers'[h] = users
      BY <1>0, <1>3 DEF Change, ObjectsTypeOK
    <2>2. CASE \E o : Finish(c, o)
      BY <2>1, <2>2, <1>2, <1>3
    <2>3. CASE Proceed(c, stage)
      BY <2>1, <2>3, <1>0, <1>3 DEF Proceed, Goto, Rewrites, ValuesOK
    <2>4. QED
      BY <2>2, <2>3, <1>3 DEF Change, Continue
  <1>4. CASE Start(c) \/ Acquire(c) \/ Load(c) \/ Query(c)
    <2>1. Reads \/ UNCHANGED objects
      BY <1>4 DEF Start, Acquire, Load, Query
    <2>2. pc'[c] \in {"lock", "ensure", "delete", "query", "publish", "read"}
      BY <1>0, <1>4 DEF Start, Acquire, Load, Query, FirstStage, Goto, ValuesOK
    <2>3. QED
      BY <2>1, <2>2, <1>0 DEF Reads, objects, Rewrites
  <1>5. CASE Fail(c) \/ Publish(c)
    BY <1>0, <1>2, <1>5 DEF Fail, Publish, objects
  <1>6. CASE Ensure(c) \/ Stat(c)
    BY <1>0, <1>1, <1>f, <1>6 DEF Ensure, Stat, Proceed, Goto, Rewrites, ValuesOK
  <1>7. CASE Unlink(c)
    BY <1>3, <1>f, <1>7 DEF Unlink, Missing
  <1>8. CASE Create(c)
    BY <1>0, <1>3, <1>8, <1>s DEF Create, Rewrites
  <1>9. CASE Write(c)
    <2>1. r.secret \in Secret
      BY <1>0, <1>9 DEF Write, Fits, Rewriting
    <2>2. QED
      BY <2>1, <1>3, <1>f, <1>9 DEF Write, Missing
  <1>10. CASE ListMarkers(c)
    BY <1>0, <1>1, <1>f, <1>10 DEF ListMarkers, Missing, Goto, Rewrites, ValuesOK
  <1>11. CASE Unmark(c)
    <2>1. PICK u \in todo[c] :
             \/ Finish(c, "error") /\ Reads
             \/ /\ content' = content /\ markers' = [markers EXCEPT ![h] = @ \ {u}]
                /\ \/ /\ Goto(c, IF todo[c] = {u} THEN "mark" ELSE "unmark")
                      /\ UNCHANGED req
                   \/ Finish(c, "error")
      BY <1>11 DEF Unmark
    <2>2. CASE content' = content /\ markers' = [markers EXCEPT ![h] = @ \ {u}]
      <3>1. markers'[h] # {} => content'[h] \in Secret
        BY <2>2, <1>0 DEF ObjectsTypeOK
      <3>2. CASE Goto(c, IF todo[c] = {u} THEN "mark" ELSE "unmark") /\ UNCHANGED req
        BY <2>2, <3>1, <3>2, <1>0, <1>11 DEF Unmark, Goto, Rewrites, ValuesOK
      <3>3. QED
        BY <2>1, <3>1, <3>2, <1>2, <1>f
    <2>3. QED
      BY <2>1, <2>2, <1>f
  <1>12. CASE Mark(c)
    BY <1>0, <1>3, <1>f, <1>12 DEF Mark, Missing, Rewrites, AfterChange
  <1>13. CASE Delete(c)
    BY <1>3, <1>f, <1>13 DEF Delete, AfterChange
  <1>14. CASE ReadSecret(c)
    BY <1>0, <1>1, <1>f, <1>14 DEF ReadSecret, Goto, Rewrites, ValuesOK
  <1>15. QED
    BY <1>4, <1>5, <1>6, <1>7, <1>8, <1>9, <1>10, <1>11, <1>12, <1>13, <1>14 DEF Moves, Step

\* Two callers that are rewriting the secret of one home are one.
LEMMA LoneWriter ==
    ASSUME OneWriter, ReadInv, NEW c \in Caller, NEW d \in Caller, Active(c), Active(d),
           req[c].op \notin Refreshes, req[d].op \notin Refreshes, req[c].home = req[d].home
    PROVE  c = d
  <1>1. SUFFICES ASSUME c # d PROVE FALSE
    OBVIOUS
  <1>2. /\ Guard[c] = Guard[d] /\ Locks(req[c].op) /\ Locks(req[d].op)
    BY <1>1 DEF OneWriter, ReadInv
  <1>3. Inside(c) /\ Inside(d)
    BY <1>2 DEF Active, Inside
  <1>4. QED
    BY <1>1, <1>2, <1>3 DEF ReadInv, TypeInv, Exclusion

LEMMA MoveReads ==
    ASSUME OneWriter, ReadInv, NEW c \in Caller, Moves(c), TypeInv'
    PROVE  ReadInv'
  <1>0. TypeInv /\ ValuesOK /\ req[c] \in Requests[c]
    BY RequestFacts DEF ReadInv
  <1>1. Rewrites(c)' /\ (markers'[req[c].home] # {} => content'[req[c].home] \in Secret)
    BY OwnStep
  <1>2. ASSUME NEW h \in Home
        PROVE  markers'[h] # {} => content'[h] \in Secret
    BY <1>0, <1>1, OwnHome DEF ReadInv, MarkedSecretsReadable
  <1>3. ASSUME NEW d \in Caller
        PROVE  req'[d] \in Requests[d] /\ Rewrites(d)'
    <2>1. CASE d = c
      BY <2>1, <1>0, <1>1, OwnRequest
    <2>2. CASE d # c
      <3>1. pc'[d] = pc[d] /\ req'[d] = req[d] /\ req[d] \in Requests[d] /\ Rewrites(d)
        BY <2>2, <1>0, MoveFrame DEF ReadInv, Kept
      <3>2. pc[d] \in Rewriting => Active(d) /\ req[d].op \notin Refreshes
        BY <1>0, RequestFacts DEF Fits, Rewriting, Active, Stores, Refreshes
      <3>3. pc[d] \in Rewriting => content'[req[d].home] = content[req[d].home]
        BY <2>2, <3>2, <1>0, OwnHome, LoneWriter, RequestFacts
      <3>4. QED
        BY <3>1, <3>3 DEF Rewrites, Rewriting
    <2>3. QED
      BY <2>1, <2>2
  <1>4. QED
    BY <1>2, <1>3 DEF ReadInv, MarkedSecretsReadable

LEMMA NextReads ==
    ASSUME OneWriter, ReadInv, [Next]_vars
    PROVE  ReadInv'
  <1>0. TypeInv /\ TypeInv' /\ MarkedSecretsReadable
    BY NextType DEF ReadInv
  <1>s. None \notin Secret /\ Empty \notin Secret /\ None # Empty
    BY S3UserKeysAssumption
  <1>1. ASSUME NEW g, Crash(g)
        PROVE  ReadInv'
    <2>1. ASSUME NEW d \in Caller
          PROVE  /\ req'[d] = req[d] /\ pc'[d] \in {pc[d], "done"}
                 /\ UNCHANGED objects
      BY <1>1 DEF Crash
    <2>2. ASSUME NEW d \in Caller
          PROVE  Rewrites(d)'
      BY <2>1 DEF ReadInv, Rewrites, objects
    <2>3. UNCHANGED objects
      BY <1>1 DEF Crash
    <2>4. QED
      BY <2>1, <2>2, <2>3, <1>0 DEF ReadInv, MarkedSecretsReadable, objects
  <1>2. CASE Edit
    <2>0. ObjectsTypeOK
      BY <1>0 DEF TypeInv, TypeOK
    <2>1. PICK h \in Home : RemoveByHand(h) \/ MarkByHand(h)
      BY <1>2 DEF Edit
    <2>2. \A k \in Home : \/ content'[k] = content[k] /\ (k # h => markers'[k] = markers[k])
                          \/ k = h /\ content'[k] = None
      BY <2>0, <2>1 DEF RemoveByHand, MarkByHand, ObjectsTypeOK
    <2>3. markers'[h] # {} => content'[h] \in Secret
      BY <2>0, <2>1 DEF RemoveByHand, MarkByHand, ObjectsTypeOK
    <2>4. MarkedSecretsReadable'
      BY <2>2, <2>3, <1>0, <1>s DEF MarkedSecretsReadable, RemoveByHand
    <2>5. ASSUME NEW d \in Caller
          PROVE  req'[d] \in Requests[d] /\ Rewrites(d)'
      <3>1. pc'[d] = pc[d] /\ req'[d] = req[d]
        BY <1>2 DEF Edit, locals
      <3>2. req[d].home \in Home
        BY <1>0, RequestFacts
      <3>3. QED
        BY <2>2, <3>1, <3>2 DEF ReadInv, Rewrites
    <2>6. QED
      BY <2>4, <2>5, <1>0 DEF ReadInv
  <1>3. CASE UNCHANGED vars
    BY <1>0, <1>3 DEF vars, objects, locals, ReadInv, MarkedSecretsReadable, Rewrites
  <1>4. QED
    BY <1>0, <1>1, <1>2, <1>3, MoveReads DEF Next, Moves

\* A data object that carries a marker holds a complete secret, through failed
\* calls, lost replies, crashes and edits by hand, when the writers of each
\* home use one mapping service.
THEOREM OneWriterKeepsReadable == OneWriter /\ Spec => []MarkedSecretsReadable
  <1>1. CASE OneWriter
    <2>1. Init => ReadInv
      <3> SUFFICES ASSUME Init PROVE ReadInv
        OBVIOUS
      <3>1. \A c \in Caller : req[c] \in Requests[c] /\ Rewrites(c)
        BY S3UserKeysAssumption DEF Init, Rewrites
      <3>2. QED
        BY <3>1, InitType DEF Init, ReadInv, MarkedSecretsReadable
    <2>2. ReadInv /\ [Next]_vars => ReadInv'
      BY <1>1, NextReads
    <2>3. ReadInv => MarkedSecretsReadable
      BY DEF ReadInv
    <2>4. QED
      BY <2>1, <2>2, <2>3, PTL DEF Spec
  <1>2. QED
    BY <1>1

-----------------------------------------------------------------------------
(* What the mapping service reports as done.                               *)

\* Callers of the key service keep away from the homes that others change
\* through the mapping service, and nobody else refreshes while they work.
Undisputed ==
    \A c, d \in Caller : \A r \in Requests[c], s \in Requests[d] :
        c # d /\ Locks(r.op) /\ ~Locks(s.op) => r.op \notin Refreshes /\ r.home # s.home

\* The marked secrets that c has read are what its draft holds, user by user.
Read(c) == Marked \ matches[c]
Drafted(c) ==
    /\ matches[c] \subseteq Marked
    /\ \A m \in Read(c) : /\ content[m.home] \in Secret
                          /\ \E u \in User : m.users = {u} /\ draft[c][u] = content[m.home]
    /\ \A m, n \in Read(c) : m.users \cap n.users # {} => m = n
    /\ \A u \in User : draft[c][u] = None \/ \E m \in Read(c) : u \in m.users
    /\ pc[c] = "publish" => matches[c] = {}

\* What c knows of the data objects, as long as nobody disturbs it.
Informed(c) ==
    LET r == req[c]
    IN /\ pc[c] \in {"marks", "unmark", "mark"} => content[r.home] = r.secret
       /\ pc[c] \in {"load", "publish"} /\ r.op \in Stores
             => content[r.home] = r.secret /\ r.user \in markers[r.home]
       /\ pc[c] \in {"load", "publish"} /\ r.op \notin Stores \cup Refreshes
             => content[r.home] = None
       /\ pc[c] \in {"read", "publish"} /\ r.op \in Refreshes => Drafted(c)

Prepared(c) == /\ req[c] \in Requests[c]
               /\ pc[c] \in {"done", "lock", "query"} => draft[c] = NoEntries
               /\ pc[c] = "load" => req[c].op \notin Refreshes
               /\ Locks(req[c].op) /\ c \notin disturbed => Informed(c)

PublishInv == KeepInv /\ \A c \in Caller : Prepared(c)

\* Only a new request of c undoes that it was disturbed.
LEMMA DisturbedKept ==
    ASSUME NEW c \in Caller, Moves(c)
    PROVE  disturbed' = disturbed \/ (Start(c) /\ disturbed' = disturbed \ {c})
  <1>1. ASSUME NEW secret, NEW users, NEW stage, Change(c, secret, users, stage)
        PROVE  disturbed' = disturbed
    BY <1>1 DEF Change
  <1>2. QED
    BY <1>1 DEF Moves, Step, Start, Acquire, Fail, Ensure, Stat, Unlink, Create, Write,
       ListMarkers, Unmark, Mark, Delete, Load, Publish, Query, ReadSecret, Missing, Reads

\* What Drafted says depends on no more than this.
LEMMA DraftedKept ==
    ASSUME NEW c, Drafted(c), UNCHANGED objects, matches'[c] = matches[c], draft'[c] = draft[c],
           pc'[c] = pc[c]
    PROVE  Drafted(c)'
  <1>1. Marked' = Marked
    BY DEF Marked, objects
  <1>2. QED
    BY <1>1 DEF Drafted, Read, objects

\* Reading one more secret.
LEMMA ReadDrafts ==
    ASSUME TypeInv, NEW c \in Caller, Drafted(c), ReadSecret(c), pc'[c] # "done"
    PROVE  Drafted(c)' /\ pc'[c] \in {"read", "publish"}
  <1>0. ValuesOK /\ ObjectsTypeOK
    BY RequestFacts
  <1>1. PICK m \in matches[c] : \E u \in m.users :
           /\ m.users = {u} /\ content[m.home] \in Secret /\ draft[c][u] = None
           /\ draft' = [draft EXCEPT ![c][u] = content[m.home]]
           /\ matches' = [matches EXCEPT ![c] = @ \ {m}]
           /\ Goto(c, IF matches[c] = {m} THEN "publish" ELSE "read")
    BY <1>0 DEF ReadSecret, Finish, ValuesOK
  <1>2. PICK u \in m.users :
           /\ m.users = {u} /\ content[m.home] \in Secret /\ draft[c][u] = None
           /\ draft' = [draft EXCEPT ![c][u] = content[m.home]]
           /\ matches' = [matches EXCEPT ![c] = @ \ {m}]
           /\ Goto(c, IF matches[c] = {m} THEN "publish" ELSE "read")
    BY <1>1
  <1>3. /\ u \in User /\ m \in [home : Home, users : SUBSET User] /\ m \in Marked
    BY <1>0 DEF ValuesOK, Drafted
  <1>4. UNCHANGED objects /\ Marked' = Marked
    BY DEF ReadSecret, Reads, Marked, objects
  <1>5. /\ matches'[c] = matches[c] \ {m}
        /\ Read(c)' = Read(c) \cup {m} /\ m \notin Read(c)
    <2>1. matches'[c] = matches[c] \ {m}
      BY <1>0, <1>2 DEF ValuesOK
    <2>2. QED
      BY <2>1, <1>3, <1>4 DEF Read
  <1>6. draft[c] \in Mapping /\ draft'[c] = [draft[c] EXCEPT ![u] = content[m.home]]
    BY <1>0, <1>2 DEF ValuesOK
  <1>7. None \notin Secret
    BY S3UserKeysAssumption
  \* The user of this secret is none of those that were read before.
  <1>8. ASSUME NEW n \in Read(c) PROVE u \notin n.users
    <2>1. PICK v \in User : n.users = {v} /\ draft[c][v] = content[n.home]
      BY <1>8 DEF Drafted
    <2>2. draft[c][v] # None
      BY <2>1, <1>8, <1>7 DEF Drafted
    <2>3. QED
      BY <2>1, <2>2, <1>2
  <1>9. Drafted(c)'
    <2>1. matches'[c] \subseteq Marked'
      BY <1>4, <1>5 DEF Drafted
    <2>2. ASSUME NEW n \in Read(c)'
          PROVE  /\ content'[n.home] \in Secret
                 /\ \E v \in User : n.users = {v} /\ draft'[c][v] = content'[n.home]
      <3>1. CASE n = m
        <4>1. draft'[c][u] = content[m.home]
          BY <1>3, <1>6 DEF Mapping
        <4>2. QED
          BY <3>1, <4>1, <1>2, <1>3, <1>4 DEF objects
      <3>2. CASE n # m
        <4>1. n \in Read(c)
          BY <3>2, <2>2, <1>5
        <4>2. PICK v \in User : n.users = {v} /\ draft[c][v] = content[n.home]
          BY <4>1 DEF Drafted
        <4>3. v # u
          BY <4>1, <4>2, <1>8
        <4>4. draft'[c][v] = draft[c][v]
          BY <4>3, <1>6 DEF Mapping
        <4>5. content[n.home] \in Secret
          BY <4>1 DEF Drafted
        <4>6. QED
          BY <4>2, <4>4, <4>5, <1>4 DEF objects
      <3>3. QED
        BY <3>1, <3>2
    <2>3. \A n, k \in Read(c)' : n.users \cap k.users # {} => n = k
      <3>1. \A n \in Read(c) : n.users \cap m.users = {}
        BY <1>2, <1>8
      <3>2. \A n, k \in Read(c) : n.users \cap k.users # {} => n = k
        BY DEF Drafted
      <3>3. QED
        BY <3>1, <3>2, <1>5
    <2>4. ASSUME NEW v \in User
          PROVE  draft'[c][v] = None \/ \E n \in Read(c)' : v \in n.users
      <3>1. CASE v = u
        BY <3>1, <1>5
      <3>2. CASE v # u
        <4>1. draft'[c][v] = draft[c][v]
          BY <3>2, <1>6 DEF Mapping
        <4>2. QED
          BY <4>1, <1>5 DEF Drafted
      <3>3. QED
        BY <3>1, <3>2
    <2>5. pc'[c] = "publish" => matches'[c] = {}
      BY <1>0, <1>2, <1>5 DEF Goto, ValuesOK
    <2>6. QED
      BY <2>1, <2>2, <2>3, <2>4, <2>5 DEF Drafted
  <1>10. QED
    BY <1>0, <1>2, <1>9 DEF Goto, ValuesOK

\* A draft of all marked secrets is the mapping that the markers describe.
LEMMA DraftMirrors ==
    ASSUME TypeInv, NEW c \in Caller, Drafted(c), matches[c] = {}
    PROVE  ~Ambiguous /\ draft[c] = Mirror
  <1>0. ObjectsTypeOK /\ draft[c] \in Mapping
    BY RequestFacts DEF ValuesOK
  <1> DEFINE mark(h) == [home |-> h, users |-> markers[h]]
  <1>1. \A h \in Home : markers[h] # {} => mark(h) \in Read(c)
    BY DEF Marked, Read
  <1>2. ASSUME NEW h \in Home, markers[h] # {}
        PROVE  \E u \in User : markers[h] = {u} /\ draft[c][u] = content[h]
    <2>1. mark(h) \in Read(c)
      BY <1>1, <1>2
    <2>2. PICK u \in User : mark(h).users = {u} /\ draft[c][u] = content[mark(h).home]
      BY <2>1 DEF Drafted
    <2>3. QED
      BY <2>2
  <1>3. ASSUME NEW h \in Home, NEW k \in Home, markers[h] \cap markers[k] # {}
        PROVE  h = k
    <2>1. mark(h) \in Read(c) /\ mark(k) \in Read(c)
      BY <1>1, <1>3
    <2>2. mark(h) = mark(k)
      BY <2>1, <1>3 DEF Drafted
    <2>3. mark(h).home = h /\ mark(k).home = k
      OBVIOUS
    <2>4. QED
      BY <2>2, <2>3
  <1>4. \A h \in Home : ~(Cardinality(markers[h]) > 1)
    <2>1. ASSUME NEW h \in Home
          PROVE  Cardinality(markers[h]) \in {0, 1}
      <3>1. CASE markers[h] = {}
        BY <3>1, FS_EmptySet
      <3>2. CASE markers[h] # {}
        <4>1. PICK u \in User : markers[h] = {u}
          BY <3>2, <1>2
        <4>2. Cardinality({u}) = 1
          BY FS_Singleton
        <4>3. QED
          BY <4>1, <4>2
      <3>3. QED
        BY <3>1, <3>2
    <2>2. QED
      BY <2>1
  <1>5. ASSUME NEW u \in User
        PROVE  draft[c][u] = Mirror[u]
    <2>1. CASE \E h \in Home : u \in markers[h]
      <3> DEFINE h == CHOOSE h \in Home : u \in markers[h]
      <3>1. h \in Home /\ u \in markers[h]
        BY <2>1
      <3>2. draft[c][u] = content[h]
        BY <3>1, <1>2
      <3>3. Mirror[u] = content[h]
        BY <2>1 DEF Mirror
      <3>4. QED
        BY <3>2, <3>3
    <2>2. CASE ~ \E h \in Home : u \in markers[h]
      <3>1. \A m \in Read(c) : u \notin m.users
        BY <2>2 DEF Read, Marked
      <3>2. draft[c][u] = None
        BY <3>1 DEF Drafted
      <3>3. Mirror[u] = None
        BY <2>2 DEF Mirror
      <3>4. QED
        BY <3>2, <3>3
    <2>3. QED
      BY <2>1, <2>2
  <1>6. draft[c] = Mirror
    BY <1>0, <1>5 DEF Mapping, Mirror
  <1>7. QED
    BY <1>3, <1>4, <1>6 DEF Ambiguous

\* A caller's own steps keep what it knows.
LEMMA OwnPrepared ==
    ASSUME PublishInv, NEW c \in Caller, Moves(c)
    PROVE  Prepared(c)'
  <1> DEFINE r == req[c]
             h == r.home
             Sure == Locks(r.op) /\ c \notin disturbed
  <1>0. /\ TypeInv /\ ValuesOK /\ ObjectsTypeOK /\ Fits(r, pc[c]) /\ h \in Home /\ r.user \in User
        /\ r \in Requests[c] /\ Prepared(c) /\ (Sure => Informed(c))
    BY RequestFacts DEF PublishInv, KeepInv, Prepared
  <1>q. /\ req'[c] \in Requests[c] /\ (pc[c] # "done" => req'[c] = r)
        /\ disturbed' = disturbed \/ Start(c)
    BY <1>0, OwnRequest, DisturbedKept
  <1>f. ASSUME NEW o, Finish(c, o)
        PROVE  Prepared(c)'
    BY <1>0, <1>q, <1>f DEF Finish, ValuesOK, Prepared, Informed
  \* At these stages there is nothing to know.
  <1>p. ASSUME pc'[c] \in {"ensure", "stat", "unlink", "create", "write", "delete"}
        PROVE  Prepared(c)'
    BY <1>q, <1>p DEF Prepared, Informed
  <1>c. ASSUME NEW secret, NEW users, NEW stage \in {"create", "write", "marks", "load", "done"},
               Change(c, secret, users, stage), pc[c] # "done",
               Sure /\ stage = "marks" => secret = r.secret,
               stage = "load" => r.op \notin Refreshes,
               Sure /\ stage = "load" /\ r.op \in Stores => secret = r.secret /\ r.user \in users,
               Sure /\ stage = "load" /\ r.op \notin Stores => secret = None
        PROVE  Prepared(c)'
    <2>1. content'[h] = secret /\ markers'[h] = users
      BY <1>0, <1>c DEF Change, ObjectsTypeOK
    <2>2. CASE \E o : Finish(c, o)
      BY <2>2, <1>f
    <2>3. CASE Proceed(c, stage) /\ stage # "done"
      <3>1. pc'[c] = stage /\ req'[c] = r /\ disturbed' = disturbed
        BY <2>3, <1>0, <1>c DEF Proceed, Goto, ValuesOK, Change
      <3>2. CASE stage \in {"create", "write"}
        BY <3>1, <3>2, <1>p
      <3>3. CASE stage = "marks"
        BY <2>1, <3>1, <3>3, <1>c, <1>q DEF Prepared, Informed
      <3>4. CASE stage = "load"
        <4>1. r.op \in Stores \cup Refreshes => r.op \in Stores
          BY <3>4, <1>c
        <4>2. QED
          BY <2>1, <3>1, <3>4, <4>1, <1>c, <1>q DEF Prepared, Informed
      <3>5. QED
        BY <2>3, <3>2, <3>3, <3>4
    <2>4. QED
      BY <2>2, <2>3, <1>c DEF Change, Continue
  <1>1. CASE Start(c)
    <2>1. pc'[c] \in {"lock", "ensure", "delete"} \/ (pc'[c] = "query" /\ draft'[c] = draft[c])
      BY <1>0, <1>1 DEF Start, Goto, FirstStage, ValuesOK
    <2>2. draft'[c] = NoEntries
      BY <1>0, <1>1 DEF Start, Prepared
    <2>3. QED
      BY <2>1, <2>2, <1>q DEF Prepared, Informed
  <1>2. CASE Acquire(c)
    <2>1. pc'[c] \in {"ensure", "query", "delete"} /\ draft'[c] = NoEntries
      BY <1>0, <1>2 DEF Acquire, Goto, FirstStage, ValuesOK, Prepared
    <2>2. QED
      BY <2>1, <1>q DEF Prepared, Informed
  <1>3. CASE Fail(c) \/ Publish(c)
    BY <1>3, <1>f DEF Fail, Publish
  <1>4. CASE Ensure(c) \/ Stat(c)
    BY <1>0, <1>4, <1>f, <1>p DEF Ensure, Stat, Proceed, Goto, ValuesOK
  <1>5. CASE Unlink(c) \/ Create(c) \/ Write(c)
    BY <1>5, <1>f, <1>c DEF Unlink, Create, Write, Missing
  <1>6. CASE ListMarkers(c)
    <2>1. CASE Goto(c, IF markers[h] = {} THEN "mark" ELSE "unmark") /\ Reads
      <3>1. pc'[c] \in {"mark", "unmark"} /\ content' = content /\ pc[c] = "marks"
        BY <2>1, <1>0, <1>6 DEF ListMarkers, Goto, ValuesOK, Reads, objects
      <3>2. QED
        BY <2>1, <3>1, <1>0, <1>q DEF Reads, Prepared, Informed
    <2>2. QED
      BY <2>1, <1>6, <1>f DEF ListMarkers, Missing
  <1>7. CASE Unmark(c)
    <2>1. CASE content' = content /\ \E u : Goto(c, IF todo[c] = {u} THEN "mark" ELSE "unmark")
      <3>1. pc'[c] \in {"mark", "unmark"} /\ pc[c] = "unmark" /\ ~Start(c)
        BY <2>1, <1>0, <1>7 DEF Unmark, Goto, ValuesOK, Start
      <3>2. QED
        BY <2>1, <3>1, <1>0, <1>q DEF Prepared, Informed
    <2>2. QED
      BY <2>1, <1>7, <1>f DEF Unmark
  <1>8. CASE Mark(c)
    <2>1. pc[c] = "mark" /\ r.op \in Stores /\ r.op \notin Refreshes
      BY <1>0, <1>8 DEF Mark, Fits, Rewriting, Stores, Refreshes
    <2>2. Sure => content[h] = r.secret
      BY <2>1, <1>0 DEF Informed
    <2>3. CASE Change(c, content[h], markers[h] \cup {r.user}, AfterChange(c))
      <3>1. AfterChange(c) \in {"create", "write", "marks", "load", "done"}
            /\ AfterChange(c) # "marks"
        BY DEF AfterChange
      <3>2. QED
        BY <2>1, <2>2, <2>3, <3>1, <1>c
    <2>4. QED
      BY <2>3, <1>8, <1>f DEF Mark, Missing
  <1>9. CASE Delete(c)
    <2>1. pc[c] = "delete" /\ r.op \notin Stores \cup Refreshes
      BY <1>0, <1>9 DEF Delete, Fits
    <2>2. CASE Change(c, None, {}, AfterChange(c))
      <3>1. AfterChange(c) \in {"create", "write", "marks", "load", "done"}
            /\ AfterChange(c) # "marks"
        BY DEF AfterChange
      <3>2. QED
        BY <2>1, <2>2, <3>1, <1>c
    <2>3. QED
      BY <2>2, <1>9, <1>f DEF Delete
  <1>10. CASE Load(c)
    <2>1. /\ pc'[c] = "publish" /\ pc[c] = "load" /\ UNCHANGED <<objects, disturbed>>
          /\ r.op \notin Refreshes /\ req'[c] = r
      BY <1>0, <1>10, <1>q DEF Load, Goto, ValuesOK, Reads, Prepared
    <2>2. QED
      BY <2>1, <1>0, <1>q DEF Prepared, Informed, objects
  <1>11. CASE Query(c)
    <2>1. /\ pc'[c] \in {"read", "publish"} /\ r.op \in Refreshes /\ r.op \notin Stores
          /\ matches'[c] = Marked /\ Marked' = Marked /\ draft'[c] = NoEntries
          /\ pc'[c] = "publish" => Marked = {}
      BY <1>0, <1>11 DEF Query, Goto, ValuesOK, Fits, Stores, Refreshes, Reads, objects, Marked,
         Prepared
    <2>2. Read(c)' = {}
      BY <2>1 DEF Read
    <2>3. Drafted(c)'
      BY <2>1, <2>2 DEF Drafted, NoEntries
    <2>4. req'[c] = r
      BY <1>11, <1>q DEF Query
    <2>5. QED
      BY <2>1, <2>3, <2>4, <1>q DEF Prepared, Informed
  <1>12. CASE ReadSecret(c)
    <2>1. pc[c] = "read" /\ r.op \in Refreshes /\ r.op \notin Stores /\ req'[c] = r /\ ~Start(c)
      BY <1>0, <1>12, <1>q DEF ReadSecret, Fits, Stores, Refreshes, Start
    <2>2. CASE \E o : Finish(c, o)
      BY <2>2, <1>f
    <2>3. CASE pc'[c] \in {"read", "publish"}
      <3>1. Sure => Drafted(c)'
        BY <2>1, <2>3, <1>0, <1>12, ReadDrafts DEF Informed
      <3>2. QED
        BY <2>1, <2>3, <3>1, <1>q DEF Prepared, Informed
    <2>4. QED
      BY <2>2, <2>3, <1>0, <1>12 DEF ReadSecret, Goto, ValuesOK
  <1>13. QED
    BY <1>1, <1>2, <1>3, <1>4, <1>5, <1>6, <1>7, <1>8, <1>9, <1>10, <1>11, <1>12 DEF Moves, Step

\* The steps of another caller do, too: on one UserMappingFile nobody else is
\* within an operation, and those who take no lock are elsewhere.
LEMMA OthersPrepared ==
    ASSUME SharedFile, Undisputed, PublishInv, NEW c \in Caller, Moves(c), TypeInv',
           NEW d \in Caller \ {c}
    PROVE  Prepared(d)'
  <1>0. /\ TypeInv /\ Prepared(d) /\ Prepared(c) /\ Kept(d) /\ req[d].home \in Home
        /\ d \in disturbed' <=> d \in disturbed
    BY MoveFrame, DisturbedKept, RequestFacts DEF PublishInv, KeepInv
  <1>1. CASE Locks(req[d].op) /\ d \notin disturbed /\ pc[d] \notin {"done", "lock"}
    <2>1. Inside(d) /\ Informed(d)
      BY <1>0, <1>1 DEF Inside, Prepared
    <2>2. CASE UNCHANGED objects
      BY <2>1, <2>2, <1>0, DraftedKept DEF Informed, Prepared, Kept, objects
    <2>3. CASE Active(c) /\ ~Locks(req[c].op)
      <3>1. req[d].op \notin Refreshes /\ req[d].home # req[c].home
        BY <2>3, <1>0, <1>1 DEF Undisputed, Prepared
      <3>2. content'[req[d].home] = content[req[d].home]
            /\ markers'[req[d].home] = markers[req[d].home]
        BY <3>1, <1>0, OwnHome
      <3>3. QED
        BY <2>1, <3>1, <3>2, <1>0 DEF Informed, Prepared, Kept
    <2>4. CASE ~Active(c)
      <3>1. \A h \in Home : content'[h] = content[h] /\ markers'[h] = markers[h]
        BY <2>4, <1>0, OwnHome
      <3>2. UNCHANGED objects
        BY <3>1, <1>0 DEF TypeInv, TypeOK, ObjectsTypeOK, objects
      <3>3. QED
        BY <2>2, <3>2
    <2>5. CASE Active(c) /\ Locks(req[c].op)
      <3>1. Inside(c)
        BY <2>5 DEF Active, Inside
      <3>2. QED
        BY <2>1, <3>1, <1>0 DEF SharedFile, TypeInv, Exclusion
    <2>6. QED
      BY <2>3, <2>4, <2>5
  <1>2. CASE ~(Locks(req[d].op) /\ d \notin disturbed /\ pc[d] \notin {"done", "lock"})
    BY <1>0, <1>2 DEF Prepared, Informed, Kept
  <1>3. QED
    BY <1>1, <1>2

LEMMA NextPublishes ==
    ASSUME SharedFile, Undisputed, PublishInv, [Next]_vars
    PROVE  PublishInv'
  <1>0. KeepInv /\ KeepInv' /\ TypeInv /\ TypeInv'
    BY NextKeeps DEF PublishInv, KeepInv
  <1>1. SUFFICES ASSUME NEW d \in Caller PROVE Prepared(d)'
    BY <1>0 DEF PublishInv
  <1>2. Prepared(d) /\ req[d].home \in Home
    BY <1>0, RequestFacts DEF PublishInv
  <1>3. ASSUME NEW c \in Caller, Moves(c)
        PROVE  Prepared(d)'
    BY <1>0, <1>3, OwnPrepared, OthersPrepared
  <1>4. ASSUME NEW g, Crash(g)
        PROVE  Prepared(d)'
    <2>1. /\ UNCHANGED <<objects, req, disturbed>>
          /\ \/ pc'[d] = "done" /\ draft'[d] = NoEntries
             \/ pc'[d] = pc[d] /\ draft'[d] = draft[d] /\ matches'[d] = matches[d]
      BY <1>4 DEF Crash
    <2>2. QED
      BY <2>1, <1>2, DraftedKept DEF Prepared, Informed, objects
  <1>5. CASE Edit
    <2>1. PICK h \in Home :
            /\ RemoveByHand(h) \/ MarkByHand(h)
            /\ disturbed' = disturbed \cup
                  {c \in Caller : pc[c] # "done" /\ (req[c].home = h \/ req[c].op \in Refreshes)}
      BY <1>5 DEF Edit
    <2>2. \A k \in Home : k # h => content'[k] = content[k] /\ markers'[k] = markers[k]
      BY <2>1, <1>0 DEF RemoveByHand, MarkByHand, TypeInv, TypeOK, ObjectsTypeOK
    <2>3. UNCHANGED <<pc, req, draft, matches>>
      BY <1>5 DEF Edit, locals
    <2>4. QED
      BY <2>1, <2>2, <2>3, <1>2 DEF Prepared, Informed
  <1>6. CASE UNCHANGED vars
    BY <1>6, <1>2, DraftedKept DEF vars, locals, Prepared, Informed, objects
  <1>7. QED
    BY <1>3, <1>4, <1>5, <1>6 DEF Next, Moves

\* When the services share one UserMappingFile, and nobody works on their homes
\* behind its back, what an operation reports as done is so at that moment, in
\* the home and in the mapping, through all failures, crashes and edits of others.
THEOREM SuccessIsPublished == SharedFile /\ Undisputed /\ Spec => SuccessPublishes
  <1> DEFINE A == \A c \in Caller \ disturbed :
                    pc[c] = "publish" /\ pc'[c] = "done" /\ out'[c] = "ok" => Served(c)
  <1>1. CASE SharedFile /\ Undisputed
    <2>1. Init => PublishInv
      <3> SUFFICES ASSUME Init PROVE PublishInv
        OBVIOUS
      <3>1. \A c \in Caller : Prepared(c)
        BY S3UserKeysAssumption DEF Init, Prepared, Informed
      <3>2. QED
        BY <3>1, InitType DEF Init, PublishInv, KeepInv
    <2>2. PublishInv /\ [Next]_vars => PublishInv'
      BY <1>1, NextPublishes
    <2>3. ASSUME PublishInv, [Next]_vars, NEW c \in Caller \ disturbed,
                 pc[c] = "publish", pc'[c] = "done", out'[c] = "ok"
          PROVE  Served(c)
      <3> DEFINE r == req[c]
      <3>1. /\ TypeInv /\ ValuesOK /\ ObjectsTypeOK /\ r.user \in User /\ Locks(r.op)
            /\ Prepared(c)
        BY <2>3, RequestFacts DEF PublishInv, KeepInv, Fits
      <3>2. Publish(c)
        <4>1. ASSUME NEW d \in Caller, Moves(d), d # c
              PROVE  FALSE
          BY <4>1, <2>3, <3>1, MoveFrame DEF Kept
        <4>2. ~Fail(c)
          BY <2>3, <3>1 DEF Fail, Finish, ValuesOK
        <4>3. ~ \E g \in {Guard[d] : d \in Caller} : Crash(g)
          BY <2>3 DEF Crash
        <4>4. ~Edit /\ ~UNCHANGED vars
          BY <2>3 DEF Edit, vars, locals
        <4>5. Moves(c) => Publish(c) \/ Fail(c)
          BY <2>3 DEF Moves, Step, Start, Acquire, Ensure, Stat, Unlink, Create, Write,
             ListMarkers, Unmark, Mark, Delete, Load, Query, ReadSecret
        <4>6. QED
          BY <2>3, <4>1, <4>2, <4>3, <4>4, <4>5 DEF Next, Moves
      <3>3. file' = draft[c] /\ Informed(c)
        BY <2>3, <3>1, <3>2 DEF Publish, Prepared
      <3>4. CASE r.op \in Stores
        <4>1. r.op \notin Refreshes
          BY <3>4 DEF Stores, Refreshes
        <4>2. draft[c] = Updated(c)
          BY <2>3, <4>1 DEF PublishInv, KeepInv
        <4>3. file'[r.user] = r.secret
          BY <3>1, <3>3, <3>4, <4>2 DEF Updated, ObjectsTypeOK, Mapping
        <4>4. QED
          BY <2>3, <3>3, <3>4, <4>1, <4>3 DEF Informed, Served
      <3>5. CASE r.op \in Refreshes
        <4>1. Drafted(c) /\ matches[c] = {} /\ r.op \notin Stores
          BY <2>3, <3>3, <3>5 DEF Informed, Drafted, Stores, Refreshes
        <4>2. QED
          BY <3>1, <3>3, <3>5, <4>1, DraftMirrors DEF Served
      <3>6. CASE r.op \notin Stores /\ r.op \notin Refreshes
        <4>1. draft[c] = Updated(c)
          BY <2>3, <3>6 DEF PublishInv, KeepInv
        <4>2. file'[r.user] = None
          BY <3>1, <3>3, <3>6, <4>1 DEF Updated, ObjectsTypeOK, Mapping
        <4>3. content[r.home] = None
          BY <2>3, <3>3, <3>6 DEF Informed
        <4>4. QED
          BY <3>6, <4>2, <4>3 DEF Served
      <3>7. QED
        BY <3>4, <3>5, <3>6
    <2>4. PublishInv /\ [Next]_vars => [A]_vars
      BY <2>3
    <2>5. Spec => [][A]_vars
      BY <2>1, <2>2, <2>4, PTL DEF Spec
    <2>6. QED
      BY <2>5 DEF SuccessPublishes
  <1>2. QED
    BY <1>1
=============================================================================
