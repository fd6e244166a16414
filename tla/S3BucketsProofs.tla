--------------------------- MODULE S3BucketsProofs ---------------------------
(***************************************************************************)
(* Theorems about S3Buckets, for every set of callers, MappingFiles, paths *)
(* and names.                                                              *)
(***************************************************************************)
EXTENDS S3Buckets, TLAPS

-----------------------------------------------------------------------------
(* Types and the mutex.                                                    *)

LockOK == locked = {Guard[c] : c \in {d \in Caller : Inside(d)}}

\* The inductive invariant behind both.
TypeInv == TypeOK /\ MutualExclusion

\* What the searches return are buckets beneath the scan root.
LEMMA SearchTypes ==
    /\ Buckets \subseteq Name \X Scope
    /\ \A n \in Name : Named(n) \subseteq Name \X Scope
    /\ \A bs \in SUBSET (Name \X Scope) : MappingOf(bs) \in [Name -> Scope \cup {NoPath}]
  <1>1. Buckets \subseteq Name \X Scope
    BY DEF Buckets
  <1>2. ASSUME NEW n \in Name PROVE Named(n) \subseteq Name \X Scope
    BY DEF Named
  <1>3. ASSUME NEW bs \in SUBSET (Name \X Scope)
        PROVE  MappingOf(bs) \in [Name -> Scope \cup {NoPath}]
    <2>1. ASSUME NEW n \in Name, \E b \in bs : b[1] = n
          PROVE  (CHOOSE b \in bs : b[1] = n)[2] \in Scope
      BY <2>1
    <2>2. QED
      BY <2>1 DEF MappingOf
  <1>4. QED
    BY <1>1, <1>2, <1>3

\* Leaving an operation, and going on within it, keep the lock right.
LEMMA LeaveLock ==
    ASSUME TypeInv, NEW c \in Caller, Inside(c), pc' = [pc EXCEPT ![c] = "done"],
           locked' = locked \ {Guard[c]}
    PROVE  LockOK' /\ MutualExclusion'
  <1>1. \A d \in Caller : Inside(d)' <=> d # c /\ Inside(d)
    BY DEF TypeInv, TypeOK, LocalTypeOK, Inside
  <1>2. \A d \in Caller : Inside(d) /\ Guard[d] = Guard[c] => d = c
    BY DEF TypeInv, MutualExclusion
  <1>3. MutualExclusion'
    BY <1>1 DEF TypeInv, MutualExclusion
  <1>4. LockOK'
    BY <1>1, <1>2 DEF TypeInv, TypeOK, LockOK
  <1>5. QED
    BY <1>3, <1>4

LEMMA StayLock ==
    ASSUME TypeInv, NEW c \in Caller, Inside(c), NEW stage \in Stages \ {"done", "lock"},
           pc' = [pc EXCEPT ![c] = stage], UNCHANGED locked
    PROVE  LockOK' /\ MutualExclusion'
  <1>1. \A d \in Caller : Inside(d)' <=> Inside(d)
    BY DEF TypeInv, TypeOK, LocalTypeOK, Inside
  <1>2. QED
    BY <1>1 DEF TypeInv, TypeOK, MutualExclusion, LockOK

LEMMA FinishType ==
    ASSUME TypeInv, NEW c \in Caller, Inside(c), NEW o \in Outcomes, Finish(c, o)
    PROVE  LocalTypeOK' /\ LockOK' /\ MutualExclusion'
  <1>1. LocalTypeOK'
    BY DEF TypeInv, TypeOK, LocalTypeOK, Finish, Goto, Stages
  <1>2. QED
    BY <1>1, LeaveLock DEF Finish, Goto

LEMMA ProceedType ==
    ASSUME TypeInv, NEW c \in Caller, Inside(c), NEW stage \in Stages \ {"done", "lock"},
           Proceed(c, stage) \/ (ListThen(c, stage) /\ req[c].path \in Path)
    PROVE  LocalTypeOK' /\ LockOK' /\ MutualExclusion'
  <1>1. LocalTypeOK'
    BY DEF TypeInv, TypeOK, CatalogTypeOK, LocalTypeOK, Proceed, ListThen, Goto
  <1>2. QED
    BY <1>1, StayLock DEF Proceed, ListThen, Goto

LEMMA WriteType ==
    ASSUME TypeInv, NEW c \in Caller, Inside(c), NEW stage \in Stages \ {"done", "lock"},
           NEW values \in SUBSET Value, req[c].path \in Path, Write(c, values, stage)
    PROVE  TypeInv'
  <1>1. CatalogTypeOK'
    BY S3BucketsAssumption DEF TypeInv, TypeOK, CatalogTypeOK, Write, Disturb
  <1>2. CASE Goto(c, stage) /\ UNCHANGED <<locked, out, faults>>
    <2>1. LocalTypeOK'
      BY <1>2 DEF TypeInv, TypeOK, LocalTypeOK, Write, Goto
    <2>2. LockOK' /\ MutualExclusion'
      BY <1>2, StayLock DEF Goto
    <2>3. QED
      BY <1>1, <2>1, <2>2 DEF TypeInv, TypeOK, LockOK
  <1>3. CASE /\ Goto(c, "done") /\ out' = [out EXCEPT ![c] = "error"]
             /\ locked' = locked \ {Guard[c]}
             /\ listed' = [listed EXCEPT ![c] = {}]
    <2>1. LocalTypeOK'
      BY <1>3 DEF TypeInv, TypeOK, LocalTypeOK, Write, Goto, Stages, Outcomes, Refusals
    <2>2. LockOK' /\ MutualExclusion'
      BY <1>3, LeaveLock DEF Goto
    <2>3. QED
      BY <1>1, <2>1, <2>2 DEF TypeInv, TypeOK, LockOK
  <1>4. QED
    BY <1>2, <1>3 DEF Write

\* The service writes values the catalog can hold.
LEMMA PlainType == \A n \in Name : Plain(n) \in Value
  <1>1. TRUE \in Spelling
    BY S3BucketsAssumption
  <1>2. QED
    BY <1>1, Zenon DEF Plain, Value

\* The steps of an operation.
LEMMA StepType ==
    ASSUME TypeInv, NEW c \in Caller, Step(c)
    PROVE  TypeInv'
  <1> DEFINE r == req[c]
  <1>1. Inside(c)
    BY DEF Step, Inside, EnsureCollection, ListAVUs, CheckDuplicates, RelistAVUs, DeleteAVU,
       AddAVU, EnsureScanRoot, Scan, LoadMapping, SearchKnown, SearchExtra, ReplaceMapping
  <1>r. r.path \in Path /\ r.name \in Name /\ listed[c] \in SUBSET Value
    BY DEF TypeInv, TypeOK, LocalTypeOK, Request
  <1>l. ASSUME Reads, LocalTypeOK' /\ LockOK' /\ MutualExclusion'
        PROVE  TypeInv'
    BY <1>l DEF TypeInv, TypeOK, CatalogTypeOK, LockOK, Reads, catalog
  <1>f. \A o \in Outcomes : Finish(c, o) /\ Reads => TypeInv'
    BY <1>1, <1>l, FinishType
  <1>e. /\ Finish(c, "invalid") /\ Reads => TypeInv'
        /\ Finish(c, "error") /\ Reads => TypeInv'
        /\ Finish(c, "notfound") /\ Reads => TypeInv'
        /\ Finish(c, "alreadyset") /\ Reads => TypeInv'
        /\ Finish(c, "duplicate") /\ Reads => TypeInv'
    BY <1>f DEF Outcomes, Refusals
  <1>p. \A stage \in Stages \ {"done", "lock"} :
           (Proceed(c, stage) \/ ListThen(c, stage)) /\ Reads => TypeInv'
    BY <1>1, <1>r, <1>l, ProceedType
  <1>2. CASE EnsureCollection(c)
    BY <1>2, <1>e, <1>p DEF EnsureCollection, Stages
  <1>3. CASE ListAVUs(c)
    BY <1>3, <1>e, <1>p DEF ListAVUs, Stages
  <1>4. CASE CheckDuplicates(c)
    BY <1>4, <1>e, <1>p DEF CheckDuplicates, Stages
  <1>5. CASE RelistAVUs(c)
    BY <1>5, <1>e, <1>p DEF RelistAVUs, Stages
  <1>14. CASE EnsureScanRoot(c)
    BY <1>14, <1>e, <1>p DEF EnsureScanRoot, Stages
  <1>6. CASE DeleteAVU(c)
    <2> DEFINE next(v) == IF listed[c] # {v} THEN "untag"
                          ELSE IF r.op = "UpdateBucket" THEN "tag" ELSE "root"
    <2>1. PICK v \in listed[c] :
             \/ Finish(c, "error") /\ Reads
             \/ Write(c, avus[r.path] \ {v}, next(v))
      BY <1>6 DEF DeleteAVU
    <2>2. next(v) \in Stages \ {"done", "lock"} /\ avus[r.path] \ {v} \in SUBSET Value
      BY <1>r DEF Stages, TypeInv, TypeOK, CatalogTypeOK
    <2>3. QED
      BY <2>1, <2>2, <1>1, <1>e, <1>r, WriteType
  <1>7. CASE AddAVU(c)
    <2> DEFINE values == avus[r.path] \cup {Plain(r.name)}
    <2>1. "root" \in Stages \ {"done", "lock"} /\ values \in SUBSET Value
      BY <1>r, PlainType DEF Stages, TypeInv, TypeOK, CatalogTypeOK
    <2>2. (Finish(c, "error") /\ Reads) \/ Write(c, values, "root")
      BY <1>7 DEF AddAVU
    <2>3. QED
      BY <2>1, <2>2, <1>1, <1>e, <1>r, WriteType
  <1>s. ASSUME NEW stage \in Stages \ {"done", "lock"}, Goto(c, stage), Reads, UNCHANGED locked,
               LocalTypeOK'
        PROVE  TypeInv'
    <2>1. LockOK' /\ MutualExclusion'
      BY <1>s, <1>1, StayLock DEF Goto
    <2>2. QED
      BY <2>1, <1>s, <1>l
  <1>8. CASE Scan(c)
    <2> DEFINE stage == IF r.op = "RebuildMappingFromAVUs" THEN "replace" ELSE "load"
    <2>1. stage \in Stages \ {"done", "lock"}
      BY DEF Stages
    <2>2. LocalTypeOK'
      BY <1>8, <2>1, SearchTypes DEF Scan, Goto, TypeInv, TypeOK, LocalTypeOK
    <2>3. QED
      BY <2>1, <2>2, <1>8, <1>s DEF Scan
  <1>9. CASE LoadMapping(c)
    <2>1. LocalTypeOK' /\ "search" \in Stages \ {"done", "lock"}
      BY <1>9 DEF LoadMapping, Goto, TypeInv, TypeOK, LocalTypeOK, Stages
    <2>2. QED
      BY <2>1, <1>9, <1>s DEF LoadMapping
  <1>10. CASE SearchKnown(c)
    <2>1. CASE /\ UNCHANGED pc
               /\ \E n \in known[c] : /\ found' = [found EXCEPT ![c] = @ \cup Named(n)]
                                      /\ known' = [known EXCEPT ![c] = @ \ {n}]
      <3>1. PICK n \in known[c] : /\ found' = [found EXCEPT ![c] = @ \cup Named(n)]
                                  /\ known' = [known EXCEPT ![c] = @ \ {n}]
        BY <2>1
      <3>2. n \in Name /\ Named(n) \subseteq Name \X Scope
        BY <3>1, SearchTypes DEF TypeInv, TypeOK, LocalTypeOK
      <3>3. LocalTypeOK'
        BY <1>10, <2>1, <3>1, <3>2 DEF SearchKnown, TypeInv, TypeOK, LocalTypeOK
      <3>4. LockOK' /\ MutualExclusion'
        BY <1>10, <2>1 DEF SearchKnown, TypeInv, TypeOK, LockOK, MutualExclusion, Inside
      <3>5. QED
        BY <3>3, <3>4, <1>10, <1>l DEF SearchKnown
    <2>2. CASE Goto(c, "extra") /\ UNCHANGED <<found, known>>
      <3>1. LocalTypeOK' /\ "extra" \in Stages \ {"done", "lock"}
        BY <1>10, <2>2 DEF SearchKnown, Goto, TypeInv, TypeOK, LocalTypeOK, Stages
      <3>2. QED
        BY <3>1, <2>2, <1>10, <1>s DEF SearchKnown
    <2>3. QED
      BY <2>1, <2>2, <1>10 DEF SearchKnown
  <1>11. CASE SearchExtra(c)
    <2> DEFINE extra == IF r.op \in {"AddBucket", "UpdateBucket"} THEN Named(r.name) ELSE {}
    <2>1. extra \subseteq Name \X Scope /\ "replace" \in Stages \ {"done", "lock"}
      BY <1>r, SearchTypes DEF Stages
    <2>2. LocalTypeOK'
      BY <1>11, <2>1 DEF SearchExtra, Goto, TypeInv, TypeOK, LocalTypeOK
    <2>3. QED
      BY <2>1, <2>2, <1>11, <1>s DEF SearchExtra
  <1>12. CASE ReplaceMapping(c)
    <2>1. CASE /\ file' = MappingOf(found[c]) /\ Finish(c, "ok")
               /\ UNCHANGED <<catalog, disturbed, edits, faults>>
      <3>1. LocalTypeOK' /\ LockOK' /\ MutualExclusion'
        BY <2>1, <1>1, FinishType DEF Outcomes, Refusals
      <3>2. file' \in [Name -> Scope \cup {NoPath}]
        BY <2>1, SearchTypes DEF TypeInv, TypeOK, LocalTypeOK
      <3>3. QED
        BY <2>1, <3>1, <3>2 DEF TypeInv, TypeOK, CatalogTypeOK, LockOK, catalog
    <2>2. QED
      BY <2>1, <1>12, <1>e DEF ReplaceMapping
  <1>13. QED
    BY <1>2, <1>3, <1>4, <1>5, <1>6, <1>7, <1>8, <1>9, <1>10, <1>11, <1>12, <1>14 DEF Step

\* The steps outside an operation, or of its environment.
LEMMA StartType ==
    ASSUME TypeInv, NEW c \in Caller, Start(c)
    PROVE  TypeInv'
  <1>r. req' \in [Caller -> Request]
    <2>1. PICK r \in Requests[c] : req' = [req EXCEPT ![c] = r]
      BY DEF Start
    <2>2. r \in Request /\ req \in [Caller -> Request]
      BY S3BucketsAssumption DEF TypeInv, TypeOK, LocalTypeOK
    <2>3. QED
      BY <2>1, <2>2
  <1>1. LocalTypeOK' /\ CatalogTypeOK'
    BY <1>r DEF Start, TypeInv, TypeOK, LocalTypeOK, CatalogTypeOK, Goto, Stages,
       Outcomes, Refusals, Reads, catalog
  <1>2. \A d \in Caller : Inside(d)' <=> Inside(d)
    BY DEF Start, TypeInv, TypeOK, LocalTypeOK, Goto, Inside
  <1>3. QED
    BY <1>1, <1>2 DEF Start, TypeInv, TypeOK, MutualExclusion

LEMMA AcquireType ==
    ASSUME TypeInv, NEW c \in Caller, Acquire(c)
    PROVE  TypeInv'
  <1>1. LocalTypeOK' /\ CatalogTypeOK'
    BY DEF Acquire, TypeInv, TypeOK, LocalTypeOK, CatalogTypeOK, Goto, Stages, Reads, catalog
  <1>2. \A d \in Caller : Inside(d)' <=> d = c \/ Inside(d)
    BY DEF Acquire, TypeInv, TypeOK, LocalTypeOK, Goto, Inside
  <1>3. \A d \in Caller : Inside(d) => Guard[d] # Guard[c]
    BY DEF Acquire, Free, TypeInv, TypeOK
  <1>4. MutualExclusion'
    BY <1>2, <1>3 DEF TypeInv, MutualExclusion
  <1>5. LockOK'
    BY <1>2 DEF Acquire, TypeInv, TypeOK, LockOK
  <1>6. QED
    BY <1>1, <1>4, <1>5 DEF TypeInv, TypeOK, LockOK

LEMMA CrashType ==
    ASSUME TypeInv, NEW g, Crash(g)
    PROVE  TypeInv'
  <1>1. CatalogTypeOK' /\ LocalTypeOK'
    BY S3BucketsAssumption DEF Crash, TypeInv, TypeOK, LocalTypeOK, CatalogTypeOK, Stages,
       Outcomes, Refusals, catalog
  <1>2. \A d \in Caller : Inside(d)' <=> Guard[d] # g /\ Inside(d)
    BY DEF Crash, Inside
  <1>3. LockOK'
    BY <1>2 DEF Crash, TypeInv, TypeOK, LockOK
  <1>4. QED
    BY <1>1, <1>2, <1>3 DEF TypeInv, TypeOK, LockOK, MutualExclusion

LEMMA EditType ==
    ASSUME TypeInv, Edit
    PROVE  TypeInv'
  <1> DEFINE Tree == Root \in collections \/ collections \cap Scope = {}
  <1>t. /\ collections \subseteq Path /\ Tree /\ avus \in [Path -> SUBSET Value]
        /\ Root \in Scope /\ Scope \subseteq Path
    BY S3BucketsAssumption DEF TypeInv, TypeOK, CatalogTypeOK
  <1>1. collections' \subseteq Path /\ Tree' /\ avus' \in [Path -> SUBSET Value]
    <2>1. CASE MakeCollection
      BY <2>1, <1>t DEF MakeCollection
    <2>2. CASE RemoveCollection
      BY <2>2, <1>t DEF RemoveCollection
    <2>3. CASE AddByHand \/ RemoveByHand
      BY <2>3, <1>t DEF AddByHand, RemoveByHand
    <2>4. QED
      BY <2>1, <2>2, <2>3 DEF Edit
  <1>2. edits' \in 0 .. MaxEdits
    BY S3BucketsAssumption DEF Edit, TypeInv, TypeOK, CatalogTypeOK
  <1>3. QED
    BY <1>1, <1>2 DEF Edit, Disturb, TypeInv, TypeOK, CatalogTypeOK, LocalTypeOK, MutualExclusion,
       locals, Inside

LEMMA InitType == Init => TypeInv
  <1> SUFFICES ASSUME Init PROVE TypeInv
    OBVIOUS
  <1>1. \A c \in Caller : req[c] \in Request
    BY S3BucketsAssumption DEF Init
  <1>2. LocalTypeOK
    BY <1>1 DEF Init, LocalTypeOK, Stages, Outcomes, Refusals
  <1>3. CatalogTypeOK
    BY S3BucketsAssumption DEF Init, CatalogTypeOK
  <1>4. \A c \in Caller : ~Inside(c)
    BY DEF Init, Inside
  <1>5. QED
    BY <1>2, <1>3, <1>4 DEF Init, TypeInv, TypeOK, MutualExclusion

LEMMA NextType == TypeInv /\ [Next]_vars => TypeInv'
  <1> SUFFICES ASSUME TypeInv, [Next]_vars PROVE TypeInv'
    OBVIOUS
  <1>1. ASSUME NEW c \in Caller, Fail(c)
        PROVE  TypeInv'
    <2>1. Inside(c) /\ "error" \in Outcomes
      BY <1>1 DEF Fail, Inside, Outcomes, Refusals
    <2>2. LocalTypeOK' /\ LockOK' /\ MutualExclusion'
      BY <1>1, <2>1, FinishType DEF Fail
    <2>3. CatalogTypeOK'
      BY <1>1, S3BucketsAssumption DEF Fail, TypeInv, TypeOK, CatalogTypeOK, catalog
    <2>4. QED
      BY <2>2, <2>3 DEF TypeInv, TypeOK, LockOK
  <1>2. CASE UNCHANGED vars
    BY <1>2 DEF vars, catalog, locals, TypeInv, TypeOK, CatalogTypeOK, LocalTypeOK,
       MutualExclusion, Inside
  <1>3. QED
    BY <1>1, <1>2, StartType, AcquireType, StepType, CrashType, EditType DEF Next

\* Type correctness; in particular every way out of an operation unlocks.
THEOREM TypeCorrectness == Spec => []TypeOK
  BY InitType, NextType, PTL DEF Spec, TypeInv

\* However many services there are, those that share a MappingFile exclude one
\* another.
THEOREM SharedFileExcludes == Spec => []MutualExclusion
  BY InitType, NextType, PTL DEF Spec, TypeInv

-----------------------------------------------------------------------------
(* Uniqueness of bucket names, for services that share one MappingFile and  *)
(* a catalog nobody else edits.                                             *)

SharedFile == \A c, d \in Caller : Guard[c] = Guard[d]

\* No other collection has the name that c is about to give.
Reserved(c) ==
    \A p \in Scope \ {req[c].path} : Plain(req[c].name) \notin avus[p]

\* From the duplicate check to the AddCollectionMetadata call.
Reserving(c) == pc[c] \in {"relist", "tag"} \/ (pc[c] = "untag" /\ req[c].op = "UpdateBucket")

UniqueInv ==
    /\ TypeInv
    /\ \A p \in Path : \A v \in avus[p] : v.exact
    /\ ~Ambiguous
    /\ \A c \in Caller : Reserving(c) => Reserved(c)

\* With names unique and spelled as the service spells them, the first match
\* of the search is the only one, so the duplicate check is exact.
LEMMA DuplicateCheck ==
    ASSUME UniqueInv, NEW c \in Caller, ~Duplicate(req[c].name, req[c].path)
    PROVE  Reserved(c)
  <1> DEFINE n == req[c].name
             p == req[c].path
  <1>1. n \in Name /\ p \in Path
    BY DEF UniqueInv, TypeInv, TypeOK, LocalTypeOK, Request
  <1>2. SUFFICES ASSUME NEW q \in Scope, q # p, Plain(n) \in avus[q] PROVE FALSE
    BY DEF Reserved
  <1>3. <<n, q>> \in Named(n)
    BY <1>2 DEF Named
  <1>4. \A b \in Named(n) : b \in Buckets /\ b[1] = n
    <2>1. ASSUME NEW x \in Scope, Plain(n) \in avus[x]
          PROVE  <<n, x>> \in Buckets
      BY <2>1, <1>1 DEF Buckets, NamesAt, Plain
    <2>2. QED
      BY <2>1 DEF Named
  <1>5. \A b \in Named(n) : b[2] = q
    BY <1>3, <1>4 DEF UniqueInv, Ambiguous, Clashing
  <1>6. {b[2] : b \in Named(n)} = {q}
    BY <1>3, <1>5
  <1>7. q \in Nat
    BY S3BucketsAssumption
  <1>8. Min({q}) = q
    BY <1>7 DEF Min
  <1>9. QED
    BY <1>2, <1>3, <1>6, <1>8 DEF Duplicate

\* An AVU that is deleted, or added under a reserved name, leaves names unique.
LEMMA WriteUnique ==
    ASSUME UniqueInv, NEW c \in Caller, NEW values \in SUBSET Value,
           avus' = [avus EXCEPT ![req[c].path] = values],
           \/ values \subseteq avus[req[c].path]
           \/ values = avus[req[c].path] \cup {Plain(req[c].name)} /\ Reserved(c)
    PROVE  ~Ambiguous' /\ \A p \in Path : \A v \in avus'[p] : v.exact
  <1> DEFINE n == req[c].name
             p == req[c].path
  <1>1. n \in Name /\ p \in Path /\ avus \in [Path -> SUBSET Value] /\ Scope \subseteq Path
    BY S3BucketsAssumption DEF UniqueInv, TypeInv, TypeOK, CatalogTypeOK, LocalTypeOK, Request
  <1>2. avus'[p] = values /\ \A q \in Path \ {p} : avus'[q] = avus[q]
    BY <1>1
  <1>3. ASSUME NEW q \in Path, NEW v \in avus'[q]
        PROVE  v.exact /\ (v \in avus[q] \/ (q = p /\ v = Plain(n) /\ Reserved(c)))
    BY <1>1, <1>2 DEF UniqueInv, Plain
  <1>4. \A b \in Buckets' : b \in Name \X Scope /\
            (b \in Buckets \/ (b[1] = n /\ b[2] = p /\ Reserved(c)))
    <2>1. ASSUME NEW b \in Buckets'
          PROVE  b \in Name \X Scope /\ (b \in Buckets \/ (b[1] = n /\ b[2] = p /\ Reserved(c)))
      <3>1. b \in Name \X Scope /\ b[1] \in Name /\ b[2] \in Scope
        BY <2>1 DEF Buckets
      <3>2. PICK v \in avus'[b[2]] : v.name = b[1]
        BY <2>1 DEF Buckets, NamesAt
      <3>3. v \in avus[b[2]] \/ (b[2] = p /\ v = Plain(n) /\ Reserved(c))
        BY <3>1, <3>2, <1>1, <1>3
      <3>4. CASE v \in avus[b[2]]
        BY <3>1, <3>2, <3>4 DEF Buckets, NamesAt
      <3>5. QED
        BY <3>1, <3>2, <3>3, <3>4 DEF Plain
    <2>2. QED
      BY <2>1
  <1>5. ASSUME Reserved(c), NEW b \in Buckets, b[1] = n
        PROVE  b[2] = p
    <2>1. b[2] \in Scope /\ b[2] \in Path
      BY <1>1, <1>5 DEF Buckets
    <2>2. PICK v \in avus[b[2]] : v.name = n
      BY <1>5 DEF Buckets, NamesAt
    <2>3. v = Plain(n)
      <3>1. v \in Value /\ v.exact
        BY <1>1, <2>1, <2>2 DEF UniqueInv
      <3>2. v.exact = TRUE
        BY <3>1, S3BucketsAssumption DEF Value
      <3>3. QED
        BY <3>1, <3>2, <2>2 DEF Value, Plain
    <2>4. QED
      BY <2>1, <2>2, <2>3, <1>5 DEF Reserved
  <1>6. ~Ambiguous'
    <2>1. SUFFICES ASSUME NEW b \in Buckets', NEW d \in Buckets', b[1] = d[1], b[2] # d[2]
                   PROVE  FALSE
      BY DEF Ambiguous, Clashing
    <2>2. ~(b \in Buckets /\ d \in Buckets)
      BY <2>1 DEF UniqueInv, Ambiguous, Clashing
    <2>3. QED
      BY <2>1, <2>2, <1>4, <1>5
  <1>7. QED
    BY <1>3, <1>6

\* What a step of c does to the reservation of c.
LEMMA StepReserves ==
    ASSUME UniqueInv, NEW c \in Caller, Step(c)
    PROVE  Reserving(c)' => Reserved(c)'
  <1> DEFINE r == req[c]
  <1> USE DEF Reserving, Reserved
  <1>r. /\ TypeInv /\ LocalTypeOK /\ r \in Request /\ r.path \in Path
        /\ avus \in [Path -> SUBSET Value] /\ Scope \subseteq Path
        /\ Reserving(c) => Reserved(c)
    BY S3BucketsAssumption DEF UniqueInv, TypeInv, TypeOK, CatalogTypeOK, LocalTypeOK, Request
  <1>f. \A o : Finish(c, o) => ~Reserving(c)'
    BY <1>r DEF Finish, Goto, LocalTypeOK
  <1>g. \A stage : Goto(c, stage) => pc'[c] = stage
    BY <1>r DEF Goto, LocalTypeOK
  <1>k. ASSUME Reserved(c), UNCHANGED <<avus, req>>
        PROVE  Reserved(c)'
    BY <1>k
  <1>1. CASE EnsureCollection(c)
    BY <1>1, <1>f, <1>g DEF EnsureCollection, Proceed
  <1>2. CASE ListAVUs(c)
    BY <1>2, <1>f, <1>g DEF ListAVUs, Proceed, ListThen
  <1>3. CASE CheckDuplicates(c)
    <2>1. UNCHANGED avus
      BY <1>3 DEF CheckDuplicates, Reads, catalog
    <2>2. CASE Duplicate(r.name, r.path)
      BY <2>2, <1>3, <1>f DEF CheckDuplicates
    <2>3. CASE ~Duplicate(r.name, r.path)
      <3>1. Reserved(c)
        BY <2>3, DuplicateCheck
      <3>2. UNCHANGED req
        BY <1>3 DEF CheckDuplicates, Proceed, Finish
      <3>3. QED
        BY <3>1, <3>2, <2>1
    <2>4. QED
      BY <2>2, <2>3
  <1>4. CASE RelistAVUs(c)
    <2>1. Reserved(c) /\ UNCHANGED <<avus, req>>
      BY <1>4, <1>r DEF RelistAVUs, Reads, catalog, Finish, ListThen
    <2>2. QED
      BY <2>1, <1>k
  <1>5. CASE DeleteAVU(c)
    <2>1. UNCHANGED req
      BY <1>5 DEF DeleteAVU, Finish, Write
    <2>2. \A p \in Path : avus'[p] \subseteq avus[p]
      BY <1>5, <1>r DEF DeleteAVU, Reads, catalog, Write
    <2>3. CASE r.op = "UpdateBucket"
      <3>1. Reserved(c)
        BY <2>3, <1>5, <1>r DEF DeleteAVU
      <3>2. QED
        BY <3>1, <2>1, <2>2, <1>r
    <2>4. CASE r.op # "UpdateBucket"
      <3>1. pc'[c] \in {"untag", "root", "done"}
        BY <2>4, <1>5, <1>g, <1>f DEF DeleteAVU, Write, Finish
      <3>2. QED
        BY <3>1, <2>1, <2>4
    <2>5. QED
      BY <2>3, <2>4
  <1>6. CASE AddAVU(c)
    BY <1>6, <1>f, <1>g DEF AddAVU, Write
  <1>7. CASE Scan(c) \/ LoadMapping(c) \/ SearchExtra(c)
    BY <1>7, <1>g DEF Scan, LoadMapping, SearchExtra
  <1>11. CASE EnsureScanRoot(c)
    BY <1>11, <1>f, <1>g DEF EnsureScanRoot, Proceed
  <1>8. CASE SearchKnown(c)
    BY <1>8, <1>g DEF SearchKnown
  <1>9. CASE ReplaceMapping(c)
    BY <1>9, <1>f DEF ReplaceMapping
  <1>10. QED
    BY <1>1, <1>2, <1>3, <1>4, <1>5, <1>6, <1>7, <1>8, <1>9, <1>11 DEF Step

\* Every step of an operation keeps names unique.
LEMMA StepUnique ==
    ASSUME UniqueInv, NEW c \in Caller, Step(c)
    PROVE  ~Ambiguous' /\ \A p \in Path : \A v \in avus'[p] : v.exact
  <1> DEFINE r == req[c]
  <1>r. /\ r.path \in Path /\ r.name \in Name /\ avus[r.path] \in SUBSET Value
    BY DEF UniqueInv, TypeInv, TypeOK, CatalogTypeOK, LocalTypeOK, Request
  <1>1. CASE UNCHANGED avus
    BY <1>1 DEF UniqueInv, Ambiguous, Clashing, Buckets, NamesAt
  <1>2. CASE DeleteAVU(c)
    <2>1. ASSUME NEW v \in listed[c], NEW stage, Write(c, avus[r.path] \ {v}, stage)
          PROVE  ~Ambiguous' /\ \A p \in Path : \A w \in avus'[p] : w.exact
      <3>1. avus[r.path] \ {v} \in SUBSET Value /\ avus[r.path] \ {v} \subseteq avus[r.path]
        BY <1>r
      <3>2. avus' = [avus EXCEPT ![r.path] = avus[r.path] \ {v}]
        BY <2>1 DEF Write
      <3>3. QED
        BY <3>1, <3>2, WriteUnique
    <2>2. QED
      BY <2>1, <1>1, <1>2 DEF DeleteAVU, Reads, catalog
  <1>3. CASE AddAVU(c)
    <2> DEFINE values == avus[r.path] \cup {Plain(r.name)}
    <2>1. CASE Write(c, values, "root")
      <3>1. values \in SUBSET Value
        BY <1>r, PlainType
      <3>2. avus' = [avus EXCEPT ![r.path] = values]
        BY <2>1 DEF Write
      <3>3. Reserved(c)
        BY <1>3 DEF AddAVU, UniqueInv, Reserving
      <3>4. QED
        BY <3>1, <3>2, <3>3, WriteUnique
    <2>2. QED
      BY <2>1, <1>1, <1>3 DEF AddAVU, Reads, catalog
  <1>4. QED
    BY <1>1, <1>2, <1>3 DEF Step, EnsureCollection, ListAVUs, CheckDuplicates, RelistAVUs,
       EnsureScanRoot, Scan, LoadMapping, SearchKnown, SearchExtra, ReplaceMapping, Reads, catalog

\* Reservations of the other callers: while one is within an operation, there
\* are none.
LEMMA OthersReserve ==
    ASSUME SharedFile, UniqueInv, NEW c \in Caller, Inside(c), NEW d \in Caller \ {c}
    PROVE  ~Reserving(d)
  BY DEF SharedFile, UniqueInv, TypeInv, MutualExclusion, Inside, Reserving

LEMMA NextUnique ==
    ASSUME SharedFile, MaxEdits = 0, UniqueInv, [Next]_vars
    PROVE  UniqueInv'
  <1>1. TypeInv' /\ TypeInv
    BY NextType DEF UniqueInv
  <1>u. ASSUME UNCHANGED avus
        PROVE  ~Ambiguous' /\ \A p \in Path : \A v \in avus'[p] : v.exact
    BY <1>u DEF UniqueInv, Ambiguous, Clashing, Buckets, NamesAt
  <1>2. ASSUME NEW c \in Caller, Step(c)
        PROVE  UniqueInv'
    <2>1. Inside(c)
      BY <1>2 DEF Step, Inside, EnsureCollection, ListAVUs, CheckDuplicates, RelistAVUs,
         DeleteAVU, AddAVU, EnsureScanRoot, Scan, LoadMapping, SearchKnown, SearchExtra, ReplaceMapping
    <2>2. \A d \in Caller \ {c} : pc'[d] = pc[d] /\ req'[d] = req[d]
      BY <1>1, <1>2 DEF TypeInv, TypeOK, LocalTypeOK, Step, Goto, Finish, Proceed, ListThen, Write,
         EnsureCollection, ListAVUs, CheckDuplicates, RelistAVUs,
         DeleteAVU, AddAVU, EnsureScanRoot, Scan, LoadMapping, SearchKnown, SearchExtra, ReplaceMapping
    <2>3. \A d \in Caller \ {c} : ~Reserving(d)'
      BY <2>1, <2>2, OthersReserve DEF Reserving
    <2>4. QED
      BY <1>1, <1>2, <2>3, StepReserves, StepUnique DEF UniqueInv
  <1>3. ASSUME UNCHANGED avus,
               \A d \in Caller : Reserving(d)' => Reserving(d) /\ req'[d] = req[d]
        PROVE  UniqueInv'
    BY <1>1, <1>3, <1>u DEF UniqueInv, Reserved
  <1>4. ASSUME NEW c \in Caller, Start(c) \/ Acquire(c) \/ Fail(c)
        PROVE  UniqueInv'
    <2>1. UNCHANGED avus
      BY <1>4 DEF Start, Acquire, Fail, Reads, catalog
    <2>2. \A d \in Caller : Reserving(d)' => d # c /\ pc'[d] = pc[d] /\ req'[d] = req[d]
      BY <1>1, <1>4 DEF TypeInv, TypeOK, LocalTypeOK, Start, Acquire, Fail, Finish, Goto, Reserving
    <2>3. QED
      BY <2>1, <2>2, <1>3 DEF Reserving
  <1>5. ASSUME NEW g, Crash(g)
        PROVE  UniqueInv'
    <2>1. \A d \in Caller : Reserving(d)' => pc'[d] = pc[d] /\ req'[d] = req[d]
      BY <1>5 DEF Crash, Reserving
    <2>2. QED
      BY <2>1, <1>5, <1>3 DEF Crash, catalog, Reserving
  <1>6. ~Edit
    BY <1>1 DEF Edit, TypeInv, TypeOK, CatalogTypeOK
  <1>7. CASE UNCHANGED vars
    BY <1>7, <1>3 DEF vars, catalog, locals, Reserving
  <1>8. QED
    BY <1>2, <1>4, <1>5, <1>6, <1>7 DEF Next

LEMMA InitUnique == Init => UniqueInv
  <1> SUFFICES ASSUME Init PROVE UniqueInv
    OBVIOUS
  <1>1. \A p \in Path : avus[p] = {}
    BY DEF Init
  <1>2. Buckets = {}
    BY <1>1, S3BucketsAssumption DEF Buckets, NamesAt
  <1>3. ~Ambiguous
    BY <1>2 DEF Ambiguous, Clashing
  <1>4. QED
    BY <1>1, <1>3, InitType DEF UniqueInv, Init, Reserving

\* Services that share a MappingFile never give two collections one name,
\* however calls fail, lose replies or crash half way.
THEOREM SharedFileKeepsNamesUnique ==
    SharedFile /\ MaxEdits = 0 /\ Spec => NeverDuplicates
  <1> DEFINE A == ~Ambiguous /\ Ambiguous' => edits' # edits
  <1>1. CASE SharedFile /\ MaxEdits = 0
    <2>1. UniqueInv /\ [Next]_vars => UniqueInv'
      BY <1>1, NextUnique
    <2>2. UniqueInv /\ UniqueInv' => [A]_vars
      BY DEF UniqueInv
    <2>3. QED
      BY <2>1, <2>2, InitUnique, PTL DEF Spec, NeverDuplicates
  <1>2. QED
    BY <1>1

-----------------------------------------------------------------------------
(* What an operation publishes, for any services and whoever edits.         *)

Gathering == {"load", "search", "extra", "replace"}

\* A caller that nobody disturbed has found what the catalog holds, and none is
\* told of success before its operation ends.
MirrorInv ==
    /\ TypeInv
    /\ \A c \in Caller : pc[c] # "done" => out[c] = "error"
    /\ \A c \in Caller \ disturbed : pc[c] \in Gathering => found[c] = Buckets

\* A search finds what the AVUs say, whatever else changes.
LEMMA SearchesKept ==
    ASSUME UNCHANGED avus
    PROVE  /\ Buckets' = Buckets /\ Ambiguous' = Ambiguous
           /\ \A n : Named(n)' = Named(n)
  BY DEF Buckets, NamesAt, Named, Ambiguous, Clashing

LEMMA NamedIsBucket == \A n \in Name : Named(n) \subseteq Buckets
  <1> SUFFICES ASSUME NEW n \in Name, NEW p \in Scope, Plain(n) \in avus[p]
               PROVE  <<n, p>> \in Buckets
    BY DEF Named
  <1>1. Plain(n).name = n
    BY DEF Plain
  <1>2. n \in NamesAt(p)
    BY <1>1 DEF NamesAt
  <1>3. QED
    BY <1>2 DEF Buckets

\* A step of c leaves the other callers where they are.
LEMMA StepFrame ==
    ASSUME TypeInv, NEW c \in Caller, Step(c), NEW d \in Caller \ {c}
    PROVE  /\ pc'[d] = pc[d] /\ req'[d] = req[d] /\ listed'[d] = listed[d]
           /\ found'[d] = found[d] /\ out'[d] = out[d] /\ changed'[d] = changed[d]
  <1> USE DEF TypeInv, TypeOK, LocalTypeOK, Goto, Finish, Proceed, ListThen
  <1>1. CASE \/ EnsureCollection(c) \/ ListAVUs(c) \/ CheckDuplicates(c) \/ RelistAVUs(c)
             \/ EnsureScanRoot(c)
    BY <1>1 DEF EnsureCollection, ListAVUs, CheckDuplicates, RelistAVUs, EnsureScanRoot
  <1>2. CASE DeleteAVU(c)
    BY <1>2 DEF DeleteAVU, Write
  <1>3. CASE AddAVU(c)
    BY <1>3 DEF AddAVU, Write
  <1>4. CASE Scan(c) \/ LoadMapping(c) \/ SearchKnown(c) \/ SearchExtra(c) \/ ReplaceMapping(c)
    BY <1>4 DEF Scan, LoadMapping, SearchKnown, SearchExtra, ReplaceMapping
  <1>5. QED
    BY <1>1, <1>2, <1>3, <1>4 DEF Step

\* Who changes the catalog disturbs the others that are within an operation.
LEMMA StepDisturbs ==
    ASSUME TypeInv, NEW c \in Caller, Step(c)
    PROVE  /\ disturbed \subseteq disturbed'
           /\ avus' # avus => \A d \in Caller \ {c} : Inside(d) => d \in disturbed'
           /\ avus' # avus => pc[c] \in {"untag", "tag"}
                              /\ pc'[c] \in {"untag", "tag", "root", "done"}
  <1>1. Inside(c)
    BY DEF Step, Inside, EnsureCollection, ListAVUs, CheckDuplicates, RelistAVUs, DeleteAVU,
       AddAVU, EnsureScanRoot, Scan, LoadMapping, SearchKnown, SearchExtra, ReplaceMapping
  <1>2. \A d \in Caller \ {c} : Inside(d) => Guard[d] # Guard[c]
    BY <1>1 DEF TypeInv, MutualExclusion
  <1>3. ASSUME NEW values, NEW stage \in {"untag", "tag", "root"}, Write(c, values, stage)
        PROVE  /\ disturbed \subseteq disturbed'
               /\ \A d \in Caller \ {c} : Inside(d) => d \in disturbed'
               /\ pc'[c] \in {"untag", "tag", "root", "done"}
    BY <1>2, <1>3 DEF Write, Disturb, Goto, TypeInv, TypeOK, LocalTypeOK
  <1>4. CASE DeleteAVU(c)
    BY <1>4, <1>3 DEF DeleteAVU, Reads, catalog
  <1>5. CASE AddAVU(c)
    BY <1>5, <1>3 DEF AddAVU, Reads, catalog
  <1>6. CASE ~DeleteAVU(c) /\ ~AddAVU(c)
    BY <1>6 DEF Step, EnsureCollection, ListAVUs, CheckDuplicates, RelistAVUs,
       EnsureScanRoot, Scan, LoadMapping, SearchKnown, SearchExtra, ReplaceMapping, Reads, catalog
  <1>7. QED
    BY <1>4, <1>5, <1>6

\* A step of c gathers what it should, and reports success only at the end.
LEMMA StepMirrors ==
    ASSUME MirrorInv, NEW c \in Caller, Step(c)
    PROVE  /\ pc'[c] # "done" => out'[c] = "error"
           /\ c \notin disturbed' /\ pc'[c] \in Gathering => found'[c] = Buckets'
  <1> DEFINE r == req[c]
             Told == pc'[c] # "done" => out'[c] = "error"
             Found == c \notin disturbed' /\ pc'[c] \in Gathering => found'[c] = Buckets'
  <1> USE DEF Gathering
  <1>r. /\ TypeInv /\ LocalTypeOK /\ r.name \in Name /\ known[c] \subseteq Name
        /\ pc[c] # "done" => out[c] = "error"
        /\ c \notin disturbed /\ pc[c] \in Gathering => found[c] = Buckets
    BY DEF MirrorInv, TypeInv, TypeOK, LocalTypeOK, Request
  <1>d. disturbed \subseteq disturbed'
    BY <1>r, StepDisturbs
  <1>g. \A stage : Goto(c, stage) => pc'[c] = stage
    BY <1>r DEF Goto, LocalTypeOK
  <1>f. ASSUME NEW o, Finish(c, o)
        PROVE  Told /\ Found
    BY <1>f, <1>g DEF Finish
  <1>p. ASSUME NEW stage \in {"list", "dupes", "relist", "untag", "tag", "root", "scan"}, pc[c] # "done",
               Proceed(c, stage) \/ ListThen(c, stage)
        PROVE  Told /\ Found
    BY <1>p, <1>r, <1>g DEF Proceed, ListThen
  <1>w. ASSUME NEW values, NEW stage \in {"untag", "tag", "root"}, pc[c] # "done",
               Write(c, values, stage)
        PROVE  Told /\ Found
    BY <1>w, <1>r, <1>g DEF Write
  <1>1. CASE EnsureCollection(c)
    BY <1>1, <1>f, <1>p DEF EnsureCollection
  <1>2. CASE ListAVUs(c)
    BY <1>2, <1>f, <1>p DEF ListAVUs
  <1>3. CASE CheckDuplicates(c)
    BY <1>3, <1>f, <1>p DEF CheckDuplicates
  <1>4. CASE RelistAVUs(c)
    BY <1>4, <1>f, <1>p DEF RelistAVUs
  <1>5. CASE DeleteAVU(c)
    BY <1>5, <1>f, <1>w DEF DeleteAVU
  <1>6. CASE AddAVU(c)
    BY <1>6, <1>f, <1>w DEF AddAVU
  <1>7. CASE Scan(c)
    <2>1. found'[c] = Buckets /\ Buckets' = Buckets /\ out' = out /\ pc[c] # "done"
      BY <1>7, <1>r, SearchesKept DEF Scan, Reads, catalog, LocalTypeOK
    <2>2. QED
      BY <2>1, <1>r
  <1>8. CASE LoadMapping(c)
    <2>1. found' = found /\ Buckets' = Buckets /\ out' = out /\ pc[c] = "load"
      BY <1>8, SearchesKept DEF LoadMapping, Reads, catalog
    <2>2. QED
      BY <2>1, <1>r, <1>d
  <1>9. CASE SearchKnown(c)
    <2>1. Buckets' = Buckets /\ out' = out /\ pc[c] = "search"
      BY <1>9, SearchesKept DEF SearchKnown, Reads, catalog
    <2>2. found'[c] = found[c] \/ \E n \in Name : found'[c] = found[c] \cup Named(n)
      BY <1>9, <1>r DEF SearchKnown, LocalTypeOK
    <2>3. QED
      BY <2>1, <2>2, <1>r, <1>d, NamedIsBucket
  <1>10. CASE SearchExtra(c)
    <2>1. Buckets' = Buckets /\ out' = out /\ pc[c] = "extra"
      BY <1>10, SearchesKept DEF SearchExtra, Reads, catalog
    <2>2. found'[c] = found[c] \/ found'[c] = found[c] \cup Named(r.name)
      BY <1>10, <1>r DEF SearchExtra, LocalTypeOK
    <2>3. QED
      BY <2>1, <2>2, <1>r, <1>d, NamedIsBucket
  <1>11. CASE ReplaceMapping(c)
    BY <1>11, <1>f DEF ReplaceMapping
  <1>13. CASE EnsureScanRoot(c)
    BY <1>13, <1>f, <1>p DEF EnsureScanRoot
  <1>12. QED
    BY <1>13, <1>1, <1>2, <1>3, <1>4, <1>5, <1>6, <1>7, <1>8, <1>9, <1>10, <1>11 DEF Step

LEMMA InitMirrors == Init => MirrorInv
  BY InitType DEF Init, MirrorInv, Gathering

LEMMA NextMirrors == MirrorInv /\ [Next]_vars => MirrorInv'
  <1> SUFFICES ASSUME MirrorInv, [Next]_vars
               PROVE  MirrorInv'
    OBVIOUS
  <1> USE DEF Gathering
  <1>t. TypeInv /\ LocalTypeOK /\ TypeInv'
    BY NextType DEF MirrorInv, TypeInv, TypeOK
  <1>g. \A d \in Caller : pc[d] \in Gathering => Inside(d)
    BY DEF Inside
  \* A caller that stays where it is, while nothing changes or it is disturbed.
  <1>k. ASSUME NEW d \in Caller, pc'[d] = pc[d], out'[d] = out[d], found'[d] = found[d],
               d \in disturbed => d \in disturbed',
               UNCHANGED avus \/ (Inside(d) => d \in disturbed')
        PROVE  /\ pc'[d] # "done" => out'[d] = "error"
               /\ d \notin disturbed' /\ pc'[d] \in Gathering => found'[d] = Buckets'
    BY <1>k, <1>g, SearchesKept DEF MirrorInv
  <1>1. ASSUME NEW c \in Caller, Step(c)
        PROVE  MirrorInv'
    BY <1>1, <1>t, <1>k, StepFrame, StepDisturbs, StepMirrors DEF MirrorInv
  <1>2. ASSUME NEW c \in Caller, Start(c) \/ Acquire(c) \/ Fail(c)
        PROVE  MirrorInv'
    <2>1. /\ UNCHANGED avus
          /\ pc'[c] \in {"done", "lock", "root", "ensure"} /\ (pc'[c] # "done" => out'[c] = "error")
          /\ \A d \in Caller \ {c} : /\ pc'[d] = pc[d] /\ out'[d] = out[d] /\ found'[d] = found[d]
                                     /\ d \in disturbed => d \in disturbed'
      BY <1>2, <1>t DEF MirrorInv, Start, Acquire, Fail, Reads, catalog, Goto, Finish, LocalTypeOK
    <2>2. QED
      BY <2>1, <1>t, <1>k DEF MirrorInv
  <1>3. ASSUME NEW g, Crash(g)
        PROVE  MirrorInv'
    <2>1. /\ UNCHANGED <<avus, disturbed>>
          /\ \A d \in Caller : \/ pc'[d] = "done"
                               \/ pc'[d] = pc[d] /\ out'[d] = out[d] /\ found'[d] = found[d]
      BY <1>3, <1>t DEF Crash, catalog, LocalTypeOK
    <2>2. QED
      BY <2>1, <1>t, <1>k DEF MirrorInv
  <1>4. CASE Edit
    <2>1. /\ UNCHANGED <<pc, out, found>> /\ disturbed \subseteq disturbed'
          /\ \A d \in Caller : Inside(d) => d \in disturbed'
      BY <1>4 DEF Edit, locals, Disturb
    <2>2. QED
      BY <2>1, <1>t, <1>k DEF MirrorInv
  <1>5. CASE UNCHANGED vars
    BY <1>5, <1>t, <1>k DEF vars, catalog, locals, MirrorInv
  <1>6. QED
    BY <1>1, <1>2, <1>3, <1>4, <1>5 DEF Next

\* Whoever succeeds without being disturbed publishes what the catalog holds at
\* that moment, for any number of services and whatever fails or is edited.
THEOREM SuccessStaysMirrored == Spec => SuccessMirrorsCatalog
  <1> DEFINE A == \A c \in Caller \ disturbed : pc[c] # "done" /\ out'[c] = "ok"
                    => ~Ambiguous /\ file' = MappingOf(Buckets)
  <1>1. ASSUME MirrorInv, [Next]_vars, NEW c \in Caller \ disturbed, pc[c] # "done", out'[c] = "ok"
        PROVE  ~Ambiguous /\ file' = MappingOf(Buckets)
    <2>1. LocalTypeOK /\ TypeInv /\ out[c] # "ok"
      BY <1>1 DEF MirrorInv, TypeInv, TypeOK
    <2>2. ReplaceMapping(c)
      <3>1. ASSUME NEW d \in Caller, Step(d)
            PROVE  ReplaceMapping(c)
        <4>1. d = c
          BY <1>1, <2>1, <3>1, StepFrame
        <4>2. ReplaceMapping(d)
          BY <1>1, <2>1, <3>1, <4>1 DEF Step, LocalTypeOK, Goto, Finish, Proceed, ListThen, Write,
             EnsureCollection, ListAVUs, CheckDuplicates, RelistAVUs, DeleteAVU, AddAVU, EnsureScanRoot, Scan,
             LoadMapping, SearchKnown, SearchExtra
        <4>3. QED
          BY <4>1, <4>2
      <3>2. ASSUME NEW d \in Caller, Start(d) \/ Acquire(d) \/ Fail(d)
            PROVE  FALSE
        BY <1>1, <2>1, <3>2 DEF Start, Acquire, Fail, Finish, LocalTypeOK
      <3>3. ASSUME NEW g, Crash(g)
            PROVE  FALSE
        BY <1>1, <2>1, <3>3 DEF Crash
      <3>4. ~Edit /\ ~UNCHANGED vars
        BY <1>1, <2>1 DEF Edit, vars, locals
      <3>5. QED
        BY <1>1, <3>1, <3>2, <3>3, <3>4 DEF Next
    <2>3. found[c] = Buckets
      BY <1>1, <2>2 DEF MirrorInv, ReplaceMapping, Gathering
    <2>4. ~Finish(c, "duplicate")
      BY <1>1, <2>1 DEF Finish, LocalTypeOK
    <2>5. QED
      BY <2>2, <2>3, <2>4 DEF ReplaceMapping, Ambiguous
  <1>2. MirrorInv /\ [Next]_vars => [A]_vars
    BY <1>1
  <1>3. QED
    BY <1>2, InitMirrors, NextMirrors, PTL DEF Spec, SuccessMirrorsCatalog

-----------------------------------------------------------------------------
(* Refusals and the refinement, for services that share one MappingFile and *)
(* a catalog nobody else edits.                                             *)

\* From the check of the collection on.
Writing(c) == pc[c] \in {"list", "dupes", "relist", "untag", "tag"} \/ changed[c]

\* Before its first write an operation has changed nothing, and it writes on
\* the AVUs that it has listed, of a collection that exists; nobody disturbs it.
QuietInv ==
    /\ UniqueInv /\ MirrorInv
    /\ \A c \in Caller :
         /\ Inside(c) => c \notin disturbed
         /\ pc[c] \in {"lock", "ensure", "list", "dupes", "relist"} => ~changed[c]
         /\ pc[c] = "dupes" /\ req[c].op = "AddBucket" => listed[c] = avus[req[c].path]
         /\ pc[c] = "untag" => listed[c] = avus[req[c].path]
         /\ pc[c] = "tag" => avus[req[c].path] = {}
         /\ Writing(c) => req[c].path \in collections
    /\ RefusedMeansUnchanged

\* What a caller may rely on at its next call.
Quiet(c) ==
    /\ Inside(c) => c \notin disturbed
    /\ pc[c] \in {"lock", "ensure", "list", "dupes", "relist"} => ~changed[c]
    /\ pc[c] = "dupes" /\ req[c].op = "AddBucket" => listed[c] = avus[req[c].path]
    /\ pc[c] = "untag" => listed[c] = avus[req[c].path]
    /\ pc[c] = "tag" => avus[req[c].path] = {}
    /\ Writing(c) => req[c].path \in collections
    /\ pc[c] = "done" /\ out[c] \in Refusals /\ changed[c]
        => out[c] = "invalid" /\ Root \notin collections /\ req[c].path \notin Scope

\* Services neither make nor remove collections.
LEMMA StepCollections == ASSUME NEW c \in Caller, Step(c) PROVE UNCHANGED collections
  BY DEF Step, EnsureCollection, ListAVUs, CheckDuplicates, RelistAVUs, DeleteAVU, AddAVU, Write,
     EnsureScanRoot, Scan, LoadMapping, SearchKnown, SearchExtra, ReplaceMapping, Reads, catalog

LEMMA StepQuiet ==
    ASSUME SharedFile, QuietInv, NEW c \in Caller, Step(c)
    PROVE  Quiet(c)' /\ disturbed' = disturbed
  <1> DEFINE r == req[c]
  <1> USE DEF Quiet, Inside, Writing
  <1>r. /\ TypeInv /\ LocalTypeOK /\ MirrorInv /\ ~Ambiguous /\ Quiet(c) /\ Inside(c)
        /\ r.path \in Path /\ avus \in [Path -> SUBSET Value] /\ disturbed \subseteq Caller
        /\ Root \in collections \/ collections \cap Scope = {}
    <2>1. Inside(c)
      BY DEF Step, Inside, EnsureCollection, ListAVUs, CheckDuplicates, RelistAVUs,
         DeleteAVU, AddAVU, EnsureScanRoot, Scan, LoadMapping, SearchKnown, SearchExtra, ReplaceMapping
    <2>2. QED
      BY <2>1 DEF QuietInv, RefusedMeansUnchanged, UniqueInv, TypeInv, TypeOK, CatalogTypeOK,
         LocalTypeOK, Request
  <1>g. \A stage : Goto(c, stage) => pc'[c] = stage
    BY <1>r DEF Goto, LocalTypeOK
  <1>d. \A callers : callers = {} /\ Disturb(callers) => disturbed' = disturbed
    BY DEF Disturb
  <1>e. ASSUME Reads, NEW o, Finish(c, o),
               o \in Refusals /\ changed[c] =>
                   o = "invalid" /\ Root \notin collections /\ r.path \notin Scope
        PROVE  Quiet(c)' /\ disturbed' = disturbed
    BY <1>e, <1>r, <1>g DEF Finish, Reads, catalog, LocalTypeOK
  <1>p. ASSUME Reads, NEW stage \in {"list", "dupes", "relist", "untag", "tag", "root", "scan"},
               Proceed(c, stage) \/ ListThen(c, stage), ~changed[c], r.path \in collections,
               stage = "dupes" /\ r.op = "AddBucket" => ListThen(c, stage),
               stage = "untag" => ListThen(c, stage),
               stage = "tag" => avus[r.path] = {}
        PROVE  Quiet(c)' /\ disturbed' = disturbed
    BY <1>p, <1>r, <1>g DEF Proceed, ListThen, Reads, catalog, LocalTypeOK
  <1>1. CASE EnsureCollection(c)
    BY <1>1, <1>r, <1>e, <1>p DEF EnsureCollection
  <1>2. CASE ListAVUs(c)
    BY <1>2, <1>r, <1>e, <1>p DEF ListAVUs
  <1>3. CASE CheckDuplicates(c)
    <2>1. Reads /\ ~changed[c] /\ pc[c] = "dupes" /\ r.path \in collections
      BY <1>3, <1>r DEF CheckDuplicates
    <2>2. CASE \E o : Finish(c, o)
      BY <2>1, <2>2, <1>e
    <2>3. CASE Proceed(c, "relist") \/ Proceed(c, "root")
      BY <2>1, <2>3, <1>p
    <2>4. CASE r.op = "AddBucket" /\ {v.name : v \in listed[c]} = {} /\ Proceed(c, "tag")
      <3>1. listed[c] = {}
        BY <2>4
      <3>2. avus[r.path] = {}
        BY <2>1, <2>4, <3>1, <1>r
      <3>3. QED
        BY <2>1, <2>4, <3>2, <1>p
    <2>5. QED
      BY <1>3, <2>2, <2>3, <2>4 DEF CheckDuplicates
  <1>4. CASE RelistAVUs(c)
    <2>1. Reads /\ ~changed[c] /\ r.path \in collections
      BY <1>4, <1>r DEF RelistAVUs
    <2>2. CASE Finish(c, "error")
      BY <2>1, <2>2, <1>e DEF Refusals
    <2>3. CASE avus[r.path] = {} /\ ListThen(c, "tag")
      BY <2>1, <2>3, <1>p
    <2>4. CASE ListThen(c, "untag")
      BY <2>1, <2>4, <1>p
    <2>5. QED
      BY <1>4, <2>2, <2>3, <2>4 DEF RelistAVUs
  <1>w. ASSUME NEW values, NEW stage \in {"untag", "tag", "root"}, Write(c, values, stage),
               stage = "untag" => listed[c] \ (avus[r.path] \ values) = values,
               stage = "tag" => values = {}, r.path \in collections
        PROVE  Quiet(c)' /\ disturbed' = disturbed
    <2>1. {d \in Caller : Guard[d] # Guard[c]} = {}
      BY DEF SharedFile
    <2>2. disturbed' = disturbed
      BY <1>w, <2>1 DEF Write, Disturb
    <2>3. req' = req /\ collections' = collections /\ avus'[r.path] = values
      BY <1>w, <1>r DEF Write
    <2>4. CASE Goto(c, stage) /\ listed' = [listed EXCEPT ![c] = @ \ (avus[r.path] \ values)]
      <3>1. listed'[c] = listed[c] \ (avus[r.path] \ values)
        BY <2>4, <1>r DEF LocalTypeOK
      <3>2. QED
        BY <2>2, <2>3, <2>4, <3>1, <1>w, <1>r, <1>g
    <2>5. CASE Goto(c, "done") /\ out' = [out EXCEPT ![c] = "error"]
      BY <2>2, <2>3, <2>5, <1>w, <1>r, <1>g DEF LocalTypeOK, Refusals
    <2>6. QED
      BY <1>w, <2>4, <2>5 DEF Write
  <1>5. CASE DeleteAVU(c)
    <2>1. listed[c] = avus[r.path] /\ pc[c] = "untag" /\ r.path \in collections
      BY <1>5, <1>r DEF DeleteAVU
    <2>2. CASE Finish(c, "error") /\ Reads
      BY <2>2, <1>e DEF Refusals
    <2>3. ASSUME NEW v \in listed[c],
                 Write(c, avus[r.path] \ {v}, IF listed[c] # {v} THEN "untag"
                                    ELSE IF r.op = "UpdateBucket" THEN "tag" ELSE "root")
          PROVE  Quiet(c)' /\ disturbed' = disturbed
      <3>1. CASE listed[c] # {v}
        <4>1. listed[c] \ (avus[r.path] \ (avus[r.path] \ {v})) = avus[r.path] \ {v}
          BY <2>1, <2>3
        <4>2. QED
          BY <2>1, <2>3, <3>1, <4>1, <1>w
      <3>2. CASE listed[c] = {v}
        <4>1. avus[r.path] \ {v} = {}
          BY <2>1, <3>2
        <4>2. QED
          BY <2>1, <2>3, <3>2, <4>1, <1>w
      <3>3. QED
        BY <3>1, <3>2
    <2>4. QED
      BY <1>5, <2>2, <2>3 DEF DeleteAVU
  <1>6. CASE AddAVU(c)
    BY <1>6, <1>e, <1>w, <1>r DEF AddAVU, Refusals
  <1>10. CASE EnsureScanRoot(c)
    <2>1. Reads /\ pc[c] = "root"
      BY <1>10 DEF EnsureScanRoot
    <2>2. CASE Root \in collections /\ Proceed(c, "scan")
      BY <2>1, <2>2, <1>r, <1>g DEF Proceed, Reads, catalog
    <2>3. CASE Root \notin collections /\ Finish(c, "invalid")
      <3>1. changed[c] => r.path \notin Scope
        BY <2>3, <1>r
      <3>2. QED
        BY <2>1, <2>3, <3>1, <1>e
    <2>4. QED
      BY <1>10, <2>2, <2>3 DEF EnsureScanRoot
  <1>7. CASE Scan(c) \/ LoadMapping(c) \/ SearchKnown(c) \/ SearchExtra(c)
    <2>1. /\ Reads /\ pc'[c] \in {"load", "search", "extra", "replace"}
      BY <1>7, <1>g, <1>r DEF Scan, LoadMapping, SearchKnown, SearchExtra
    <2>3. UNCHANGED <<req, changed, collections>>
      BY <1>7 DEF Scan, LoadMapping, SearchKnown, SearchExtra, Reads, catalog
    <2>2. QED
      BY <2>1, <2>3, <1>r DEF Reads
  <1>8. CASE ReplaceMapping(c)
    <2>1. found[c] = Buckets
      BY <1>8, <1>r DEF ReplaceMapping, MirrorInv, Gathering
    <2>2. ~Clashing(found[c])
      BY <2>1, <1>r DEF Ambiguous
    <2>3. Finish(c, "ok") /\ UNCHANGED <<catalog, disturbed>>
      BY <1>8, <2>2 DEF ReplaceMapping
    <2>4. QED
      BY <2>3, <1>g, <1>r DEF Finish, LocalTypeOK, Refusals, catalog
  <1>9. QED
    BY <1>1, <1>2, <1>3, <1>4, <1>5, <1>6, <1>7, <1>8, <1>10 DEF Step

LEMMA InitQuiet == Init => QuietInv
  BY InitUnique, InitMirrors DEF Init, QuietInv, RefusedMeansUnchanged, Inside, Writing

LEMMA NextQuiet ==
    ASSUME SharedFile, MaxEdits = 0, QuietInv, [Next]_vars
    PROVE  QuietInv'
  <1>1. UniqueInv' /\ MirrorInv'
    BY NextUnique, NextMirrors DEF QuietInv
  <1>t. TypeInv /\ LocalTypeOK /\ \A d \in Caller : Quiet(d)
    BY DEF QuietInv, MirrorInv, TypeInv, TypeOK, Quiet, RefusedMeansUnchanged
  <1>q. SUFFICES ASSUME NEW d \in Caller PROVE Quiet(d)'
    BY <1>1 DEF QuietInv, Quiet, RefusedMeansUnchanged
  <1>k. ASSUME pc'[d] = pc[d], out'[d] = out[d], changed'[d] = changed[d], req'[d] = req[d],
               listed'[d] = listed[d], d \in disturbed' => d \in disturbed,
               Inside(d) => UNCHANGED avus, UNCHANGED collections
        PROVE  Quiet(d)'
    BY <1>k, <1>t DEF Quiet, Inside, Writing
  <1>2. ASSUME NEW c \in Caller, Step(c)
        PROVE  Quiet(d)'
    <2>1. CASE d = c
      BY <1>2, <2>1, StepQuiet
    <2>2. CASE d # c
      <3>1. ~Inside(d)
        <4>1. Inside(c)
          BY <1>2 DEF Step, Inside, EnsureCollection, ListAVUs, CheckDuplicates, RelistAVUs,
             DeleteAVU, AddAVU, EnsureScanRoot, Scan, LoadMapping, SearchKnown, SearchExtra, ReplaceMapping
        <4>2. QED
          BY <2>2, <4>1, <1>t DEF SharedFile, TypeInv, MutualExclusion
      <3>2. disturbed' = disturbed /\ UNCHANGED collections
        BY <1>2, StepQuiet, StepCollections
      <3>3. QED
        BY <1>2, <2>2, <3>1, <3>2, <1>t, <1>k, StepFrame
    <2>3. QED
      BY <2>1, <2>2
  <1>3. ASSUME NEW c \in Caller, Start(c) \/ Acquire(c) \/ Fail(c)
        PROVE  Quiet(d)'
    <2>1. UNCHANGED <<avus, collections>>
      BY <1>3 DEF Start, Acquire, Fail, Reads, catalog
    <2>2. CASE d # c
      BY <1>3, <2>1, <2>2, <1>t, <1>k DEF Start, Acquire, Fail, Reads, Goto, Finish, LocalTypeOK
    <2>3. CASE Start(d)
      BY <2>3, <2>1, <1>t DEF Start, Goto, LocalTypeOK, Quiet, Inside, Writing
    <2>4. CASE Acquire(d)
      BY <2>4, <2>1, <1>t DEF Acquire, Goto, LocalTypeOK, Quiet, Inside, Writing
    <2>5. CASE Fail(d)
      BY <2>5, <2>1, <1>t DEF Fail, Goto, Finish, LocalTypeOK, Quiet, Inside, Writing, Refusals
    <2>6. QED
      BY <1>3, <2>2, <2>3, <2>4, <2>5
  <1>4. ASSUME NEW g, Crash(g)
        PROVE  Quiet(d)'
    <2>1. \/ pc'[d] = "done" /\ out'[d] = "error"
          \/ /\ pc'[d] = pc[d] /\ out'[d] = out[d]
             /\ listed'[d] = listed[d] \/ pc[d] = "done"
      BY <1>4 DEF Crash
    <2>2. UNCHANGED <<avus, collections, disturbed, req, changed>>
      BY <1>4 DEF Crash, catalog
    <2>3. QED
      BY <2>1, <2>2, <1>t DEF Quiet, Inside, Writing, Refusals
  <1>5. ~Edit
    BY <1>t DEF Edit, TypeInv, TypeOK, CatalogTypeOK
  <1>6. CASE UNCHANGED vars
    BY <1>6, <1>k DEF vars, catalog, locals
  <1>7. QED
    BY <1>2, <1>3, <1>4, <1>5, <1>6 DEF Next

\* Services that share one MappingFile refuse before their first write, unless
\* the scan root is missing and the collection outside it; in particular none
\* finds a duplicate when it publishes what it has changed.
THEOREM RefusalsChangeNothing ==
    SharedFile /\ MaxEdits = 0 /\ Spec => []RefusedMeansUnchanged
  <1>1. CASE SharedFile /\ MaxEdits = 0
    <2>1. QuietInv /\ [Next]_vars => QuietInv'
      BY <1>1, NextQuiet
    <2>2. QuietInv => RefusedMeansUnchanged
      BY DEF QuietInv
    <2>3. QED
      BY <2>1, <2>2, InitQuiet, PTL DEF Spec
  <1>2. QED
    BY <1>1

\* A mapping of buckets without a clash, one bucket more and one bucket less.
LEMMA MappingOne ==
    ASSUME NEW bs \in SUBSET (Name \X Scope), ~Clashing(bs)
    PROVE  /\ MappingOf(bs) \in [Name -> Scope \cup {NoPath}]
           /\ \A n \in Name, p \in Scope : MappingOf(bs)[n] = p <=> <<n, p>> \in bs
           /\ \A n \in Name : MappingOf(bs)[n] = NoPath <=> \A p \in Scope : <<n, p>> \notin bs
  <1>1. MappingOf(bs) \in [Name -> Scope \cup {NoPath}]
    BY SearchTypes
  <1>2. NoPath \notin Scope
    BY S3BucketsAssumption DEF NoPath
  <1>3. ASSUME NEW n \in Name, NEW p \in Scope, <<n, p>> \in bs
        PROVE  MappingOf(bs)[n] = p
    <2> DEFINE b == CHOOSE b \in bs : b[1] = n
    <2>1. b \in bs /\ b[1] = n
      BY <1>3
    <2>2. b[2] = p
      BY <1>3, <2>1 DEF Clashing
    <2>3. MappingOf(bs)[n] = b[2]
      BY <1>3 DEF MappingOf
    <2>4. QED
      BY <2>2, <2>3
  <1>4. ASSUME NEW n \in Name, \A p \in Scope : <<n, p>> \notin bs
        PROVE  MappingOf(bs)[n] = NoPath
    <2>1. ~ \E b \in bs : b[1] = n
      BY <1>4
    <2>2. QED
      BY <2>1 DEF MappingOf
  <1>5. QED
    BY <1>1, <1>2, <1>3, <1>4

LEMMA MappingMore ==
    ASSUME NEW bs \in SUBSET (Name \X Scope), ~Clashing(bs), NEW n \in Name, NEW p \in Scope,
           \A q \in Scope : <<n, q>> \notin bs
    PROVE  MappingOf(bs \cup {<<n, p>>}) = [MappingOf(bs) EXCEPT ![n] = p]
  <1> DEFINE more == bs \cup {<<n, p>>}
  <1>1. ~Clashing(more) /\ more \in SUBSET (Name \X Scope)
    BY DEF Clashing
  <1>2. ASSUME NEW m \in Name
        PROVE  MappingOf(more)[m] = [MappingOf(bs) EXCEPT ![n] = p][m]
    <2>1. CASE m = n
      <3>1. MappingOf(more)[n] = p
        <4>1. <<n, p>> \in more
          OBVIOUS
        <4>2. \A k \in Name, q \in Scope : MappingOf(more)[k] = q <=> <<k, q>> \in more
          <5> HIDE DEF more
          <5>1. QED
            BY <1>1, MappingOne
        <4>3. QED
          BY <4>1, <4>2
      <3>2. QED
        BY <2>1, <3>1, MappingOne
    <2>2. CASE m # n
      <3>1. \A q \in Scope : <<m, q>> \in more <=> <<m, q>> \in bs
        BY <2>2
      <3>2. MappingOf(more)[m] = MappingOf(bs)[m]
        BY <3>1, <1>1, MappingOne
      <3>3. QED
        BY <2>2, <3>2, MappingOne
    <2>3. QED
      BY <2>1, <2>2
  <1>3. QED
    BY <1>1, <1>2, MappingOne

LEMMA MappingLess ==
    ASSUME NEW bs \in SUBSET (Name \X Scope), ~Clashing(bs), NEW n \in Name, NEW p \in Scope,
           <<n, p>> \in bs
    PROVE  MappingOf(bs \ {<<n, p>>}) = [MappingOf(bs) EXCEPT ![n] = NoPath]
  <1> DEFINE less == bs \ {<<n, p>>}
  <1>1. ~Clashing(less) /\ less \in SUBSET (Name \X Scope)
    BY DEF Clashing
  <1>2. ASSUME NEW m \in Name
        PROVE  MappingOf(less)[m] = [MappingOf(bs) EXCEPT ![n] = NoPath][m]
    BY <1>1, MappingOne DEF Clashing
  <1>3. QED
    BY <1>1, <1>2, MappingOne

\* Writing the AVUs of one collection assigns one name, or releases one.
LEMMA AddAssigns ==
    ASSUME QuietInv, NEW p \in Path, NEW n \in Name, avus[p] = {},
           \A q \in Scope \ {p} : Plain(n) \notin avus[q],
           avus' = [avus EXCEPT ![p] = {Plain(n)}], UNCHANGED file
    PROVE  IF p \in Scope THEN Registry!Assign(n, p) ELSE UNCHANGED <<MappingOf(Buckets), file>>
  <1>t. /\ Buckets \in SUBSET (Name \X Scope) /\ ~Clashing(Buckets)
        /\ avus \in [Path -> SUBSET Value] /\ Scope \subseteq Path
    BY SearchTypes, S3BucketsAssumption
    DEF QuietInv, UniqueInv, TypeInv, TypeOK, CatalogTypeOK, Ambiguous
  <1>1. CASE p \in Scope
    <2>1. Buckets' = Buckets \cup {<<n, p>>}
      BY <1>1, <1>t DEF Buckets, NamesAt, Plain
    <2>2. \A q \in Scope : <<n, q>> \notin Buckets
      <3>1. ASSUME NEW q \in Scope, <<n, q>> \in Buckets
            PROVE  FALSE
        <4>1. PICK v \in avus[q] : v.name = n
          BY <3>1 DEF Buckets, NamesAt
        <4>2. v = Plain(n)
          BY <4>1, <1>t DEF QuietInv, UniqueInv, Value, Plain
        <4>3. QED
          BY <4>1, <4>2
      <3>2. QED
        BY <3>1
    <2>3. \A m \in Name : <<m, p>> \notin Buckets
      BY DEF Buckets, NamesAt
    <2>4. MappingOf(Buckets)' = [MappingOf(Buckets) EXCEPT ![n] = p]
      <3>1. MappingOf(Buckets') = [MappingOf(Buckets) EXCEPT ![n] = p]
        BY <1>1, <1>t, <2>1, <2>2, MappingMore
      <3>2. QED
        BY <3>1 DEF MappingOf
    <2>5. MappingOf(Buckets)[n] = NoPath /\ \A m \in Name : MappingOf(Buckets)[m] # p
      BY <1>1, <1>t, <2>2, <2>3, MappingOne
    <2>6. QED
      BY <1>1, <2>4, <2>5 DEF Registry!Assign
  <1>2. CASE p \notin Scope
    <2>1. Buckets' = Buckets
      BY <1>2, <1>t DEF Buckets, NamesAt
    <2>2. MappingOf(Buckets)' = MappingOf(Buckets)
      BY <2>1 DEF MappingOf
    <2>3. QED
      BY <1>2, <2>2
  <1>3. QED
    BY <1>1, <1>2

LEMMA DeleteReleases ==
    ASSUME QuietInv, NEW p \in Path, NEW v \in avus[p],
           avus' = [avus EXCEPT ![p] = @ \ {v}], UNCHANGED file
    PROVE  IF p \in Scope THEN Registry!Release(v.name)
                          ELSE UNCHANGED <<MappingOf(Buckets), file>>
  <1> DEFINE n == v.name
  <1>t. /\ Buckets \in SUBSET (Name \X Scope) /\ ~Clashing(Buckets)
        /\ avus \in [Path -> SUBSET Value] /\ Scope \subseteq Path
    BY SearchTypes, S3BucketsAssumption
    DEF QuietInv, UniqueInv, TypeInv, TypeOK, CatalogTypeOK, Ambiguous
  <1>n. n \in Name
    BY <1>t DEF Value
  <1>1. CASE p \in Scope
    <2>1. <<n, p>> \in Buckets
      BY <1>1, <1>n DEF Buckets, NamesAt
    <2>2. \A w \in avus[p] : w.name = n => w = v
      <3>1. ASSUME NEW w \in avus[p]
            PROVE  w = Plain(w.name)
        BY <1>t DEF QuietInv, UniqueInv, Value, Plain
      <3>2. QED
        BY <3>1
    <2>3. Buckets' = Buckets \ {<<n, p>>}
      <3>1. ASSUME NEW b \in Name \X Scope
            PROVE  b \in Buckets' <=> b \in Buckets /\ b # <<n, p>>
        <4>1. CASE b[2] = p
          BY <4>1, <2>2, <1>t DEF Buckets, NamesAt
        <4>2. CASE b[2] # p
          BY <4>2, <1>t DEF Buckets, NamesAt
        <4>3. QED
          BY <4>1, <4>2
      <3>2. QED
        BY <3>1 DEF Buckets
    <2>4. MappingOf(Buckets)' = [MappingOf(Buckets) EXCEPT ![n] = NoPath]
      <3>1. MappingOf(Buckets') = [MappingOf(Buckets) EXCEPT ![n] = NoPath]
        BY <1>1, <1>n, <1>t, <2>1, <2>3, MappingLess
      <3>2. QED
        BY <3>1 DEF MappingOf
    <2>5. MappingOf(Buckets)[n] # NoPath
      BY <1>1, <1>n, <1>t, <2>1, MappingOne
    <2>6. QED
      BY <1>1, <2>4, <2>5 DEF Registry!Release
  <1>2. CASE p \notin Scope
    <2>1. Buckets' = Buckets
      BY <1>2, <1>t DEF Buckets, NamesAt
    <2>2. MappingOf(Buckets)' = MappingOf(Buckets)
      BY <2>1 DEF MappingOf
    <2>3. QED
      BY <1>2, <2>2
  <1>3. QED
    BY <1>1, <1>2

LEMMA InitRegistry == Init => Registry!Init
  <1> SUFFICES ASSUME Init PROVE Registry!Init
    OBVIOUS
  <1>1. Buckets = {}
    BY S3BucketsAssumption DEF Init, Buckets, NamesAt
  <1>2. MappingOf(Buckets) = [n \in Name |-> NoPath]
    BY <1>1 DEF MappingOf
  <1>3. QED
    BY <1>2 DEF Init, Registry!Init

LEMMA NextRegistry ==
    ASSUME SharedFile, MaxEdits = 0, QuietInv, [Next]_vars
    PROVE  [Registry!Next]_<<MappingOf(Buckets), file>>
  <1>t. /\ TypeInv /\ LocalTypeOK /\ MirrorInv /\ ~Ambiguous /\ \A d \in Caller : Quiet(d)
        /\ avus \in [Path -> SUBSET Value]
    BY DEF QuietInv, UniqueInv, TypeInv, TypeOK, CatalogTypeOK, Quiet, RefusedMeansUnchanged
  <1>s. UNCHANGED <<avus, file>> => UNCHANGED <<MappingOf(Buckets), file>>
    BY DEF MappingOf, Buckets, NamesAt
  <1>1. ASSUME NEW c \in Caller, Step(c)
        PROVE  [Registry!Next]_<<MappingOf(Buckets), file>>
    <2> DEFINE p == req[c].path
    <2>r. p \in Path /\ req[c].name \in Name /\ Inside(c)
      BY <1>1, <1>t DEF LocalTypeOK, Request, Step, Inside, EnsureCollection, ListAVUs,
         CheckDuplicates, RelistAVUs, DeleteAVU, AddAVU, EnsureScanRoot, Scan, LoadMapping, SearchKnown,
         SearchExtra, ReplaceMapping
    <2>1. CASE Reads
      BY <2>1, <1>s DEF Reads, catalog
    <2>2. CASE DeleteAVU(c) /\ ~Reads
      <3>1. PICK v \in avus[p] : avus' = [avus EXCEPT ![p] = @ \ {v}] /\ UNCHANGED file
        BY <2>2 DEF DeleteAVU, Write
      <3>2. v.name \in Name
        BY <2>r, <1>t DEF Value
      <3>3. QED
        BY <2>r, <3>1, <3>2, DeleteReleases DEF Registry!Next
    <2>3. CASE AddAVU(c) /\ ~Reads
      <3>1. /\ avus' = [avus EXCEPT ![p] = avus[p] \cup {Plain(req[c].name)}]
            /\ UNCHANGED file /\ pc[c] = "tag"
        BY <2>3 DEF AddAVU, Write
      <3>2. avus[p] = {}
        BY <3>1, <1>t DEF Quiet
      <3>3. avus[p] \cup {Plain(req[c].name)} = {Plain(req[c].name)}
        BY <3>2
      <3>4. \A q \in Scope \ {p} : Plain(req[c].name) \notin avus[q]
        BY <3>1 DEF QuietInv, UniqueInv, Reserving, Reserved
      <3>5. QED
        BY <2>r, <3>1, <3>2, <3>3, <3>4, AddAssigns DEF Registry!Next
    <2>4. CASE ReplaceMapping(c) /\ ~Reads
      <3>1. file' = MappingOf(found[c]) /\ UNCHANGED avus /\ pc[c] = "replace"
        BY <2>4 DEF ReplaceMapping, catalog
      <3>2. found[c] = Buckets
        BY <2>r, <3>1, <1>t DEF Quiet, MirrorInv, Gathering
      <3>3. UNCHANGED MappingOf(Buckets)
        BY <3>1 DEF MappingOf, Buckets, NamesAt
      <3>4. QED
        BY <3>1, <3>2, <3>3 DEF Registry!Next, Registry!Publish
    <2>5. QED
      BY <1>1, <2>1, <2>2, <2>3, <2>4 DEF Step, EnsureCollection, ListAVUs, CheckDuplicates,
         RelistAVUs, EnsureScanRoot, Scan, LoadMapping, SearchKnown, SearchExtra
  <1>2. ASSUME NEW c \in Caller, Start(c) \/ Acquire(c) \/ Fail(c)
        PROVE  [Registry!Next]_<<MappingOf(Buckets), file>>
    BY <1>2, <1>s DEF Start, Acquire, Fail, Reads, catalog
  <1>3. ASSUME NEW g, Crash(g)
        PROVE  [Registry!Next]_<<MappingOf(Buckets), file>>
    BY <1>3, <1>s DEF Crash, catalog
  <1>4. ~Edit
    BY <1>t DEF Edit, TypeInv, TypeOK, CatalogTypeOK
  <1>5. CASE UNCHANGED vars
    BY <1>5, <1>s DEF vars, catalog
  <1>6. QED
    BY <1>1, <1>2, <1>3, <1>4, <1>5 DEF Next

\* The refinement: to whoever sees only names, paths and the file, services that
\* share one MappingFile are the abstract registry.
THEOREM RegistryRefined == SharedFile /\ MaxEdits = 0 /\ Spec => ImplementsRegistry
  <1>1. CASE SharedFile /\ MaxEdits = 0
    <2>1. QuietInv /\ [Next]_vars => QuietInv'
      BY <1>1, NextQuiet
    <2>2. QuietInv /\ [Next]_vars => [Registry!Next]_<<MappingOf(Buckets), file>>
      BY <1>1, NextRegistry
    <2>3. QED
      BY <2>1, <2>2, InitQuiet, InitRegistry, PTL DEF Spec, ImplementsRegistry, Registry!Spec
  <1>2. QED
    BY <1>1
=============================================================================
