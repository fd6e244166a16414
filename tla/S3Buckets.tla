----------------------------- MODULE S3Buckets -----------------------------
(***************************************************************************)
(* S3 buckets (src/s3admin): collections marked with bucket AVUs in the    *)
(* iRODS catalog, mirrored into the mapping file of the S3 API.  An         *)
(* S3Service holds the mutex of its MappingFile from its first call to its *)
(* last, but every NewS3Service makes a MappingFile, and so a mutex, of    *)
(* its own: services on one file exclude each other only if they share the *)
(* MappingFile, and nothing excludes iCommands.                            *)
(*                                                                         *)
(* A collection path and a bucket name are numbers, in the order in which  *)
(* they sort; the collections beneath the scan root lie in it side by      *)
(* side, the others elsewhere.  Values that are no bucket names are        *)
(* ignored by the code and left out; so are the two scopes a search joins, *)
(* taken as one query.                                                     *)
(***************************************************************************)
EXTENDS FiniteSets, FiniteSetsExt, Integers

CONSTANTS
    Caller,     \* concurrent users of an S3Service
    Guard,      \* Guard[c]: the MappingFile of the service c uses
    Path,       \* collection paths
    Root,       \* ScanRootPath
    Scope,      \* the paths at or beneath it
    Name,       \* normalized bucket names
    Spelling,   \* {TRUE}, or BOOLEAN: others write names in upper case too
    Requests,   \* Requests[c]: the requests c may issue
    EditWhen,   \* when iCommands act: "quiet" or "anytime"
    MaxEdits,   \* bound on their edits
    MaxFaults   \* bound on failed calls, lost replies and crashes

NoPath == 0     \* the name is not in the mapping

Value    == [name : Name, exact : Spelling]
Plain(n) == [name |-> n, exact |-> TRUE]      \* as the service writes it

Ops      == {"AddBucket", "UpdateBucket", "DeleteBucket", "RefreshMapping",
             "RebuildMappingFromAVUs"}
Request  == [op : Ops, path : Path, name : Name]
Stages   == {"done", "lock", "ensure", "list", "dupes", "relist", "untag", "tag",
             "root", "scan", "load", "search", "extra", "replace"}
Refusals == {"invalid", "notfound", "alreadyset", "duplicate"}
Outcomes == Refusals \cup {"ok", "error"}

ASSUME S3BucketsAssumption ==
    /\ Path \subseteq Nat \ {0} /\ IsFiniteSet(Path)
    /\ Scope \subseteq Path /\ Root \in Scope
    /\ Name \subseteq Nat /\ IsFiniteSet(Name)
    /\ Spelling \subseteq BOOLEAN /\ TRUE \in Spelling
    /\ Requests \in [Caller -> SUBSET Request] /\ \A c \in Caller : Requests[c] # {}
    /\ EditWhen \in {"quiet", "anytime"}
    /\ MaxEdits \in Nat /\ MaxFaults \in Nat

VARIABLES
    collections,    \* the collections that exist
    avus,           \* avus[p]: the bucket AVUs of collection p
    file,           \* the mapping file: file[n], the path of bucket n
    locked,         \* the MappingFiles whose mutex is held
    pc,             \* pc[c]: the call c makes next
    req,            \* req[c]: the request c is serving, or served last
    listed,         \* listed[c]: the AVUs c still has to delete
    found,          \* found[c]: the buckets c has found, <<name, path>>
    known,          \* known[c]: the names of the old file c still has to search
    out,            \* out[c]: the result of c's last request
    changed,        \* history: the AVU changes of c's request
    disturbed,      \* history: callers in whose request others changed the catalog
    edits, faults   \* iCommands edits and failures left

catalog == <<collections, avus>>
locals  == <<pc, req, listed, found, known, out, changed>>
vars    == <<catalog, file, locked, locals, disturbed, edits, faults>>

-----------------------------------------------------------------------------
(* Searches.  A value is normalized when it is read, but the catalog        *)
(* compares it as it is spelled.                                            *)

\* bucketsForPath.
NamesAt(p) == {v.name : v \in avus[p]}

\* listBuckets beneath the scan root, with the wildcard.
Buckets == {b \in Name \X Scope : b[1] \in NamesAt(b[2])}

\* searchBucketsByName beneath the scan root.
Named(n) == {b \in {n} \X Scope : Plain(n) \in avus[b[2]]}

Clashing(buckets) == \E b, d \in buckets : b[1] = d[1] /\ b[2] # d[2]

\* writeBucketMappingLocked builds the mapping.
MappingOf(buckets) ==
    [n \in Name |-> IF \E b \in buckets : b[1] = n
                    THEN (CHOOSE b \in buckets : b[1] = n)[2] ELSE NoPath]

\* The duplicate check of AddBucket and UpdateBucket looks at the first match.
NoDuplicate(n, p) == FALSE                                          \* mutant
Duplicate(n, p) == Named(n) # {} /\ Min({b[2] : b \in Named(n)}) # p

-----------------------------------------------------------------------------
(* Control flow.                                                           *)

Goto(c, stage) == pc' = [pc EXCEPT ![c] = stage]

\* The operation returns and the deferred Unlock runs.
Finish(c, o) ==
    /\ Goto(c, "done")
    /\ out' = [out EXCEPT ![c] = o]
    /\ locked' = locked \ {Guard[c]}
    /\ listed' = [listed EXCEPT ![c] = {}]
    /\ found' = [found EXCEPT ![c] = {}]
    /\ known' = [known EXCEPT ![c] = {}]
    /\ UNCHANGED <<req, changed>>

\* Go on within the operation.
Proceed(c, stage) ==
    Goto(c, stage) /\ UNCHANGED <<locked, req, listed, found, known, out, changed>>

ListThen(c, stage) ==
    /\ Goto(c, stage)
    /\ listed' = [listed EXCEPT ![c] = avus[req[c].path]]
    /\ UNCHANGED <<locked, req, found, known, out, changed>>

Inside(c) == pc[c] \notin {"done", "lock"}

\* A change of the catalog overtakes the operations of some callers.
Disturb(callers) == disturbed' = disturbed \cup {d \in callers : Inside(d)}

\* The call changed the AVUs of p; then the caller goes on, or its reply is lost.
Write(c, values, stage) ==
    LET p == req[c].path
    IN /\ avus' = [avus EXCEPT ![p] = values]
       /\ changed' = [changed EXCEPT ![c] = TRUE]
       /\ Disturb({d \in Caller : Guard[d] # Guard[c]})
       /\ UNCHANGED <<collections, file, edits, req, found, known>>
       /\ \/ /\ Goto(c, stage)
             /\ listed' = [listed EXCEPT ![c] = @ \ (avus[p] \ values)]
             /\ UNCHANGED <<locked, out, faults>>
          \/ /\ faults > 0 /\ faults' = faults - 1
             /\ Goto(c, "done")
             /\ out' = [out EXCEPT ![c] = "error"]
             /\ locked' = locked \ {Guard[c]}
             /\ listed' = [listed EXCEPT ![c] = {}]

Reads == UNCHANGED <<catalog, file, disturbed, edits, faults>>

-----------------------------------------------------------------------------
(* The operations.                                                         *)

Start(c) ==
    /\ pc[c] = "done"
    /\ \E r \in Requests[c] : req' = [req EXCEPT ![c] = r]
    /\ Goto(c, "lock")
    /\ changed' = [changed EXCEPT ![c] = FALSE]
    /\ out' = [out EXCEPT ![c] = "error"]
    /\ UNCHANGED <<locked, listed, found, known>> /\ Reads

\* mappingFile.mu.Lock().
AlwaysFree(g) == TRUE                                               \* mutant
Free(g) == g \notin locked
Acquire(c) ==
    /\ pc[c] = "lock" /\ Free(Guard[c])
    /\ locked' = locked \cup {Guard[c]}
    /\ disturbed' = disturbed \ {c}
    /\ Goto(c, IF req[c].op \in {"RefreshMapping", "RebuildMappingFromAVUs"}
               THEN "root" ELSE "ensure")
    /\ UNCHANGED <<catalog, file, edits, faults, req, listed, found, known, out, changed>>

ReturnLocked(c) ==                                                  \* mutant
    /\ pc[c] = "ensure" /\ Reads
    /\ IF req[c].path \in collections THEN Proceed(c, "list")
       ELSE Goto(c, "done") /\ UNCHANGED <<locked, req, listed, found, known, out, changed>>
EnsureCollection(c) ==
    /\ pc[c] = "ensure"
    /\ IF req[c].path \in collections THEN Proceed(c, "list") ELSE Finish(c, "invalid")
    /\ Reads

\* bucketsForPath, or bucketAVUs in DeleteBucket.
ListAVUs(c) ==
    LET p == req[c].path
        op == req[c].op
    IN /\ pc[c] = "list"
       /\ \/ p \notin collections /\ Finish(c, "error")
          \/ p \in collections /\ op # "AddBucket" /\ avus[p] = {} /\ Finish(c, "notfound")
          \/ p \in collections /\ op = "DeleteBucket" /\ avus[p] # {} /\ ListThen(c, "untag")
          \/ /\ p \in collections /\ op = "UpdateBucket" /\ avus[p] # {} /\ Proceed(c, "dupes")
          \/ p \in collections /\ op = "AddBucket" /\ ListThen(c, "dupes")
       /\ Reads

\* AddBucket goes by the first bucket of the collection that it listed before.
CheckDuplicates(c) ==
    LET r == req[c]
        names == {v.name : v \in listed[c]}
    IN /\ pc[c] = "dupes"
       /\ \/ Duplicate(r.name, r.path) /\ Finish(c, "duplicate")
          \/ /\ ~Duplicate(r.name, r.path)
             /\ \/ r.op = "UpdateBucket" /\ Proceed(c, "relist")
                \/ r.op = "AddBucket" /\ names = {} /\ Proceed(c, "tag")
                \/ /\ r.op = "AddBucket" /\ names # {}
                   /\ IF Min(names) = r.name THEN Proceed(c, "root")
                                             ELSE Finish(c, "alreadyset")
       /\ Reads

\* replaceBucketAVUs lists the AVUs again ...
RelistAVUs(c) ==
    /\ pc[c] = "relist"
    /\ IF req[c].path \notin collections THEN Finish(c, "error")
       ELSE ListThen(c, IF avus[req[c].path] = {} THEN "tag" ELSE "untag")
    /\ Reads

\* ... and deletes them one by one, as DeleteBucket does; deleting an AVU that
\* is gone is an error.
DeleteAVU(c) ==
    LET p == req[c].path
    IN /\ pc[c] = "untag"
       /\ \E v \in listed[c] :
          \/ v \notin avus[p] /\ Finish(c, "error") /\ Reads
          \/ /\ v \in avus[p]
             /\ Write(c, avus[p] \ {v}, IF listed[c] # {v} THEN "untag"
                                        ELSE IF req[c].op = "UpdateBucket" THEN "tag" ELSE "root")

\* AddCollectionMetadata: the catalog refuses a second equal AVU.
AddAVU(c) ==
    LET p == req[c].path
        v == Plain(req[c].name)
    IN /\ pc[c] = "tag"
       /\ \/ (p \notin collections \/ v \in avus[p]) /\ Finish(c, "error") /\ Reads
          \/ p \in collections /\ v \notin avus[p] /\ Write(c, avus[p] \cup {v}, "root")

\* listBuckets refuses when the scan root is missing, after whatever the
\* operation has written; the searches for one name do not ask.
EnsureScanRoot(c) ==
    /\ pc[c] = "root"
    /\ IF Root \in collections THEN Proceed(c, "scan") ELSE Finish(c, "invalid")
    /\ Reads

\* writeDiscoveredMappingLocked begins with a wildcard search ...
Scan(c) ==
    /\ pc[c] = "scan"
    /\ found' = [found EXCEPT ![c] = Buckets]
    /\ listed' = [listed EXCEPT ![c] = {}]
    /\ Goto(c, IF req[c].op = "RebuildMappingFromAVUs" THEN "replace" ELSE "load")
    /\ UNCHANGED <<locked, req, known, out, changed>> /\ Reads

\* ... then searches for every name of the old mapping file ...
LoadMapping(c) ==
    /\ pc[c] = "load"
    /\ known' = [known EXCEPT ![c] = {n \in Name : file[n] # NoPath}]
    /\ Goto(c, "search")
    /\ UNCHANGED <<locked, req, listed, found, out, changed>> /\ Reads

TrustKnown(c) ==                                                    \* mutant
    /\ pc[c] = "search"
    /\ found' = [found EXCEPT ![c] = @ \cup {b \in known[c] \X Path : file[b[1]] = b[2]}]
    /\ known' = [known EXCEPT ![c] = {}]
    /\ Goto(c, "extra")
    /\ UNCHANGED <<locked, req, listed, out, changed>> /\ Reads
SearchKnown(c) ==
    /\ pc[c] = "search"
    /\ \/ \E n \in known[c] :
          /\ found' = [found EXCEPT ![c] = @ \cup Named(n)]
          /\ known' = [known EXCEPT ![c] = @ \ {n}]
          /\ UNCHANGED pc
       \/ known[c] = {} /\ Goto(c, "extra") /\ UNCHANGED <<found, known>>
    /\ UNCHANGED <<locked, req, listed, out, changed>> /\ Reads

\* ... and for the name that was just added.
SearchExtra(c) ==
    LET extra == IF req[c].op \in {"AddBucket", "UpdateBucket"} THEN Named(req[c].name) ELSE {}
    IN /\ pc[c] = "extra"
       /\ found' = [found EXCEPT ![c] = @ \cup extra]
       /\ Goto(c, "replace")
       /\ UNCHANGED <<locked, req, listed, known, out, changed>> /\ Reads

\* writeBucketMappingLocked and replaceLocked: a temporary file is renamed over
\* the mapping file, unless two collections have one name.
ReplaceMapping(c) ==
    /\ pc[c] = "replace"
    /\ \/ Clashing(found[c]) /\ Finish(c, "duplicate") /\ Reads
       \/ /\ ~Clashing(found[c])
          /\ file' = MappingOf(found[c])
          /\ Finish(c, "ok")
          /\ UNCHANGED <<catalog, disturbed, edits, faults>>

\* A call fails without effect: the catalog's, or the file system's.
Fail(c) ==
    /\ pc[c] \notin {"done", "lock"}
    /\ faults > 0 /\ faults' = faults - 1
    /\ Finish(c, "error")
    /\ UNCHANGED <<catalog, file, disturbed, edits>>

\* The process that holds a MappingFile stops: all its callers do.
Crash(g) ==
    /\ faults > 0 /\ faults' = faults - 1
    /\ LET hit(c) == Guard[c] = g
       IN /\ \E c \in Caller : hit(c) /\ pc[c] # "done"
          /\ pc' = [c \in Caller |-> IF hit(c) THEN "done" ELSE pc[c]]
          /\ out' = [c \in Caller |-> IF hit(c) /\ pc[c] # "done" THEN "error" ELSE out[c]]
          /\ listed' = [c \in Caller |-> IF hit(c) THEN {} ELSE listed[c]]
          /\ found' = [c \in Caller |-> IF hit(c) THEN {} ELSE found[c]]
          /\ known' = [c \in Caller |-> IF hit(c) THEN {} ELSE known[c]]
    /\ locked' = locked \ {g}
    /\ UNCHANGED <<catalog, file, req, changed, disturbed, edits>>

-----------------------------------------------------------------------------
(* iCommands: imkdir, irm, imeta.                                          *)

MakeCollection == \E p \in Path \ collections :
    /\ p \in Scope \ {Root} => Root \in collections
    /\ collections' = collections \cup {p} /\ UNCHANGED avus
RemoveCollection == \E p \in collections :
    LET gone == IF p = Root THEN Scope ELSE {p}
    IN /\ collections' = collections \ gone
       /\ avus' = [q \in Path |-> IF q \in gone THEN {} ELSE avus[q]]
AddByHand == \E p \in collections : \E v \in Value \ avus[p] :
    avus' = [avus EXCEPT ![p] = @ \cup {v}] /\ UNCHANGED collections
RemoveByHand == \E p \in collections : \E v \in avus[p] :
    avus' = [avus EXCEPT ![p] = @ \ {v}] /\ UNCHANGED collections

Edit ==
    /\ edits > 0 /\ edits' = edits - 1
    /\ EditWhen = "quiet" => \A c \in Caller : pc[c] = "done"
    /\ MakeCollection \/ RemoveCollection \/ AddByHand \/ RemoveByHand
    /\ Disturb(Caller)
    /\ UNCHANGED <<file, locked, locals, faults>>

-----------------------------------------------------------------------------
Init ==
    /\ collections \in {{}, Path, Path \ Scope}   \* none to begin with, all, or no scan root
    /\ avus = [p \in Path |-> {}]
    /\ file = [n \in Name |-> NoPath]
    /\ locked = {}
    /\ pc = [c \in Caller |-> "done"]
    /\ req = [c \in Caller |-> CHOOSE r \in Requests[c] : TRUE]
    /\ listed = [c \in Caller |-> {}]
    /\ found = [c \in Caller |-> {}]
    /\ known = [c \in Caller |-> {}]
    /\ out = [c \in Caller |-> "error"]
    /\ changed = [c \in Caller |-> FALSE]
    /\ disturbed = {}
    /\ edits = MaxEdits
    /\ faults = MaxFaults

Step(c) ==
    \/ EnsureCollection(c) \/ ListAVUs(c) \/ CheckDuplicates(c) \/ RelistAVUs(c)
    \/ DeleteAVU(c) \/ AddAVU(c) \/ EnsureScanRoot(c) \/ Scan(c) \/ LoadMapping(c)
    \/ SearchKnown(c) \/ SearchExtra(c) \/ ReplaceMapping(c)

Next == \/ \E c \in Caller : Start(c) \/ Acquire(c) \/ Step(c) \/ Fail(c)
        \/ \E g \in {Guard[c] : c \in Caller} : Crash(g)
        \/ Edit

Spec == Init /\ [][Next]_vars

\* Callers keep issuing requests; Go's mutex starves nobody.
FairSpec == Spec /\ \A c \in Caller : /\ WF_vars(Start(c)) /\ WF_vars(Step(c))
                                      /\ SF_vars(Acquire(c))

-----------------------------------------------------------------------------
(* Properties.                                                             *)

CatalogTypeOK ==
    /\ collections \subseteq Path /\ (Root \in collections \/ collections \cap Scope = {})
    /\ avus \in [Path -> SUBSET Value]
    /\ file \in [Name -> Scope \cup {NoPath}]
    /\ disturbed \subseteq Caller
    /\ edits \in 0 .. MaxEdits /\ faults \in 0 .. MaxFaults

LocalTypeOK ==
    /\ pc \in [Caller -> Stages]
    /\ req \in [Caller -> Request]
    /\ listed \in [Caller -> SUBSET Value]
    /\ found \in [Caller -> SUBSET (Name \X Scope)]
    /\ known \in [Caller -> SUBSET Name]
    /\ out \in [Caller -> Outcomes]
    /\ changed \in [Caller -> BOOLEAN]

\* Every variable keeps to its values, and a mutex is held exactly while one of
\* its callers is within an operation: every way out of it unlocks.
TypeOK == /\ CatalogTypeOK /\ LocalTypeOK
          /\ locked = {Guard[c] : c \in {d \in Caller : Inside(d)}}

\* Two callers that share a MappingFile are never both within an operation.
MutualExclusion ==
    \A c, d \in Caller : Inside(c) /\ Inside(d) /\ Guard[c] = Guard[d] => c = d

Ambiguous == Clashing(Buckets)

\* Bucket names are unique beneath the scan root: no call of a service gives a
\* second collection the name of another, found out several calls earlier.
NeverDuplicates == [][~Ambiguous /\ Ambiguous' => edits' # edits]_vars

\* An operation that succeeds leaves a mapping file that says what the catalog
\* holds at that moment, though it was gathered by many searches; while names
\* that others made ambiguous, no operation succeeds.  This needs the catalog
\* to be left alone meanwhile by iCommands and by services on other MappingFiles.
SuccessMirrorsCatalog ==
    [][\A c \in Caller \ disturbed : pc[c] # "done" /\ out'[c] = "ok"
          => ~Ambiguous /\ file' = MappingOf(Buckets)]_vars

\* An operation that reports a duplicate, or any other refusal, changed no AVU.
\* One refusal comes too late for that: beneath a scan root that exists all is
\* well, but on a collection outside it the AVU is written before listBuckets
\* finds that the scan root is missing.
RefusedMeansUnchanged ==
    \A c \in Caller :
        pc[c] = "done" /\ out[c] \in Refusals /\ changed[c]
            => out[c] = "invalid" /\ Root \notin collections /\ req[c].path \notin Scope

\* When somebody keeps refreshing and nobody changes the catalog any more, the
\* file comes to mirror it and stays so, whatever was lost, crashed, edited by
\* hand or published by another service before; unless two collections are
\* left with one name, or the scan root is gone: then every refresh is refused
\* and the file keeps buckets that do not exist.
EventuallyMirrored ==
    <>[][FALSE]_catalog
        => <>[](Root \notin collections \/ Ambiguous \/ file = MappingOf(Buckets))

\* Services that share a MappingFile keep a registry in which a name has one
\* path and a path has one name, and publish it whole.
Registry == INSTANCE S3Registry WITH registry <- MappingOf(Buckets), published <- file,
                                     Path <- Scope
ImplementsRegistry == Registry!Spec
=============================================================================
