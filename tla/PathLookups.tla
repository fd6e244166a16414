----------------------------- MODULE PathLookups -----------------------------
(***************************************************************************)
(* Two questions about a path that take several calls to answer, while     *)
(* others edit the catalog: in which bucket a data object lies             *)
(* (src/s3admin/bucket_path_resolution.go), and which entries of a listing *)
(* the ignore file kept in iRODS hides (src/ignore).  Paths are sequences  *)
(* of names; the root is the empty one.                                    *)
(***************************************************************************)
EXTENDS IgnoreMatch

CONSTANTS
    Object,     \* paths of data objects that are asked about
    BucketId,   \* names of buckets, in their order
    Base,       \* base path of the ignore file
    Listing,    \* entries of a listing, files and directories
    Files,      \* what the ignore file may be at first
    Edited,     \* what others may make of it; None removes it
    None,       \* no such file
    MaxEdits,   \* bound on edits
    MaxFaults   \* bound on failed calls

ASSUME PathLookupsAssumption ==
    /\ Object \subseteq Seq(Names) /\ Base \in Seq(Names)
    /\ Listing \subseteq [path : Seq(Names), isDir : BOOLEAN]
    /\ Files \cup Edited \subseteq {None} \cup Seq(Rule \cup {Comment})

Collection == UNION {{SubSeq(o, 1, k) : k \in 0 .. Len(o) - 1} : o \in Object}
Parent(p)  == Front(p)
Resolution == [bucket : BucketId, collection : Collection, key : Seq(Names), candidates : Nat]

VARIABLES
    marks,     \* marks[p]: the bucket names in the AVUs of collection p
    file,      \* the ignore file: its lines
    pc,        \* the call that is made next
    object,    \* the path that is asked about
    at,        \* the collection to look at
    size,      \* the size that Stat reported
    answer,    \* what was answered
    steady,    \* history: collections that were marked all the time
    ever,      \* history: collections that were marked at some time
    changed,   \* history: the file changed while it was loaded
    edits, faults

vars   == <<marks, file, pc, object, at, size, answer, steady, ever, changed, edits, faults>>
world  == <<marks, file, steady, ever, changed, edits>>
Marked(m) == {p \in Collection : m[p] # {}}
Goto(stage) == pc' = stage

Answer(a) == Goto("done") /\ answer' = a
Error == [kind |-> "error"]

-----------------------------------------------------------------------------
(* ResolveBucketForDataObjectPath.                                         *)

Resolve ==
    /\ pc = "resolve"
    /\ \E o \in Object :
          /\ object' = o
          /\ IF o = <<>> THEN Answer(Error) /\ UNCHANGED at
             ELSE at' = Parent(o) /\ Goto("buckets") /\ UNCHANGED answer
    /\ steady' = Marked(marks) /\ ever' = Marked(marks)
    /\ UNCHANGED <<marks, file, changed, edits, size, faults>>

Resolved(p) ==
    [kind |-> "bucket", bucket |-> Min(marks[p]), collection |-> p,
     key |-> SubSeq(object, Len(p) + 1, Len(object)), candidates |-> Cardinality(marks[p])]

\* The walk ends at the root, which is looked at as well.
StopBelowRoot ==                                                     \* mutant
    /\ pc = "buckets"
    /\ \/ marks[at] # {} /\ Answer(Resolved(at)) /\ UNCHANGED at
       \/ marks[at] = {} /\ Len(at) <= 1 /\ Answer([kind |-> "notfound"]) /\ UNCHANGED at
       \/ marks[at] = {} /\ Len(at) > 1 /\ at' = Parent(at) /\ UNCHANGED <<pc, answer>>
    /\ UNCHANGED <<world, object, size, faults>>
BucketsForPath ==
    /\ pc = "buckets"
    /\ \/ marks[at] # {} /\ Answer(Resolved(at)) /\ UNCHANGED at
       \/ marks[at] = {} /\ at = <<>> /\ Answer([kind |-> "notfound"]) /\ UNCHANGED at
       \/ marks[at] = {} /\ at # <<>> /\ at' = Parent(at) /\ UNCHANGED <<pc, answer>>
    /\ UNCHANGED <<world, object, size, faults>>

-----------------------------------------------------------------------------
(* ReadIgnoreFileFromIRODS, and FilterEntries with what was read.          *)

Relative(p) ==
    IF p = Base /\ Base # <<>> THEN <<Last(Base)>> ELSE SubSeq(p, Len(Base) + 1, Len(p))

\* What lies outside the base path is kept.
FilterEntries(rules) ==
    {e \in Listing : ~(IsPrefix(Base, e.path) /\ IsIgnored(rules, Relative(e.path), e.isDir))}

Filtered(lines) == [kind |-> "kept", entries |-> FilterEntries(Entries(lines))]

Stat ==
    /\ pc = "stat"
    /\ changed' = FALSE
    /\ IF file = None THEN Answer(Error) /\ UNCHANGED size
       ELSE IF file = <<>> THEN Answer(Filtered(<<>>)) /\ size' = 0
       ELSE size' = Len(file) /\ Goto("open") /\ UNCHANGED answer
    /\ UNCHANGED <<marks, file, steady, ever, edits, object, at, faults>>

Open ==
    /\ pc = "open"
    /\ IF file = None THEN Answer(Error) ELSE Goto("read") /\ UNCHANGED answer
    /\ UNCHANGED <<world, object, at, size, faults>>

\* As much is read as the file held when it was looked at.
Read ==
    /\ pc = "read"
    /\ IF file = None THEN Answer(Error)
       ELSE Answer(Filtered(SubSeq(file, 1, IF size < Len(file) THEN size ELSE Len(file))))
    /\ UNCHANGED <<world, object, at, size, faults>>

-----------------------------------------------------------------------------
Fail ==
    /\ pc \notin {"resolve", "stat", "done"}
    /\ faults > 0 /\ faults' = faults - 1
    /\ Answer(Error)
    /\ UNCHANGED <<world, object, at, size>>

\* Others mark and unmark collections and write the ignore file anew.
EditMarks ==
    /\ pc = "buckets" /\ edits > 0 /\ edits' = edits - 1
    /\ \E p \in Collection : \E ids \in SUBSET BucketId : marks' = [marks EXCEPT ![p] = ids]
    /\ steady' = steady \cap Marked(marks') /\ ever' = ever \cup Marked(marks')
    /\ UNCHANGED <<file, changed, pc, object, at, size, answer, faults>>

EditFile ==
    /\ pc \in {"open", "read"} /\ edits > 0 /\ edits' = edits - 1
    /\ file' \in Edited /\ changed' = TRUE
    /\ UNCHANGED <<marks, steady, ever, pc, object, at, size, answer, faults>>

\* One of the two is asked, and nothing else matters to it.
Init ==
    /\ \/ pc = "resolve" /\ marks \in [Collection -> {{}, BucketId}] /\ file = None
       \/ pc = "stat" /\ file \in Files /\ marks = [p \in Collection |-> {}]
    /\ object = <<>> /\ at = <<>> /\ size = 0
    /\ answer = Error
    /\ steady = {} /\ ever = {} /\ changed = FALSE
    /\ edits = MaxEdits /\ faults = MaxFaults

Next == Resolve \/ BucketsForPath \/ Stat \/ Open \/ Read \/ Fail \/ EditMarks \/ EditFile

Spec == Init /\ [][Next]_vars

-----------------------------------------------------------------------------
(* Properties.                                                             *)

\* Although the collections are read one by one, an answer is never absurd: the
\* bucket was marked while it was looked for, no collection nearer to the object
\* was marked all along, its key leads to the object, and no bucket is found
\* only if none of the collections above was marked all along.
NearestBucket ==
    LET above == {SubSeq(object, 1, k) : k \in 0 .. Len(object) - 1}
    IN /\ answer.kind = "bucket" =>
             /\ answer.collection \in ever
             /\ answer.collection \o answer.key = object /\ answer.key # <<>>
             /\ \A p \in steady \cap above : Len(p) <= Len(answer.collection)
       /\ answer.kind = "notfound" => steady \cap above = {}

Negations(rules) == Cardinality({i \in DOMAIN rules : rules[i].negate})

\* Every rule that ignores also ignores what lies beneath: it is for directories
\* or has no slash.
Hiding(rules) == \A i \in DOMAIN rules :
    rules[i].negate \/ rules[i].directoryOnly \/ (~rules[i].leadingSlash /\ Len(rules[i].segments) = 1)

\* A file that did not change while it was loaded hides what its last rule
\* ignores; and no negation brings back what lies beneath a directory that stays
\* hidden, as long as the rules that ignore also cover what lies beneath and
\* there is but one negation.
HiddenStaysHidden ==
    (answer.kind = "kept" /\ ~changed /\ file # None) =>
        LET rules   == Entries(file)
            dropped == {e \in Listing : IsPrefix(Base, e.path)} \ answer.entries
        IN /\ \A e \in Listing :
                 (rules # <<>> /\ IsPrefix(Base, e.path) /\ ~Last(rules).negate
                    /\ Matches(Last(rules), Relative(e.path), e.isDir)) => e \in dropped
           /\ Hiding(rules) /\ Negations(rules) <= 1 =>
                 \A d \in dropped : d.isDir /\ d.path # Base =>
                     \A e \in Listing : IsPrefix(d.path, e.path) => e \in dropped \cup {f \in Listing : f.path = d.path}
=============================================================================
