-------------------------- MODULE PathLookupsProofs --------------------------
(***************************************************************************)
(* Theorems about PathLookups, for every catalog, listing and ignore file. *)
(***************************************************************************)
EXTENDS PathLookups, FiniteSetTheorems, SequenceTheorems, WellFoundedInduction, TLAPS

-----------------------------------------------------------------------------
(* Parts of paths.                                                         *)

\* The first n names of a path.
Up(p, n) == SubSeq(p, 1, n)

LEMMA UpFacts ==
    ASSUME NEW p \in Seq(Names), NEW n \in 0 .. Len(p)
    PROVE  /\ Up(p, n) \in Seq(Names) /\ Len(Up(p, n)) = n
           /\ \A i \in 1 .. n : Up(p, n)[i] = p[i]
  <1>1. Len(p) \in Nat /\ n \in Int /\ 0 <= n
    BY LenProperties
  <1>2. \A i \in 1 .. n : p[i] \in Names
    BY <1>1, ElementOfSeq
  <1>3. QED
    BY <1>1, <1>2, SubSeqProperties DEF Up

LEMMA UpOfUp ==
    ASSUME NEW p \in Seq(Names), NEW n \in 0 .. Len(p), NEW k \in 0 .. n
    PROVE  Up(Up(p, n), k) = Up(p, k)
  <1>1. Len(p) \in Nat /\ k \in 0 .. Len(p)
    BY LenProperties
  <1>2. /\ Up(p, n) \in Seq(Names) /\ Len(Up(p, n)) = n
        /\ \A i \in 1 .. n : Up(p, n)[i] = p[i]
    BY UpFacts
  <1>3. /\ Up(Up(p, n), k) \in Seq(Names) /\ Len(Up(Up(p, n), k)) = k
        /\ \A i \in 1 .. k : Up(Up(p, n), k)[i] = Up(p, n)[i]
    BY <1>2, UpFacts
  <1>4. /\ Up(p, k) \in Seq(Names) /\ Len(Up(p, k)) = k
        /\ \A i \in 1 .. k : Up(p, k)[i] = p[i]
    BY <1>1, UpFacts
  <1>5. \A i \in 1 .. k : i \in 1 .. n
    BY <1>1
  <1>6. QED
    BY <1>2, <1>3, <1>4, <1>5, SeqEqual

LEMMA UpAll ==
    ASSUME NEW p \in Seq(Names)
    PROVE  Up(p, Len(p)) = p
  BY SubSeqFull DEF Up

-----------------------------------------------------------------------------
(* The bucket of a data object.                                            *)

Above(o) == {SubSeq(o, 1, k) : k \in 0 .. Len(o) - 1}

\* While ancestors are looked at, those nearer to the object were not all along
\* marked.
WalkInv ==
    /\ object \in Seq(Names)
    /\ pc \in {"resolve", "buckets", "stat", "open", "read", "done"}
    /\ pc # "done" => answer = Error
    /\ pc = "buckets" =>
         /\ object \in Object /\ at \in Above(object)
         /\ steady \subseteq Marked(marks) /\ Marked(marks) \subseteq ever
         /\ \A p \in steady \cap Above(object) : Len(p) <= Len(at)

NearInv == WalkInv /\ NearestBucket

LEMMA AboveFacts ==
    ASSUME NEW o \in Seq(Names), NEW p \in Above(o)
    PROVE  Len(p) \in 0 .. Len(o) - 1 /\ p = Up(o, Len(p)) /\ p \in Seq(Names)
  <1>1. PICK k \in 0 .. Len(o) - 1 : p = SubSeq(o, 1, k)
    BY DEF Above
  <1>2. k \in 0 .. Len(o)
    BY LenProperties
  <1>3. QED
    BY <1>1, <1>2, UpFacts DEF Up

LEMMA NoAnswer ==
    ASSUME answer = Error
    PROVE  NearestBucket /\ answer.kind # "kept"
  BY DEF NearestBucket, Error

LEMMA ResolveStep ==
    ASSUME WalkInv, Resolve
    PROVE  NearInv'
  <1>1. PICK o \in Object :
          /\ object' = o
          /\ IF o = <<>> THEN Answer(Error) /\ UNCHANGED at
             ELSE at' = Parent(o) /\ Goto("buckets") /\ UNCHANGED answer
    BY DEF Resolve
  <1>2. /\ steady' = Marked(marks) /\ ever' = Marked(marks) /\ marks' = marks
        /\ answer = Error /\ o \in Seq(Names)
    BY PathLookupsAssumption DEF Resolve, WalkInv
  <1>3. answer' = Error /\ NearestBucket'
    <2>1. answer' = Error
      BY <1>1, <1>2 DEF Answer
    <2>2. answer'.kind = "error"
      BY <2>1 DEF Error
    <2>3. QED
      BY <2>1, <2>2 DEF NearestBucket
  <1>4. CASE o = <<>>
    BY <1>1, <1>2, <1>3, <1>4 DEF NearInv, WalkInv, Answer, Goto
  <1>5. CASE o # <<>>
    <2>1. pc' = "buckets" /\ at' = SubSeq(o, 1, Len(o) - 1)
      BY <1>1, <1>5 DEF Goto, Parent, Front
    <2>2. Len(o) \in Nat /\ Len(o) # 0
      BY <1>2, <1>5, EmptySeq, LenProperties
    <2>3. at' \in Above(o)
      BY <2>1, <2>2 DEF Above
    <2>4. Len(at') = Len(o) - 1
      <3>1. Len(o) - 1 \in 0 .. Len(o)
        BY <2>2
      <3>2. Len(Up(o, Len(o) - 1)) = Len(o) - 1
        BY <1>2, <3>1, UpFacts
      <3>3. QED
        BY <2>1, <3>2 DEF Up
    <2>5. \A p \in Above(o) : Len(p) <= Len(at')
      BY <1>2, <2>2, <2>4, AboveFacts
    <2>6. Marked(marks)' = Marked(marks)
      BY <1>2 DEF Marked
    <2>7. QED
      BY <1>1, <1>2, <1>3, <2>1, <2>3, <2>5, <2>6 DEF NearInv, WalkInv
  <1>6. QED
    BY <1>4, <1>5

\* A collection without a bucket is the nearest no more.
LEMMA Onward ==
    ASSUME WalkInv, pc = "buckets", marks[at] = {}, NEW p \in steady \cap Above(object)
    PROVE  Len(p) < Len(at)
  <1>1. object \in Seq(Names) /\ at \in Above(object) /\ Len(p) <= Len(at) /\ p \in Marked(marks)
    BY DEF WalkInv
  <1>2. /\ Len(p) \in 0 .. Len(object) - 1 /\ p = Up(object, Len(p))
        /\ Len(at) \in 0 .. Len(object) - 1 /\ at = Up(object, Len(at))
    BY <1>1, AboveFacts
  <1>3. p # at
    BY <1>1 DEF Marked
  <1>4. Len(p) # Len(at)
    BY <1>2, <1>3
  <1>5. Len(p) \in Int /\ Len(at) \in Int
    BY <1>2
  <1>6. QED
    BY <1>1, <1>4, <1>5

LEMMA BucketsStep ==
    ASSUME WalkInv, BucketsForPath
    PROVE  NearInv'
  <1>1. /\ pc = "buckets" /\ object \in Seq(Names) /\ object \in Object /\ at \in Above(object)
        /\ steady \subseteq Marked(marks) /\ Marked(marks) \subseteq ever
        /\ \A p \in steady \cap Above(object) : Len(p) <= Len(at)
        /\ answer = Error
    BY DEF WalkInv, BucketsForPath
  <1>2. marks' = marks /\ steady' = steady /\ ever' = ever /\ object' = object
    BY DEF BucketsForPath, world
  <1>3. Len(object) \in Nat /\ Len(at) \in 0 .. Len(object) - 1 /\ at = Up(object, Len(at))
        /\ at \in Seq(Names)
    BY <1>1, AboveFacts, LenProperties
  <1>4. CASE marks[at] # {} /\ Answer(Resolved(at)) /\ UNCHANGED at
    <2> DEFINE n == Len(at)
               key == SubSeq(object, n + 1, Len(object))
    <2>1. /\ answer' = Resolved(at) /\ pc' = "done"
          /\ answer'.kind = "bucket" /\ answer'.collection = at /\ answer'.key = key
      BY <1>4 DEF Answer, Goto, Resolved
    <2>2. at \in Collection
      BY <1>1 DEF Collection, Above
    <2>3. at \in ever'
      BY <1>1, <1>2, <1>4, <2>2 DEF Marked
    <2>4. at \o key = object
      <3>1. /\ 1 \in 1 .. Len(object) + 1 /\ n \in 1 - 1 .. Len(object)
            /\ Len(object) \in n .. Len(object)
        BY <1>3
      <3>2. SubSeq(object, 1, n) \o SubSeq(object, n + 1, Len(object)) = SubSeq(object, 1, Len(object))
        BY <1>1, <3>1, ConcatAdjacentSubSeq
      <3>3. SubSeq(object, 1, Len(object)) = object
        BY <1>1, SubSeqFull
      <3>4. QED
        BY <1>3, <3>2, <3>3 DEF Up
    <2>5. key # <<>>
      <3>1. key = <<>> => at \o <<>> = object
        BY <2>4
      <3>2. at \o <<>> = at
        BY <1>3, ConcatEmptySeq
      <3>3. at # object
        BY <1>3
      <3>4. QED
        BY <3>1, <3>2, <3>3
    <2> HIDE DEF key
    <2>6. NearestBucket'
      BY <1>1, <1>2, <2>1, <2>3, <2>4, <2>5 DEF NearestBucket, Above
    <2>7. QED
      BY <1>1, <1>2, <2>1, <2>6 DEF NearInv, WalkInv
  <1>5. CASE marks[at] = {} /\ at = <<>> /\ Answer([kind |-> "notfound"]) /\ UNCHANGED at
    <2>1. answer'.kind = "notfound" /\ pc' = "done"
      BY <1>5 DEF Answer, Goto
    <2>2. Len(at) = 0
      BY <1>5
    <2>3. ASSUME NEW p \in steady \cap Above(object)
          PROVE  FALSE
      <3>1. Len(p) < 0
        BY <1>1, <1>5, <2>2, <2>3, Onward
      <3>2. Len(p) \in Nat
        BY <1>1, <1>3, AboveFacts
      <3>3. QED
        BY <3>1, <3>2
    <2>4. NearestBucket'
      BY <1>2, <2>1, <2>3 DEF NearestBucket, Above
    <2>5. QED
      BY <1>1, <1>2, <2>1, <2>4 DEF NearInv, WalkInv
  <1>6. CASE marks[at] = {} /\ at # <<>> /\ at' = Parent(at) /\ UNCHANGED <<pc, answer>>
    <2> DEFINE n == Len(at)
    <2>1. n \in 1 .. Len(object) - 1
      BY <1>3, <1>6, EmptySeq
    <2>2. at' = Up(object, n - 1)
      <3>1. at' = Up(at, n - 1)
        BY <1>6 DEF Parent, Front, Up
      <3>2. n - 1 \in 0 .. n /\ n \in 0 .. Len(object)
        BY <2>1
      <3>3. QED
        BY <1>1, <1>3, <3>1, <3>2, UpOfUp
    <2>3. n - 1 \in 0 .. Len(object) - 1
      BY <2>1
    <2>4. at' \in Above(object)
      BY <2>2, <2>3 DEF Above, Up
    <2>5. Len(at') = n - 1
      <3>1. n - 1 \in 0 .. Len(object)
        BY <2>1
      <3>2. QED
        BY <1>1, <2>2, <3>1, UpFacts
    <2>6. ASSUME NEW p \in steady \cap Above(object)
          PROVE  Len(p) <= Len(at')
      <3>1. Len(p) < n
        BY <1>1, <1>6, Onward
      <3>2. Len(p) \in Nat
        BY <1>1, <1>3, AboveFacts
      <3>3. QED
        BY <2>1, <2>5, <3>1, <3>2
    <2>7. Marked(marks)' = Marked(marks)
      BY <1>2 DEF Marked
    <2>8. WalkInv'
      BY <1>1, <1>2, <1>6, <2>4, <2>6, <2>7 DEF WalkInv
    <2>9. NearestBucket'
      BY <1>1, <1>6 DEF NearestBucket, Error
    <2>10. QED
      BY <2>8, <2>9 DEF NearInv
  <1>7. QED
    BY <1>4, <1>5, <1>6 DEF BucketsForPath

\* The other steps ask for no bucket, or change what is marked.
LEMMA NearStep ==
    ASSUME NearInv, [Next]_vars
    PROVE  NearInv'
  <1>1. WalkInv /\ NearestBucket
    BY DEF NearInv
  <1>2. CASE Resolve \/ BucketsForPath
    BY <1>1, <1>2, ResolveStep, BucketsStep
  <1>3. ASSUME pc' = "done" \/ (pc' \in {"open", "read"} /\ answer' = Error),
               answer'.kind \notin {"bucket", "notfound"}, object' = object
        PROVE  NearInv'
    BY <1>1, <1>3 DEF NearInv, WalkInv, NearestBucket
  <1>4. Error.kind = "error" /\ \A lines : Filtered(lines).kind = "kept"
    BY DEF Error, Filtered
  <1>5. CASE Stat
    <2>1. object' = object /\ answer = Error
      BY <1>1, <1>5 DEF Stat, WalkInv
    <2>2. CASE answer' = Error
      <3>1. pc' \in {"done", "open"} /\ answer'.kind = "error"
        <4>1. pc' \in {"done", "open"}
          BY <1>5 DEF Stat, Answer, Goto
        <4>2. QED
          BY <1>4, <2>2, <4>1
      <3>2. QED
        BY <1>3, <2>1, <2>2, <3>1
    <2>3. CASE answer' = Filtered(<<>>) /\ pc' = "done"
      <3>1. answer'.kind = "kept"
        BY <1>4, <2>3
      <3>2. answer'.kind \notin {"bucket", "notfound"}
        BY <3>1
      <3>3. QED
        BY <1>3, <2>1, <2>3, <3>2
    <2>4. QED
      BY <1>5, <2>1, <2>2, <2>3 DEF Stat, Answer, Goto
  <1>6. CASE Open
    <2>1. object' = object /\ answer' = Error /\ pc' \in {"done", "read"}
      BY <1>1, <1>6 DEF Open, WalkInv, Answer, Goto
    <2>2. QED
      BY <1>3, <1>4, <2>1
  <1>7. CASE Read
    <2>1. object' = object /\ pc' = "done"
      BY <1>7 DEF Read, Answer, Goto
    <2>2. answer' = Error \/ \E lines : answer' = Filtered(lines)
      BY <1>7 DEF Read, Answer
    <2>3. answer'.kind = "error" \/ answer'.kind = "kept"
      BY <1>4, <2>2
    <2>4. answer'.kind \notin {"bucket", "notfound"}
      BY <2>3
    <2>5. QED
      BY <1>3, <2>1, <2>4
  <1>8. CASE Fail
    <2>1. object' = object /\ pc' = "done" /\ answer' = Error
      BY <1>8 DEF Fail, Answer, Goto
    <2>2. QED
      BY <1>3, <1>4, <2>1
  <1>9. CASE EditMarks
    <2>1. /\ pc = "buckets" /\ pc' = pc /\ object' = object /\ at' = at /\ answer' = answer
          /\ steady' = steady \cap Marked(marks') /\ ever' = ever \cup Marked(marks')
      BY <1>9 DEF EditMarks
    <2>2. answer' = Error
      BY <1>1, <2>1 DEF WalkInv
    <2>3. NearestBucket'
      BY <1>4, <2>2 DEF NearestBucket
    <2>4. WalkInv'
      BY <1>1, <2>1, <2>2 DEF WalkInv, Marked
    <2>5. QED
      BY <2>3, <2>4 DEF NearInv
  <1>10. CASE EditFile
    <2>1. /\ pc \in {"open", "read"} /\ pc' = pc /\ object' = object /\ answer' = answer
      BY <1>10 DEF EditFile
    <2>2. answer' = Error
      BY <1>1, <2>1 DEF WalkInv
    <2>3. QED
      BY <1>3, <1>4, <2>1, <2>2
  <1>11. CASE UNCHANGED vars
    <2>1. WalkInv'
      BY <1>1, <1>11 DEF WalkInv, vars, Marked
    <2>2. NearestBucket'
      BY <1>1, <1>11 DEF NearestBucket, vars
    <2>3. QED
      BY <2>1, <2>2 DEF NearInv
  <1>12. QED
    BY <1>2, <1>5, <1>6, <1>7, <1>8, <1>9, <1>10, <1>11 DEF Next

LEMMA NearHolds == Spec => []NearInv
  <1>1. Init => NearInv
    <2> SUFFICES ASSUME Init PROVE NearInv
      OBVIOUS
    <2>1. answer = Error /\ object = <<>> /\ pc \in {"resolve", "stat"}
      BY DEF Init
    <2>2. object \in Seq(Names)
      BY <2>1, EmptySeq
    <2>3. WalkInv
      BY <2>1, <2>2 DEF WalkInv
    <2>4. QED
      BY <2>1, <2>3, NoAnswer DEF NearInv
  <1>2. NearInv /\ [Next]_vars => NearInv'
    BY NearStep
  <1>3. QED
    BY <1>1, <1>2, PTL DEF Spec

\* ResolveBucketForDataObjectPath answers with a bucket that was marked while it
\* looked, and with none only if no collection above was marked all along,
\* although it asks for one collection after the other while others mark them.
THEOREM BucketIsNearest == Spec => []NearestBucket
  <1>1. NearInv => NearestBucket
    BY DEF NearInv
  <1>2. QED
    BY <1>1, NearHolds, PTL

-----------------------------------------------------------------------------
(* What an ignore file hides.                                              *)

LEMMA LastOfMany ==
    ASSUME NEW n \in Nat, NEW H \in SUBSET (1 .. n), H # {}
    PROVE  Max(H) \in H /\ \A i \in H : i <= Max(H)
  <1> DEFINE Less == OpToRel(<, Nat)
             rest == {n - i : i \in H}
  <1>1. IsWellFoundedOn(Less, Nat)
    BY NatLessThanWellFounded
  <1>2. \A x, y \in Nat : x < y => <<x, y>> \in Less
    BY DEF OpToRel
  <1> HIDE DEF Less
  <1>3. rest \subseteq Nat /\ rest # {}
    <2>1. \A i \in H : n - i \in Nat
      OBVIOUS
    <2>2. PICK i \in H : TRUE
      OBVIOUS
    <2>3. n - i \in rest
      OBVIOUS
    <2>4. QED
      BY <2>1, <2>3
  <1>4. PICK x \in rest : \A y \in rest : ~(<<y, x>> \in Less)
    <2> HIDE DEF rest
    <2> QED
      BY <1>1, <1>3, WFMin, Zenon
  <1>5. PICK m \in H : x = n - m
    BY <1>4
  <1>6. ASSUME NEW i \in H
        PROVE  m >= i
    <2>1. n - i \in rest /\ n - i \in Nat /\ x \in Nat
      BY <1>3, <1>4
    <2>2. ~(n - i < x)
      BY <1>2, <1>4, <2>1
    <2>3. m \in Int /\ i \in Int
      OBVIOUS
    <2>4. QED
      BY <1>5, <2>2, <2>3
  <1> HIDE DEF rest
  <1>7. Max(H) \in H /\ \A i \in H : Max(H) >= i
    BY <1>5, <1>6, Zenon DEF Max
  <1>8. QED
    BY <1>7

\* What lies beneath the path of the first m names is matched by a rule that
\* matches the path, if the rule hides what lies beneath.
LEMMA Beneath ==
    ASSUME NEW rule, NEW q \in Seq(Names), NEW m \in 1 .. Len(q) - 1, NEW isDir \in BOOLEAN,
           rule.directoryOnly \/ (~rule.leadingSlash /\ Len(rule.segments) = 1),
           Matches(rule, Up(q, m), TRUE)
    PROVE  Matches(rule, q, isDir)
  <1>1. Len(q) \in Nat /\ m \in 0 .. Len(q)
    BY LenProperties
  <1>2. /\ Up(q, m) \in Seq(Names) /\ Len(Up(q, m)) = m
        /\ \A i \in 1 .. m : Up(q, m)[i] = q[i]
    BY <1>1, UpFacts
  <1>3. q # <<>>
    BY <1>1
  <1>4. CASE rule.directoryOnly
    <2>1. PICK k \in 1 .. m : MatchesPath(rule, SubSeq(Up(q, m), 1, k))
      BY <1>2, <1>4 DEF Matches
    <2>2. SubSeq(Up(q, m), 1, k) = SubSeq(q, 1, k)
      <3>1. k \in 0 .. m
        OBVIOUS
      <3>2. Up(Up(q, m), k) = Up(q, k)
        BY <1>1, <3>1, UpOfUp
      <3>3. QED
        BY <3>2 DEF Up
    <2>3. k \in 1 .. Len(q) - 1 /\ k \in 1 .. Len(q)
      BY <1>1
    <2>4. MatchesPath(rule, SubSeq(q, 1, k))
      BY <2>1, <2>2
    <2>5. QED
      BY <1>3, <1>4, <2>3, <2>4 DEF Matches
  <1>5. CASE ~rule.directoryOnly
    <2>1. ~rule.leadingSlash /\ ~(Len(rule.segments) > 1)
      <3>1. ~rule.leadingSlash /\ Len(rule.segments) = 1
        BY <1>5, Zenon
      <3>2. ~(1 > 1)
        OBVIOUS
      <3>3. QED
        BY <3>1, <3>2, Zenon
    <2>2. PICK i \in DOMAIN Up(q, m) : MatchSegment(rule.segments[1], Up(q, m)[i])
      BY <1>5, <2>1 DEF Matches, MatchesPath
    <2>3. i \in 1 .. m
      BY <1>2, <2>2, LenProperties
    <2>4. i \in DOMAIN q /\ Up(q, m)[i] = q[i]
      BY <1>1, <1>2, <2>3, LenProperties
    <2>5. MatchesPath(rule, q)
      BY <2>1, <2>2, <2>4 DEF MatchesPath
    <2>6. QED
      BY <1>3, <1>5, <2>5 DEF Matches
  <1>6. QED
    BY <1>4, <1>5

LEMMA TwoOfThem ==
    ASSUME NEW S, IsFiniteSet(S), NEW a \in S, NEW b \in S, a # b
    PROVE  Cardinality(S) > 1
  <1>1. IsFiniteSet({a}) /\ Cardinality({a}) = 1
    BY FS_Singleton
  <1>2. Cardinality({a} \cup {b}) = 2
    BY <1>1, FS_AddElement
  <1>3. {a} \cup {b} \in SUBSET S
    OBVIOUS
  <1>4. Cardinality({a} \cup {b}) <= Cardinality(S) /\ Cardinality(S) \in Nat
    BY <1>3, FS_Subset, FS_CardinalityType
  <1>5. QED
    BY <1>2, <1>4

-----------------------------------------------------------------------------
(* The rules that decide about a path.                                     *)

Hits(rules, path, isDir) ==
    {i \in DOMAIN rules :
        /\ Matches(rules[i], path, isDir)
        /\ rules[i].negate => ~ParentIgnoredBefore(rules, path, i)}

LEMMA LastRuleHides ==
    ASSUME NEW rules, NEW n \in Nat \ {0}, DOMAIN rules = 1 .. n, NEW path, NEW isDir,
           ~rules[n].negate, Matches(rules[n], path, isDir)
    PROVE  IsIgnored(rules, path, isDir)
  <1> DEFINE H == Hits(rules, path, isDir)
  <1>1. n \in H /\ H \in SUBSET (1 .. n)
    BY DEF Hits
  <1>2. IsIgnored(rules, path, isDir) = Decides(rules, H)
    BY DEF IsIgnored, Hits
  <1> HIDE DEF H
  <1>3. Max(H) \in 1 .. n /\ n <= Max(H)
    BY <1>1, LastOfMany
  <1>4. Max(H) = n
    BY <1>3
  <1>5. QED
    BY <1>1, <1>2, <1>4 DEF Decides

LEMMA HidesBeneath ==
    ASSUME NEW rules, NEW n \in Nat, DOMAIN rules = 1 .. n, Hiding(rules), Negations(rules) <= 1,
           NEW q \in Seq(Names), NEW m \in 1 .. Len(q) - 1, NEW isDir \in BOOLEAN,
           IsIgnored(rules, Up(q, m), TRUE)
    PROVE  IsIgnored(rules, q, isDir)
  <1> DEFINE H == Hits(rules, Up(q, m), TRUE)
             K == Hits(rules, q, isDir)
             M == Max(H)
             N == Max(K)
  <1>1. Decides(rules, H) /\ (IsIgnored(rules, q, isDir) = Decides(rules, K))
    BY DEF IsIgnored, Hits
  <1>2. H \in SUBSET (1 .. n) /\ K \in SUBSET (1 .. n)
    BY DEF Hits
  <1>3. M \in H /\ ~rules[M].negate
    <2> HIDE DEF H
    <2>1. H # {} /\ ~rules[Max(H)].negate
      BY <1>1 DEF Decides
    <2>2. QED
      BY <1>2, <2>1, LastOfMany
  <1> HIDE DEF M
  <1>4. M \in 1 .. n /\ Matches(rules[M], Up(q, m), TRUE)
    BY <1>3 DEF Hits
  <1>5. M \in K
    <2>1. rules[M].directoryOnly \/ (~rules[M].leadingSlash /\ Len(rules[M].segments) = 1)
      BY <1>3, <1>4 DEF Hiding
    <2>2. Matches(rules[M], q, isDir)
      BY <1>4, <2>1, Beneath
    <2>3. QED
      BY <1>3, <1>4, <2>2 DEF Hits
  <1> HIDE DEF H
  <1>6. N \in K /\ M <= N
    <2> HIDE DEF K
    <2>1. QED
      BY <1>2, <1>5, LastOfMany
  <1> HIDE DEF N
  <1>7. ASSUME rules[N].negate
        PROVE  FALSE
    <2>1. N \in 1 .. n /\ M \in 1 .. n /\ M # N
      BY <1>2, <1>3, <1>4, <1>6, <1>7
    <2>2. M \in 1 .. N - 1
      BY <1>6, <2>1
    <2>3. ~ParentIgnoredBefore(rules, q, N)
      BY <1>6, <1>7 DEF Hits
    <2> DEFINE G == {i \in 1 .. N - 1 : Matches(rules[i], Up(q, m), TRUE)}
    <2>4. ~Decides(rules, G)
      BY <2>3 DEF ParentIgnoredBefore, Up
    <2>5. M \in G /\ G \in SUBSET (1 .. N - 1)
      BY <1>4, <2>2
    <2> HIDE DEF G
    <2>6. Max(G) \in 1 .. N - 1 /\ rules[Max(G)].negate
      <3>1. N - 1 \in Nat
        BY <2>1
      <3>2. Max(G) \in G
        BY <2>5, <3>1, LastOfMany
      <3>3. QED
        BY <2>4, <2>5, <3>2 DEF Decides
    <2> DEFINE S == {i \in DOMAIN rules : rules[i].negate}
    <2>7. N \in S /\ Max(G) \in S /\ Max(G) # N /\ S \in SUBSET (1 .. n)
      BY <1>7, <2>1, <2>6
    <2>8. Cardinality(S) <= 1
      BY DEF Negations
    <2> HIDE DEF S
    <2>9. IsFiniteSet(S)
      <3>1. IsFiniteSet(1 .. n)
        BY FS_Interval
      <3>2. QED
        BY <2>7, <3>1, FS_Subset
    <2>10. Cardinality(S) > 1
      BY <2>7, <2>9, TwoOfThem
    <2>11. Cardinality(S) \in Nat
      BY <2>9, FS_CardinalityType
    <2>12. QED
      BY <2>8, <2>10, <2>11
  <1>8. QED
    BY <1>1, <1>6, <1>7 DEF Decides, N

-----------------------------------------------------------------------------
(* The rules of a file, and what is left of a listing.                     *)

LEMMA EntriesFacts ==
    ASSUME NEW lines \in Seq(Rule \cup {Comment})
    PROVE  /\ Len(Entries(lines)) \in Nat
           /\ DOMAIN Entries(lines) = 1 .. Len(Entries(lines))
           /\ Entries(lines) # <<>> => Len(Entries(lines)) # 0
  <1> DEFINE S == {i \in DOMAIN lines : lines[i] # Comment}
             n == Cardinality(S)
             rules == Entries(lines)
             R == {lines[Nth(S, k)] : k \in 1 .. n}
  <1>1. n \in Nat
    <2>1. Len(lines) \in Nat /\ DOMAIN lines = 1 .. Len(lines)
      BY LenProperties
    <2>2. IsFiniteSet(1 .. Len(lines))
      BY <2>1, FS_Interval
    <2>3. S \in SUBSET (1 .. Len(lines))
      BY <2>1
    <2> HIDE DEF S
    <2>4. IsFiniteSet(S)
      BY <2>2, <2>3, FS_Subset
    <2>5. QED
      BY <2>4, FS_CardinalityType
  <1>2. rules = [k \in 1 .. n |-> lines[Nth(S, k)]]
    BY DEF Entries, Pick
  <1> HIDE DEF n, S, rules
  <1>3. rules \in [1 .. n -> R]
    BY <1>2
  <1> HIDE DEF R
  <1>4. rules \in Seq(R)
    BY <1>1, <1>3, SeqDef
  <1>5. Len(rules) \in Nat /\ DOMAIN rules = 1 .. Len(rules)
    BY <1>4, LenProperties
  <1>6. rules # <<>> => Len(rules) # 0
    BY <1>4, EmptySeq
  <1>7. QED
    BY <1>5, <1>6 DEF rules

\* A path below the base path without the names of the base path.
Below(p) == SubSeq(p, Len(Base) + 1, Len(p))

\* Names that lie beneath a directory other than the base path.
LEMMA BelowDirectory ==
    ASSUME NEW d \in Seq(Names), NEW e \in Seq(Names), d # Base, e # d, IsPrefix(Base, d), IsPrefix(d, e)
    PROVE  /\ IsPrefix(Base, e)
           /\ Relative(e) = Below(e) /\ Relative(e) \in Seq(Names)
           /\ \E m \in 1 .. Len(Relative(e)) - 1 : Relative(d) = Up(Relative(e), m)
  <1> DEFINE b == Len(Base)
             x == Len(d)
             y == Len(e)
  <1>1. b \in Nat /\ x \in Nat /\ y \in Nat /\ Base \in Seq(Names)
    BY PathLookupsAssumption, LenProperties
  <1>2. b <= x /\ x <= y /\ Up(Base, b) = Up(d, b) /\ Up(d, x) = Up(e, x)
    BY DEF IsPrefix, Up
  <1>3. Up(Base, b) = Base /\ Up(d, x) = d /\ Up(e, y) = e
    BY <1>1, UpAll
  <1>4. b # x /\ x # y
    BY <1>2, <1>3
  <1>5. b < x /\ x < y
    BY <1>1, <1>2, <1>4
  <1>6. IsPrefix(Base, e) /\ e # Base
    <2>1. b \in 0 .. x /\ x \in 0 .. y
      BY <1>1, <1>2
    <2>2. Up(Up(e, x), b) = Up(e, b)
      BY <2>1, UpOfUp
    <2>3. Up(Base, b) = Up(e, b)
      BY <1>2, <1>3, <2>2
    <2>4. b <= y /\ b # y
      BY <1>1, <1>5
    <2>5. e # Base
      BY <2>4
    <2>6. QED
      BY <2>3, <2>4, <2>5 DEF IsPrefix, Up
  <1>7. Relative(e) = Below(e) /\ Relative(d) = Below(d)
    BY <1>6 DEF Relative, Below
  <1> DEFINE q == Below(e)
             p == Below(d)
             m == x - b
  <1>8. /\ q \in Seq(Names) /\ Len(q) = y - b
        /\ \A i \in 1 .. y - b : q[i] = e[b + i]
    <2>1. b + 1 \in Int /\ y \in Int /\ (\A i \in b + 1 .. y : i \in 1 .. y)
      BY <1>1
    <2>2. \A i \in b + 1 .. y : e[i] \in Names
      BY <2>1, ElementOfSeq
    <2>3. /\ Below(e) \in Seq(Names)
          /\ Len(Below(e)) = IF b + 1 <= y THEN y - (b + 1) + 1 ELSE 0
          /\ \A i \in 1 .. y - (b + 1) + 1 : Below(e)[i] = e[(b + 1) + i - 1]
      BY <2>1, <2>2, SubSeqProperties DEF Below
    <2>4. y - (b + 1) + 1 = y - b /\ b + 1 <= y /\ \A i \in 1 .. y - b : (b + 1) + i - 1 = b + i
      BY <1>1, <1>5
    <2>5. QED
      BY <2>3, <2>4
  <1>9. /\ p \in Seq(Names) /\ Len(p) = m
        /\ \A i \in 1 .. m : p[i] = d[b + i]
    <2>1. b + 1 \in Int /\ x \in Int /\ (\A i \in b + 1 .. x : i \in 1 .. x)
      BY <1>1
    <2>2. \A i \in b + 1 .. x : d[i] \in Names
      BY <2>1, ElementOfSeq
    <2>3. /\ Below(d) \in Seq(Names)
          /\ Len(Below(d)) = IF b + 1 <= x THEN x - (b + 1) + 1 ELSE 0
          /\ \A i \in 1 .. x - (b + 1) + 1 : Below(d)[i] = d[(b + 1) + i - 1]
      BY <2>1, <2>2, SubSeqProperties DEF Below
    <2>4. x - (b + 1) + 1 = m /\ b + 1 <= x /\ \A i \in 1 .. m : (b + 1) + i - 1 = b + i
      BY <1>1, <1>5
    <2>5. QED
      BY <2>3, <2>4
  <1>10. m \in 1 .. (y - b) - 1 /\ m \in 0 .. y - b
    BY <1>1, <1>5
  <1> HIDE DEF p, q
  <1>11. p = Up(q, m)
    <2>1. /\ Up(q, m) \in Seq(Names) /\ Len(Up(q, m)) = m
          /\ \A i \in 1 .. m : Up(q, m)[i] = q[i]
      BY <1>8, <1>10, UpFacts
    <2>2. \A i \in 1 .. x : d[i] = e[i]
      <3>1. x \in 0 .. y
        BY <1>1, <1>5
      <3>2. \A i \in 1 .. x : Up(e, x)[i] = e[i]
        BY <3>1, UpFacts
      <3>3. QED
        BY <1>2, <1>3, <3>2
    <2>3. \A i \in 1 .. m : i \in 1 .. y - b /\ b + i \in 1 .. x
      BY <1>1, <1>5
    <2>4. \A i \in 1 .. m : p[i] = q[i]
      BY <1>8, <1>9, <2>2, <2>3
    <2>5. QED
      BY <1>9, <2>1, <2>4, SeqEqual
  <1>12. QED
    BY <1>6, <1>7, <1>8, <1>10, <1>11 DEF p, q

-----------------------------------------------------------------------------
(* What was loaded is what the file held.                                  *)

FileInv ==
    /\ file \in {None} \cup Seq(Rule \cup {Comment})
    /\ pc # "done" => answer = Error
    /\ pc \in {"open", "read"} /\ ~changed /\ file # None => size = Len(file)
    /\ answer.kind = "kept" /\ ~changed /\ file # None => answer = Filtered(file)

LEMMA FileStep ==
    ASSUME FileInv, [Next]_vars
    PROVE  FileInv'
  <1>1. Error.kind = "error" /\ \A lines : Filtered(lines).kind = "kept"
    BY DEF Error, Filtered
  <1>2. ASSUME file' = file, pc' \notin {"open", "read"}, answer'.kind # "kept",
               pc' # "done" => answer' = Error
        PROVE  FileInv'
    BY <1>2 DEF FileInv
  <1>3. ASSUME answer' = Error
        PROVE  answer'.kind # "kept"
    <2>1. answer'.kind = "error"
      BY <1>1, <1>3
    <2>2. QED
      BY <2>1
  <1>4. CASE Resolve
    <2>1. file' = file /\ answer = Error /\ pc' \in {"buckets", "done"} /\ answer' = Error
      BY <1>4 DEF Resolve, FileInv, Answer, Goto
    <2>2. QED
      BY <1>2, <1>3, <2>1
  <1>5. CASE BucketsForPath
    <2>1. file' = file /\ answer = Error /\ pc = "buckets"
      BY <1>5 DEF BucketsForPath, world, FileInv
    <2>2. CASE pc' = pc /\ answer' = answer
      BY <1>2, <1>3, <2>1, <2>2
    <2>3. CASE Answer(Resolved(at)) \/ Answer([kind |-> "notfound"])
      <3>1. pc' = "done"
        BY <2>3 DEF Answer, Goto
      <3>2. answer'.kind = "bucket" \/ answer'.kind = "notfound"
        BY <2>3 DEF Answer, Resolved
      <3>3. answer'.kind # "kept"
        BY <3>2
      <3>4. QED
        BY <1>2, <2>1, <3>1, <3>3
    <2>4. QED
      BY <1>5, <2>2, <2>3 DEF BucketsForPath
  <1>6. CASE Stat
    <2>1. file' = file /\ changed' = FALSE /\ answer = Error
      BY <1>6 DEF Stat, FileInv
    <2>2. CASE file = None
      <3>1. pc' = "done" /\ answer' = Error
        BY <1>6, <2>2 DEF Stat, Answer, Goto
      <3>2. QED
        BY <1>2, <1>3, <2>1, <3>1
    <2>3. CASE file # None /\ file = <<>>
      <3>1. pc' = "done" /\ answer' = Filtered(<<>>)
        BY <1>6, <2>3 DEF Stat, Answer, Goto
      <3>2. answer' = Filtered(file)'
        BY <2>1, <2>3, <3>1
      <3>3. QED
        BY <2>1, <3>1, <3>2 DEF FileInv
    <2>4. CASE file # None /\ file # <<>>
      <3>1. pc' = "open" /\ answer' = answer /\ size' = Len(file)
        BY <1>6, <2>4 DEF Stat, Goto
      <3>2. answer' = Error /\ answer'.kind # "kept"
        BY <1>3, <2>1, <3>1
      <3>3. QED
        BY <2>1, <3>1, <3>2 DEF FileInv
    <2>5. QED
      BY <2>2, <2>3, <2>4
  <1>7. CASE Open
    <2>1. file' = file /\ changed' = changed /\ size' = size /\ pc = "open" /\ answer = Error
      BY <1>7 DEF Open, world, FileInv
    <2>2. answer' = Error /\ pc' \in {"done", "read"}
      BY <1>7, <2>1 DEF Open, Answer, Goto
    <2>3. answer'.kind # "kept"
      BY <1>3, <2>2
    <2>4. QED
      BY <2>1, <2>2, <2>3 DEF FileInv
  <1>8. CASE Read
    <2>1. file' = file /\ changed' = changed /\ size' = size /\ pc = "read" /\ pc' = "done"
      BY <1>8 DEF Read, world, Answer, Goto
    <2>2. ASSUME answer'.kind = "kept", ~changed, file # None
          PROVE  answer' = Filtered(file)
      <3>1. size = Len(file) /\ file \in Seq(Rule \cup {Comment})
        BY <2>1, <2>2 DEF FileInv
      <3>2. answer' = Filtered(SubSeq(file, 1, IF size < Len(file) THEN size ELSE Len(file)))
        BY <1>8, <2>2 DEF Read, Answer
      <3>3. (IF size < Len(file) THEN size ELSE Len(file)) = Len(file)
        BY <3>1
      <3>4. SubSeq(file, 1, Len(file)) = file
        BY <3>1, SubSeqFull
      <3>5. QED
        BY <3>2, <3>3, <3>4
    <2>3. Filtered(file)' = Filtered(file)
      BY <2>1
    <2>4. QED
      BY <2>1, <2>2, <2>3 DEF FileInv
  <1>9. CASE Fail
    <2>1. file' = file /\ pc' = "done" /\ answer' = Error
      BY <1>9 DEF Fail, world, Answer, Goto
    <2>2. QED
      BY <1>2, <1>3, <2>1
  <1>10. CASE EditMarks
    <2>1. file' = file /\ pc = "buckets" /\ pc' = pc /\ answer' = answer /\ answer = Error
      BY <1>10 DEF EditMarks, FileInv
    <2>2. QED
      BY <1>2, <1>3, <2>1
  <1>11. CASE EditFile
    <2>1. /\ pc \in {"open", "read"} /\ pc' = pc /\ answer' = answer /\ answer = Error
          /\ file' \in Edited /\ changed' = TRUE
      BY <1>11 DEF EditFile, FileInv
    <2>2. file' \in {None} \cup Seq(Rule \cup {Comment})
      BY <2>1, PathLookupsAssumption
    <2>3. QED
      BY <2>1, <2>2 DEF FileInv
  <1>12. CASE UNCHANGED vars
    <2>1. Filtered(file)' = Filtered(file)
      BY <1>12 DEF vars
    <2>2. QED
      BY <1>12, <2>1 DEF FileInv, vars
  <1>13. QED
    BY <1>4, <1>5, <1>6, <1>7, <1>8, <1>9, <1>10, <1>11, <1>12 DEF Next

LEMMA FileHolds == Spec => []FileInv
  <1>1. Init => FileInv
    <2> SUFFICES ASSUME Init PROVE FileInv
      OBVIOUS
    <2>1. answer = Error /\ pc \in {"resolve", "stat"} /\ file \in {None} \cup Files
      BY DEF Init
    <2>2. answer.kind = "error"
      BY <2>1 DEF Error
    <2>3. file \in {None} \cup Seq(Rule \cup {Comment})
      BY <2>1, PathLookupsAssumption
    <2>4. QED
      BY <2>1, <2>2, <2>3 DEF FileInv
  <1>2. FileInv /\ [Next]_vars => FileInv'
    BY FileStep
  <1>3. QED
    BY <1>1, <1>2, PTL DEF Spec

LEMMA FileHides == FileInv => HiddenStaysHidden
  <1> SUFFICES ASSUME FileInv, answer.kind = "kept", ~changed, file # None
               PROVE  HiddenStaysHidden
    BY DEF HiddenStaysHidden
  <1> DEFINE rules   == Entries(file)
             dropped == {e \in Listing : IsPrefix(Base, e.path)} \ answer.entries
             n       == Len(rules)
  <1>1. answer = Filtered(file) /\ file \in Seq(Rule \cup {Comment})
    BY DEF FileInv
  <1>2. answer.entries = FilterEntries(rules)
    BY <1>1 DEF Filtered
  <1>3. n \in Nat /\ DOMAIN rules = 1 .. n /\ (rules # <<>> => n # 0)
    BY <1>1, EntriesFacts
  <1> HIDE DEF rules
  <1>4. \A e \in Listing :
           e \in dropped <=> IsPrefix(Base, e.path) /\ IsIgnored(rules, Relative(e.path), e.isDir)
    BY <1>2 DEF FilterEntries
  <1> HIDE DEF dropped
  <1>5. ASSUME NEW e \in Listing, rules # <<>>, IsPrefix(Base, e.path), ~Last(rules).negate,
               Matches(Last(rules), Relative(e.path), e.isDir)
        PROVE  e \in dropped
    <2>1. n \in Nat \ {0} /\ Last(rules) = rules[n]
      BY <1>3, <1>5 DEF Last
    <2>2. IsIgnored(rules, Relative(e.path), e.isDir)
      BY <1>3, <1>5, <2>1, LastRuleHides
    <2>3. QED
      BY <1>4, <1>5, <2>2
  <1>6. ASSUME Hiding(rules), Negations(rules) <= 1,
               NEW d \in dropped, d.isDir, d.path # Base,
               NEW e \in Listing, IsPrefix(d.path, e.path), e.path # d.path
        PROVE  e \in dropped
    <2>1. d \in Listing
      BY DEF dropped
    <2>2. /\ d.path \in Seq(Names) /\ e.path \in Seq(Names)
          /\ d.isDir = TRUE /\ e.isDir \in BOOLEAN
      BY <1>6, <2>1, PathLookupsAssumption
    <2>3. IsPrefix(Base, d.path) /\ IsIgnored(rules, Relative(d.path), TRUE)
      BY <1>4, <2>1, <2>2
    <2>4. /\ IsPrefix(Base, e.path) /\ Relative(e.path) \in Seq(Names)
          /\ \E m \in 1 .. Len(Relative(e.path)) - 1 : Relative(d.path) = Up(Relative(e.path), m)
      BY <1>6, <2>2, <2>3, BelowDirectory
    <2>5. PICK m \in 1 .. Len(Relative(e.path)) - 1 : Relative(d.path) = Up(Relative(e.path), m)
      BY <2>4
    <2>6. IsIgnored(rules, Up(Relative(e.path), m), TRUE)
      BY <2>3, <2>5
    <2>7. IsIgnored(rules, Relative(e.path), e.isDir)
      BY <1>3, <1>6, <2>2, <2>4, <2>6, HidesBeneath
    <2>8. QED
      BY <1>4, <2>4, <2>7
  <1>7. QED
    BY <1>5, <1>6 DEF HiddenStaysHidden, rules, dropped

\* A file that did not change while ReadIgnoreFileFromIRODS loaded it hides what
\* its last rule ignores, and no negation brings back what lies beneath a
\* directory that stays hidden, if the rules also cover what lies beneath and
\* there is but one negation: for every listing and every file.
THEOREM IgnoredStaysIgnored == Spec => []HiddenStaysHidden
  BY FileHolds, FileHides, PTL
=============================================================================
