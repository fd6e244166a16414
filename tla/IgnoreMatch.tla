----------------------------- MODULE IgnoreMatch -----------------------------
(***************************************************************************)
(* Matching of paths against the rules of an ignore file (src/ignore).  A  *)
(* path is a sequence of names below the base path, a rule a sequence of   *)
(* patterns.                                                               *)
(***************************************************************************)
EXTENDS FiniteSetsExt, Positions, Sequences, SequencesExt

CONSTANTS
    Names,       \* names of collections and data objects
    Star,        \* the pattern "*"
    DoubleStar,  \* the pattern "**"
    Comment      \* a blank line or a comment

Rule == [negate : BOOLEAN, directoryOnly : BOOLEAN, leadingSlash : BOOLEAN,
         segments : Seq(Names \cup {Star, DoubleStar})]

Entries(lines) == Pick(lines, {i \in DOMAIN lines : lines[i] # Comment})

MatchSegment(pattern, name) == pattern = name \/ pattern \in {Star, DoubleStar}

\* fits[i, k]: the patterns from the i-th on match the names from the k-th on.
MatchSegments(patterns, path) ==
    LET fits[i \in 1 .. Len(patterns) + 1, k \in 1 .. Len(path) + 1] ==
            IF i > Len(patterns) THEN k > Len(path)
            ELSE IF patterns[i] = DoubleStar
                 THEN i = Len(patterns) \/ \E l \in k .. Len(path) + 1 : fits[i + 1, l]
                 ELSE k <= Len(path) /\ MatchSegment(patterns[i], path[k]) /\ fits[i + 1, k + 1]
    IN fits[1, 1]

\* A pattern without a slash matches any name of the path.
MatchesPath(rule, path) ==
    IF rule.leadingSlash \/ Len(rule.segments) > 1 THEN MatchSegments(rule.segments, path)
    ELSE \E i \in DOMAIN path : MatchSegment(rule.segments[1], path[i])

\* A rule for directories matches what lies beneath them too.
Matches(rule, path, isDir) ==
    /\ path # <<>>
    /\ IF rule.directoryOnly
       THEN \E k \in 1 .. (IF isDir THEN Len(path) ELSE Len(path) - 1) : MatchesPath(rule, SubSeq(path, 1, k))
       ELSE MatchesPath(rule, path)

\* The last of the rules numbered hits decides.
Decides(rules, hits) == hits # {} /\ ~rules[Max(hits)].negate

ParentIgnoredBefore(rules, path, index) ==
    \E k \in 1 .. Len(path) - 1 :
        Decides(rules, {i \in 1 .. index - 1 : Matches(rules[i], SubSeq(path, 1, k), TRUE)})

\* A negated rule does not count where a parent is ignored by the rules before.
LastRuleOnly(rules, path, isDir) ==                                  \* mutant
    Decides(rules, {i \in DOMAIN rules : Matches(rules[i], path, isDir)})
IsIgnored(rules, path, isDir) ==
    Decides(rules, {i \in DOMAIN rules :
        /\ Matches(rules[i], path, isDir)
        /\ rules[i].negate => ~ParentIgnoredBefore(rules, path, i)})
=============================================================================
