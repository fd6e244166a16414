---------------------------- MODULE MCPathLookups ----------------------------
(* An instance of PathLookups: paths, a listing, and lists of rules.       *)
EXTENDS PathLookups

CONSTANTS z, a, b   \* names

MCObject  == {<<>>, <<a>>, <<z, a, b>>}
MCBase    == <<z>>
MCListing == [path : {<<z>> \o s : s \in UNION {[1 .. n -> {a, b}] : n \in 1 .. 3}}, isDir : {TRUE}]
             \cup [path : {<<z, a, b>>, <<z, a, b, a>>, <<a>>}, isDir : {FALSE}]
             \cup [path : {<<z>>}, isDir : {TRUE}]

R(negate, directoryOnly, leadingSlash, segments) ==
    [negate |-> negate, directoryOnly |-> directoryOnly, leadingSlash |-> leadingSlash, segments |-> segments]
Ignoring == {R(FALSE, TRUE, FALSE, <<a>>), R(FALSE, TRUE, FALSE, <<a, b>>), R(FALSE, FALSE, FALSE, <<b>>),
             R(FALSE, FALSE, TRUE, <<a, Star>>), R(FALSE, FALSE, FALSE, <<DoubleStar, b>>)}
Negated  == {R(TRUE, FALSE, FALSE, <<b>>), R(TRUE, TRUE, FALSE, <<a>>), R(TRUE, FALSE, TRUE, <<a, b>>),
             R(TRUE, FALSE, FALSE, <<a, DoubleStar>>)}
MCFiles  == {None, <<>>} \cup {<<Comment, r>> : r \in Ignoring}
            \cup UNION {[1 .. n -> Ignoring \cup Negated] : n \in 1 .. 4}
MCEdited == {None, <<R(FALSE, TRUE, FALSE, <<b>>)>>, <<Comment, R(FALSE, TRUE, FALSE, <<b>>), R(TRUE, FALSE, FALSE, <<a>>)>>}
=============================================================================
