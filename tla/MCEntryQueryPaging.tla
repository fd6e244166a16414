------------------------- MODULE MCEntryQueryPaging -------------------------
(* An instance of EntryQueryPaging: entries, their rows, queries, cursors. *)
EXTENDS EntryQueryPaging

CONSTANTS c1, c2, c3,  \* collections
          o1, o2, o3,  \* data objects
          m, n         \* AVUs

MCEntries == [b \in Branch |-> IF b = "collections" THEN {c1, c2, c3} ELSE {o1, o2, o3}]

R(e, created, avu) == [entry |-> e, created |-> created, avu |-> avu]

\* Two matched AVUs, or two replicas, or both.
MCRowsOf == [e \in Entry |->
    CASE e = c1 -> <<R(c1, 0, m), R(c1, 0, n)>>
      [] e = o2 -> <<R(o2, 1, m), R(o2, 1, n), R(o2, 0, m)>>
      [] OTHER  -> <<R(e, 0, m)>>]

All(es) == FlattenSeq([i \in DOMAIN es |-> MCRowsOf[es[i]]])

\* Rows in which each entry is together, or another comes between.
Together == [collections |-> All(<<c2, c1>>), data_objects |-> All(<<o1, o2>>)]
Between  == [collections  |-> <<R(c1, 0, m), R(c2, 0, m), R(c1, 0, n)>>,
             data_objects |-> <<R(o2, 1, m), R(o1, 0, m), R(o2, 1, n), R(o2, 0, m)>>]
MCResults == {Together, Between, [b \in Branch |-> <<>>]}
             \cup {[Together EXCEPT ![b] = <<>>] : b \in Branch}

Ask(kinds, limit) == [kinds |-> kinds, self |-> FALSE, objectsOnly |-> FALSE, supported |-> TRUE,
                      absolute |-> TRUE, limit |-> limit, totals |-> limit = 0]
MCQueries ==
    {Ask({}, limit) : limit \in {0, 3, MaxInt - 1, MaxInt}}
    \cup {Ask({b}, 1) : b \in Branch}
    \cup {[Ask({}, 2) EXCEPT !.self = TRUE], [Ask({}, 2) EXCEPT !.objectsOnly = TRUE]}
    \cup {[Ask({"collections"}, 2) EXCEPT !.objectsOnly = TRUE], [Ask({}, 2) EXCEPT !.supported = FALSE]}
    \cup {[Ask({}, 1) EXCEPT !.absolute = FALSE, !.totals = TRUE], [Ask({}, 2) EXCEPT !.absolute = FALSE]}

From(phase, c, d, exhausted) ==
    [phase |-> phase, offset |-> [b \in Branch |-> IF b = "collections" THEN c ELSE d],
     exhausted |-> [b \in Branch |-> b = "collections" /\ exhausted]]
MCCursors == {From("", 0, 0, FALSE), From("", 0, 0, TRUE), From("collections", 1, 0, FALSE),
              From("data_objects", 0, 1, TRUE), From("done", 0, 0, FALSE), From("", -1, 0, FALSE)}
=============================================================================
