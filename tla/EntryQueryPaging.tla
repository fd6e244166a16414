-------------------------- MODULE EntryQueryPaging --------------------------
(***************************************************************************)
(* Reading the result of a metadata entry query page by page               *)
(* (src/metadata/irodsfs/query.go).  A result has a branch of collections  *)
(* and one of data objects, each the rows of a GenQuery: an entry has a    *)
(* row for each of its replicas and matched AVUs.  A cursor counts the     *)
(* entries of each branch that were returned, and each page skips them.    *)
(*                                                                         *)
(* A scan of a branch is one action: its batches come from one open        *)
(* statement of a locked connection.  Between the scans of a page, and     *)
(* between pages, others may add entries and remove them, and the server   *)
(* may come to return the same rows in another order: the requests ask     *)
(* for none.                                                               *)
(***************************************************************************)
EXTENDS FiniteSetsExt, Positions, Sequences, SequencesExt

CONSTANTS
    Entries,       \* Entries[b]: the entries that branch b may come to hold
    RowsOf,        \* RowsOf[e]: the rows of entry e
    AVUs,          \* matched AVUs
    None,          \* no AVU: the query does not ask for them
    Results,       \* what the two GenQueries may return at first
    Queries,       \* what the reader may ask
    Cursors,       \* where the reader may start from
    Batch,         \* MaxQueryRows: rows in one answer of the server
    DefaultLimit,  \* DefaultEntryQueryLimit
    MaxInt,        \* the largest int; sums beyond it wrap
    MaxEdits,      \* bound on entries added and removed, and on rows reordered
    MaxFaults      \* bound on failed scans

Branch == {"collections", "data_objects"}
Entry  == UNION {Entries[b] : b \in Branch}
Row    == [entry : Entry, created : Nat, avu : AVUs \cup {None}]
Phases == Branch \cup {"", "done"}
Cursor == [phase : Phases, offset : [Branch -> Int], exhausted : [Branch -> BOOLEAN]]
Query  == [kinds : SUBSET Branch, self : BOOLEAN, objectsOnly : BOOLEAN, supported : BOOLEAN,
           absolute : BOOLEAN, limit : Int, totals : BOOLEAN]

ASSUME EntryQueryPagingAssumption ==
    /\ Entries["collections"] \cap Entries["data_objects"] = {}
    /\ Cursors \subseteq Cursor /\ Queries \subseteq Query
    /\ Results \subseteq [Branch -> Seq(Row)]
    /\ \A result \in Results : \A b \in Branch :
          \A i \in DOMAIN result[b] : result[b][i].entry \in Entries[b]
    /\ \A e \in Entry : /\ RowsOf[e] \in Seq(Row) /\ RowsOf[e] # <<>>
                       /\ \A i \in DOMAIN RowsOf[e] : RowsOf[e][i].entry = e
    /\ Batch \in Nat \ {0} /\ DefaultLimit \in Nat \ {0}
    /\ MaxInt \in Nat /\ MaxEdits \in Nat /\ MaxFaults \in Nat

\* An int has room to count the entries of a catalog three times over.
ASSUME CatalogAssumption ==
    /\ \A b \in Branch : IsFiniteSet(Entries[b])
    /\ Cardinality(Entries["collections"]) + 2 * Cardinality(Entries["data_objects"]) <= MaxInt

-----------------------------------------------------------------------------
(* A scan of one branch.                                                   *)

\* The rows at which a scan meets an entry for the first time.
Firsts(rs) == {i \in DOMAIN rs : \A j \in 1 .. i - 1 : rs[j].entry # rs[i].entry}
Order(rs)  == LET first == Pick(rs, Firsts(rs))
              IN [k \in DOMAIN first |-> first[k].entry]

Size(rs) == Cardinality({r.entry : r \in ToSet(rs)})

Window(s, offset, limit) ==
    SubSeq(s, offset + 1, IF limit < Len(s) - offset THEN offset + limit ELSE Len(s))

\* int addition.
Plus(i, j) == IF i + j > MaxInt THEN i + j - 2 * (MaxInt + 1) ELSE i + j

\* Collections are read up to the first row of the entry after the page.
CollectionRows(rs, offset, limit) ==
    LET beyond == {i \in Firsts(rs) : Cardinality({j \in Firsts(rs) : j < i}) >= offset + limit}
    IN IF beyond = {} THEN rs ELSE SubSeq(rs, 1, Min(beyond) - 1)

EnoughAtLimit(rs, offset, limit) == Size(rs) >= Plus(offset, limit)  \* mutant
Enough(rs, offset, limit) == Size(rs) > Plus(offset, limit)

\* Data objects are read in batches until they are more than the page needs.
ObjectRows(rs, offset, limit) ==
    LET upto(n) == SubSeq(rs, 1, IF n * Batch < Len(rs) THEN n * Batch ELSE Len(rs))
        last(n) == n * Batch >= Len(rs) \/ Enough(upto(n), offset, limit)
    IN upto(CHOOSE n \in 1 .. Len(rs) + 1 : last(n) /\ \A m \in 1 .. n - 1 : ~last(m))

RowsRead(b, rs, offset, limit) ==
    IF b = "collections" THEN CollectionRows(rs, offset, limit) ELSE ObjectRows(rs, offset, limit)

\* What a page makes of the rows that were read, whose entries are order.
\* Replicas are collapsed to the one created first.  Of collections that are
\* skipped, the AVUs of their later rows are told too.
Scan(b, rs, read, order, offset, limit) ==
    LET page == Window(order, offset, limit)
        kept == {i \in DOMAIN read : Contains(page, read[i].entry)}
        told == IF b = "collections" THEN kept \cup (DOMAIN read \ Firsts(read)) ELSE kept
    IN [entries   |-> page,
        told      |-> {<<read[i].entry, read[i].avu>> : i \in {j \in told : read[j].avu # None}},
        shown     |-> {<<e, Min({read[i].created : i \in {j \in kept : read[j].entry = e}})>> : e \in ToSet(page)},
        exhausted |-> IF b = "collections" THEN read = rs
                      ELSE (rs = <<>> \/ ~Enough(read, offset, limit)) /\ Len(order) <= offset + limit]

CountRows(b, rs) == Len(RowsRead(b, rs, 0, MaxInt))                 \* mutant
Count(b, rs) == Size(RowsRead(b, rs, 0, MaxInt))

-----------------------------------------------------------------------------
VARIABLES
    rows,     \* rows[b]: what the GenQuery of branch b returns now, in order
    query,    \* what the reader asks
    cursor,   \* the page it asks for
    pc,       \* where QueryEntries is; "call" and "done" when it is not running
    page,     \* the page that is being made, or was made last
    whole,    \* history: what there was to read at first, in order
    got,      \* history: the entries of all pages so far
    touched,  \* history: what others have done since
    edits, faults

vars == <<rows, query, cursor, pc, page, whole, got, touched, edits, faults>>

Limit == IF query.limit <= 0 THEN DefaultLimit ELSE query.limit

\* A query of no kind is one of both.
HasKind(b) == b \in query.kinds \/ query.kinds = {}

\* Some conditions can be asked of data objects only, and the scope "self"
\* matches a collection only.
Enabled(b) == IF b = "collections" THEN HasKind(b) /\ ~query.objectsOnly
              ELSE HasKind(b) /\ ~query.self

Accepted ==
    /\ query.supported
    /\ \A b \in Branch : cursor.offset[b] >= 0
    /\ ~(query.kinds = {"collections"} /\ query.objectsOnly)

\* A path that is not absolute can be asked of collections, but not of data
\* objects.  It is noticed when their rows are asked for.
Expressible(b) == b = "data_objects" => query.absolute

FirstPhase == IF cursor.phase # "" THEN cursor.phase
              ELSE IF Enabled("collections") THEN "collections" ELSE "data_objects"

NewPage == [entries |-> <<>>, told |-> {}, shown |-> {}, totals |-> [b \in Branch |-> 0],
            phase |-> FirstPhase, next |-> cursor, remaining |-> Limit, more |-> FALSE]

Goto(stage) == pc' = stage
World == UNCHANGED <<rows, touched, edits>>
Reader == UNCHANGED <<query, cursor, got, whole>>

Call ==
    /\ pc = "call"
    /\ \/ ~Accepted /\ Goto("refused") /\ UNCHANGED page
       \/ Accepted /\ cursor.phase = "done" /\ Goto("done") /\ page' = NewPage
       \/ Accepted /\ cursor.phase # "done" /\ Goto("collections") /\ page' = NewPage
    /\ World /\ Reader /\ UNCHANGED faults

Following(b) == IF b = "collections" THEN "data_objects" ELSE "done"

\* What a page becomes with a scan of branch b.
StandStill(b, scan) ==                                               \* mutant
    [page EXCEPT !.entries = @ \o scan.entries, !.more = ~scan.exhausted,
                 !.told = @ \cup scan.told, !.shown = @ \cup scan.shown,
                 !.remaining = @ - Len(scan.entries),
                 !.next.exhausted[b] = scan.exhausted, !.next.phase = IF scan.exhausted THEN Following(b) ELSE b,
                 !.phase = IF scan.exhausted /\ b = "collections" THEN "data_objects" ELSE @]
KeepRoom(b, scan) ==                                                 \* mutant
    [StandStill(b, scan) EXCEPT !.remaining = page.remaining,
                                !.next.offset[b] = @ + Len(scan.entries)]
AdvanceByLimit(b, scan) ==                                           \* mutant
    [StandStill(b, scan) EXCEPT !.next.offset[b] = @ + Limit]
Extend(b, scan) ==
    [page EXCEPT
        !.entries = @ \o scan.entries,
        !.told = @ \cup scan.told,
        !.shown = @ \cup scan.shown,
        !.remaining = @ - Len(scan.entries),
        !.more = ~scan.exhausted,
        !.phase = IF scan.exhausted /\ b = "collections" THEN "data_objects" ELSE @,
        !.next.offset[b] = @ + Len(scan.entries),
        !.next.exhausted[b] = @ \/ scan.exhausted,
        !.next.phase = IF scan.exhausted THEN Following(b) ELSE b]

Due(b) ==
    /\ ~page.more /\ page.phase = b /\ Enabled(b)
    /\ ~cursor.exhausted[b] /\ page.remaining > 0

\* The scan of a branch as it is now.
Scanned(b, offset, limit) ==
    {Scan(b, rows[b], s.read, s.order, offset, limit) :
        s \in {[read |-> read, order |-> Order(read)] : read \in {RowsRead(b, rows[b], offset, limit)}}}

ScanBranch(b, next) ==
    /\ pc = b
    /\ Due(b) => Expressible(b)
    /\ IF Due(b)
       THEN \E scan \in Scanned(b, cursor.offset[b], page.remaining) : page' = Extend(b, scan)
       ELSE UNCHANGED page
    /\ Goto(next)
    /\ World /\ Reader /\ UNCHANGED faults

\* A page that ends with the collections looks whether there are data objects;
\* so does one that was asked for with the collections exhausted.
PeekDue ==
    /\ ~page.more /\ Enabled("data_objects") /\ ~page.next.exhausted["data_objects"]
    /\ \/ page.phase = "data_objects" /\ page.remaining = 0
       \/ page.phase = "collections" /\ Enabled("collections") /\ page.next.exhausted["collections"]

KeepPhase(scan) ==                                                   \* mutant
    [page EXCEPT !.more = scan.entries # <<>>, !.next.exhausted["data_objects"] = scan.entries = <<>>]
Peeked(scan) ==
    LET more == scan.entries # <<>> \/ ~scan.exhausted
    IN [page EXCEPT !.more = more,
                    !.next.exhausted["data_objects"] = ~more,
                    !.next.phase = IF more THEN "data_objects" ELSE "done"]

Peek ==
    /\ pc = "peek"
    /\ PeekDue => Expressible("data_objects")
    /\ IF PeekDue
       THEN \E scan \in Scanned("data_objects", page.next.offset["data_objects"], 1) : page' = Peeked(scan)
       ELSE UNCHANGED page
    /\ Goto(IF query.totals THEN "count" ELSE "return")
    /\ World /\ Reader /\ UNCHANGED faults

CountBranch(stage, b, next) ==
    /\ pc = stage
    /\ Enabled(b) => Expressible(b)
    /\ page' = [page EXCEPT !.totals[b] = IF Enabled(b) THEN Count(b, rows[b]) ELSE 0]
    /\ Goto(next)
    /\ World /\ Reader /\ UNCHANGED faults

\* The request of a scan of the data objects cannot be made: the page is lost,
\* and those before it were the last.
Refuse ==
    /\ \/ pc = "data_objects" /\ Due("data_objects")
       \/ pc = "peek" /\ PeekDue
       \/ pc = "count_objects" /\ Enabled("data_objects")
    /\ ~Expressible("data_objects")
    /\ Goto("refused")
    /\ World /\ Reader /\ UNCHANGED <<page, faults>>

\* Readers ask for the next page until there is none.
Return ==
    /\ pc = "return"
    /\ got' = got \o page.entries
    /\ IF page.more THEN Goto("call") /\ cursor' = page.next
       ELSE Goto("done") /\ UNCHANGED cursor
    /\ World /\ UNCHANGED <<query, whole, page, faults>>

\* A scan fails: the page is lost, and the reader asks for it again.
Fail ==
    /\ pc \notin {"call", "return", "done", "refused"}
    /\ faults > 0 /\ faults' = faults - 1
    /\ Goto("call") /\ World /\ Reader /\ UNCHANGED page

Step == \/ Call
        \/ ScanBranch("collections", "data_objects")
        \/ ScanBranch("data_objects", "peek")
        \/ Peek
        \/ CountBranch("count", "collections", "count_objects")
        \/ CountBranch("count_objects", "data_objects", "return")
        \/ Refuse
        \/ Return

Change(b, what, rs) ==
    /\ edits > 0 /\ edits' = edits - 1
    /\ pc \notin {"done", "refused"}
    /\ rows' = [rows EXCEPT ![b] = rs]
    /\ touched' = touched \cup {what}
    /\ UNCHANGED <<query, cursor, pc, page, whole, got, faults>>

Insert(b) ==
    \E e \in Entries[b] \ ToSet(Order(rows[b])) : \E i \in 0 .. Len(rows[b]) :
        Change(b, "added", SubSeq(rows[b], 1, i) \o RowsOf[e] \o SubSeq(rows[b], i + 1, Len(rows[b])))

Delete(b) ==
    \E e \in ToSet(Order(rows[b])) :
        Change(b, "removed", Pick(rows[b], {i \in DOMAIN rows[b] : rows[b][i].entry # e}))

\* Two rows change places; any other order comes of several of these.
Reorder(b) ==
    \E i, j \in DOMAIN rows[b] :
        /\ i < j
        /\ Change(b, "reordered", [rows[b] EXCEPT ![i] = rows[b][j], ![j] = rows[b][i]])

\* What a reader that starts from c has to read.
Left(b, c) ==
    IF /\ Enabled(b) /\ ~c.exhausted[b] /\ c.offset[b] >= 0
       /\ c.phase # "done" /\ (b = "collections" => c.phase # "data_objects")
    THEN Window(Order(rows[b]), c.offset[b], Len(Order(rows[b]))) ELSE <<>>

\* Offset and limit stay within int.
Fits == Limit <= MaxInt - cursor.offset["data_objects"]

\* A cursor in the middle of the collections is from a query that asks for them.
Belongs == cursor.phase = "collections" => Enabled("collections")

Init ==
    /\ rows \in Results
    /\ query \in Queries
    /\ cursor \in Cursors
    /\ Fits /\ Belongs
    /\ pc = "call"
    /\ page = [NewPage EXCEPT !.phase = ""]
    /\ whole = Left("collections", cursor) \o Left("data_objects", cursor)
    /\ got = <<>>
    /\ touched = {}
    /\ edits = MaxEdits
    /\ faults = MaxFaults

Next == Step \/ Fail \/ \E b \in Branch : Insert(b) \/ Delete(b) \/ Reorder(b)

Spec == Init /\ [][Next]_vars

\* The reader goes on.
FairSpec == Spec /\ WF_vars(Step)

-----------------------------------------------------------------------------
(* Properties.                                                             *)

\* Every variable keeps to its values; a page never holds more than was asked
\* for, and a scan is due only with room left on the page.
TypeOK ==
    /\ query \in Query
    /\ cursor \in Cursor /\ page.next \in Cursor
    /\ pc \in Branch \cup {"call", "peek", "count", "count_objects", "return", "done", "refused"}
    /\ page.entries \in Seq(Entry) /\ page.phase \in Phases /\ page.more \in BOOLEAN
    /\ page.remaining = Limit - Len(page.entries) /\ page.remaining >= 0
    /\ got \in Seq(Entry) /\ whole \in Seq(Entry)
    /\ touched \subseteq {"added", "removed", "reordered"}
    /\ edits \in 0 .. MaxEdits /\ faults \in 0 .. MaxFaults

Quiet == touched = {}

\* The same entries, in an order of the server's.
SameEntries == touched \subseteq {"reordered"}

\* As long as nothing is added or removed and the server keeps to the order of
\* its rows, the pages tile the result: read one after the other they are the
\* collections and then the data objects, each entry once, none left out,
\* wherever a page ends and whatever was repeated after a failure.  If only the
\* order changes, what is read in the end is as long as the result: an entry
\* is left out just where another is told twice.
PagesTile ==
    /\ Quiet => /\ IsPrefix(got, whole)
                /\ pc = "done" => got = whole
    /\ SameEntries /\ pc = "done" => Len(got) = Len(whole)

\* A page says that there is more just when there is, and its totals are the
\* numbers of entries of the two branches, not of their rows, whatever order
\* the server returns them in.
PageHonest ==
    (SameEntries /\ pc = "return") =>
        /\ page.more <=> Len(got \o page.entries) < Len(whole)
        /\ query.totals => \A b \in Branch :
              page.totals[b] = IF Enabled(b) THEN Cardinality({r.entry : r \in ToSet(rows[b])}) ELSE 0

\* The rows of an entry follow each other.
Grouped(rs) == \A i, j \in DOMAIN rs :
                   rs[i].entry = rs[j].entry => \A k \in i .. j : rs[k].entry = rs[i].entry

\* When the server returns the rows of an entry together, a page tells all the
\* matched AVUs of each of its entries and shows the oldest replica, although a
\* scan stops in the middle of the rows.
MatchesTold ==
    (Quiet /\ pc = "return" /\ \A b \in Branch : Grouped(rows[b])) =>
        \A b \in Branch : \A r \in ToSet(rows[b]) : r.entry \in ToSet(page.entries) =>
            /\ r.avu # None => <<r.entry, r.avu>> \in page.told
            /\ b = "data_objects" => \A s \in page.shown : s[1] = r.entry => s[2] <= r.created

\* Offsets count from the front: while the server keeps the order of the rows
\* that stay, and entries are only added, none that was there is skipped; if
\* they are only removed, none is repeated.
ChangesShift ==
    pc = "done" => /\ touched \subseteq {"added"} => ToSet(whole) \subseteq ToSet(got)
                   /\ touched \subseteq {"removed"} => IsInjective(got)

\* Asking for the next page comes to an end.
EventuallyRead == <>(pc \in {"done", "refused"})
=============================================================================
