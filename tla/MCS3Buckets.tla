----------------------------- MODULE MCS3Buckets -----------------------------
(* Instances of S3Buckets: MappingFiles and requests for the runs.         *)
EXTENDS S3Buckets

CONSTANTS a, b,   \* callers
          f, g    \* MappingFiles, all on the same path

OneFile  == [c \in Caller |-> f]
TwoFiles == [c \in Caller |-> IF c = a THEN f ELSE g]

Ask(op, p, n) == [op |-> op, path |-> p, name |-> n]

Refresh == Ask("RefreshMapping", 1, 1)
Rebuild == Ask("RebuildMappingFromAVUs", 1, 1)

Adding   == {Ask("AddBucket", p, n) : p \in Path, n \in Name}
Renaming == {Ask("UpdateBucket", p, n) : p \in {1, 2}, n \in Name}
Deleting == {Ask("DeleteBucket", p, 1) : p \in {1, 2}}

SplitRequests   == [c \in Caller |-> IF c = a THEN Adding \cup {Refresh}
                                     ELSE Renaming \cup Deleting \cup {Rebuild}]
ServiceRequests == [c \in Caller |-> IF c = a THEN {Ask("AddBucket", 2, 1), Ask("UpdateBucket", 2, 2),
                                                        Ask("DeleteBucket", 2, 1), Refresh}
                                     ELSE {Rebuild}]
=============================================================================
