----------------------------- MODULE MCS3UserKeys -----------------------------
(* Instances of S3UserKeys: UserMappingFiles and requests for the runs.    *)
EXTENDS S3UserKeys

CONSTANTS a, b,          \* callers
          f, g,          \* UserMappingFiles, all on the same path
          alice, bob,    \* users, and their homes
          k1, k2         \* secret keys

OneFile  == [c \in Caller |-> f]
TwoFiles == [c \in Caller |-> IF c = a THEN f ELSE g]

Ask(op, u, k) == [op |-> op, home |-> u, user |-> u, secret |-> k]

\* The mapping service serves alice, the key service bob, once as alice; the
\* mapping is refreshed by the caller of the key service.
SplitRequests == [c \in Caller |->
    IF c = a THEN {Ask("StoreUserSecretKey", alice, k) : k \in {k1, k2, Invalid}}
                    \cup {Ask("DeleteUserSecretKey", alice, k1)}
    ELSE {Ask("StoreS3UserKey", bob, k1), [Ask("StoreS3UserKey", bob, k1) EXCEPT !.user = alice],
          Ask("DeleteS3UserKey", bob, k1),
          Ask("RefreshUserMapping", bob, k1), Ask("RebuildUserMappingFromAVUs", bob, k1)}]

StoreRequests == [c \in Caller |-> LET u == IF c = a THEN alice ELSE bob IN
                    {Ask("StoreUserSecretKey", u, k1), Ask("RefreshUserMapping", u, k1)}]
=============================================================================
