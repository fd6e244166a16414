-------------------------- MODULE MCSearchRegistry --------------------------
(* Instances of SearchRegistry: config files and requests for the runs.    *)
EXTENDS SearchRegistry

CONSTANTS a, b, c,    \* callers
          u, v,       \* base URLs
          p, q        \* config files

On(url)  == [url |-> url, enabled |-> TRUE]
Off(url) == [url |-> url, enabled |-> FALSE]

OnlyFirst == [i \in Id |-> IF i = 1 THEN On(u) ELSE None]
Moved     == [i \in Id |-> IF i = 1 THEN On(v) ELSE Off(u)]
TwoConfigs == {OnlyFirst, Moved}
OneConfig  == {Moved}

Asking(op)  == {[op |-> op, id |-> i, endpoint |-> On(u), path |-> p] : i \in Id}
Editing     == {[op |-> "Register", id |-> 1, endpoint |-> On(u), path |-> p],
                [op |-> "Unregister", id |-> 1, endpoint |-> On(u), path |-> p]}
                 \cup {[op |-> "Upsert", id |-> 1, endpoint |-> e, path |-> p] :
                         e \in {On(v), Off(v)}}
Loading     == {[op |-> "LoadConfigFile", id |-> 1, endpoint |-> On(u), path |-> f] : f \in Path}
                 \cup {[op |-> op, id |-> 1, endpoint |-> On(u), path |-> p] :
                         op \in {"LoadConfig", "ReloadConfigFile"}}

\* a asks every endpoint, b the first one, and c changes the Registry.
SteadyRequests ==
    [d \in Caller |->
        IF d = a THEN {CHOOSE r \in Asking("SearchAll") : TRUE}
        ELSE IF d = b THEN {r \in Asking("Ping") \cup Asking("Perform") : r.id = 1}
        ELSE Editing \cup Loading]
LoadRequests  == [d \in Caller |-> IF d = a THEN Asking("Ping") ELSE Loading]
=============================================================================
