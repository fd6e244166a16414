----------------------------- MODULE S3Registry -----------------------------
(***************************************************************************)
(* What the buckets of one scan root promise: a registry of bucket names   *)
(* in which no name has two paths and no path two names, and a published   *)
(* copy that is only ever replaced by the whole registry of the moment.    *)
(***************************************************************************)
EXTENDS Naturals

CONSTANTS Name, Path, NoPath

VARIABLES registry, published

Init == /\ registry = [n \in Name |-> NoPath]
        /\ published = [n \in Name |-> NoPath]

Assign(n, p) ==
    /\ registry[n] = NoPath
    /\ \A m \in Name : registry[m] # p
    /\ registry' = [registry EXCEPT ![n] = p]
    /\ UNCHANGED published

Release(n) ==
    /\ registry[n] # NoPath
    /\ registry' = [registry EXCEPT ![n] = NoPath]
    /\ UNCHANGED published

Publish ==
    /\ published' = registry
    /\ UNCHANGED registry

Next == \/ \E n \in Name, p \in Path : Assign(n, p)
        \/ \E n \in Name : Release(n)
        \/ Publish

Spec == Init /\ [][Next]_<<registry, published>>
=============================================================================
