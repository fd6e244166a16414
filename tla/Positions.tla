------------------------------ MODULE Positions ------------------------------
(***************************************************************************)
(* Parts of a sequence, by the ranks of their positions.                   *)
(***************************************************************************)
EXTENDS FiniteSets, Integers

\* The k-th of the positions S, and what s has there, one after the other.
Nth(S, k)  == CHOOSE i \in S : Cardinality({j \in S : j < i}) = k - 1
Pick(s, S) == [k \in 1 .. Cardinality(S) |-> s[Nth(S, k)]]
=============================================================================
