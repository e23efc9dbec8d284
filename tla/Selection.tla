------------------------------ MODULE Selection ------------------------------
(* What a comprehension or a WHERE keeps of a list, as SelectSeq has it, but *)
(* without recursion, so that proofs can speak of it.                        *)
EXTENDS Integers, Sequences, FiniteSets

\* How many of the places I there are up to place i.
UpTo(I, i) == Cardinality({j \in I : j <= i})

Place(I, k) == CHOOSE i \in I : UpTo(I, i) = k

\* The elements of s at the places I, in their order.
Picked(s, I) == [k \in 1 .. Cardinality(I) |-> s[Place(I, k)]]

\* The elements of s that are in S, in their order.
Only(s, S) == Picked(s, {i \in DOMAIN s : s[i] \in S})

=============================================================================
