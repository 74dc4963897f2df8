------------------------------ MODULE Ordering ------------------------------
(***************************************************************************)
(* Slices in an order: what a loop over one keeps of it, and how sort      *)
(* arranges one.  Both are defined by the place each element gets.         *)
(***************************************************************************)
EXTENDS Integers, FiniteSets

\* The members of S up to i in the order of their keys, and of their own where
\* the keys are the same.
UpTo(S, key, i) == {j \in S : key[j] < key[i] \/ (key[j] = key[i] /\ j <= i)}

\* The numbers in S in that order.
Sorted(S, key) ==
    [k \in 1..Cardinality(S) |-> CHOOSE i \in S : Cardinality(UpTo(S, key, i)) = k]

\* The numbers in S in ascending order.
InOrder(S) == Sorted(S, [i \in S |-> 0])

\* The elements at some places of a slice.
Elements(slice, places) == [k \in DOMAIN places |-> slice[places[k]]]
=============================================================================
