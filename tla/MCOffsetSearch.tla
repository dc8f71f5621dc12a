--------------------------- MODULE MCOffsetSearch ---------------------------
(* Every ascending table over 0..MaxKey, searched for every key and beyond. *)
EXTENDS OffsetSearch, FiniteSets

CONSTANT MaxKey

\* The elements of S in ascending order.
Sorted(S) == [i \in 1 .. Cardinality(S) |->
                CHOOSE k \in S : Cardinality({j \in S : j < k}) = i - 1]

MCTables == {Sorted(S) : S \in SUBSET (0 .. MaxKey)}
MCTargets == -2 .. MaxKey + 1
=============================================================================
