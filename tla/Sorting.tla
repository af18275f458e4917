------------------------------ MODULE Sorting ------------------------------
(***************************************************************************)
(* Python's list.sort and sorted(set(...)) on numbers, and torch.unique.   *)
(***************************************************************************)
EXTENDS Integers, Sequences, FiniteSets, Functions

\* An order of the places of list in which its numbers do not fall.
Sorted(list) ==
    LET order == CHOOSE p \in [DOMAIN list -> DOMAIN list] :
                    /\ Range(p) = DOMAIN list
                    /\ \A i, j \in DOMAIN list : i < j => list[p[i]] <= list[p[j]]
    IN  [i \in DOMAIN list |-> list[order[i]]]

\* The numbers of a finite set in rising order.
Ascending(S) ==
    CHOOSE s \in [1 .. Cardinality(S) -> S] :
        /\ Range(s) = S
        /\ \A i, j \in DOMAIN s : i < j => s[i] < s[j]
=============================================================================
