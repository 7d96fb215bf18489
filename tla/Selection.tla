----------------------------- MODULE Selection ------------------------------
(***************************************************************************)
(* Array.prototype.filter, by what it keeps: the entries of a sequence at  *)
(* some of its indices, in the order the sequence has them.  SelectSeq     *)
(* says the same by recursion over the sequence, which the proofs about    *)
(* Session and ModCommand could not use.                                   *)
(***************************************************************************)
EXTENDS Naturals, FiniteSets, Sequences

\* The increasing enumeration of a finite set of indices (there is one).
InOrder(kept) ==
    {f \in [1 .. Cardinality(kept) -> kept] :
        /\ \A k \in kept : \E i \in DOMAIN f : f[i] = k
        /\ \A i, j \in DOMAIN f : i < j => f[i] < f[j]}

\* What filter makes of l when it keeps these indices (one sequence).
Filtered(l, kept) == {[i \in DOMAIN f |-> l[f[i]]] : f \in InOrder(kept)}

=============================================================================
