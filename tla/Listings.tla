------------------------------ MODULE Listings ------------------------------
(***************************************************************************)
(* Lists made from sets and from other lists, where the code sorts, picks  *)
(* and cuts.  SortSeq and SelectSeq are not defined by formulas a prover   *)
(* could use; these are.                                                   *)
(***************************************************************************)
EXTENDS Integers, SequencesExt

\* The members of a finite set of integers, in increasing order.
InOrder(S) ==
    [k \in 1..Cardinality(S) |-> CHOOSE x \in S : Cardinality({y \in S : y < x}) = k - 1]

\* The elements of a sequence at some places of it, and those that pass a test.
Picked(seq, places) ==
    LET order == InOrder(places) IN [k \in 1..Cardinality(places) |-> seq[order[k]]]
Chosen(seq, Test(_)) == Picked(seq, {i \in DOMAIN seq : Test(seq[i])})

\* A set as a list in which nothing comes after what it precedes; if the relation is no
\* order, in any arrangement.
Arranged(S, sorted) == CHOOSE f \in SetToSeqs(S) : sorted = {} \/ f \in sorted
SortedBy(S, Precedes(_, _)) ==
    Arranged(S, {f \in SetToSeqs(S) : \A i, j \in DOMAIN f : i < j => ~Precedes(f[j], f[i])})

\* The first n elements, or all.
Firsts(seq, n) == IF Len(seq) > n THEN SubSeq(seq, 1, n) ELSE seq
=============================================================================
