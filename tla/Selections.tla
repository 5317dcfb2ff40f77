----------------------------- MODULE Selections -----------------------------
(***************************************************************************)
(* Array.prototype.filter for predicates given as sets: what SelectSeq     *)
(* computes, defined by the ranks of the positions that are kept.          *)
(* SelectSeq takes an operator, and no prover reasons about it.            *)
(***************************************************************************)
EXTENDS Integers, Sequences, FiniteSets

Elements(s) == {s[i] : i \in DOMAIN s}

\* The positions of s that hold an element of K.
Positions(s, K) == {i \in DOMAIN s : s[i] \in K}

Occurrences(s, x) == Cardinality(Positions(s, {x}))

\* i is the Rank(I, i)-th element of I.
Rank(I, i) == Cardinality({j \in I : j <= i})

Nth(I, k) == CHOOSE i \in I : Rank(I, i) = k

\* The elements of s that are in K, in their order.
Select(s, K) ==
    LET I == Positions(s, K) IN [k \in 1..Cardinality(I) |-> s[Nth(I, k)]]
=============================================================================
