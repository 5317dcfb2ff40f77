-------------------------------- MODULE Sums --------------------------------
(***************************************************************************)
(* Sums of natural numbers over finite sets, as the number of units in     *)
(* them: the folds of the community modules are recursions over sets, of   *)
(* which the provers know nothing, and cardinalities they can add.         *)
(***************************************************************************)
EXTENDS Integers, FiniteSets

\* The units of f[k], for each k in K.
Units(f, K) == UNION {{k} \X (1..f[k]) : k \in K}

\* The sum of f over K: what Array.prototype.reduce adds up.
Total(f, K) == Cardinality(Units(f, K))
=============================================================================
