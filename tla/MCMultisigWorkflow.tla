------------------------- MODULE MCMultisigWorkflow -------------------------
(* Instances of MultisigWorkflow for TLC. *)
EXTENDS MultisigWorkflow

CONSTANTS a1, a2, a3, x1, x2, r1, r2

R(id, approvers, slots, required, contexts) ==
    [id |-> id, approvers |-> approvers, slots |-> slots,
     required |-> required, contexts |-> contexts]

\* Rules that share approvers and a context: 2 of 3, and 1 of 1.
TwoOfThree == R(r1, {a1, a2, a3}, 3, 2, {x1})
OneOfOne == R(r2, {a3}, 1, 1, {x1})

\* requiredApprovals 0: addRule makes it the default, more than there are
\* approvers, and updateRule leaves it.
NoneOfOne == R(r2, {a3}, 1, 0, {x1})

OverlappingRules == {TwoOfThree, OneOfOne, NoneOfOne}
TwoOfTwo == {R(r1, {a1, a2}, 2, 2, {x1})}
=============================================================================
