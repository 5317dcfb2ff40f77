-------------------------- MODULE MCMultisigRules --------------------------
(***************************************************************************)
(* The RuleEngine on its own: evaluations run while rules are added,       *)
(* updated and deleted.  Two history variables remember, for each          *)
(* evaluation, the rules that stayed in the Map all the time (steady) and  *)
(* those that were there at some time (offered).                           *)
(***************************************************************************)
EXTENDS MultisigRules

CONSTANTS a1, a2, x1, x2, r1, r2, r3

VARIABLES steady, offered

mcVars == <<rules, evals, steady, offered>>

R(id, approvers, required, contexts) ==
    [id |-> id, approvers |-> approvers, slots |-> 2,
     required |-> required, contexts |-> contexts]

ThreeRules == {R(r1, {a1, a2}, 1, {x1}), R(r2, {a1}, 1, {x1}),
               R(r3, {a1, a2}, 2, {x1}), R(r2, {a1}, 2, {x2})}

Present == {rules[i] : i \in DOMAIN rules}

Remember ==
    /\ steady' = [c \in Client |->
          IF evals[c] = NoEval THEN Present' ELSE steady[c] \cap Present']
    /\ offered' = [c \in Client |->
          IF evals[c] = NoEval THEN Present' ELSE offered[c] \cup Present']

MCInit ==
    /\ RulesInit
    /\ steady = [c \in Client |-> {}]
    /\ offered = [c \in Client |-> {}]

MCNext ==
    /\ \/ EditRules
       \/ \E c \in Client :
            \/ \E x \in Context : BeginEvaluation(c, x)
            \/ VisitRule(c)
            \/ EvaluationDone(c) /\ EndEvaluation(c)
    /\ Remember

MCSpec == MCInit /\ [][MCNext]_mcVars

Matching(c, S) == {MatchOf(r) : r \in {s \in S : evals[c].context \in s.contexts}}

\* evaluateContext misses no matching rule that was there, unedited, during the
\* whole evaluation, and returns none that was never there or does not match,
\* whatever administrators add or delete around it.
EvaluationExact ==
    \A c \in Client : evals[c] # NoEval =>
        /\ evals[c].matches \subseteq Matching(c, offered[c])
        /\ EvaluationDone(c) => Matching(c, steady[c]) \subseteq evals[c].matches
=============================================================================
