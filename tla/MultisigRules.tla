--------------------------- MODULE MultisigRules ---------------------------
(***************************************************************************)
(* RuleEngine of packages/plugin-multisig: an insertion-ordered Map of     *)
(* approval rules that administrators edit while evaluations run.          *)
(*                                                                         *)
(* evaluateContext is asynchronous.  It iterates the live Map and awaits   *)
(* every condition, so a rule object is captured when the iterator reaches *)
(* it and is pushed to the matches one or more microtasks later; edits     *)
(* made in between are seen only by the iterator.                          *)
(***************************************************************************)
EXTENDS Integers, Sequences, FiniteSets

CONSTANTS Client,           \* callers with an asynchronous call outstanding
          Approver,         \* identities that rules name
          Context,          \* what an approval is asked for
          RuleId,
          RuleInput,        \* the rules administrators may submit
          DefaultRequired,  \* config.defaultRequiredApprovals
          NoRule, NoEval    \* the iterator is done; no evaluation is running

(***************************************************************************)
(* A rule keeps what decisions depend on: its approvers as a set, the      *)
(* length of the approvers array (slots, an address may occur twice),      *)
(* the required number, and the contexts that satisfy all its conditions.  *)
(***************************************************************************)
Rule == [id: RuleId, approvers: SUBSET Approver, slots: Nat, required: Nat,
         contexts: SUBSET Context]

RuleMatch == [approvers: SUBSET Approver, required: Nat, remaining: Int]

ASSUME RulesAssumption ==
    /\ IsFiniteSet(Approver) /\ IsFiniteSet(Client)
    /\ RuleInput \subseteq Rule
    /\ \A r \in RuleInput : Cardinality(r.approvers) <= r.slots
    /\ DefaultRequired \in Nat \ {0}
    /\ NoRule \notin Rule

Evaluation == [context: Context, current: Rule \cup {NoRule},
               cursor: Nat, matches: SUBSET RuleMatch]

ASSUME NoEvalAssumption == NoEval \notin Evaluation

VARIABLES rules,   \* the Map, in insertion order
          evals    \* client -> its evaluateContext call, or NoEval

ruleVars == <<rules, evals>>

Ids == {rules[i].id : i \in DOMAIN rules}

ValidRule(r) == r.approvers # {} /\ r.required <= r.slots

\* addRule fills in the default after it has validated the rule as given.
Normalised(r) == [r EXCEPT !.required = IF @ = 0 THEN DefaultRequired ELSE @]

MatchOf(r) == [approvers |-> r.approvers, required |-> r.required,
               remaining |-> r.required]

\* The object the iterator yields at position i of the Map.
RuleAt(i) == IF i \in DOMAIN rules THEN rules[i] ELSE NoRule

RulesInit == rules = <<>> /\ evals = [c \in Client |-> NoEval]

AddRule(r) ==
    /\ r.id \notin Ids
    /\ ValidRule(r)
    /\ rules' = Append(rules, Normalised(r))
    /\ UNCHANGED evals

\* r is the existing rule merged with the updates.
UpdateRule(r) ==
    \E i \in DOMAIN rules :
        /\ rules[i].id = r.id
        /\ ValidRule(r)
        /\ rules' = [rules EXCEPT ![i] = r]
        /\ UNCHANGED evals

\* Mutation: iterators keep their index when an entry before them goes away.
CursorUnmoved(e, i) == e

\* Removing an entry behind an iterator moves what follows it one place down.
CursorAfterDelete(e, i) ==
    IF e # NoEval /\ i < e.cursor THEN [e EXCEPT !.cursor = @ - 1] ELSE e

DeleteRule(id) ==
    \E i \in DOMAIN rules :
        /\ rules[i].id = id
        /\ rules' = SubSeq(rules, 1, i - 1) \o SubSeq(rules, i + 1, Len(rules))
        /\ evals' = [c \in Client |-> CursorAfterDelete(evals[c], i)]

\* The synchronous part of evaluateContext: up to its first await.
BeginEvaluation(c, x) ==
    /\ evals[c] = NoEval
    /\ evals' = [evals EXCEPT ![c] = [context |-> x, current |-> RuleAt(1),
                                      cursor |-> 2, matches |-> {}]]
    /\ UNCHANGED rules

\* Mutation: a rule is pushed whether or not its conditions held.
CollectedAlways(e) == e.matches \cup {MatchOf(e.current)}

\* The conditions of the captured rule have been awaited.
Collected(e) ==
    IF e.context \in e.current.contexts THEN e.matches \cup {MatchOf(e.current)}
                                        ELSE e.matches

\* ... and the iterator is asked for the next rule.
Advanced(e) == [e EXCEPT !.matches = Collected(e), !.current = RuleAt(e.cursor),
                         !.cursor = @ + 1]

VisitRule(c) ==
    /\ evals[c] # NoEval /\ evals[c].current # NoRule
    /\ evals' = [evals EXCEPT ![c] = Advanced(evals[c])]
    /\ UNCHANGED rules

EvaluationDone(c) == evals[c] # NoEval /\ evals[c].current = NoRule

EndEvaluation(c) == evals' = [evals EXCEPT ![c] = NoEval] /\ UNCHANGED rules

EditRules ==
    \/ \E r \in RuleInput : AddRule(r) \/ UpdateRule(r)
    \/ \E id \in RuleId : DeleteRule(id)

RulesTypeOK ==
    /\ rules \in Seq(Rule)
    /\ evals \in [Client -> Evaluation \cup {NoEval}]
=============================================================================
