----------------------- MODULE MultisigWorkflowProofs -----------------------
(***************************************************************************)
(* Theorems about MultisigWorkflow for all values of its constants.        *)
(***************************************************************************)
EXTENDS MultisigWorkflow, FiniteSetTheorems, TLAPS

-----------------------------------------------------------------------------
(***************************************************************************)
(* Type correctness                                                        *)
(***************************************************************************)
\* The functions the handlers apply to one workflow return workflows.
LEMMA MatchOfType ==
    ASSUME NEW r \in Rule
    PROVE  MatchOf(r) \in RuleMatch
BY DEF MatchOf, Rule, RuleMatch

LEMMA CountedDownType ==
    ASSUME NEW matches \in SUBSET RuleMatch, NEW a \in Approver
    PROVE  CountedDown(matches, a) \in SUBSET RuleMatch
BY DEF CountedDown, RuleMatch

LEMMA WithApprovalType ==
    ASSUME NEW wf \in WorkflowState, NEW a \in Approver
    PROVE  WithApproval(wf, a) \in WorkflowState
<1>1. wf.matches \in SUBSET RuleMatch
  BY DEF WorkflowState
<1>2. CountedDown(wf.matches, a) \in SUBSET RuleMatch
  BY <1>1, CountedDownType
<1>3. 0 \in 0..(CleanupInterval + 1)
  BY WorkflowAssumption
<1>. QED
  BY <1>2, <1>3 DEF WithApproval, WorkflowState, Status

LEMMA CleanedType ==
    ASSUME NEW wf \in WorkflowState
    PROVE  Cleaned(wf) \in WorkflowState
<1>1. 0 \in 0..(CleanupInterval + 1) /\ 0 \in 0..(Expiration + 1)
  BY WorkflowAssumption
<1>2. NoWorkflow \in WorkflowState
  BY <1>1 DEF NoWorkflow, WorkflowState, Status
<1>. QED
  BY <1>1, <1>2 DEF Cleaned, WorkflowState, Status

LEMMA AgedType ==
    ASSUME NEW wf \in WorkflowState
    PROVE  Aged(wf) \in WorkflowState
<1>1. /\ wf.age > Expiration \/ wf.age + 1 \in 0..(Expiration + 1)
      /\ wf.idle > CleanupInterval \/ wf.idle + 1 \in 0..(CleanupInterval + 1)
  BY WorkflowAssumption DEF WorkflowState
<1>. QED
  BY <1>1 DEF Aged, WorkflowState

\* Editing rules and evaluating them keeps the rule engine well typed.
LEMMA RuleAtType ==
    ASSUME RulesTypeOK, NEW i
    PROVE  RuleAt(i) \in Rule \cup {NoRule}
BY DEF RuleAt, RulesTypeOK

LEMMA EditType ==
    ASSUME RulesTypeOK, EditRules
    PROVE  RulesTypeOK'
<1>. USE DEF RulesTypeOK
<1>1. ASSUME NEW r \in RuleInput, AddRule(r) PROVE RulesTypeOK'
  <2>1. Normalised(r) \in Rule
    BY RulesAssumption DEF Normalised, Rule
  <2>. QED
    BY <1>1, <2>1 DEF AddRule
<1>2. ASSUME NEW r \in RuleInput, UpdateRule(r) PROVE RulesTypeOK'
  BY <1>2, RulesAssumption DEF UpdateRule
<1>3. ASSUME NEW id \in RuleId, DeleteRule(id) PROVE RulesTypeOK'
  <2>1. PICK i \in DOMAIN rules :
           /\ rules' = SubSeq(rules, 1, i - 1) \o SubSeq(rules, i + 1, Len(rules))
           /\ evals' = [c \in Client |-> CursorAfterDelete(evals[c], i)]
    BY <1>3 DEF DeleteRule
  <2>2. rules' \in Seq(Rule)
    BY <2>1
  <2>3. ASSUME NEW e \in Evaluation \cup {NoEval}
        PROVE  CursorAfterDelete(e, i) \in Evaluation \cup {NoEval}
    <3>1. i \in Nat \ {0}
      OBVIOUS
    <3>. QED
      BY <3>1, NoEvalAssumption DEF CursorAfterDelete, Evaluation
  <2>. QED
    BY <2>1, <2>2, <2>3
<1>. QED
  BY <1>1, <1>2, <1>3 DEF EditRules

LEMMA AdvancedType ==
    ASSUME RulesTypeOK, NEW e \in Evaluation, e.current # NoRule
    PROVE  Advanced(e) \in Evaluation
<1>1. e.current \in Rule /\ e.matches \in SUBSET RuleMatch /\ e.cursor + 1 \in Nat
  BY DEF Evaluation
<1>2. Collected(e) \in SUBSET RuleMatch
  BY <1>1, MatchOfType DEF Collected
<1>3. RuleAt(e.cursor) \in Rule \cup {NoRule}
  BY RuleAtType
<1>. DEFINE found == Collected(e)
            next == RuleAt(e.cursor)
<1>4. [e EXCEPT !.matches = found, !.current = next, !.cursor = @ + 1] \in Evaluation
  <2>. HIDE DEF found, next
  <2>1. found \in SUBSET RuleMatch /\ next \in Rule \cup {NoRule}
    BY <1>2, <1>3 DEF found, next
  <2>. QED
    BY <1>1, <2>1 DEF Evaluation
<1>. QED
  BY <1>4 DEF Advanced

LEMMA VisitType ==
    ASSUME RulesTypeOK, NEW c \in Client, VisitRule(c)
    PROVE  RulesTypeOK'
<1>1. evals' = [evals EXCEPT ![c] = Advanced(evals[c])] /\ rules' = rules
  BY DEF VisitRule
<1>2. evals[c] \in Evaluation /\ evals[c].current # NoRule
  BY DEF VisitRule, RulesTypeOK
<1>3. Advanced(evals[c]) \in Evaluation
  BY <1>2, AdvancedType
<1>4. evals' \in [Client -> Evaluation \cup {NoEval}]
  BY <1>1, <1>3 DEF RulesTypeOK
<1>. QED
  BY <1>1, <1>4 DEF RulesTypeOK

LEMMA InitType == Init => TypeOK
<1>1. 0 \in 0..(CleanupInterval + 1) /\ 0 \in 0..(Expiration + 1)
  BY WorkflowAssumption
<1>2. NoWorkflow \in WorkflowState
  BY <1>1 DEF NoWorkflow, WorkflowState, Status
<1>3. <<>> \in Seq(Rule)
  OBVIOUS
<1>. QED
  BY <1>2, <1>3 DEF Init, RulesInit, TypeOK, RulesTypeOK

\* Every step of the manager preserves the types.
LEMMA StepType == TypeOK /\ [Next]_vars => TypeOK'
<1>. SUFFICES ASSUME TypeOK, [Next]_vars PROVE TypeOK'
  OBVIOUS
<1>. USE DEF TypeOK
<1>1. ASSUME NEW c \in Client, NEW x \in Context, CreateWorkflow(c, x)
      PROVE  TypeOK'
  <2>1. RuleAt(1) \in Rule \cup {NoRule}
    BY RuleAtType
  <2>. DEFINE e == [context |-> x, current |-> RuleAt(1), cursor |-> 2, matches |-> {}]
  <2>2. e \in Evaluation
    BY <2>1 DEF Evaluation
  <2>3. evals' = [evals EXCEPT ![c] = e] /\ rules' = rules
    BY <1>1 DEF CreateWorkflow, BeginEvaluation
  <2>. HIDE DEF e
  <2>4. RulesTypeOK'
    BY <2>2, <2>3 DEF RulesTypeOK
  <2>. QED
    BY <1>1, <2>4 DEF CreateWorkflow
<1>2. ASSUME NEW c \in Client, Evaluate(c) PROVE TypeOK'
  BY <1>2, VisitType DEF Evaluate
<1>3. ASSUME NEW c \in Client, NEW w \in Workflow, FinishCreate(c, w)
      PROVE  TypeOK'
  <2>1. evals[c].matches \in SUBSET RuleMatch
    BY <1>3 DEF FinishCreate, EvaluationDone, RulesTypeOK, Evaluation
  <2>2. 0 \in 0..(CleanupInterval + 1) /\ 0 \in 0..(Expiration + 1)
    BY WorkflowAssumption
  <2>3. NewWorkflow(evals[c].matches) \in WorkflowState
    BY <2>1, <2>2 DEF NewWorkflow, WorkflowState, Status
  <2>. QED
    BY <1>3, <2>3 DEF FinishCreate, EndEvaluation, RulesTypeOK
<1>4. ASSUME NEW c \in Client, FailCreate(c) PROVE TypeOK'
  BY <1>4 DEF FailCreate, EndEvaluation, RulesTypeOK
<1>5. ASSUME NEW w \in Workflow, NEW a \in Approver, SubmitApproval(w, a)
      PROVE  TypeOK'
  BY <1>5, WithApprovalType DEF SubmitApproval, ruleVars, RulesTypeOK
<1>6. ASSUME NEW w \in Workflow, ExpireOnSubmit(w) PROVE TypeOK'
  <2>1. [workflows[w] EXCEPT !.status = "expired"] \in WorkflowState
    BY DEF WorkflowState, Status
  <2>2. workflows' \in [Workflow -> WorkflowState]
    BY <1>6, <2>1 DEF ExpireOnSubmit
  <2>. QED
    BY <1>6, <2>2 DEF ExpireOnSubmit, ruleVars, RulesTypeOK
<1>7. ASSUME NEW c \in Client, NEW w \in Workflow, NEW a \in Approver,
             SubmitCrossChain(c, w, a)
      PROVE  TypeOK'
  BY <1>7 DEF SubmitCrossChain, ruleVars, RulesTypeOK
<1>8. ASSUME NEW c \in Client, ResumeCrossChain(c) PROVE TypeOK'
  <2>1. calls[c].workflow \in Workflow /\ calls[c].approver \in Approver
    BY <1>8 DEF ResumeCrossChain
  <2>. DEFINE w == calls[c].workflow
              counted == WithApproval(workflows[w], calls[c].approver)
  <2>2. counted \in WorkflowState
    BY <2>1, WithApprovalType
  <2>3. workflows' = workflows \/ workflows' = [workflows EXCEPT ![w] = counted]
    BY <1>8 DEF ResumeCrossChain
  <2>. HIDE DEF counted
  <2>4. workflows' \in [Workflow -> WorkflowState]
    BY <2>1, <2>2, <2>3
  <2>. QED
    BY <1>8, <2>4 DEF ResumeCrossChain, ruleVars, RulesTypeOK
<1>9. ASSUME NEW w \in Workflow, NEW a \in Approver, RejectWorkflow(w, a)
      PROVE  TypeOK'
  <2>1. 0 \in 0..(CleanupInterval + 1)
    BY WorkflowAssumption
  <2>2. [workflows[w] EXCEPT !.status = "rejected", !.idle = 0] \in WorkflowState
    BY <2>1 DEF WorkflowState, Status
  <2>3. workflows' \in [Workflow -> WorkflowState]
    BY <1>9, <2>2 DEF RejectWorkflow
  <2>. QED
    BY <1>9, <2>3 DEF RejectWorkflow, ruleVars, RulesTypeOK
<1>10. CASE CleanupExpiredWorkflows
  BY <1>10, CleanedType DEF CleanupExpiredWorkflows, ruleVars, RulesTypeOK
<1>11. CASE Tick
  BY <1>11, AgedType DEF Tick, ruleVars, RulesTypeOK
<1>12. CASE Stop
  BY <1>12 DEF Stop, ruleVars, RulesTypeOK
<1>13. CASE Edit
  BY <1>13, EditType DEF Edit
<1>14. CASE UNCHANGED vars
  BY <1>14 DEF vars, RulesTypeOK
<1>. QED
  BY <1>1, <1>2, <1>3, <1>4, <1>5, <1>6, <1>7, <1>8, <1>9, <1>10, <1>11,
     <1>12, <1>13, <1>14 DEF Next, Continue

\* Rules, evaluations, workflows and pending verifications of every reachable
\* state have the shapes declared for them.
THEOREM TypeCorrect == Spec => []TypeOK
<1>1. Init => TypeOK
  BY InitType
<1>2. TypeOK /\ [Next]_vars => TypeOK'
  BY StepType
<1>. QED
  BY <1>1, <1>2, PTL DEF Spec
-----------------------------------------------------------------------------
(***************************************************************************)
(* Counting approvals.  Sound says of one workflow what the invariants say *)
(* of all: every function a handler applies to a workflow preserves it.    *)
(***************************************************************************)
Sound(wf) ==
    /\ Counted(wf)
    /\ wf.status = "approved" => Satisfied(wf) /\ wf.approvals # {}
    /\ wf.status = "pending" /\ wf.approvals # {} => ~Satisfied(wf)

\* One more approver adds one to the approvals of the rules that name it.
LEMMA OneMore ==
    ASSUME NEW S \in SUBSET Approver, NEW A \in SUBSET Approver,
           NEW a \in Approver, a \notin S
    PROVE  /\ Cardinality(S \cap A) \in Nat
           /\ a \in A => Cardinality((S \cup {a}) \cap A) = Cardinality(S \cap A) + 1
           /\ a \notin A => Cardinality((S \cup {a}) \cap A) = Cardinality(S \cap A)
<1>1. IsFiniteSet(S \cap A)
  BY RulesAssumption, FS_Subset
<1>2. ASSUME a \in A
      PROVE  Cardinality((S \cup {a}) \cap A) = Cardinality(S \cap A) + 1
  <2>1. (S \cup {a}) \cap A = (S \cap A) \cup {a}
    BY <1>2
  <2>. QED
    BY <1>1, <2>1, FS_AddElement
<1>3. ASSUME a \notin A
      PROVE  (S \cup {a}) \cap A = S \cap A
  BY <1>3
<1>. QED
  BY <1>1, <1>2, <1>3, FS_CardinalityType

LEMMA ApprovalSound ==
    ASSUME NEW wf \in WorkflowState, Sound(wf),
           NEW a \in Approver, a \notin wf.approvals
    PROVE  Sound(WithApproval(wf, a))
<1>. DEFINE counted == CountedDown(wf.matches, a)
            new == WithApproval(wf, a)
<1>1. /\ new.approvals = wf.approvals \cup {a} /\ new.matches = counted
      /\ new.status = IF \E m \in counted : m.remaining <= 0
                      THEN "approved" ELSE wf.status
  BY DEF WithApproval, WorkflowState
<1>2. wf.approvals \in SUBSET Approver /\ wf.matches \in SUBSET RuleMatch
  BY DEF WorkflowState
<1>. HIDE DEF new, counted
<1>3. ASSUME NEW n \in counted
      PROVE  /\ n.remaining = n.required - Consenting(new, n)
             /\ Consenting(new, n) \in Nat /\ n.required \in Nat
  <2>1. PICK m \in wf.matches :
          n = [m EXCEPT !.remaining = IF a \in m.approvers THEN @ - 1 ELSE @]
    BY DEF CountedDown, counted
  <2>2. m \in RuleMatch
    BY <1>2
  <2>3. /\ n.approvers = m.approvers /\ n.required = m.required
        /\ n.remaining = IF a \in m.approvers THEN m.remaining - 1 ELSE m.remaining
    BY <2>1, <2>2 DEF RuleMatch
  <2>4. m.remaining = m.required - Cardinality(wf.approvals \cap m.approvers)
    BY DEF Sound, Counted, Consenting
  <2>5. m.approvers \in SUBSET Approver /\ m.required \in Nat
    BY <2>2 DEF RuleMatch
  <2>6. /\ Cardinality(wf.approvals \cap m.approvers) \in Nat
        /\ a \in m.approvers =>
             Consenting(new, n) = Cardinality(wf.approvals \cap m.approvers) + 1
        /\ a \notin m.approvers =>
             Consenting(new, n) = Cardinality(wf.approvals \cap m.approvers)
    BY <1>1, <1>2, <2>3, <2>5, OneMore DEF Consenting
  <2>. QED
    BY <2>3, <2>4, <2>5, <2>6
<1>4. Counted(new)
  BY <1>1, <1>3 DEF Counted
<1>5. Satisfied(new) <=> \E n \in counted : n.remaining <= 0
  BY <1>1, <1>3 DEF Satisfied
<1>6. Satisfied(wf) => \E n \in counted : n.remaining <= 0
  <2>1. ASSUME NEW m \in wf.matches, Consenting(wf, m) >= m.required
        PROVE  \E n \in counted : n.remaining <= 0
    <3>1. m.remaining = m.required - Consenting(wf, m)
      BY DEF Sound, Counted
    <3>2. m \in RuleMatch /\ m.required \in Nat /\ m.remaining \in Int
      BY <1>2 DEF RuleMatch
    <3>3. Consenting(wf, m) \in Nat
      BY <1>2, <3>2, OneMore DEF Consenting, RuleMatch
    <3>. DEFINE n == [m EXCEPT !.remaining = IF a \in m.approvers THEN @ - 1 ELSE @]
    <3>4. n \in counted
      BY DEF counted, CountedDown
    <3>5. n.remaining <= 0
      BY <2>1, <3>1, <3>2, <3>3 DEF RuleMatch
    <3>. QED
      BY <3>4, <3>5
  <2>. QED
    BY <2>1 DEF Satisfied
<1>7. new.approvals # {}
  BY <1>1
<1>. QED
  BY <1>1, <1>4, <1>5, <1>6, <1>7 DEF Sound, new

\* A change of status or of the clocks leaves the count alone.
LEMMA SameCount ==
    ASSUME NEW wf, NEW new, new.matches = wf.matches, new.approvals = wf.approvals
    PROVE  (Counted(new) <=> Counted(wf)) /\ (Satisfied(new) <=> Satisfied(wf))
BY DEF Counted, Satisfied, Consenting

LEMMA StatusSound ==
    ASSUME NEW wf, Sound(wf), NEW new,
           new.matches = wf.matches, new.approvals = wf.approvals,
           new.status = wf.status \/ new.status \notin {"approved", "pending"}
    PROVE  Sound(new)
BY SameCount DEF Sound

LEMMA NoWorkflowSound == Sound(NoWorkflow)
BY DEF Sound, Counted, NoWorkflow

LEMMA NewWorkflowSound ==
    ASSUME NEW found \in SUBSET RuleMatch, \A m \in found : m.remaining = m.required
    PROVE  Sound(NewWorkflow(found))
<1>1. ASSUME NEW m \in found
      PROVE  m.remaining = m.required - Consenting(NewWorkflow(found), m)
  <2>1. Consenting(NewWorkflow(found), m) = 0
    <3>1. NewWorkflow(found).approvals \cap m.approvers = {}
      BY DEF NewWorkflow
    <3>. QED
      BY <3>1, FS_EmptySet DEF Consenting
  <2>2. m.required \in Nat
    BY DEF RuleMatch
  <2>. QED
    BY <2>1, <2>2
<1>. QED
  BY <1>1 DEF Sound, Counted, NewWorkflow

LEMMA CleanedSound ==
    ASSUME NEW wf \in WorkflowState, Sound(wf)
    PROVE  Sound(Cleaned(wf))
<1>. DEFINE expired == [wf EXCEPT !.status = "expired", !.idle = 0]
<1>1. Sound(expired)
  BY StatusSound DEF WorkflowState
<1>2. Cleaned(wf) \in {wf, expired, NoWorkflow}
  BY DEF Cleaned
<1>. QED
  BY <1>1, <1>2, NoWorkflowSound

LEMMA AgedSound ==
    ASSUME NEW wf \in WorkflowState, Sound(wf)
    PROVE  Sound(Aged(wf))
BY StatusSound DEF Aged, WorkflowState

\* A step leaves every workflow alone or applies one of those functions to it.
LEMMA WorkflowStep ==
    ASSUME IInv, [Next]_vars, NEW w \in Workflow
    PROVE  \/ workflows'[w] = workflows[w]
           \/ \E c \in Client : /\ FinishCreate(c, w)
                               /\ workflows'[w] = NewWorkflow(evals[c].matches)
           \/ \E a \in Approver : /\ a \notin workflows[w].approvals
                                 /\ workflows'[w] = WithApproval(workflows[w], a)
           \/ \E s \in {"expired", "rejected"} :
                /\ workflows'[w].matches = workflows[w].matches
                /\ workflows'[w].approvals = workflows[w].approvals
                /\ workflows'[w].status = s
           \/ CleanupExpiredWorkflows /\ workflows'[w] = Cleaned(workflows[w])
           \/ workflows'[w] = Aged(workflows[w])
<1>. workflows \in [Workflow -> WorkflowState]
  BY DEF IInv, TypeOK
<1>1. ASSUME NEW c \in Client, NEW v \in Workflow, FinishCreate(c, v)
      PROVE  \/ workflows'[w] = workflows[w]
             \/ FinishCreate(c, w) /\ workflows'[w] = NewWorkflow(evals[c].matches)
  BY <1>1 DEF FinishCreate
<1>2. ASSUME NEW v \in Workflow, NEW a \in Approver, SubmitApproval(v, a)
      PROVE  \/ workflows'[w] = workflows[w]
             \/ /\ a \notin workflows[w].approvals
                /\ workflows'[w] = WithApproval(workflows[w], a)
  BY <1>2 DEF SubmitApproval, Acceptable
<1>3. ASSUME NEW v \in Workflow, ExpireOnSubmit(v)
      PROVE  \/ workflows'[w] = workflows[w]
             \/ /\ workflows'[w].matches = workflows[w].matches
                /\ workflows'[w].approvals = workflows[w].approvals
                /\ workflows'[w].status = "expired"
  BY <1>3 DEF ExpireOnSubmit, WorkflowState
<1>4. ASSUME NEW v \in Workflow, NEW a \in Approver, RejectWorkflow(v, a)
      PROVE  \/ workflows'[w] = workflows[w]
             \/ /\ workflows'[w].matches = workflows[w].matches
                /\ workflows'[w].approvals = workflows[w].approvals
                /\ workflows'[w].status = "rejected"
  <2>. DEFINE new == [workflows[v] EXCEPT !.status = "rejected", !.idle = 0]
  <2>1. workflows' = [workflows EXCEPT ![v] = new]
    BY <1>4 DEF RejectWorkflow
  <2>2. /\ new.matches = workflows[v].matches /\ new.approvals = workflows[v].approvals
        /\ new.status = "rejected"
    BY DEF WorkflowState
  <2>. HIDE DEF new
  <2>. QED
    BY <2>1, <2>2
<1>5. ASSUME NEW c \in Client, ResumeCrossChain(c)
      PROVE  \/ workflows'[w] = workflows[w]
             \/ \E a \in Approver : /\ a \notin workflows[w].approvals
                                   /\ workflows'[w] = WithApproval(workflows[w], a)
  <2>1. calls[c].workflow \in Workflow /\ calls[c].approver \in Approver
    BY <1>5 DEF ResumeCrossChain, IInv, TypeOK
  <2>2. \/ workflows' = workflows
        \/ /\ calls[c].approver \notin workflows[calls[c].workflow].approvals
           /\ workflows' = [workflows EXCEPT ![calls[c].workflow] =
                  WithApproval(workflows[calls[c].workflow], calls[c].approver)]
    BY <1>5 DEF ResumeCrossChain, Acceptable
  <2>. QED
    BY <2>1, <2>2
<1>6. CASE CleanupExpiredWorkflows
  BY <1>6 DEF CleanupExpiredWorkflows
<1>7. CASE Tick
  BY <1>7 DEF Tick
<1>8. ASSUME UNCHANGED workflows
      PROVE  workflows'[w] = workflows[w]
  BY <1>8
<1>. QED
  BY <1>1, <1>2, <1>3, <1>4, <1>5, <1>6, <1>7, <1>8
     DEF Next, Continue, CreateWorkflow, Evaluate, FailCreate, SubmitCrossChain,
         Stop, Edit, vars

LEMMA StepSound ==
    ASSUME IInv, [Next]_vars, NEW w \in Workflow
    PROVE  Sound(workflows'[w])
<1>1. workflows[w] \in WorkflowState /\ Sound(workflows[w])
  BY DEF IInv, TypeOK, ApprovalAccounting, QuorumBacked, NoMissedDecision,
         WithStatus, Pending, Sound
<1>2. ASSUME NEW c \in Client, FinishCreate(c, w)
      PROVE  Sound(NewWorkflow(evals[c].matches))
  <2>1. evals[c].matches \in SUBSET RuleMatch
    BY <1>2 DEF FinishCreate, EvaluationDone, IInv, TypeOK, RulesTypeOK, Evaluation
  <2>2. \A m \in evals[c].matches : m.remaining = m.required
    BY <1>2 DEF FinishCreate, EvaluationDone, IInv, MatchesUncounted
  <2>. QED
    BY <2>1, <2>2, NewWorkflowSound
<1>. QED
  BY <1>1, <1>2, WorkflowStep, ApprovalSound, StatusSound, CleanedSound, AgedSound

LEMMA StepTracked == IInv /\ [Next]_vars => CallsTracked'
<1>. SUFFICES ASSUME IInv, [Next]_vars, NEW c \in Client, calls'[c] # NoCall
              PROVE  CrossChain /\ workflows'[calls'[c].workflow].status # "none"
  BY DEF CallsTracked
<1>. DEFINE w == calls'[c].workflow
<1>1. calls'[c] \in [workflow: Workflow, approver: Approver]
  BY StepType DEF IInv, TypeOK
<1>2. w \in Workflow
  BY <1>1
<1>3. CrossChain /\ workflows[w].status # "none" /\ ~CleanupExpiredWorkflows
  <2>1. CASE calls'[c] = calls[c]
    BY <2>1 DEF IInv, CallsTracked, CleanupExpiredWorkflows, Quiescent, Idle
  <2>2. ASSUME NEW d \in Client, NEW v \in Workflow, NEW a \in Approver,
               SubmitCrossChain(d, v, a), calls'[c] # calls[c]
        PROVE  CrossChain /\ workflows[w].status # "none" /\ ~CleanupExpiredWorkflows
    <3>1. calls' = [calls EXCEPT ![d] = [workflow |-> v, approver |-> a]]
      BY <2>2 DEF SubmitCrossChain
    <3>2. c = d /\ w = v
      BY <2>2, <3>1 DEF IInv, TypeOK
    <3>3. workflows[v].status = "pending"
      BY <2>2 DEF SubmitCrossChain
    <3>4. ~CleanupExpiredWorkflows
      BY <2>2 DEF CleanupExpiredWorkflows
    <3>. QED
      BY <2>2, <3>2, <3>3, <3>4 DEF SubmitCrossChain
  <2>3. ASSUME NEW d \in Client, ResumeCrossChain(d), calls'[c] # calls[c]
        PROVE  FALSE
    BY <2>3 DEF ResumeCrossChain, IInv, TypeOK
  <2>. QED
    BY <2>1, <2>2, <2>3
       DEF Next, Continue, CreateWorkflow, Evaluate, FinishCreate, FailCreate,
           SubmitApproval, ExpireOnSubmit, RejectWorkflow, CleanupExpiredWorkflows,
           Tick, Stop, Edit, vars
<1>4. workflows[w] \in WorkflowState
  BY <1>2 DEF IInv, TypeOK
<1>5. /\ \A c1 \in Client : NewWorkflow(evals[c1].matches).status = "pending"
      /\ \A a \in Approver :
            WithApproval(workflows[w], a).status \in {"approved", workflows[w].status}
      /\ Aged(workflows[w]).status = workflows[w].status
  BY <1>4 DEF NewWorkflow, WithApproval, Aged, WorkflowState
<1>6. workflows'[w].status # "none"
  BY <1>2, <1>3, <1>5, WorkflowStep
<1>. QED
  BY <1>3, <1>6

LEMMA StepUncounted == IInv /\ [Next]_vars => MatchesUncounted'
<1>. SUFFICES ASSUME IInv, [Next]_vars PROVE MatchesUncounted'
  OBVIOUS
<1>1. ASSUME NEW c \in Client, VisitRule(c) PROVE MatchesUncounted'
  <2>1. evals[c] \in Evaluation /\ evals' = [evals EXCEPT ![c] = Advanced(evals[c])]
    BY <1>1 DEF VisitRule, IInv, TypeOK, RulesTypeOK
  <2>2. Advanced(evals[c]).matches = Collected(evals[c])
    BY <2>1 DEF Advanced, Evaluation
  <2>3. \A m \in Collected(evals[c]) : m.remaining = m.required
    BY <1>1 DEF Collected, MatchOf, IInv, MatchesUncounted, VisitRule
  <2>4. evals \in [Client -> Evaluation \cup {NoEval}]
    BY DEF IInv, TypeOK, RulesTypeOK
  <2>. QED
    BY <2>1, <2>2, <2>3, <2>4 DEF IInv, MatchesUncounted
<1>2. ASSUME NEW c \in Client, NEW x \in Context, BeginEvaluation(c, x)
      PROVE  MatchesUncounted'
  BY <1>2 DEF BeginEvaluation, IInv, TypeOK, RulesTypeOK, MatchesUncounted
<1>3. ASSUME NEW c \in Client, EndEvaluation(c)
      PROVE  MatchesUncounted'
  BY <1>3 DEF EndEvaluation, IInv, TypeOK, RulesTypeOK, MatchesUncounted
<1>4. ASSUME NEW id \in RuleId, DeleteRule(id)
      PROVE  MatchesUncounted'
  <2>1. PICK i : evals' = [c \in Client |-> CursorAfterDelete(evals[c], i)]
    BY <1>4 DEF DeleteRule
  <2>2. ASSUME NEW e \in Evaluation
        PROVE  CursorAfterDelete(e, i).matches = e.matches
    BY DEF CursorAfterDelete, Evaluation
  <2>3. CursorAfterDelete(NoEval, i) = NoEval
    BY DEF CursorAfterDelete
  <2>4. evals \in [Client -> Evaluation \cup {NoEval}]
    BY DEF IInv, TypeOK, RulesTypeOK
  <2>. QED
    BY <2>1, <2>2, <2>3, <2>4 DEF IInv, MatchesUncounted
<1>5. ASSUME UNCHANGED evals PROVE MatchesUncounted'
  BY <1>5 DEF IInv, MatchesUncounted
<1>. QED
  BY <1>1, <1>2, <1>3, <1>4, <1>5
     DEF Next, Continue, CreateWorkflow, Evaluate, FinishCreate, FailCreate,
         SubmitCrossChain, ResumeCrossChain, SubmitApproval, ExpireOnSubmit,
         RejectWorkflow, CleanupExpiredWorkflows, Tick, Stop, Edit, EditRules,
         AddRule, UpdateRule, ruleVars, vars

LEMMA Inductive == Spec => []IInv
<1>1. Init => IInv
  <2>. SUFFICES ASSUME Init PROVE IInv
    OBVIOUS
  <2>1. \A w \in Workflow : workflows[w] = NoWorkflow
    BY DEF Init
  <2>. QED
    BY <2>1, InitType, NoWorkflowSound
       DEF IInv, Init, RulesInit, ApprovalAccounting, QuorumBacked, NoMissedDecision,
           CallsTracked, MatchesUncounted, WithStatus, Pending, Sound, NoWorkflow
<1>2. IInv /\ [Next]_vars => IInv'
  <2>. SUFFICES ASSUME IInv, [Next]_vars PROVE IInv'
    OBVIOUS
  <2>1. TypeOK' /\ CallsTracked' /\ MatchesUncounted'
    BY StepType, StepTracked, StepUncounted DEF IInv
  <2>2. \A w \in Workflow : Sound(workflows'[w])
    BY StepSound
  <2>3. ApprovalAccounting' /\ QuorumBacked' /\ NoMissedDecision'
    BY <2>2 DEF ApprovalAccounting, QuorumBacked, NoMissedDecision, WithStatus,
                Pending, Sound, Counted, Satisfied, Consenting
  <2>. QED
    BY <2>1, <2>3 DEF IInv
<1>. QED
  BY <1>1, <1>2, PTL DEF Spec

\* The remaining-approvals counters always agree with the approvals.
THEOREM AccountingCorrect == Spec => []ApprovalAccounting
BY Inductive, PTL DEF IInv

\* An approved workflow has a quorum of distinct, authorised approvers.
THEOREM QuorumCorrect == Spec => []QuorumBacked
BY Inductive, PTL DEF IInv

\* A workflow with a quorum is never left pending.
THEOREM DecisionCorrect == Spec => []NoMissedDecision
BY Inductive, PTL DEF IInv

\* One step of a decided workflow: it stays, is deleted, or is approved by the
\* answer of a verification that was in flight.
LEMMA DecidedStep ==
    ASSUME IInv, [Next]_vars, NEW w \in Workflow,
           workflows[w].status \in {"approved", "rejected", "expired"}
    PROVE  \/ workflows'[w].status \in {workflows[w].status, "none"}
           \/ /\ workflows'[w].status = "approved"
              /\ \E c \in Client : /\ calls[c] # NoCall /\ calls'[c] = NoCall
                                  /\ calls[c].workflow = w
<1>. /\ workflows \in [Workflow -> WorkflowState]
     /\ calls \in [Client -> [workflow: Workflow, approver: Approver] \cup {NoCall}]
  BY DEF IInv, TypeOK
<1>1. ASSUME NEW c \in Client, NEW v \in Workflow, FinishCreate(c, v)
      PROVE  workflows'[w] = workflows[w]
  BY <1>1 DEF FinishCreate
<1>2. ASSUME NEW v \in Workflow,
             \/ \E a \in Approver : SubmitApproval(v, a) \/ RejectWorkflow(v, a)
             \/ ExpireOnSubmit(v)
      PROVE  workflows'[w] = workflows[w]
  BY <1>2 DEF SubmitApproval, RejectWorkflow, ExpireOnSubmit
<1>3. ASSUME NEW c \in Client, ResumeCrossChain(c)
      PROVE  \/ workflows'[w] = workflows[w]
             \/ /\ workflows'[w].status \in {workflows[w].status, "approved"}
                /\ calls[c] # NoCall /\ calls'[c] = NoCall /\ calls[c].workflow = w
  <2>1. calls[c] # NoCall /\ calls'[c] = NoCall /\ calls[c].workflow \in Workflow
    BY <1>3 DEF ResumeCrossChain
  <2>2. \/ workflows' = workflows
        \/ workflows' = [workflows EXCEPT ![calls[c].workflow] =
               WithApproval(workflows[calls[c].workflow], calls[c].approver)]
    BY <1>3 DEF ResumeCrossChain
  <2>3. WithApproval(workflows[w], calls[c].approver).status
            \in {workflows[w].status, "approved"}
    BY DEF WithApproval, WorkflowState
  <2>. QED
    BY <2>1, <2>2, <2>3
<1>4. ASSUME CleanupExpiredWorkflows
      PROVE  workflows'[w].status \in {workflows[w].status, "none"}
  <2>1. Cleaned(workflows[w]) \in {workflows[w], NoWorkflow}
    BY DEF Cleaned
  <2>. QED
    BY <1>4, <2>1 DEF CleanupExpiredWorkflows, NoWorkflow
<1>5. ASSUME Tick
      PROVE  workflows'[w].status = workflows[w].status
  BY <1>5 DEF Tick, Aged, WorkflowState
<1>6. ASSUME workflows'[w] = workflows[w]
      PROVE  workflows'[w].status \in {workflows[w].status, "none"}
  BY <1>6
<1>7. \/ workflows'[w] = workflows[w]
      \/ \E c \in Client : ResumeCrossChain(c)
      \/ CleanupExpiredWorkflows \/ Tick
  BY <1>1, <1>2
     DEF Next, Continue, CreateWorkflow, Evaluate, FailCreate, SubmitCrossChain,
         Stop, Edit, vars
<1>. QED
  BY <1>3, <1>4, <1>5, <1>6, <1>7

\* Decisions are final, but for cross-chain approvals that were being verified.
THEOREM ClosedCorrect == Spec => ClosedStaysClosed
<1>1. IInv /\ [Next]_vars =>
        [\A w \in WithStatus({"approved", "rejected", "expired"}) :
            \/ workflows'[w].status \in {workflows[w].status, "none"}
            \/ /\ workflows'[w].status = "approved"
               /\ \E c \in Client : /\ calls[c] # NoCall /\ calls'[c] = NoCall
                                    /\ calls[c].workflow = w]_vars
  BY DecidedStep DEF WithStatus
<1>. QED
  BY <1>1, Inductive, PTL DEF Spec, ClosedStaysClosed
-----------------------------------------------------------------------------
(***************************************************************************)
(* Refinement.  What a handler does to one workflow is a step of the       *)
(* proposal it represents; the abstract state depends on nothing else.     *)
(***************************************************************************)
LEMMA QuorumOfFields ==
    ASSUME NEW m
    PROVE  QuorumOf(m).approvers = m.approvers /\ QuorumOf(m).required = m.required
BY DEF QuorumOf

LEMMA SameCardinality ==
    ASSUME NEW S
    PROVE  QD!Cardinality(S) = Cardinality(S)
BY DEF QD!Cardinality, Cardinality

\* Counting an approval changes no policy, and approves exactly at a quorum.
LEMMA ApprovalVotes ==
    ASSUME NEW wf \in WorkflowState, Sound(wf),
           NEW a \in Approver, a \notin wf.approvals, wf.status # "none"
    PROVE  LET new == WithApproval(wf, a) IN
           /\ new.approvals = wf.approvals \cup {a}
           /\ PolicyOf(new) = PolicyOf(wf)
           /\ DecisionOf(new) = IF QD!HasQuorum(PolicyOf(wf), new.approvals)
                                THEN "approved" ELSE DecisionOf(wf)
<1>. DEFINE new == WithApproval(wf, a)
            counted == CountedDown(wf.matches, a)
<1>1. new \in WorkflowState /\ Sound(new)
  BY WithApprovalType, ApprovalSound
<1>2. /\ new.approvals = wf.approvals \cup {a} /\ new.matches = counted
      /\ new.status = IF \E m \in counted : m.remaining <= 0
                      THEN "approved" ELSE wf.status
  BY DEF WithApproval, WorkflowState
<1>. HIDE DEF new
<1>3. PolicyOf(new) = PolicyOf(wf)
  <2>1. wf.matches \in SUBSET RuleMatch
    BY DEF WorkflowState
  <2>2. ASSUME NEW m \in wf.matches
        PROVE  QuorumOf([m EXCEPT !.remaining = IF a \in m.approvers THEN @ - 1 ELSE @])
                 = QuorumOf(m)
    BY <2>1 DEF RuleMatch, QuorumOf
  <2>3. PolicyOf(new) = {QuorumOf(n) : n \in counted}
    BY <1>2 DEF PolicyOf
  <2>4. ASSUME NEW n \in counted PROVE QuorumOf(n) \in PolicyOf(wf)
    BY <2>2 DEF CountedDown, PolicyOf
  <2>5. ASSUME NEW m \in wf.matches PROVE QuorumOf(m) \in PolicyOf(new)
    BY <2>2, <2>3 DEF CountedDown
  <2>. QED
    BY <2>3, <2>4, <2>5 DEF PolicyOf
<1>4. Satisfied(new) <=> QD!HasQuorum(PolicyOf(new), new.approvals)
  <2>1. PolicyOf(new) = {QuorumOf(m) : m \in new.matches}
    BY DEF PolicyOf
  <2>2. ASSUME NEW m \in new.matches, Consenting(new, m) >= m.required
        PROVE  QD!HasQuorum(PolicyOf(new), new.approvals)
    <3>1. QuorumOf(m) \in PolicyOf(new)
      BY <2>1
    <3>. QED
      BY <2>2, <3>1, QuorumOfFields, SameCardinality DEF Consenting, QD!HasQuorum
  <2>3. ASSUME QD!HasQuorum(PolicyOf(new), new.approvals)
        PROVE  Satisfied(new)
    <3>1. PICK q \in PolicyOf(new) : Cardinality(new.approvals \cap q.approvers) >= q.required
      BY <2>3, SameCardinality DEF QD!HasQuorum
    <3>2. PICK m \in new.matches : q = QuorumOf(m)
      BY <2>1
    <3>. QED
      BY <3>1, <3>2, QuorumOfFields DEF Consenting, Satisfied
  <2>. QED
    BY <2>2, <2>3 DEF Satisfied
<1>5. Satisfied(new) <=> \E m \in counted : m.remaining <= 0
  <2>1. ASSUME NEW m \in counted
        PROVE  /\ m.remaining = m.required - Consenting(new, m)
               /\ m.required \in Nat /\ Consenting(new, m) \in Nat
    <3>1. m \in RuleMatch
      BY <1>1, <1>2 DEF WorkflowState
    <3>2. IsFiniteSet(new.approvals \cap m.approvers)
      BY <1>1, RulesAssumption, FS_Subset DEF WorkflowState
    <3>3. Consenting(new, m) \in Nat
      BY <3>2, FS_CardinalityType DEF Consenting
    <3>. QED
      BY <1>1, <1>2, <3>1, <3>3 DEF Sound, Counted, RuleMatch
  <2>. QED
    BY <1>2, <2>1 DEF Satisfied
<1>6. DecisionOf(new) = IF Satisfied(new) THEN "approved" ELSE DecisionOf(wf)
  BY <1>2, <1>5 DEF DecisionOf
<1>. QED
  BY <1>2, <1>3, <1>4, <1>6 DEF new

LEMMA InitRefines == Init => QD!Init
BY DEF Init, QD!Init, NoWorkflow, DecisionOf, PolicyOf

LEMMA OpenRefines ==
    ASSUME IInv, NEW c \in Client, NEW w \in Workflow, FinishCreate(c, w)
    PROVE  QD!Next
<1>. DEFINE new == NewWorkflow(evals[c].matches)
<1>1. /\ workflows[w].status = "none" /\ workflows' = [workflows EXCEPT ![w] = new]
      /\ workflows \in [Workflow -> WorkflowState]
      /\ evals[c].matches # {}
  BY DEF FinishCreate, IInv, TypeOK
<1>2. evals[c].matches \in SUBSET RuleMatch
  BY DEF FinishCreate, EvaluationDone, IInv, TypeOK, RulesTypeOK, Evaluation
<1>3. DecisionOf(workflows[w]) = "none" /\ DecisionOf(new) = "open" /\ new.approvals = {}
  BY <1>1 DEF DecisionOf, NewWorkflow
<1>4. PolicyOf(new) \in (SUBSET QD!QuorumRule) \ {{}}
  <2>1. PolicyOf(new) = {QuorumOf(m) : m \in evals[c].matches}
    BY DEF PolicyOf, NewWorkflow
  <2>2. ASSUME NEW m \in RuleMatch PROVE QuorumOf(m) \in QD!QuorumRule
    BY DEF QuorumOf, RuleMatch, QD!QuorumRule
  <2>. QED
    BY <1>1, <1>2, <2>1, <2>2
<1>. HIDE DEF new
<1>. QED
  BY <1>1, <1>3, <1>4 DEF QD!Open, QD!Next

LEMMA VoteRefines ==
    ASSUME IInv, NEW w \in Workflow, NEW a \in Approver,
           Acceptable(workflows[w], a),
           workflows[w].status = "pending" \/ (CrossChain /\ workflows[w].status # "none"),
           workflows' = [workflows EXCEPT ![w] = WithApproval(@, a)]
    PROVE  QD!Next
<1>. DEFINE new == WithApproval(workflows[w], a)
<1>1. workflows[w] \in WorkflowState /\ Sound(workflows[w]) /\ a \notin workflows[w].approvals
  BY DEF IInv, TypeOK, ApprovalAccounting, QuorumBacked, NoMissedDecision,
         WithStatus, Pending, Sound, Acceptable
<1>2. /\ new.approvals = workflows[w].approvals \cup {a}
      /\ PolicyOf(new) = PolicyOf(workflows[w])
      /\ DecisionOf(new) = IF QD!HasQuorum(PolicyOf(workflows[w]), new.approvals)
                           THEN "approved" ELSE DecisionOf(workflows[w])
  BY <1>1, ApprovalVotes
<1>3. \/ DecisionOf(workflows[w]) = "open"
      \/ CrossChain /\ DecisionOf(workflows[w]) # "none"
  BY DEF DecisionOf
<1>4. \E q \in PolicyOf(workflows[w]) : a \in q.approvers
  BY QuorumOfFields DEF Acceptable, Authorised, PolicyOf
<1>5. workflows \in [Workflow -> WorkflowState] /\ workflows' = [workflows EXCEPT ![w] = new]
  BY DEF IInv, TypeOK
<1>. HIDE DEF new
<1>6. QD!Vote(w, a)
  BY <1>1, <1>2, <1>3, <1>4, <1>5 DEF QD!Vote
<1>. QED
  BY <1>6 DEF QD!Next

\* Rejection and expiry on submission close one proposal.
LEMMA CloseRefines ==
    ASSUME IInv, NEW w \in Workflow, workflows[w].status = "pending",
           workflows'[w].status \in {"rejected", "expired"},
           workflows'[w].matches = workflows[w].matches,
           workflows'[w].approvals = workflows[w].approvals,
           \A v \in Workflow \ {w} : workflows'[v] = workflows[v]
    PROVE  QD!Next
<1>1. DecisionOf(workflows[w]) = "open" /\ DecisionOf(workflows'[w]) = "closed"
  BY DEF DecisionOf
<1>2. PolicyOf(workflows'[w]) = PolicyOf(workflows[w])
  BY DEF PolicyOf
<1>3. QD!Sweep({w}, {})
  BY <1>1, <1>2 DEF QD!Sweep
<1>. QED
  BY <1>3 DEF QD!Next

\* The timer closes what is overdue and forgets what was decided long ago.
LEMMA CleanupRefines ==
    ASSUME IInv, CleanupExpiredWorkflows
    PROVE  \E C, F \in SUBSET Workflow : QD!Sweep(C, F)
<1>. DEFINE C == {w \in Workflow : workflows[w].status = "pending" /\ Overdue(workflows[w])}
            F == {w \in Workflow : /\ workflows[w].status \in {"approved", "rejected", "expired"}
                                   /\ Stale(workflows[w])}
<1>1. /\ workflows \in [Workflow -> WorkflowState]
      /\ workflows' = [w \in Workflow |-> Cleaned(workflows[w])]
  BY DEF IInv, TypeOK, CleanupExpiredWorkflows
<1>2. /\ DecisionOf(NoWorkflow) = "none" /\ PolicyOf(NoWorkflow) = {}
      /\ NoWorkflow.approvals = {}
  BY DEF DecisionOf, PolicyOf, NoWorkflow
<1>3. ASSUME NEW w \in Workflow
      PROVE  /\ DecisionOf(workflows'[w]) = CASE w \in C -> "closed"
                                              [] w \in F -> "none"
                                              [] OTHER -> DecisionOf(workflows[w])
             /\ PolicyOf(workflows'[w]) = IF w \in F THEN {} ELSE PolicyOf(workflows[w])
             /\ workflows'[w].approvals = IF w \in F THEN {} ELSE workflows[w].approvals
  <2>. DEFINE wf == workflows[w]
              expired == [wf EXCEPT !.status = "expired", !.idle = 0]
  <2>1. wf \in WorkflowState /\ workflows'[w] = Cleaned(wf)
    BY <1>1
  <2>2. /\ expired.status = "expired" /\ expired.matches = wf.matches
        /\ expired.approvals = wf.approvals /\ expired.idle = 0
    BY <2>1 DEF WorkflowState
  <2>3. CASE w \in C
    <3>1. Cleaned(wf) = expired
      BY <2>2, <2>3, WorkflowAssumption DEF Cleaned, Stale
    <3>2. w \notin F
      BY <2>3
    <3>3. DecisionOf(expired) = "closed" /\ PolicyOf(expired) = PolicyOf(wf)
      BY <2>2 DEF DecisionOf, PolicyOf
    <3>. QED
      BY <2>1, <2>2, <2>3, <3>1, <3>2, <3>3
  <2>4. CASE w \in F
    <3>1. Cleaned(wf) = NoWorkflow /\ w \notin C
      BY <2>4 DEF Cleaned
    <3>. QED
      BY <1>2, <2>1, <2>4, <3>1
  <2>5. CASE w \notin C /\ w \notin F
    <3>1. Cleaned(wf) = wf
      BY <2>1, <2>5 DEF Cleaned, Stale, WorkflowState, Status
    <3>. QED
      BY <2>1, <2>5, <3>1
  <2>. QED
    BY <2>3, <2>4, <2>5
<1>4. \A w \in C : DecisionOf(workflows[w]) = "open"
  BY DEF DecisionOf
<1>5. \A w \in F : DecisionOf(workflows[w]) \in {"approved", "closed"}
  BY DEF DecisionOf
<1>6. C \in SUBSET Workflow /\ F \in SUBSET Workflow
  OBVIOUS
<1>. HIDE DEF C, F
<1>. QED
  BY <1>3, <1>4, <1>5, <1>6 DEF QD!Sweep

LEMMA TickRefines ==
    ASSUME IInv, Tick
    PROVE  UNCHANGED QD!vars
<1>1. ASSUME NEW w \in Workflow
      PROVE  /\ DecisionOf(workflows'[w]) = DecisionOf(workflows[w])
             /\ PolicyOf(workflows'[w]) = PolicyOf(workflows[w])
             /\ workflows'[w].approvals = workflows[w].approvals
  <2>1. workflows[w] \in WorkflowState /\ workflows'[w] = Aged(workflows[w])
    BY DEF IInv, TypeOK, Tick
  <2>2. /\ Aged(workflows[w]).status = workflows[w].status
        /\ Aged(workflows[w]).matches = workflows[w].matches
        /\ Aged(workflows[w]).approvals = workflows[w].approvals
    BY <2>1 DEF Aged, WorkflowState
  <2>. QED
    BY <2>1, <2>2 DEF DecisionOf, PolicyOf
<1>. QED
  BY <1>1 DEF QD!vars

LEMMA StepRefines == IInv /\ [Next]_vars => [QD!Next]_QD!vars
<1>. SUFFICES ASSUME IInv, [Next]_vars PROVE [QD!Next]_QD!vars
  OBVIOUS
<1>0. workflows \in [Workflow -> WorkflowState]
  BY DEF IInv, TypeOK
<1>1. ASSUME NEW c \in Client, NEW w \in Workflow, FinishCreate(c, w)
      PROVE  QD!Next
  BY <1>1, OpenRefines
<1>2. ASSUME NEW w \in Workflow, NEW a \in Approver, SubmitApproval(w, a)
      PROVE  QD!Next
  BY <1>2, VoteRefines DEF SubmitApproval
<1>3. ASSUME NEW w \in Workflow, ExpireOnSubmit(w)
      PROVE  QD!Next
  <2>1. /\ workflows[w].status = "pending" /\ workflows'[w].status = "expired"
        /\ workflows'[w].matches = workflows[w].matches
        /\ workflows'[w].approvals = workflows[w].approvals
        /\ \A v \in Workflow \ {w} : workflows'[v] = workflows[v]
    BY <1>0, <1>3 DEF ExpireOnSubmit, WorkflowState
  <2>. QED
    BY <2>1, CloseRefines
<1>4. ASSUME NEW w \in Workflow, NEW a \in Approver, RejectWorkflow(w, a)
      PROVE  QD!Next
  <2>. DEFINE new == [workflows[w] EXCEPT !.status = "rejected", !.idle = 0]
  <2>1. /\ new.status = "rejected" /\ new.matches = workflows[w].matches
        /\ new.approvals = workflows[w].approvals
    BY <1>0 DEF WorkflowState
  <2>2. workflows[w].status = "pending" /\ workflows' = [workflows EXCEPT ![w] = new]
    BY <1>4 DEF RejectWorkflow
  <2>. HIDE DEF new
  <2>3. workflows'[w] = new /\ \A v \in Workflow \ {w} : workflows'[v] = workflows[v]
    BY <1>0, <2>2
  <2>. QED
    BY <2>1, <2>2, <2>3, CloseRefines
<1>5. ASSUME NEW c \in Client, ResumeCrossChain(c)
      PROVE  QD!Next \/ UNCHANGED QD!vars
  <2>. DEFINE w == calls[c].workflow
              a == calls[c].approver
  <2>1. w \in Workflow /\ a \in Approver /\ workflows[w].status # "none"
    BY <1>5 DEF ResumeCrossChain, IInv, TypeOK, CallsTracked
  <2>2. CASE UNCHANGED workflows
    BY <2>2 DEF QD!vars
  <2>3. CASE /\ Acceptable(workflows[w], a)
             /\ workflows' = [workflows EXCEPT ![w] = WithApproval(@, a)]
    <3>1. CrossChain
      BY <1>5 DEF ResumeCrossChain, IInv, CallsTracked
    <3>. QED
      BY <2>1, <2>3, <3>1, VoteRefines
  <2>. QED
    BY <1>5, <2>2, <2>3 DEF ResumeCrossChain
<1>6. CASE CleanupExpiredWorkflows
  BY <1>6, CleanupRefines DEF QD!Next
<1>7. CASE Tick
  BY <1>7, TickRefines
<1>8. CASE UNCHANGED workflows
  BY <1>8 DEF QD!vars
<1>. QED
  BY <1>1, <1>2, <1>3, <1>4, <1>5, <1>6, <1>7, <1>8
     DEF Next, Continue, CreateWorkflow, Evaluate, FailCreate, SubmitCrossChain,
         Stop, Edit, vars

\* WorkflowManager implements QuorumDecision; without cross-chain approvals it
\* implements the version in which every decision is final.
THEOREM Refinement == Spec => ImplementsQuorumDecision
<1>1. Init => QD!Init
  BY InitRefines
<1>2. IInv /\ [Next]_vars => [QD!Next]_QD!vars
  BY StepRefines
<1>. QED
  BY <1>1, <1>2, Inductive, PTL DEF Spec, ImplementsQuorumDecision, QD!Spec
=============================================================================
