-------------------------- MODULE MultisigWorkflow --------------------------
(***************************************************************************)
(* WorkflowManager of packages/plugin-multisig over the RuleEngine of      *)
(* MultisigRules: approval workflows that are created, approved locally or *)
(* across chains, rejected, expired and cleaned up.                        *)
(*                                                                         *)
(* JavaScript runs one handler at a time; handlers interleave only where   *)
(* they await.  createWorkflow awaits the rule evaluation and              *)
(* submitCrossChainApproval the signature verification: each is a starting *)
(* action and a continuation.  Both continuations are microtasks, so the   *)
(* interval timer that cleans up fires only when no call is in flight.     *)
(*                                                                         *)
(* Time is relative: age and idle count the ticks since creation and last  *)
(* update of a workflow, up to one past the limit they are compared with.  *)
(***************************************************************************)
EXTENDS MultisigRules

CONSTANTS Workflow,         \* slots of the workflows Map
          MaxPending,       \* config.maxPendingWorkflows
          Expiration,       \* config.defaultExpiration, in ticks
          CleanupInterval,  \* config.cleanupInterval, in ticks
          CrossChain,       \* do callers use submitCrossChainApproval?
          NoCall

ASSUME WorkflowAssumption ==
    /\ IsFiniteSet(Workflow)
    /\ MaxPending \in Nat \ {0}
    /\ Expiration \in Nat \ {0} /\ CleanupInterval \in Nat \ {0}
    /\ CrossChain \in BOOLEAN
    /\ NoCall \notin [workflow: Workflow, approver: Approver]

VARIABLES workflows,  \* the Map; status "none" marks a free slot
          calls,      \* client -> its pending cross-chain verification
          stopped     \* stop() cleared the cleanup timer

vars == <<rules, evals, workflows, calls, stopped>>

Status == {"none", "pending", "approved", "rejected", "expired"}

WorkflowState == [status: Status, matches: SUBSET RuleMatch,
                  approvals: SUBSET Approver,
                  age: 0..(Expiration + 1), idle: 0..(CleanupInterval + 1)]

NoWorkflow == [status |-> "none", matches |-> {}, approvals |-> {},
               age |-> 0, idle |-> 0]

WithStatus(S) == {w \in Workflow : workflows[w].status \in S}
Pending == WithStatus({"pending"})
Creating == {c \in Client : evals[c] # NoEval}
Idle(c) == evals[c] = NoEval /\ calls[c] = NoCall
Quiescent == \A c \in Client : Idle(c)

Overdue(wf) == wf.age > Expiration
Stale(wf) == wf.status \notin {"none", "pending"} /\ wf.idle > CleanupInterval

Authorised(wf, a) == \E m \in wf.matches : a \in m.approvers

Init ==
    /\ RulesInit
    /\ workflows = [w \in Workflow |-> NoWorkflow]
    /\ calls = [c \in Client |-> NoCall]
    /\ stopped = FALSE
-----------------------------------------------------------------------------
(***************************************************************************)
(* createWorkflow                                                          *)
(***************************************************************************)
\* The limit is checked before the evaluation is awaited.  (Bound: there is a
\* free slot for every creation in flight.)
CreateWorkflow(c, x) ==
    /\ Idle(c)
    /\ Cardinality(Pending) < MaxPending
    /\ Cardinality(Creating) < Cardinality(WithStatus({"none"}))
    /\ BeginEvaluation(c, x)
    /\ UNCHANGED <<workflows, calls, stopped>>

Evaluate(c) == VisitRule(c) /\ UNCHANGED <<workflows, calls, stopped>>

\* Mutation: the timestamps of a new workflow are left out.
NewWorkflowUndated(found) ==
    [status |-> "pending", matches |-> found, approvals |-> {}]

NewWorkflow(found) ==
    [status |-> "pending", matches |-> found, approvals |-> {},
     age |-> 0, idle |-> 0]

FinishCreate(c, w) ==
    /\ EvaluationDone(c)
    /\ evals[c].matches # {}
    /\ workflows[w].status = "none"
    /\ workflows' = [workflows EXCEPT ![w] = NewWorkflow(evals[c].matches)]
    /\ EndEvaluation(c)
    /\ UNCHANGED <<calls, stopped>>

\* "No matching rules found for the given context"
FailCreate(c) ==
    /\ EvaluationDone(c)
    /\ evals[c].matches = {}
    /\ EndEvaluation(c)
    /\ UNCHANGED <<workflows, calls, stopped>>
-----------------------------------------------------------------------------
(***************************************************************************)
(* Approvals                                                               *)
(***************************************************************************)
\* Mutation: an approval counts for every matched rule, named there or not.
CountedDownAll(matches, a) == {[m EXCEPT !.remaining = @ - 1] : m \in matches}

\* Every matched rule that names the approver needs one approval less.
CountedDown(matches, a) ==
    {[m EXCEPT !.remaining = IF a \in m.approvers THEN @ - 1 ELSE @] :
        m \in matches}

\* Mutation: approval waits for the counter to fall below zero.
WithApprovalBelowZero(wf, a) ==
    LET counted == CountedDown(wf.matches, a) IN
    [wf EXCEPT !.approvals = @ \cup {a}, !.matches = counted, !.idle = 0,
               !.status = IF \E m \in counted : m.remaining < 0
                          THEN "approved" ELSE @]

WithApproval(wf, a) ==
    LET counted == CountedDown(wf.matches, a) IN
    [wf EXCEPT !.approvals = @ \cup {a},
               !.matches = counted,
               !.idle = 0,
               !.status = IF \E m \in counted : m.remaining <= 0
                          THEN "approved" ELSE @]

\* Mutation: the duplicate check is dropped.
AcceptableAgain(wf, a) == Authorised(wf, a)

\* The checks that follow the verification of either kind of signature.
Acceptable(wf, a) == a \notin wf.approvals /\ Authorised(wf, a)

\* submitApproval with a valid token: no await, hence one step.  With an
\* invalid one it throws and changes nothing.
SubmitApproval(w, a) ==
    /\ workflows[w].status = "pending" /\ ~Overdue(workflows[w])
    /\ Acceptable(workflows[w], a)
    /\ workflows' = [workflows EXCEPT ![w] = WithApproval(@, a)]
    /\ UNCHANGED <<ruleVars, calls, stopped>>

\* Either submission finds the workflow overdue, marks it and throws;
\* updatedAt keeps its value.
ExpireOnSubmit(w) ==
    /\ workflows[w].status = "pending" /\ Overdue(workflows[w])
    /\ workflows' = [workflows EXCEPT ![w].status = "expired"]
    /\ UNCHANGED <<ruleVars, calls, stopped>>

\* submitCrossChainApproval up to the await of the verification.
SubmitCrossChain(c, w, a) ==
    /\ CrossChain
    /\ Idle(c)
    /\ workflows[w].status = "pending" /\ ~Overdue(workflows[w])
    /\ calls' = [calls EXCEPT ![c] = [workflow |-> w, approver |-> a]]
    /\ UNCHANGED <<ruleVars, workflows, stopped>>

\* The verification has answered.  A valid signature is counted after the
\* duplicate and permission checks; status and expiry are not read again.
ResumeCrossChain(c) ==
    /\ calls[c] # NoCall
    /\ calls' = [calls EXCEPT ![c] = NoCall]
    /\ LET w == calls[c].workflow
           a == calls[c].approver
       IN  \/ /\ Acceptable(workflows[w], a)
              /\ workflows' = [workflows EXCEPT ![w] = WithApproval(@, a)]
           \/ UNCHANGED workflows   \* invalid signature, or a check throws
    /\ UNCHANGED <<ruleVars, stopped>>

\* Mutation: the status check of rejectWorkflow is dropped.
RejectAnyStatus(w, a) ==
    /\ workflows[w].status # "none"
    /\ Authorised(workflows[w], a)
    /\ workflows' = [workflows EXCEPT ![w].status = "rejected", ![w].idle = 0]
    /\ UNCHANGED <<ruleVars, calls, stopped>>

RejectWorkflow(w, a) ==
    /\ workflows[w].status = "pending"
    /\ Authorised(workflows[w], a)
    /\ workflows' = [workflows EXCEPT ![w].status = "rejected", ![w].idle = 0]
    /\ UNCHANGED <<ruleVars, calls, stopped>>
-----------------------------------------------------------------------------
(***************************************************************************)
(* Time and cleanup                                                        *)
(***************************************************************************)
\* Mutation: the cleanup loop deletes but does not expire.
CleanedDecidedOnly(wf) == IF Stale(wf) THEN NoWorkflow ELSE wf

\* One workflow in the loop of cleanupExpiredWorkflows: expire, then delete.
Cleaned(wf) ==
    LET expired == IF wf.status = "pending" /\ Overdue(wf)
                   THEN [wf EXCEPT !.status = "expired", !.idle = 0] ELSE wf
    IN  IF Stale(expired) THEN NoWorkflow ELSE expired

CleanupExpiredWorkflows ==
    /\ ~stopped /\ Quiescent
    /\ workflows' = [w \in Workflow |-> Cleaned(workflows[w])]
    /\ UNCHANGED <<ruleVars, calls, stopped>>

Aged(wf) ==
    IF wf.status = "none" THEN wf
    ELSE [wf EXCEPT !.age = IF @ > Expiration THEN @ ELSE @ + 1,
                    !.idle = IF @ > CleanupInterval THEN @ ELSE @ + 1]

Tick ==
    /\ workflows' = [w \in Workflow |-> Aged(workflows[w])]
    /\ UNCHANGED <<ruleVars, calls, stopped>>

Stop == stopped' = TRUE /\ UNCHANGED <<ruleVars, workflows, calls>>

Edit == EditRules /\ UNCHANGED <<workflows, calls, stopped>>
-----------------------------------------------------------------------------
Continue(c) ==
    \/ Evaluate(c)
    \/ \E w \in Workflow : FinishCreate(c, w)
    \/ FailCreate(c)
    \/ ResumeCrossChain(c)

Next ==
    \/ \E c \in Client :
        \/ \E x \in Context : CreateWorkflow(c, x)
        \/ \E w \in Workflow, a \in Approver : SubmitCrossChain(c, w, a)
        \/ Continue(c)
    \/ \E w \in Workflow :
        \/ \E a \in Approver : SubmitApproval(w, a) \/ RejectWorkflow(w, a)
        \/ ExpireOnSubmit(w)
    \/ CleanupExpiredWorkflows \/ Tick \/ Stop \/ Edit

Spec == Init /\ [][Next]_vars

(***************************************************************************)
(* Promises are settled, time passes, and the interval timer fires again   *)
(* and again until it is cleared.                                          *)
(***************************************************************************)
Fairness ==
    /\ \A c \in Client : WF_vars(Continue(c))
    /\ WF_vars(Tick)
    /\ SF_vars(CleanupExpiredWorkflows)

FairSpec == Spec /\ Fairness
-----------------------------------------------------------------------------
(***************************************************************************)
(* Properties                                                              *)
(***************************************************************************)
TypeOK ==
    /\ RulesTypeOK
    /\ workflows \in [Workflow -> WorkflowState]
    /\ calls \in [Client -> [workflow: Workflow, approver: Approver] \cup {NoCall}]
    /\ stopped \in BOOLEAN

Consenting(wf, m) == Cardinality(wf.approvals \cap m.approvers)

Counted(wf) ==
    \A m \in wf.matches : m.remaining = m.required - Consenting(wf, m)

Satisfied(wf) == \E m \in wf.matches : Consenting(wf, m) >= m.required

\* The counters that submitApproval and submitCrossChainApproval decrement
\* agree with the list of approvals: however local and cross-chain approvals
\* interleave, no approver is counted twice and none is missed.
ApprovalAccounting == \A w \in Workflow : Counted(workflows[w])

\* An approved workflow has the approvals some matched rule asked for, from
\* distinct approvers of that rule (the decision of lines 163-170, 379-386).
QuorumBacked ==
    \A w \in WithStatus({"approved"}) :
        Satisfied(workflows[w]) /\ workflows[w].approvals # {}

\* No decision is missed: a workflow with approvals that satisfy one of its
\* matched rules is never left pending.
NoMissedDecision ==
    \A w \in Pending : workflows[w].approvals # {} => ~Satisfied(workflows[w])

\* A decided workflow is never pending again, and leaves its status only by
\* deletion or because a cross-chain approval that was being verified approves
\* it; an approved one is never rejected or expired.
ClosedStaysClosed ==
    [][\A w \in WithStatus({"approved", "rejected", "expired"}) :
        \/ workflows'[w].status \in {workflows[w].status, "none"}
        \/ /\ workflows'[w].status = "approved"
           /\ \E c \in Client : /\ calls[c] # NoCall /\ calls'[c] = NoCall
                                /\ calls[c].workflow = w]_vars

\* What the proofs add to make these inductive: a verification in flight keeps
\* its workflow in the Map, and the matches of an evaluation are uncounted.
CallsTracked ==
    \A c \in Client :
        calls[c] # NoCall =>
            CrossChain /\ workflows[calls[c].workflow].status # "none"

MatchesUncounted ==
    \A c \in Client :
        evals[c] # NoEval => \A m \in evals[c].matches : m.remaining = m.required

IInv ==
    /\ TypeOK
    /\ ApprovalAccounting
    /\ QuorumBacked
    /\ NoMissedDecision
    /\ CallsTracked
    /\ MatchesUncounted

\* "Maximum pending workflows limit reached" (manager.ts:79): no more than
\* maxPendingWorkflows are pending.
PendingLimitRespected == Cardinality(Pending) <= MaxPending

\* "Workflow ... is not pending" (manager.ts:312): only a pending workflow
\* receives approvals.
OnlyPendingReceiveApprovals ==
    [][\A w \in Workflow :
        workflows'[w].approvals \ workflows[w].approvals # {} =>
            workflows[w].status = "pending"]_vars

\* Workflows implement QuorumDecision: the policy is what the rules said when
\* the workflow was created, whatever administrators edit afterwards.
DecisionOf(wf) ==
    CASE wf.status = "pending" -> "open"
      [] wf.status \in {"rejected", "expired"} -> "closed"
      [] OTHER -> wf.status

QuorumOf(m) == [approvers |-> m.approvers, required |-> m.required]

PolicyOf(wf) == {QuorumOf(m) : m \in wf.matches}

QD == INSTANCE QuorumDecision WITH
    Proposal <- Workflow, Voter <- Approver, LateVotes <- CrossChain,
    decision <- [w \in Workflow |-> DecisionOf(workflows[w])],
    policy <- [w \in Workflow |-> PolicyOf(workflows[w])],
    votes <- [w \in Workflow |-> workflows[w].approvals]

ImplementsQuorumDecision == QD!Spec

\* The event loop drains its microtasks again and again.
EventLoopDrains == []<>Quiescent

\* A workflow does not stay for ever: a pending one is decided, or expired by
\* the timer when the approvals never come, and a decided one is deleted (unless
\* the manager is stopped).
WorkflowsEnd ==
    EventLoopDrains => \A w \in Workflow :
        workflows[w].status # "none" ~> workflows[w].status = "none" \/ stopped
=============================================================================
