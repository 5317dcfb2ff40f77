--------------------------- MODULE QuorumDecision ---------------------------
(***************************************************************************)
(* What approval workflows promise: each proposal has a policy, a set of   *)
(* quorums fixed when it is opened; authorised voters vote at most once;   *)
(* the proposal is approved by the very vote that completes a quorum and   *)
(* otherwise may be closed.  With LateVotes a vote may also be counted     *)
(* after the decision, and may then still approve a closed proposal.       *)
(***************************************************************************)
EXTENDS Integers, FiniteSets

CONSTANTS Proposal, Voter,
          LateVotes    \* may votes arrive after the decision?

VARIABLES decision,    \* "none", "open", "approved" or "closed"
          policy,      \* the quorums, records [approvers, required]
          votes        \* who has voted

vars == <<decision, policy, votes>>

QuorumRule == [approvers: SUBSET Voter, required: Nat]

Init ==
    /\ decision = [p \in Proposal |-> "none"]
    /\ policy = [p \in Proposal |-> {}]
    /\ votes = [p \in Proposal |-> {}]

Open(p) ==
    /\ decision[p] = "none"
    /\ policy'[p] \in (SUBSET QuorumRule) \ {{}}
    /\ policy' = [policy EXCEPT ![p] = policy'[p]]
    /\ decision' = [decision EXCEPT ![p] = "open"]
    /\ votes' = [votes EXCEPT ![p] = {}]

HasQuorum(quorums, voters) ==
    \E q \in quorums : Cardinality(voters \cap q.approvers) >= q.required

Vote(p, v) ==
    /\ decision[p] = "open" \/ (LateVotes /\ decision[p] # "none")
    /\ v \notin votes[p]
    /\ \E q \in policy[p] : v \in q.approvers
    /\ votes' = [votes EXCEPT ![p] = @ \cup {v}]
    /\ decision' = [decision EXCEPT ![p] =
                      IF HasQuorum(policy[p], votes'[p]) THEN "approved" ELSE @]
    /\ UNCHANGED policy

\* Open proposals C are closed (rejected, expired) and decided ones F are
\* forgotten, in one step.
Sweep(C, F) ==
    /\ \A p \in C : decision[p] = "open"
    /\ \A p \in F : decision[p] \in {"approved", "closed"}
    /\ decision' = [p \in Proposal |-> CASE p \in C -> "closed"
                                         [] p \in F -> "none"
                                         [] OTHER -> decision[p]]
    /\ policy' = [p \in Proposal |-> IF p \in F THEN {} ELSE policy[p]]
    /\ votes' = [p \in Proposal |-> IF p \in F THEN {} ELSE votes[p]]

Next ==
    \/ \E p \in Proposal : Open(p)
    \/ \E p \in Proposal, v \in Voter : Vote(p, v)
    \/ \E C, F \in SUBSET Proposal : Sweep(C, F)

Spec == Init /\ [][Next]_vars
=============================================================================
