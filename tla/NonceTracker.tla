---------------------------- MODULE NonceTracker ----------------------------
(***************************************************************************)
(* The nonces of TransactionProcessorTool, packages/plugin-token-analysis: *)
(* nonceTracker and pendingTransactions are keyed by sender; this is what  *)
(* happens for one of them.                                                *)
(*                                                                         *)
(* Several sendTransaction calls run at a time, each suspended in requests *)
(* to the node.  The node is external: it counts the mined transactions of *)
(* the sender, refuses a nonce that is used up, and keeps one transaction  *)
(* per nonce, the older or, for a better price, the newer.  The sender may *)
(* also send from elsewhere.                                               *)
(***************************************************************************)
EXTENDS Integers, FiniteSets

CONSTANTS Sender,       \* sendTransaction calls that run at a time
          MaxNonce,     \* bound: transactions the sender's account mines
          NoNonce

ASSUME NonceAssumption ==
    /\ IsFiniteSet(Sender) /\ MaxNonce \in Nat /\ NoNonce \notin Nat

VARIABLES tracked,   \* nonceTracker's entry, or NoNonce
          pending,   \* pendingTransactions' entry: "none", "recent" or "overdue"
          calls,     \* call -> where it is suspended, and with which nonce
          chain,     \* external: transactions mined for the account
          pool       \* external: calls whose transaction waits at the node

nonceVars == <<tracked, pending, calls, chain, pool>>

Stage == {"idle", "asking", "answered", "prepared", "waiting", "mined", "reverted"}

Call(stage, n) == [stage |-> stage, nonce |-> n]

At(c, stage) == calls[c].stage = stage

Moves(c, stage, n) == calls' = [calls EXCEPT ![c] = Call(stage, n)]

NonceInit ==
    /\ tracked = NoNonce /\ pending = "none"
    /\ calls = [c \in Sender |-> Call("idle", NoNonce)]
    /\ chain \in 0..MaxNonce /\ pool = {}

\* sendTransaction, through getNextNonce.  A tracked nonce is used again by
\* every call until a receipt, or an overdue transaction, moves the tracker.
SendTransaction(c) ==
    /\ At(c, "idle")
    /\ IF tracked = NoNonce \/ pending = "overdue"
       THEN Moves(c, "asking", NoNonce)
       ELSE Moves(c, "prepared", tracked)
    /\ pending' = IF tracked # NoNonce /\ pending = "overdue" THEN "none" ELSE pending
    /\ UNCHANGED <<tracked, chain, pool>>

\* refreshNonce.  The count is as old as the answer's way is long.
CountIsRead(c) ==
    /\ At(c, "asking") /\ Moves(c, "answered", chain)
    /\ UNCHANGED <<tracked, pending, chain, pool>>

NonceRefreshed(c) ==
    /\ At(c, "answered") /\ tracked' = calls[c].nonce
    /\ Moves(c, "prepared", calls[c].nonce)
    /\ UNCHANGED <<pending, chain, pool>>

\* A request to the node fails: the count, the gas estimate, the transaction or
\* the receipt.
RequestFails(c) ==
    /\ calls[c].stage \in {"asking", "prepared", "mined", "reverted"}
    /\ Moves(c, "idle", NoNonce)
    /\ UNCHANGED <<tracked, pending, chain, pool>>

SameNonce(c) == {d \in pool : calls[d].nonce = calls[c].nonce}

\* Mutation: the tracker moves on when the transaction is sent.
SubmittedAndTracked(c) ==
    /\ At(c, "prepared") /\ calls[c].nonce >= chain
    /\ pool' = (pool \ SameNonce(c)) \cup {c}
    /\ pending' = "recent" /\ tracked' = calls[c].nonce + 1
    /\ Moves(c, "waiting", calls[c].nonce)
    /\ UNCHANGED chain

\* The node takes it, in place of one with the same nonce, if any.
Submitted(c) ==
    /\ At(c, "prepared") /\ calls[c].nonce >= chain
    /\ pool' = (pool \ SameNonce(c)) \cup {c}
    /\ pending' = "recent"
    /\ Moves(c, "waiting", calls[c].nonce)
    /\ UNCHANGED <<tracked, chain>>

Mined(c, stage) ==
    /\ c \in pool /\ calls[c].nonce = chain /\ chain < MaxNonce
    /\ chain' = chain + 1 /\ pool' = pool \ {c}
    /\ Moves(c, stage, calls[c].nonce)
    /\ UNCHANGED <<tracked, pending>>

\* A transaction of the account that was sent from elsewhere.  One that waits
\* with its nonce will never be mined; its call never ends.
MinedElsewhere ==
    /\ chain < MaxNonce /\ chain' = chain + 1
    /\ pool' = {c \in pool : calls[c].nonce # chain}
    /\ UNCHANGED <<tracked, pending, calls>>

\* The receipt: only a successful one moves the tracker, back if need be.
ReceiptArrives(c) ==
    /\ calls[c].stage \in {"mined", "reverted"}
    /\ tracked' = IF At(c, "mined") THEN calls[c].nonce + 1 ELSE tracked
    /\ Moves(c, "idle", NoNonce)
    /\ UNCHANGED <<pending, chain, pool>>

\* pendingTxTimeout passes.
PendingAges ==
    /\ pending = "recent" /\ pending' = "overdue"
    /\ UNCHANGED <<tracked, calls, chain, pool>>

ClearPendingTransactions ==
    pending' = "none" /\ UNCHANGED <<tracked, calls, chain, pool>>

ClearNonceCache ==
    tracked' = NoNonce /\ UNCHANGED <<pending, calls, chain, pool>>

NonceNext ==
    \/ \E c \in Sender : \/ SendTransaction(c) \/ CountIsRead(c) \/ NonceRefreshed(c)
                         \/ RequestFails(c) \/ Submitted(c) \/ ReceiptArrives(c)
                         \/ \E stage \in {"mined", "reverted"} : Mined(c, stage)
    \/ MinedElsewhere \/ PendingAges \/ ClearPendingTransactions \/ ClearNonceCache

NonceSpec == NonceInit /\ [][NonceNext]_nonceVars
-----------------------------------------------------------------------------
NonceTypeOK ==
    /\ tracked \in 0..MaxNonce \cup {NoNonce}
    /\ pending \in {"none", "recent", "overdue"}
    /\ calls \in [Sender -> [stage: Stage, nonce: 0..MaxNonce \cup {NoNonce}]]
    /\ chain \in 0..MaxNonce /\ pool \in SUBSET Sender

\* However old the counts and receipts are that it is set from, the tracker never
\* runs ahead of the account: no transaction is sent with a nonce that leaves a
\* gap and waits at the node for ones nobody will send.
NoNonceGap ==
    /\ tracked # NoNonce => tracked <= chain
    /\ \A c \in pool : calls[c].nonce = chain
=============================================================================
