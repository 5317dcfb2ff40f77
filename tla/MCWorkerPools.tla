---------------------------- MODULE MCWorkerPools ----------------------------
(***************************************************************************)
(* The three pools of worker threads of packages/core, one of them behind  *)
(* a balancer.  They share nothing: a behaviour is one of a single pool,   *)
(* or of the balancer with its pools (part).                               *)
(***************************************************************************)
EXTENDS WorkerPool, MonitorPool, PoolBalancer, TLC

CONSTANTS t1, t2, j1, j2, j3, j4, q1, q2

VARIABLE part

mcVars == <<part, poolVars, monitorVars, balancerVars>>

\* t1 is retried twice, and t2, more urgent, never.
Priorities == (t1 :> 1) @@ (t2 :> 2)
Retries == (t1 :> 2) @@ (t2 :> 0)

\* NORMAL, LOW, HIGH and CRITICAL
JobPriorities == (j1 :> 1) @@ (j2 :> 0) @@ (j3 :> 2) @@ (j4 :> 3)

\* A pool of two threads and a pool of one.
Sizes == (q1 :> 2) @@ (q2 :> 1)

MCInit ==
    /\ part \in {"pool", "monitor", "balancer"}
    /\ PoolInit /\ MonitorInit /\ BalancerInit
    /\ part # "balancer" => strategy = "weighted"

MCNext ==
    \/ part = "pool" /\ PoolNext /\ UNCHANGED <<part, monitorVars, balancerVars>>
    \/ part = "monitor" /\ MonitorNext /\ UNCHANGED <<part, poolVars, balancerVars>>
    \/ part = "balancer" /\ BalancerNext /\ UNCHANGED <<part, poolVars, monitorVars>>

MCSpec == MCInit /\ [][MCNext]_mcVars

\* The pools keep states of their types.
PoolsTypeOK == PoolTypeOK /\ MonitorTypeOK /\ BalancerTypeOK
=============================================================================
