------------------------ MODULE MCParallelScheduler ------------------------
(* Instances of ParallelScheduler for TLC. *)
EXTENDS ParallelScheduler, TLC

CONSTANTS t1, t2, t3

\* t3 waits for t1; t2 is urgent; t1 may be retried twice, t2 once.
MCPriority == (t1 :> 1) @@ (t2 :> 3) @@ (t3 :> 1)
MCRetries == (t1 :> 2) @@ (t2 :> 1) @@ (t3 :> 0)
\* Two tasks more urgent than t1 can take both slots for ever.
Urgency == (t1 :> 1) @@ (t2 :> 3) @@ (t3 :> 2)
NoDependencies == [t \in {t1, t2, t3} |-> {}]
Chain == (t1 :> {}) @@ (t2 :> {}) @@ (t3 :> {t1})
=============================================================================
