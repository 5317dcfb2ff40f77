---------------------------- MODULE PoolBalancer ----------------------------
(***************************************************************************)
(* LoadBalancer of packages/core/src/parallel/balancer.ts over the worker  *)
(* pools of worker.ts: a task goes to a pool whose load, as the balancer   *)
(* last heard of it, is below a limit; the pool queues it for a thread.    *)
(*                                                                         *)
(* Ids of tasks may be used again.  A worker is busy while its taskId is   *)
(* set; the balancer reads that when a pool tells that a task starts or    *)
(* ends, and at its health checks.  Microtasks run before any timer or     *)
(* message: chosen holds the submissions that await selectPool.  Results   *)
(* and promises are left out: no answer finds its task (see findTask in    *)
(* WorkerPool) unless the same id is queued again.                         *)
(***************************************************************************)
EXTENDS Integers, SequencesExt, Selections, Sums

CONSTANTS BalancedPool, BalancedTask,
          PoolThreads,      \* pool -> its config.size
          LoadLimit,        \* maxLoad, in percent
          TaskRetries,
          MaxSubmits,       \* bound: submissions
          MaxDeaths,        \* bound: threads that die by themselves
          NoTaskId

ASSUME BalancerAssumption ==
    /\ IsFiniteSet(BalancedPool) /\ IsFiniteSet(BalancedTask) /\ NoTaskId \notin BalancedTask
    /\ PoolThreads \in [BalancedPool -> Nat \ {0}] /\ LoadLimit \in 1..100 /\ TaskRetries \in Nat \ {0}
    /\ MaxSubmits \in Nat /\ MaxDeaths \in Nat

VARIABLES workerPools,   \* pool -> its state (see BalancedPoolState)
          balancer,      \* the balancer's Maps and currentIndex (see BalancerState)
          chosen,        \* submissions whose pool is selected, the oldest first
          strategy,
          submitted,     \* history: task -> submissions
          deaths         \* threads that died by themselves so far

balancerVars == <<workerPools, balancer, chosen, strategy, submitted, deaths>>

(***************************************************************************)
(* taskId is set while a worker is busy; unanswered are the tasks that its *)
(* thread executes; ending marks a thread that close() terminates.         *)
(* leaked counts threads that run and that no array holds.                 *)
(***************************************************************************)
WorkerState == [taskId: BalancedTask \cup {NoTaskId}, unanswered: Seq(BalancedTask),
                ending: BOOLEAN]

Counts == [BalancedTask -> Nat]

BalancedPoolState ==
    [workers: Seq(WorkerState), tasks: Seq(BalancedTask),
     timeouts: Counts, retryTimers: Counts, retries: Counts,
     leaked: Nat, stage: {"open", "closing", "closed"}]

\* A pool that was added has stats of no load until it is heard of.
BalancerState ==
    [attached: Seq(BalancedPool),
     stats: [BalancedPool -> [heard: BOOLEAN, busy: Nat, size: Nat]],
     currentIndex: Nat, awaited: SUBSET BalancedPool,
     stage: {"open", "closing", "closed"}]

NewWorker == [taskId |-> NoTaskId, unanswered |-> <<>>, ending |-> FALSE]
FreshStats == [heard |-> FALSE, busy |-> 0, size |-> 0]
NoCounts == [t \in BalancedTask |-> 0]

BalancerInit ==
    /\ workerPools = [p \in BalancedPool |->
          [workers |-> [i \in 1..PoolThreads[p] |-> NewWorker], tasks |-> <<>>,
           timeouts |-> NoCounts, retryTimers |-> NoCounts, retries |-> NoCounts,
           leaked |-> 0, stage |-> "open"]]
    /\ balancer = [attached |-> <<>>, stats |-> [p \in BalancedPool |-> FreshStats],
                   currentIndex |-> 0, awaited |-> {}, stage |-> "open"]
    /\ chosen = <<>> /\ submitted = NoCounts /\ deaths = 0
    /\ strategy \in {"round_robin", "least_busy", "weighted"}
-----------------------------------------------------------------------------
(***************************************************************************)
(* A pool's handlers, up to what the balancer hears                        *)
(***************************************************************************)
BusyWorkers(q) == {i \in DOMAIN q.workers : q.workers[i].taskId # NoTaskId}

\* getStatus
Status(q) == [heard |-> TRUE, busy |-> Cardinality(BusyWorkers(q)), size |-> Len(q.workers)]

\* The first worker whose taskId is t, when there is one.
FirstWith(q, t) ==
    CHOOSE i \in DOMAIN q.workers :
        q.workers[i].taskId = t /\ \A j \in 1..(i - 1) : q.workers[j].taskId # t

Given(w, t) == [w EXCEPT !.taskId = t, !.unanswered = Append(@, t)]

\* The first idle worker gets the oldest task and a timer that nothing clears.
ProcessNext(q) ==
    LET i == FirstWith(q, NoTaskId)
    IN  IF q.tasks = <<>> \/ BusyWorkers(q) = DOMAIN q.workers THEN q
        ELSE [q EXCEPT !.tasks = Tail(@), !.timeouts[Head(q.tasks)] = @ + 1,
                       !.workers[i] = Given(@, Head(q.tasks))]

Enqueued(q, t) == [q EXCEPT !.tasks = Append(@, t)]

\* updateStats, for a pool that still has its listeners.
Heard(b, p, q) ==
    IF p \in Elements(b.attached) THEN [b EXCEPT !.stats[p] = Status(q)] ELSE b

\* Mutation: the balancer does not hear of tasks that start.
HandledUnheard(p, q, told) ==
    /\ workerPools' = [workerPools EXCEPT ![p] = ProcessNext(q)]
    /\ balancer' = IF told THEN Heard(balancer, p, q) ELSE balancer

\* A handler ends in processNextTask, and the balancer has heard of a task that
\* ended (told) or started.
Handled(p, q, told) ==
    /\ workerPools' = [workerPools EXCEPT ![p] = ProcessNext(q)]
    /\ balancer' = IF told \/ ProcessNext(q) # q THEN Heard(balancer, p, ProcessNext(q))
                   ELSE balancer

\* handleTaskError: retried only while the id is queued again; the balancer
\* does not listen to taskRetry.
Retried(q, t) == t \in Elements(q.tasks) /\ q.retries[t] < TaskRetries

AfterTaskError(q, t) ==
    IF Retried(q, t) THEN [q EXCEPT !.retries[t] = @ + 1, !.retryTimers[t] = @ + 1] ELSE q

\* The worker that is freed is the first with that id.
Freed(q, t) == [q EXCEPT !.workers[FirstWith(q, t)].taskId = NoTaskId]

\* Every termination that close() awaits has ended.
Terminated(p) ==
    LET q == workerPools[p] IN q.stage = "closing" /\ \A i \in DOMAIN q.workers : ~q.workers[i].ending

AllClosed ==
    balancer.stage = "closing" /\ \A p \in balancer.awaited : workerPools[p].stage = "closed"

NoMicrotask == chosen = <<>> /\ ~AllClosed /\ \A p \in BalancedPool : ~Terminated(p)

\* A thread answers one of the tasks it executes.
WorkerAnswers(p, success) ==
    LET q == workerPools[p] IN
    /\ NoMicrotask
    /\ \E i \in DOMAIN q.workers : \E j \in DOMAIN q.workers[i].unanswered :
         LET t == q.workers[i].unanswered[j]
             heard == [q EXCEPT !.workers[i].unanswered = RemoveAt(@, j)]
         IN  IF \A k \in DOMAIN q.workers : q.workers[k].taskId # t
             THEN workerPools' = [workerPools EXCEPT ![p] = heard] /\ UNCHANGED balancer
             ELSE IF success THEN Handled(p, Freed(heard, t), TRUE)
             ELSE Handled(p, AfterTaskError(Freed(heard, t), t), ~Retried(q, t))
    /\ UNCHANGED <<chosen, strategy, submitted, deaths>>

\* The worker stays busy.  The timer also fires for a task that was answered.
TaskTimesOut(p, t) ==
    LET q == [workerPools[p] EXCEPT !.timeouts[t] = @ - 1] IN
    /\ NoMicrotask /\ workerPools[p].timeouts[t] > 0
    /\ workerPools' = [workerPools EXCEPT ![p] = AfterTaskError(q, t)]
    /\ balancer' = IF Retried(q, t) THEN balancer ELSE Heard(balancer, p, q)
    /\ UNCHANGED <<chosen, strategy, submitted, deaths>>

RetryDelayOver(p, t) ==
    /\ NoMicrotask /\ workerPools[p].retryTimers[t] > 0
    /\ Handled(p, Enqueued([workerPools[p] EXCEPT !.retryTimers[t] = @ - 1], t), FALSE)
    /\ UNCHANGED <<chosen, strategy, submitted, deaths>>

\* A thread that dies, or was terminated, is replaced at once, by close() too;
\* nobody looks at the queue or tells the balancer.
WorkerDies(p) ==
    LET q == workerPools[p] IN
    /\ NoMicrotask
    /\ \E i \in DOMAIN q.workers :
         /\ \/ q.workers[i].ending /\ UNCHANGED deaths
            \/ ~q.workers[i].ending /\ deaths < MaxDeaths /\ deaths' = deaths + 1
         /\ workerPools' = [workerPools EXCEPT ![p].workers = Append(RemoveAt(@, i), NewWorker)]
    /\ UNCHANGED <<balancer, chosen, strategy, submitted>>

\* One that is in no array any more brings a closed pool back to life.
LeakedDies(p) ==
    /\ NoMicrotask /\ workerPools[p].leaked > 0
    /\ deaths < MaxDeaths /\ deaths' = deaths + 1
    /\ workerPools' = [workerPools EXCEPT ![p].leaked = @ - 1,
                                          ![p].workers = Append(@, NewWorker)]
    /\ UNCHANGED <<balancer, chosen, strategy, submitted>>

\* close() of a pool, which only the balancer calls.
Terminating(q) ==
    [q EXCEPT !.stage = "closing",
              !.workers = [i \in DOMAIN @ |-> [@[i] EXCEPT !.ending = TRUE]]]

\* The threads that replaced the terminated ones are dropped, and run on.
PoolClosed(p) ==
    LET q == workerPools[p] IN
    /\ Terminated(p)
    /\ workerPools' = [workerPools EXCEPT ![p].stage = "closed", ![p].leaked = @ + Len(q.workers),
                           ![p].workers = <<>>, ![p].tasks = <<>>, ![p].retries = NoCounts]
    /\ UNCHANGED <<balancer, chosen, strategy, submitted, deaths>>
-----------------------------------------------------------------------------
(***************************************************************************)
(* The balancer                                                            *)
(***************************************************************************)
AddPool(p) ==
    /\ balancer' = [balancer EXCEPT !.stats[p] = FreshStats,
           !.attached = IF p \in Elements(@) THEN @ ELSE Append(@, p)]
    /\ UNCHANGED <<workerPools, chosen, strategy, submitted, deaths>>

RemovePool(p) ==
    /\ p \in Elements(balancer.attached)
    /\ balancer' = [balancer EXCEPT !.attached = Select(@, BalancedPool \ {p}),
                                    !.stats[p] = FreshStats]
    /\ UNCHANGED <<workerPools, chosen, strategy, submitted, deaths>>

\* isPoolAvailable.  A pool without workers has no load that could be compared.
HasCapacity(p) ==
    LET s == balancer.stats[p] IN ~s.heard \/ 100 * s.busy < LoadLimit * s.size

Available == Select(balancer.attached, {p \in BalancedPool : HasCapacity(p)})

LessBusy(p, r) ==
    LET s == balancer.stats[p]  u == balancer.stats[r]
    IN  IF s.busy = 0 THEN u.busy > 0 ELSE s.busy * u.size < u.busy * s.size

\* selectPool.  Round robin looks beyond the end when fewer pools are available
\* than before, and throws.  By weights, the adaptive strategy included, any pool
\* may win, as updateWeight may set any.
Selected(p) ==
    LET a == Available IN
    CASE strategy = "round_robin" ->
           balancer.currentIndex < Len(a) /\ p = a[balancer.currentIndex + 1]
      [] strategy = "least_busy" ->
           \E i \in DOMAIN a : /\ a[i] = p
                               /\ \A j \in DOMAIN a : ~LessBusy(a[j], p)
                               /\ \A j \in 1..(i - 1) : LessBusy(p, a[j])
      [] OTHER -> p \in Elements(a)

Submissions == Total(submitted, BalancedTask)

\* submitTask, up to its await.
SubmitToBalancer(t) ==
    /\ Submissions < MaxSubmits
    /\ \E p \in Elements(Available) : Selected(p) /\ chosen' = Append(chosen, [task |-> t, pool |-> p])
    /\ submitted' = [submitted EXCEPT ![t] = @ + 1]
    /\ balancer' = IF strategy = "round_robin"
                   THEN [balancer EXCEPT !.currentIndex = (@ + 1) % Len(Available)] ELSE balancer
    /\ UNCHANGED <<workerPools, strategy, deaths>>

\* ... and after it: a pool that was removed meanwhile is an error.
ExecuteInPool ==
    /\ chosen # <<>> /\ chosen' = Tail(chosen)
    /\ LET p == Head(chosen).pool IN
       IF p \in Elements(balancer.attached)
       THEN Handled(p, Enqueued(workerPools[p], Head(chosen).task), FALSE)
       ELSE UNCHANGED <<workerPools, balancer>>
    /\ UNCHANGED <<strategy, submitted, deaths>>

HealthCheck ==
    /\ NoMicrotask /\ balancer.stage = "open" /\ balancer.attached # <<>>
    /\ balancer' = [balancer EXCEPT !.stats = [p \in BalancedPool |->
           IF p \in Elements(balancer.attached) THEN Status(workerPools[p]) ELSE @[p]]]
    /\ UNCHANGED <<workerPools, chosen, strategy, submitted, deaths>>

CloseBalancer ==
    /\ balancer.stage = "open"
    /\ balancer' = [balancer EXCEPT !.stage = "closing", !.awaited = Elements(balancer.attached)]
    /\ workerPools' = [p \in BalancedPool |-> IF p \in Elements(balancer.attached)
                                             THEN Terminating(workerPools[p]) ELSE workerPools[p]]
    /\ UNCHANGED <<chosen, strategy, submitted, deaths>>

BalancerClosed ==
    /\ AllClosed
    /\ balancer' = [balancer EXCEPT !.stage = "closed", !.attached = <<>>, !.awaited = {},
                                    !.stats = [p \in BalancedPool |-> FreshStats]]
    /\ UNCHANGED <<workerPools, chosen, strategy, submitted, deaths>>

BalancerNext ==
    \/ \E p \in BalancedPool :
         \/ AddPool(p) \/ RemovePool(p) \/ PoolClosed(p)
         \/ WorkerDies(p) \/ LeakedDies(p)
         \/ \E success \in BOOLEAN : WorkerAnswers(p, success)
         \/ \E t \in BalancedTask : TaskTimesOut(p, t) \/ RetryDelayOver(p, t)
    \/ \E t \in BalancedTask : SubmitToBalancer(t)
    \/ ExecuteInPool \/ HealthCheck \/ CloseBalancer \/ BalancerClosed

BalancerSpec == BalancerInit /\ [][BalancerNext]_balancerVars
-----------------------------------------------------------------------------
BalancerTypeOK ==
    /\ workerPools \in [BalancedPool -> BalancedPoolState]
    /\ balancer \in BalancerState
    /\ chosen \in Seq([task: BalancedTask, pool: BalancedPool])
    /\ strategy \in {"round_robin", "least_busy", "weighted"}
    /\ submitted \in Counts /\ deaths \in 0..MaxDeaths

Executing(q) == {i \in DOMAIN q.workers : q.workers[i].unanswered # <<>>}

\* The balancer never takes a pool for less busy than it is, once it has heard of
\* it: neither than its workers are marked nor than its threads execute, whatever
\* timed out, was answered late or shares an id.  (Not when a thread dies while
\* ids are shared: another worker may then be marked for its task.)
LoadNeverUnderestimated ==
    \A p \in Elements(balancer.attached) :
        LET q == workerPools[p] IN
        balancer.stats[p].heard =>
            /\ Cardinality(BusyWorkers(q)) <= balancer.stats[p].busy
            /\ (deaths = 0 /\ q.stage = "open") \/ (\A t \in BalancedTask : submitted[t] <= 1) =>
                   Cardinality(Executing(q)) <= balancer.stats[p].busy
=============================================================================
