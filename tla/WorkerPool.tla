----------------------------- MODULE WorkerPool -----------------------------
(***************************************************************************)
(* WorkerPool of packages/core/src/parallel: tasks queue by priority for   *)
(* worker threads, with one timeout per task, retries, replacement of      *)
(* threads that die and removal of threads that idle.                      *)
(*                                                                         *)
(* Threads run in parallel with the pool: a task posted to a thread is     *)
(* answered later, by a message; a thread that is terminated, or dies, is  *)
(* gone only when its exit event arrives, and its last messages may be     *)
(* delivered before.  Every message, event and timer is one step of the    *)
(* pool, with the processNextTask it ends in.                              *)
(***************************************************************************)
EXTENDS Integers, Sequences, FiniteSets, Selections

CONSTANTS PoolTask,      \* tasks submitted to the pool, each once
          PoolPriority,  \* task -> priority
          PoolRetries,   \* task -> its retries option
          MinWorkers, MaxWorkers,
          MaxThreads,    \* bound: threads created in a run
          MaxCrashes,    \* bound: threads that die by themselves
          NoTask

ASSUME PoolAssumption ==
    /\ IsFiniteSet(PoolTask) /\ NoTask \notin PoolTask
    /\ PoolPriority \in [PoolTask -> Nat] /\ PoolRetries \in [PoolTask -> Nat]
    /\ MinWorkers \in Nat \ {0} /\ MaxWorkers \in Nat /\ MinWorkers <= MaxWorkers
    /\ MaxThreads \in Nat /\ MaxThreads >= MinWorkers /\ MaxCrashes \in Nat

Thread == 1..MaxThreads   \* numbered in the order of their creation

VARIABLES pool,       \* the pool's own state, a record (see PoolState)
          thread,     \* thread -> "new", "running", "ending" or "gone"
          greeting,   \* threads whose 'ready' message has not been delivered
          recycling,  \* threads whose termination recycleWorker awaits
          timer,      \* task -> "unset", "pending" or "over"
          retries,    \* task -> _retries of its wrapper
          outcome,    \* task -> how its promise is settled
          phase,      \* how far shutdown() has come
          crashes     \* threads that died by themselves so far

poolVars == <<pool, thread, greeting, recycling, timer, retries, outcome, phase, crashes>>

(***************************************************************************)
(* workers and workerInfo have the same keys: status is "none" for a       *)
(* thread in neither.  posted holds the tasks a thread has not answered.   *)
(***************************************************************************)
PoolState ==
    [status: [Thread -> {"none", "idle", "busy", "error"}],
     current: [Thread -> PoolTask \cup {NoTask}],
     posted: [Thread -> Seq(PoolTask)],
     queue: Seq(PoolTask), active: Int,
     assigned: [PoolTask -> Nat],   \* history: how often a task was posted
     made: 0..MaxThreads]           \* threads created

Workers(p) == {w \in Thread : p.status[w] # "none"}
Idle(p) == {w \in Thread : p.status[w] = "idle"}

\* getAvailableWorker: the first idle one in the order of creation.
FirstIdle(p) == CHOOSE w \in Idle(p) : \A v \in Idle(p) : w <= v

RemoveWorker(p, w) ==
    [p EXCEPT !.status[w] = "none", !.current[w] = NoTask, !.posted[w] = <<>>]

\* Beyond the bound the thread cannot be created and the Maps stay as they are.
CreateWorker(p) ==
    IF p.made < MaxThreads
    THEN [p EXCEPT !.status[p.made + 1] = "idle", !.made = @ + 1]
    ELSE p

\* Mutation: a posted task is not counted.
AssignUncounted(p, w, t) ==
    [p EXCEPT !.status[w] = "busy", !.current[w] = t, !.assigned[t] = @ + 1,
              !.posted[w] = Append(@, t)]

AssignTask(p, w, t) ==
    [p EXCEPT !.status[w] = "busy", !.current[w] = t, !.assigned[t] = @ + 1,
              !.posted[w] = Append(@, t), !.active = @ + 1]

\* Without an idle worker the task stays queued; a new worker may be created,
\* but nothing looks at the queue again when it is.
ProcessNextTask(p) ==
    IF p.queue = <<>> THEN p
    ELSE IF Idle(p) # {}
         THEN AssignTask([p EXCEPT !.queue = Tail(@)], FirstIdle(p), Head(p.queue))
    ELSE IF Cardinality(Workers(p)) < MaxWorkers THEN CreateWorker(p)
    ELSE p

\* Before the first task of a lower priority.
Inserted(q, t) ==
    Select(q, {u \in PoolTask : PoolPriority[u] >= PoolPriority[t]}) \o <<t>> \o
    Select(q, {u \in PoolTask : PoolPriority[u] < PoolPriority[t]})

AddToTaskQueue(p, t) == ProcessNextTask([p EXCEPT !.queue = Inserted(@, t)])

InQueue(p, t) == \E i \in DOMAIN p.queue : p.queue[i] = t

\* Threads follow the Map entries that were made for them.
Spawned(p) ==
    /\ thread' = [w \in Thread |-> IF pool.made < w /\ w <= p.made THEN "running" ELSE thread[w]]
    /\ greeting' = greeting \cup {w \in Thread : pool.made < w /\ w <= p.made}

PoolInit ==
    /\ pool = [status |-> [w \in Thread |-> IF w <= MinWorkers THEN "idle" ELSE "none"],
               current |-> [w \in Thread |-> NoTask], posted |-> [w \in Thread |-> <<>>],
               queue |-> <<>>, active |-> 0, assigned |-> [t \in PoolTask |-> 0],
               made |-> MinWorkers]
    /\ thread = [w \in Thread |-> IF w <= MinWorkers THEN "running" ELSE "new"]
    /\ greeting = 1..MinWorkers
    /\ recycling = {}
    /\ timer = [t \in PoolTask |-> "unset"] /\ retries = [t \in PoolTask |-> 0]
    /\ outcome = [t \in PoolTask |-> "open"] /\ phase = "up" /\ crashes = 0

ExecuteTask(t) ==
    /\ phase = "up" /\ timer[t] = "unset"
    /\ timer' = [timer EXCEPT ![t] = "pending"]
    /\ pool' = AddToTaskQueue(pool, t) /\ Spawned(pool')
    /\ UNCHANGED <<recycling, retries, outcome, phase, crashes>>
-----------------------------------------------------------------------------
(***************************************************************************)
(* Messages of a thread.  They are ignored once its Map entry is gone.     *)
(***************************************************************************)
Live(w) == thread[w] \in {"running", "ending"} /\ pool.status[w] # "none"

\* The worker is idle whatever it was given in the meantime.
WorkerReady(w) ==
    /\ Live(w) /\ w \in greeting
    /\ pool' = ProcessNextTask([pool EXCEPT !.status[w] = "idle"])
    /\ thread' = [v \in Thread |-> IF pool.made < v /\ v <= pool'.made THEN "running" ELSE thread[v]]
    /\ greeting' = (greeting \ {w}) \cup {v \in Thread : pool.made < v /\ v <= pool'.made}
    /\ UNCHANGED <<recycling, timer, retries, outcome, phase, crashes>>

Without(s, i) == SubSeq(s, 1, i - 1) \o SubSeq(s, i + 1, Len(s))

Answered(w, i) ==
    [pool EXCEPT !.status[w] = "idle", !.current[w] = NoTask, !.active = @ - 1,
                 !.posted[w] = Without(@, i)]

\* findTask looks for the task in the queue, which it left when it was posted:
\* unless its timeout has queued it again, the result is dropped.
TaskComplete(w) ==
    \E i \in DOMAIN pool.posted[w] :
        LET t == pool.posted[w][i] IN
        /\ Live(w)
        /\ IF InQueue(pool, t)
           THEN /\ timer' = [timer EXCEPT ![t] = "over"]
                /\ outcome' = [outcome EXCEPT ![t] = IF @ = "open" THEN "resolved" ELSE @]
           ELSE UNCHANGED <<timer, outcome>>
        /\ pool' = ProcessNextTask(Answered(w, i)) /\ Spawned(pool')
        /\ UNCHANGED <<recycling, retries, phase, crashes>>

\* Mutation: the retry is not counted.
TaskErrorUncounted(w) ==
    \E i \in DOMAIN pool.posted[w] :
        LET t == pool.current[w]
            found == t # NoTask /\ InQueue(pool, t)
        IN
        /\ Live(w)
        /\ timer' = IF found THEN [timer EXCEPT ![t] = "over"] ELSE timer
        /\ UNCHANGED retries
        /\ outcome' = IF found /\ ~(retries[t] < PoolRetries[t]) /\ outcome[t] = "open"
                      THEN [outcome EXCEPT ![t] = "rejected"] ELSE outcome
        /\ pool' = ProcessNextTask(IF found /\ retries[t] < PoolRetries[t]
                                   THEN AddToTaskQueue(Answered(w, i), t)
                                   ELSE Answered(w, i))
        /\ Spawned(pool')
        /\ UNCHANGED <<recycling, phase, crashes>>

\* The error is taken for the task the worker was given last; found in the
\* queue, where its timeout put it, that task is queued a second time.
TaskError(w) ==
    \E i \in DOMAIN pool.posted[w] :
        LET t == pool.current[w]
            found == t # NoTask /\ InQueue(pool, t)
            retry == found /\ retries[t] < PoolRetries[t]
        IN
        /\ Live(w)
        /\ timer' = IF found THEN [timer EXCEPT ![t] = "over"] ELSE timer
        /\ retries' = IF retry THEN [retries EXCEPT ![t] = @ + 1] ELSE retries
        /\ outcome' = IF found /\ ~retry /\ outcome[t] = "open"
                      THEN [outcome EXCEPT ![t] = "rejected"] ELSE outcome
        /\ pool' = ProcessNextTask(IF retry THEN AddToTaskQueue(Answered(w, i), t)
                                            ELSE Answered(w, i))
        /\ Spawned(pool')
        /\ UNCHANGED <<recycling, phase, crashes>>

\* The one-shot timer of executeTask.  It does not look at where the task is.
TaskTimeout(t) ==
    /\ timer[t] = "pending"
    /\ timer' = [timer EXCEPT ![t] = "over"]
    /\ IF retries[t] < PoolRetries[t]
       THEN /\ retries' = [retries EXCEPT ![t] = @ + 1]
            /\ pool' = AddToTaskQueue(pool, t)
            /\ UNCHANGED outcome
       ELSE /\ outcome' = [outcome EXCEPT ![t] = IF @ = "open" THEN "rejected" ELSE @]
            /\ UNCHANGED <<pool, retries>>
    /\ Spawned(pool')
    /\ UNCHANGED <<recycling, phase, crashes>>
-----------------------------------------------------------------------------
(***************************************************************************)
(* Threads that die, are recycled, or are created by manageWorkers         *)
(***************************************************************************)
\* An uncaught exception: the error event comes first, the exit event later.
WorkerErrs(w) ==
    /\ thread[w] = "running" /\ pool.status[w] # "none" /\ crashes < MaxCrashes
    /\ crashes' = crashes + 1
    /\ thread' = [thread EXCEPT ![w] = "ending"]
    /\ pool' = [pool EXCEPT !.status[w] = "error"]
    /\ recycling' = recycling \cup {w}
    /\ UNCHANGED <<greeting, timer, retries, outcome, phase>>

Replaced(p) == IF phase = "up" THEN CreateWorker(p) ELSE p

\* The exit event, then, in a microtask, what recycleWorker does after its
\* await.  Either one creates a worker.
WorkerExits(w, code) ==
    /\ \/ thread[w] = "ending" /\ code = 1 /\ UNCHANGED crashes
       \/ thread[w] = "running" /\ crashes < MaxCrashes /\ crashes' = crashes + 1
    /\ LET gone == RemoveWorker(pool, w)
           afterExit == IF pool.status[w] # "none" /\ code # 0 THEN Replaced(gone) ELSE gone
       IN  pool' = IF w \in recycling THEN Replaced(afterExit) ELSE afterExit
    /\ recycling' = recycling \ {w}
    /\ thread' = [v \in Thread |-> IF v = w THEN "gone"
                  ELSE IF pool.made < v /\ v <= pool'.made THEN "running" ELSE thread[v]]
    /\ greeting' = (greeting \ {w}) \cup {v \in Thread : pool.made < v /\ v <= pool'.made}
    /\ UNCHANGED <<timer, retries, outcome, phase>>

\* manageWorkers recycles a worker that idled too long.  It stays "idle", and
\* may be given a task, until it is gone.
RecycleIdle(w) ==
    /\ thread[w] = "running" /\ pool.status[w] = "idle" /\ w \notin recycling
    /\ Cardinality(Workers(pool)) > MinWorkers
    /\ thread' = [thread EXCEPT ![w] = "ending"]
    /\ recycling' = recycling \cup {w}
    /\ UNCHANGED <<pool, greeting, timer, retries, outcome, phase, crashes>>

ManageQueue ==
    /\ pool.queue # <<>> /\ Idle(pool) = {}
    /\ Cardinality(Workers(pool)) < MaxWorkers /\ pool.made < MaxThreads
    /\ pool' = CreateWorker(pool) /\ Spawned(pool')
    /\ UNCHANGED <<recycling, timer, retries, outcome, phase, crashes>>
-----------------------------------------------------------------------------
BeginShutdown ==
    /\ phase = "up" /\ phase' = "draining"
    /\ UNCHANGED <<pool, thread, greeting, recycling, timer, retries, outcome, crashes>>

\* The polling loop finds nothing active and nothing queued.
TerminateAll ==
    /\ phase = "draining" /\ pool.active <= 0 /\ pool.queue = <<>>
    /\ phase' = "terminating"
    /\ thread' = [w \in Thread |-> IF thread[w] = "running" /\ w \in Workers(pool)
                                   THEN "ending" ELSE thread[w]]
    /\ UNCHANGED <<pool, greeting, recycling, timer, retries, outcome, crashes>>

\* Every termination has been awaited.  A timer may still queue its task, and
\* create a worker for it, before and after.
EndShutdown ==
    /\ phase = "terminating" /\ \A w \in Thread : thread[w] # "ending"
    /\ phase' = "down"
    /\ pool' = [pool EXCEPT !.status = [w \in Thread |-> "none"],
                            !.current = [w \in Thread |-> NoTask],
                            !.posted = [w \in Thread |-> <<>>],
                            !.queue = <<>>, !.active = 0]
    /\ UNCHANGED <<thread, greeting, recycling, timer, retries, outcome, crashes>>

PoolNext ==
    \/ \E t \in PoolTask : ExecuteTask(t) \/ TaskTimeout(t)
    \/ \E w \in Thread :
         \/ WorkerReady(w) \/ TaskComplete(w) \/ TaskError(w)
         \/ WorkerErrs(w) \/ RecycleIdle(w)
         \/ \E code \in {0, 1} : WorkerExits(w, code)
    \/ ManageQueue \/ BeginShutdown \/ TerminateAll \/ EndShutdown

PoolSpec == PoolInit /\ [][PoolNext]_poolVars
-----------------------------------------------------------------------------
PoolTypeOK ==
    /\ pool \in PoolState
    /\ thread \in [Thread -> {"new", "running", "ending", "gone"}]
    /\ greeting \in SUBSET Thread /\ recycling \in SUBSET Thread
    /\ timer \in [PoolTask -> {"unset", "pending", "over"}]
    /\ retries \in [PoolTask -> Nat]
    /\ outcome \in [PoolTask -> {"open", "resolved", "rejected"}]
    /\ phase \in {"up", "draining", "terminating", "down"}
    /\ crashes \in 0..MaxCrashes

Copies(t) == Occurrences(pool.queue, t)

\* However timeouts, late answers and errors interleave, a task is queued and
\* posted to threads at most once more than it has retries.
AttemptsWithinRetries ==
    \A t \in PoolTask : /\ pool.assigned[t] + Copies(t) <= 1 + retries[t]
                        /\ retries[t] <= PoolRetries[t]

\* shutdown terminates no thread in the middle of a task: whatever was answered
\* late, twice or never, activeTaskCount does not fall below the posted tasks.
ShutdownWaitsForTasks ==
    [][phase = "draining" /\ phase' = "terminating" =>
         \A w \in Thread : pool.posted[w] = <<>>]_poolVars
=============================================================================
