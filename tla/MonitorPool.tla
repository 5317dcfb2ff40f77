---------------------------- MODULE MonitorPool ----------------------------
(***************************************************************************)
(* ThreadPool and TaskScheduler of packages/core/src/monitor.  The pool    *)
(* owns the worker threads and what each is working on; the scheduler owns *)
(* the queues, one per priority, and its own copy of every worker's status *)
(* and load, by which it decides who gets a task.                          *)
(*                                                                         *)
(* Threads answer without naming the task, and timers without naming the   *)
(* thread: the answer of a thread that has been replaced, or the timer set *)
(* for its task, is taken for whatever its successor works on.  The number *)
(* of workers is constant: a worker that errs or times out is replaced     *)
(* under its id.  balanceLoad moves nothing: see SchedulerTracksPool.      *)
(***************************************************************************)
EXTENDS Integers, Sequences, FiniteSets, SequencesExt, Sums

CONSTANTS Job,            \* tasks submitted to the scheduler, each once
          JobPriority,    \* task -> 0 (LOW) .. 3 (CRITICAL)
          PoolSize,       \* minWorkers
          MaxQueueSize,
          LoadThreshold,
          MaxErrors,      \* bound: error events of threads
          NoJob

ASSUME MonitorAssumption ==
    /\ IsFiniteSet(Job) /\ NoJob \notin Job
    /\ JobPriority \in [Job -> 0..3]
    /\ PoolSize \in Nat \ {0} /\ MaxQueueSize \in Nat \ {0}
    /\ LoadThreshold \in Nat /\ LoadThreshold >= 20    \* the pool passes 20
    /\ MaxErrors \in Nat

WorkerId == 1..PoolSize
High == 2

VARIABLES monitor,      \* what pool and scheduler keep, a record (see MonitorState)
          unanswered,   \* worker -> tasks its thread has not answered
          stray,        \* worker -> answers of its replaced threads on their way
          strayTimers,  \* worker -> timers that replaced threads left behind
          delayed,      \* tasks whose timer for submission anew is pending
          fresh,        \* tasks not yet submitted
          stage,        \* how far shutdown has come
          errors        \* error events so far

monitorVars == <<monitor, unanswered, stray, strayTimers, delayed, fresh, stage, errors>>

MonitorState ==
    [queues: [0..3 -> Seq(Job)],
     holding: [WorkerId -> Job \cup {NoJob}],                \* pool: currentTask
     timed: [WorkerId -> BOOLEAN],                           \* pool: timeoutId is pending
     status: [WorkerId -> {"idle", "busy", "unknown"}],      \* scheduler: WorkerInfo
     load: [WorkerId -> 0..100]]                             \* scheduler: WorkerInfo

QueueSize(q) == Len(q[0]) + Len(q[1]) + Len(q[2]) + Len(q[3])

AtLeast(x, n) == IF x < n THEN n ELSE x

\* removeLowPriorityTasks: the newest of the lowest priority below HIGH.
LowWaiting(q) == {p \in 0..(High - 1) : q[p] # <<>>}

Evicted(q) ==
    IF LowWaiting(q) = {} THEN q
    ELSE LET p == CHOOSE p \in LowWaiting(q) : \A r \in LowWaiting(q) : p <= r
         IN  [q EXCEPT ![p] = Front(@)]

HighestWaiting(q) ==
    CHOOSE p \in 0..3 : q[p] # <<>> /\ \A r \in 0..3 : q[r] # <<>> => r <= p

\* getNextTask and the assignment that follows it, for one worker.  The pool
\* adds 20 to its own copy of the load, which always is 0.
AssignNext(m, w) ==
    IF m.holding[w] = NoJob /\ m.status[w] = "idle" /\ m.load[w] < 100 /\ QueueSize(m.queues) > 0
    THEN LET p == HighestWaiting(m.queues)
         IN  [m EXCEPT !.queues[p] = Tail(@), !.holding[w] = Head(m.queues[p]),
                       !.timed[w] = TRUE, !.status[w] = "busy", !.load[w] = 20]
    ELSE m

ProcessNextTasks(m) ==
    LET after[w \in 0..PoolSize] == IF w = 0 THEN m ELSE AssignNext(after[w - 1], w)
    IN  after[PoolSize]

\* Threads are posted what their worker starts to hold.
Posted(before, m) ==
    [w \in WorkerId |-> IF before.holding[w] = NoJob /\ m.holding[w] # NoJob
                        THEN Append(unanswered[w], m.holding[w]) ELSE unanswered[w]]

Registered(m, w) == [m EXCEPT !.status[w] = "idle", !.load[w] = 0]

\* Mutation: the worker is not told apart from an idle one.
AfterErrorStillBusy(m, w) == [m EXCEPT !.load[w] = AtLeast(@ - 10, 0)]

\* onTaskError and onTaskCompleted, for workers the scheduler knows.
AfterError(m, w) ==
    IF m.status[w] = "unknown" THEN m
    ELSE [m EXCEPT !.status[w] = "idle", !.load[w] = AtLeast(@ - 10, 0)]

AfterCompletion(m, w) ==
    IF m.status[w] = "unknown" THEN m
    ELSE [m EXCEPT !.status[w] = "idle", !.load[w] = AtLeast(@ - 20, 0)]

\* Mutation: a task that is not urgent is let in by eviction, too.
AcceptedAny(t) == TRUE

\* A full queue refuses all but urgent tasks.
Accepted(t) ==
    QueueSize(monitor.queues) < MaxQueueSize \/ JobPriority[t] >= High

\* TaskScheduler.submitTask, up to the distribution it triggers in the pool.
Submit(t) ==
    LET q == IF QueueSize(monitor.queues) >= MaxQueueSize
             THEN Evicted(monitor.queues) ELSE monitor.queues
        m == [monitor EXCEPT !.queues = [q EXCEPT ![JobPriority[t]] = Append(@, t)]]
    IN  \* after shutdown there is no queue to put it in
        /\ monitor' = IF stage = "up" /\ Accepted(t) THEN ProcessNextTasks(m) ELSE monitor
        /\ unanswered' = Posted(monitor, monitor')

MonitorInit ==
    /\ monitor = [queues |-> [p \in 0..3 |-> <<>>],
                  holding |-> [w \in WorkerId |-> NoJob],
                  timed |-> [w \in WorkerId |-> FALSE],
                  status |-> [w \in WorkerId |-> "idle"], load |-> [w \in WorkerId |-> 0]]
    /\ unanswered = [w \in WorkerId |-> <<>>]
    /\ stray = [w \in WorkerId |-> 0] /\ strayTimers = [w \in WorkerId |-> 0]
    /\ delayed = {} /\ fresh = Job /\ stage = "up" /\ errors = 0

SubmitTask(t) ==
    /\ t \in fresh /\ fresh' = fresh \ {t}
    /\ Submit(t)
    /\ UNCHANGED <<stray, strayTimers, delayed, stage, errors>>

\* The delay of a failed task is over.  It starts again with retries = 0.
SubmitAgain(t) ==
    /\ t \in delayed /\ delayed' = delayed \ {t}
    /\ Submit(t)
    /\ UNCHANGED <<stray, strayTimers, fresh, stage, errors>>

\* Mutation: the worker goes on holding its task.
TimerCleared(m, w) == [m EXCEPT !.timed[w] = FALSE]

TaskCleared(m, w) == [m EXCEPT !.holding[w] = NoJob, !.timed[w] = FALSE]

\* Mutation: an answer without a task is not ignored.
NothingToEndNever(w) == FALSE

NothingToEnd(w) == monitor.holding[w] = NoJob

\* handleWorkerResult: whatever the worker holds is taken to be done, or to
\* have failed; then it is submitted again later.
WorkerResult(w, success, posted) ==
    IF NothingToEnd(w)
    THEN monitor' = monitor /\ unanswered' = posted /\ UNCHANGED delayed
    ELSE LET told == IF success THEN AfterCompletion(monitor, w) ELSE AfterError(monitor, w)
             free == TaskCleared(told, w)
         IN  /\ monitor' = ProcessNextTasks(free)
             /\ unanswered' = [v \in WorkerId |->
                    IF free.holding[v] = NoJob /\ monitor'.holding[v] # NoJob
                    THEN Append(posted[v], monitor'.holding[v]) ELSE posted[v]]
             /\ delayed' = IF success THEN delayed ELSE delayed \cup {monitor.holding[w]}

ThreadAnswers(w, success) ==
    /\ stage # "down" /\ unanswered[w] # <<>>
    /\ WorkerResult(w, success, [unanswered EXCEPT ![w] = Tail(@)])
    /\ UNCHANGED <<stray, strayTimers, fresh, stage, errors>>

StrayAnswer(w, success) ==
    /\ stage # "down" /\ stray[w] > 0 /\ stray' = [stray EXCEPT ![w] = @ - 1]
    /\ WorkerResult(w, success, unanswered)
    /\ UNCHANGED <<strayTimers, fresh, stage, errors>>

\* A new thread under the same id.  The old one may have answered before it
\* was terminated; its task is lost; nobody looks at the queues.
Recycle(w, told) ==
    /\ monitor' = [Registered(told, w) EXCEPT !.holding[w] = NoJob, !.timed[w] = FALSE]
    /\ unanswered' = [unanswered EXCEPT ![w] = <<>>]
    /\ \E n \in 0..Len(unanswered[w]) : stray' = [stray EXCEPT ![w] = @ + n]

\* The error event of a thread.  The timer of its task stays behind.
WorkerError(w) ==
    /\ stage # "down" /\ errors < MaxErrors /\ errors' = errors + 1
    /\ Recycle(w, IF monitor.holding[w] # NoJob THEN AfterError(monitor, w) ELSE monitor)
    /\ strayTimers' = [strayTimers EXCEPT ![w] = @ + IF monitor.timed[w] THEN 1 ELSE 0]
    /\ UNCHANGED <<delayed, fresh, stage>>

WorkerTimeout(w) ==
    /\ monitor.timed[w] /\ monitor.holding[w] # NoJob
    /\ Recycle(w, AfterError(monitor, w))
    /\ UNCHANGED <<strayTimers, delayed, fresh, stage, errors>>

\* A timer left behind ends the task of the successor, whose own timer now is
\* left behind in turn.
StrayTimeout(w) ==
    /\ strayTimers[w] > 0
    /\ IF monitor.holding[w] # NoJob
       THEN Recycle(w, AfterError(monitor, w)) /\ UNCHANGED strayTimers
       ELSE /\ strayTimers' = [strayTimers EXCEPT ![w] = @ - 1]
            /\ UNCHANGED <<monitor, unanswered, stray>>
    /\ UNCHANGED <<delayed, fresh, stage, errors>>

\* The scheduler forgets its queues and workers, the pool terminates its threads.
BeginStop ==
    /\ stage = "up" /\ stage' = "stopping"
    /\ monitor' = [monitor EXCEPT !.queues = [p \in 0..3 |-> <<>>],
                                  !.status = [w \in WorkerId |-> "unknown"],
                                  !.load = [w \in WorkerId |-> 0]]
    /\ UNCHANGED <<unanswered, stray, strayTimers, delayed, fresh, errors>>

EndStop ==
    /\ stage = "stopping" /\ stage' = "down"
    /\ monitor' = [monitor EXCEPT !.holding = [w \in WorkerId |-> NoJob],
                                  !.timed = [w \in WorkerId |-> FALSE]]
    /\ UNCHANGED <<unanswered, stray, strayTimers, delayed, fresh, errors>>

MonitorNext ==
    \/ \E t \in Job : SubmitTask(t) \/ SubmitAgain(t)
    \/ \E w \in WorkerId :
         \/ \E success \in BOOLEAN : ThreadAnswers(w, success) \/ StrayAnswer(w, success)
         \/ WorkerError(w) \/ WorkerTimeout(w) \/ StrayTimeout(w)
    \/ BeginStop \/ EndStop

MonitorSpec == MonitorInit /\ [][MonitorNext]_monitorVars
-----------------------------------------------------------------------------
MonitorTypeOK ==
    /\ monitor \in MonitorState
    /\ unanswered \in [WorkerId -> Seq(Job)]
    /\ stray \in [WorkerId -> Nat] /\ strayTimers \in [WorkerId -> Nat]
    /\ delayed \in SUBSET Job /\ fresh \in SUBSET Job
    /\ stage \in {"up", "stopping", "down"} /\ errors \in 0..MaxErrors

SumOfLoads == Total(monitor.load, WorkerId)

\* The two copies of a worker's state agree, through replacement, stray answers
\* and stray timers: the scheduler takes a worker for busy exactly when the pool
\* works on something there.  And no load ever exceeds the average by more than
\* the threshold, so that balanceLoad takes no running task away.
SchedulerTracksPool ==
    stage = "up" =>
        \A w \in WorkerId :
            /\ (monitor.status[w] = "busy") <=> (monitor.holding[w] # NoJob)
            /\ PoolSize * monitor.load[w] <= SumOfLoads + PoolSize * LoadThreshold

\* A full queue grows only by urgent tasks, and only when nothing less urgent is
\* left to make room.
OverfullOnlyByUrgent ==
    QueueSize(monitor.queues) > MaxQueueSize => LowWaiting(monitor.queues) = {}

Places(t) ==
    Cardinality({w \in WorkerId : monitor.holding[w] = t})
    + Cardinality({i \in DOMAIN monitor.queues[JobPriority[t]] :
                     monitor.queues[JobPriority[t]][i] = t})
    + Cardinality({t} \cap delayed) + Cardinality({t} \cap fresh)

\* A task is in one place at most: it is never queued, held and awaiting its
\* second submission at once, whichever thread's answer ended it.
OnePlacePerTask == \A t \in Job : Places(t) <= 1
=============================================================================
