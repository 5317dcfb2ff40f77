-------------------------- MODULE ParallelScheduler --------------------------
(***************************************************************************)
(* TaskScheduler of packages/core/src/parallel: tasks with priorities,     *)
(* dependencies and retries, run by asynchronous handlers, at most         *)
(* maxConcurrent at a time.                                                *)
(*                                                                         *)
(* An attempt of a task (one call of runTask) awaits its handler, or the   *)
(* timeout, and after a failure that will be retried also the retry delay. *)
(* The task is back in the queue before that delay, so a processQueue run  *)
(* on behalf of another task may start the next attempt while the previous *)
(* one still sleeps.  Everything between two awaits is one step; every     *)
(* step that ends in processQueue includes what it starts.                 *)
(***************************************************************************)
EXTENDS Integers, Sequences, FiniteSets, Selections

CONSTANTS Task,            \* task ids
          MaxConcurrent,
          Priority,        \* task -> 0 (LOW) .. 3 (CRITICAL)
          Retries,         \* task -> allowed retries
          Dependencies,    \* task -> the tasks it waits for
          Registered,      \* tasks whose handler is registered at the start
          MaxAsleep        \* bound: attempts of an earlier life of an id that
                           \* may still sleep when it is added again

ASSUME SchedulerAssumption ==
    /\ IsFiniteSet(Task)
    /\ MaxConcurrent \in Nat \ {0} /\ MaxAsleep \in Nat
    /\ Priority \in [Task -> 0..3]
    /\ Retries \in [Task -> Nat]
    /\ Dependencies \in [Task -> SUBSET Task]
    /\ Registered \in SUBSET Task

VARIABLES tasks,       \* task -> its status, or "absent" from the Map
          queue,
          running,     \* the Set of ids that occupy a slot
          executing,   \* tasks with an attempt that awaits handler or timeout
          sleeping,    \* task -> attempts that await the retry delay
          retryCount,  \* task -> retryCount of its result, 0 without result
          handled,     \* tasks whose handler is registered
          cleared      \* history: has clearCompletedTasks been called?

vars == <<tasks, queue, running, executing, sleeping, retryCount, handled, cleared>>

Finished == {"completed", "failed", "cancelled"}
Status == {"absent", "pending", "running"} \cup Finished

Init ==
    /\ tasks = [t \in Task |-> "absent"]
    /\ queue = <<>>
    /\ running = {} /\ executing = {}
    /\ sleeping = [t \in Task |-> 0]
    /\ retryCount = [t \in Task |-> 0]
    /\ handled = Registered /\ cleared = FALSE

RegisterHandler(t) ==
    /\ handled' = handled \cup {t}
    /\ UNCHANGED <<tasks, queue, running, executing, sleeping, retryCount, cleared>>

CanRun(status, t) == \A d \in Dependencies[t] : status[d] = "completed"

\* Mutation: the comparison with maxConcurrent is off by one.
FreeSlotsPlusOne(held) == MaxConcurrent + 1 - Cardinality(held)

FreeSlots(held) == MaxConcurrent - Cardinality(held)

\* Mutation: the tasks that are started are left in the queue.
StillWaiting(waiting, chosen) == waiting

WithoutChosen(waiting, chosen) == Select(waiting, Task \ chosen)

\* The first runnable tasks of the queue leave it and are run.  One without a
\* handler throws in runTask before it is marked running: it is gone from the
\* queue and stays pending.
ProcessQueue(status, waiting, held, active) ==
    LET runnable == Select(waiting, {t \in Task : CanRun(status, t)})
        n == IF FreeSlots(held) < Len(runnable) THEN FreeSlots(held) ELSE Len(runnable)
        chosen == Elements(SubSeq(runnable, 1, n))
        started == chosen \cap handled
    IN  /\ queue' = WithoutChosen(waiting, chosen)
        /\ running' = held \cup started
        /\ executing' = active \cup started
        /\ tasks' = [t \in Task |-> IF t \in started THEN "running" ELSE status[t]]

OfPriority(s, p) == Select(s, {t \in Task : Priority[t] = p})

\* Mutation: tasks queue in the order of their arrival.
Unsorted(s) == s

\* sort() is stable: highest priority first, equal ones as they were.
Sorted(s) ==
    OfPriority(s, 3) \o OfPriority(s, 2) \o OfPriority(s, 1) \o OfPriority(s, 0)

AddTask(t) ==
    /\ tasks[t] = "absent" /\ sleeping[t] <= MaxAsleep
    /\ ProcessQueue([tasks EXCEPT ![t] = "pending"], Sorted(Append(queue, t)),
                    running, executing)
    /\ UNCHANGED <<sleeping, retryCount, handled, cleared>>

\* Mutation: a cancelled task keeps its place in the queue.
CancelInPlace(t) ==
    /\ tasks[t] \notin {"absent", "running"}
    /\ tasks' = [tasks EXCEPT ![t] = "cancelled"]
    /\ UNCHANGED <<queue, running, executing, sleeping, retryCount, handled, cleared>>

\* A running task is refused; any other is cancelled, finished ones included.
CancelTask(t) ==
    /\ tasks[t] \notin {"absent", "running"}
    /\ tasks' = [tasks EXCEPT ![t] = "cancelled"]
    /\ queue' = Select(queue, Task \ {t})
    /\ UNCHANGED <<running, executing, sleeping, retryCount, handled, cleared>>

ClearCompletedTasks ==
    /\ cleared' = TRUE
    /\ tasks' = [t \in Task |-> IF tasks[t] \in Finished THEN "absent" ELSE tasks[t]]
    /\ retryCount' = [t \in Task |-> IF tasks[t] \in Finished THEN 0 ELSE retryCount[t]]
    /\ UNCHANGED <<queue, running, executing, sleeping, handled>>
-----------------------------------------------------------------------------
(***************************************************************************)
(* The continuations of runTask                                            *)
(***************************************************************************)
\* Mutation: the status is not one of TaskStatus.
CompleteUnknownStatus(t) ==
    /\ t \in executing
    /\ retryCount' = [retryCount EXCEPT ![t] = 0]
    /\ ProcessQueue([tasks EXCEPT ![t] = "done"], queue,
                    running \ {t}, executing \ {t})
    /\ UNCHANGED <<sleeping, handled, cleared>>

\* The handler's result arrives before the timeout.
Complete(t) ==
    /\ t \in executing
    /\ retryCount' = [retryCount EXCEPT ![t] = 0]
    /\ ProcessQueue([tasks EXCEPT ![t] = "completed"], queue,
                    running \ {t}, executing \ {t})
    /\ UNCHANGED <<sleeping, handled, cleared>>

\* The handler fails, or the timeout wins: the task goes to the front of the
\* queue, and the attempt, its slot still taken, awaits the retry delay.
FailAndRetry(t) ==
    /\ t \in executing
    /\ retryCount[t] + 1 <= Retries[t]
    /\ retryCount' = [retryCount EXCEPT ![t] = @ + 1]
    /\ tasks' = [tasks EXCEPT ![t] = "pending"]
    /\ queue' = <<t>> \o queue
    /\ executing' = executing \ {t}
    /\ sleeping' = [sleeping EXCEPT ![t] = @ + 1]
    /\ UNCHANGED <<running, handled, cleared>>

\* Mutation: one retry too few is granted.
FailOneEarly(t) ==
    /\ t \in executing
    /\ retryCount[t] + 1 >= Retries[t]
    /\ retryCount' = [retryCount EXCEPT ![t] = @ + 1]
    /\ ProcessQueue([tasks EXCEPT ![t] = "failed"], queue,
                    running \ {t}, executing \ {t})
    /\ UNCHANGED <<sleeping, handled, cleared>>

\* Mutation: the slot of a failed task is not given back.
FailKeepingSlot(t) ==
    /\ t \in executing
    /\ retryCount[t] + 1 > Retries[t]
    /\ retryCount' = [retryCount EXCEPT ![t] = @ + 1]
    /\ ProcessQueue([tasks EXCEPT ![t] = "failed"], queue, running, executing \ {t})
    /\ UNCHANGED <<sleeping, handled, cleared>>

Fail(t) ==
    /\ t \in executing
    /\ retryCount[t] + 1 > Retries[t]
    /\ retryCount' = [retryCount EXCEPT ![t] = @ + 1]
    /\ ProcessQueue([tasks EXCEPT ![t] = "failed"], queue,
                    running \ {t}, executing \ {t})
    /\ UNCHANGED <<sleeping, handled, cleared>>

\* Mutation: the end of the delay does not look at the queue.
WakeOnly(t) ==
    /\ sleeping[t] > 0
    /\ sleeping' = [sleeping EXCEPT ![t] = @ - 1]
    /\ running' = running \ {t}
    /\ UNCHANGED <<tasks, queue, executing, retryCount, handled, cleared>>

\* The retry delay is over: finally gives back the slot of the id, whoever
\* holds it now.
Wake(t) ==
    /\ sleeping[t] > 0
    /\ sleeping' = [sleeping EXCEPT ![t] = @ - 1]
    /\ ProcessQueue(tasks, queue, running \ {t}, executing)
    /\ UNCHANGED <<retryCount, handled, cleared>>
-----------------------------------------------------------------------------
Next ==
    \/ \E t \in Task :
        \/ RegisterHandler(t) \/ AddTask(t) \/ CancelTask(t)
        \/ Complete(t) \/ FailAndRetry(t) \/ Fail(t) \/ Wake(t)
    \/ ClearCompletedTasks

Spec == Init /\ [][Next]_vars

\* The timeout ends every attempt and the delay timer fires.
Fairness ==
    \A t \in Task : /\ WF_vars(Complete(t) \/ FailAndRetry(t) \/ Fail(t))
                    /\ WF_vars(Wake(t))

FairSpec == Spec /\ Fairness
-----------------------------------------------------------------------------
(***************************************************************************)
(* Properties                                                              *)
(***************************************************************************)
TypeOK ==
    /\ tasks \in [Task -> Status]
    /\ queue \in Seq(Task)
    /\ running \in SUBSET Task /\ executing \in SUBSET Task
    /\ sleeping \in [Task -> Nat] /\ retryCount \in [Task -> Nat]
    /\ handled \in SUBSET Task /\ cleared \in BOOLEAN

\* A task id has one place at most: it is in the queue once and pending, or one
\* attempt executes it and it is running.  Retries that start early, sleeping
\* attempts of deleted tasks and ids that are used again never produce two.
SingleAttempt ==
    /\ \A i, j \in DOMAIN queue : queue[i] = queue[j] => i = j
    /\ \A t \in Elements(queue) : tasks[t] = "pending"
    /\ executing = {t \in Task : tasks[t] = "running"}

\* Every slot taken belongs to an attempt that will give it back.
NoSlotLeak == \A t \in running : t \in executing \/ sleeping[t] > 0

\* The slots taken never exceed maxConcurrent.
SlotsWithinLimit == Cardinality(running) <= MaxConcurrent

\* As long as no id is used twice, at most maxConcurrent first attempts run at
\* a time: only retries, whose slot an earlier attempt gave back when its delay
\* ended, run beyond the limit.
OverrunOnlyByRetries ==
    ~cleared => Cardinality({t \in executing : retryCount[t] = 0}) <= MaxConcurrent

\* A task that completed, failed or was cancelled does not run again until it
\* is cleared and added anew.
FinishedStaysFinished ==
    [][\A t \in Task : tasks[t] \in Finished => tasks'[t] \in Finished \cup {"absent"}]_vars

\* A task fails only when all its retries are used.
FailureExhaustsRetries ==
    \A t \in Task : tasks[t] = "failed" => retryCount[t] = Retries[t] + 1

\* A task that has never been retried overtakes no runnable task of a higher
\* priority.
PriorityRespected ==
    [][\A t, u \in Task :
        (/\ t \in executing' \ executing /\ retryCount[t] = 0
         /\ u \in Elements(queue) /\ u \in Elements(queue')
         /\ CanRun(tasks, u) /\ CanRun(tasks', u))
            => Priority[u] <= Priority[t]]_vars

\* When every task has a handler, a runnable task is kept waiting in the queue
\* for ever only by more urgent ones that are started again and again: addTask
\* sorts them in before it and priorities do not age.  It never waits because
\* nobody looks at the queue, or for tasks of its own priority or less, retried
\* in front of it or not.  (Without a handler, a dropped task takes the turn of
\* the next.)
MoreUrgentStarts(t) == \E u \in executing' \ executing : Priority[u] > Priority[t]

RunnableIsStarted ==
    [](handled = Task) =>
        \A t \in Task :
            <>[](t \in Elements(queue) /\ CanRun(tasks, t))
                => []<><<MoreUrgentStarts(t)>>_vars

\* "wait for the retry delay" (scheduler.ts:310): the next attempt starts when
\* the delay is over.
RetryWaitsForDelay ==
    [][\A t \in executing' \ executing : sleeping'[t] = 0]_vars
==============================================================================
