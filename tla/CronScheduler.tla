--------------------------- MODULE CronScheduler ---------------------------
(***************************************************************************)
(* TaskScheduler of packages/core/src/scheduler: tasks that run again and  *)
(* again by cron expression, with delayed retries of failed runs.          *)
(*                                                                         *)
(* Timers and runs refer to task objects; the Maps and runningTasks use    *)
(* ids.  An id that is removed and added anew has a second object while    *)
(* the first may still run, or wait for a retry.  An object is a pair of   *)
(* its id and a number.  Time is left out: a pending timer may fire at any *)
(* moment, and a next run computed a moment ago may already be due.        *)
(***************************************************************************)
EXTENDS Integers, FiniteSets, Sums

CONSTANTS CronId,
          MaxConcurrentRuns,
          ErrorRetryCount,
          MaxObjects,       \* bound: task objects per id
          MaxRetryTimers,   \* bound: retry timers pending at a time
          MaxStops          \* bound: calls of stop()

ASSUME CronAssumption ==
    /\ IsFiniteSet(CronId)
    /\ MaxConcurrentRuns \in Nat \ {0} /\ ErrorRetryCount \in Nat
    /\ MaxObjects \in Nat /\ MaxRetryTimers \in Nat /\ MaxStops \in Nat

Object == [id: CronId, number: 1..MaxObjects]
Run == [task: Object, attempt: 0..ErrorRetryCount]

VARIABLES registered,    \* id -> number of its object in the Map tasks, or 0
          timers,        \* id -> number of the object whose timer is pending, or 0
          runs,          \* executeTask calls that await their handler
          runningTasks,
          retryTimers,   \* run -> timers pending that will start it
          objects,       \* id -> objects made so far
          stopped,       \* history: ids whose timer stop() cleared, not scheduled since
          shadowed,      \* history: ids whose object was added while an
                         \* earlier one of the id ran or awaited a retry
          stops          \* stop() calls so far

cronVars == <<registered, timers, runs, runningTasks, retryTimers, objects, stopped,
              shadowed, stops>>

FirstRun(id, n) == [task |-> [id |-> id, number |-> n], attempt |-> 0]

\* Mutation: runningTasks is not consulted.
ExecuteAnyway(r, ids, rs) ==
    /\ runningTasks' = ids \cup {r.task.id} /\ runs' = rs \cup {r}

\* The synchronous part of executeTask.
Execute(r, ids, rs) ==
    IF r.task.id \in ids THEN runningTasks' = ids /\ runs' = rs
    ELSE runningTasks' = ids \cup {r.task.id} /\ runs' = rs \cup {r}

\* scheduleTask: a timer that replaces the one of this id, or a run at once.
Schedule(t, ids, rs) ==
    /\ \/ /\ timers' = [timers EXCEPT ![t.id] = t.number]
          /\ runningTasks' = ids /\ runs' = rs
       \/ Execute([task |-> t, attempt |-> 0], ids, rs) /\ UNCHANGED timers
    /\ stopped' = stopped \ {t.id}

CronInit ==
    /\ registered = [i \in CronId |-> 0] /\ timers = [i \in CronId |-> 0]
    /\ runs = {} /\ runningTasks = {}
    /\ retryTimers = [r \in Run |-> 0]
    /\ objects = [i \in CronId |-> 0]
    /\ stopped = {} /\ shadowed = {} /\ stops = 0

\* Something of a removed object of the id is still under way.
EarlierUnderway(i) == \E r \in Run : r.task.id = i /\ (r \in runs \/ retryTimers[r] > 0)

AddCronTask(i) ==
    /\ registered[i] = 0 /\ objects[i] < MaxObjects
    /\ objects' = [objects EXCEPT ![i] = @ + 1]
    /\ registered' = [registered EXCEPT ![i] = objects[i] + 1]
    /\ Schedule([id |-> i, number |-> objects[i] + 1], runningTasks, runs)
    /\ shadowed' = IF EarlierUnderway(i) THEN shadowed \cup {i} ELSE shadowed \ {i}
    /\ UNCHANGED <<retryTimers, stops>>

\* Clears the timer of the id, whichever object it is for.
RemoveCronTask(i) ==
    /\ registered[i] # 0 \/ timers[i] # 0
    /\ registered' = [registered EXCEPT ![i] = 0]
    /\ timers' = [timers EXCEPT ![i] = 0]
    /\ UNCHANGED <<runs, runningTasks, retryTimers, objects, stopped, shadowed, stops>>

TriggerTask(i) ==
    /\ registered[i] # 0 /\ Cardinality(runningTasks) < MaxConcurrentRuns
    /\ Execute(FirstRun(i, registered[i]), runningTasks, runs)
    /\ UNCHANGED <<registered, timers, retryTimers, objects, stopped, shadowed, stops>>

\* Neither the runs in progress nor the retry timers are stopped.
Stop ==
    /\ stops < MaxStops /\ stops' = stops + 1
    /\ timers' = [i \in CronId |-> 0]
    /\ stopped' = CronId \ runningTasks
    /\ UNCHANGED <<registered, runs, runningTasks, retryTimers, objects, shadowed>>

\* It starts the task whatever maxConcurrent says.
TimerFires(i) ==
    /\ timers[i] # 0
    /\ timers' = [timers EXCEPT ![i] = 0]
    /\ Execute(FirstRun(i, timers[i]), runningTasks, runs)
    /\ UNCHANGED <<registered, retryTimers, objects, stopped, shadowed, stops>>

RetryTimerFires(r) ==
    /\ retryTimers[r] > 0
    /\ retryTimers' = [retryTimers EXCEPT ![r] = @ - 1]
    /\ Execute(r, runningTasks, runs)
    /\ UNCHANGED <<registered, timers, objects, stopped, shadowed, stops>>

\* The finally block: scheduled anew, removed and stopped tasks included.
RunSucceeds(r) ==
    /\ r \in runs
    /\ Schedule(r.task, runningTasks \ {r.task.id}, runs \ {r})
    /\ UNCHANGED <<registered, retryTimers, objects, shadowed, stops>>

\* Mutation: a run that will be retried returns before it is scheduled anew.
RunFailsUnscheduled(r) ==
    /\ r \in runs
    /\ IF r.attempt < ErrorRetryCount
       THEN /\ Total(retryTimers, Run) < MaxRetryTimers
            /\ retryTimers' = [retryTimers EXCEPT ![[r EXCEPT !.attempt = @ + 1]] = @ + 1]
            /\ runningTasks' = runningTasks \ {r.task.id} /\ runs' = runs \ {r}
            /\ UNCHANGED <<timers, stopped>>
       ELSE /\ Schedule(r.task, runningTasks \ {r.task.id}, runs \ {r})
            /\ UNCHANGED retryTimers
    /\ UNCHANGED <<registered, objects, shadowed, stops>>

\* A retry gets a timer of its own, next to the regular one.
RunFails(r) ==
    /\ r \in runs
    /\ IF r.attempt < ErrorRetryCount
       THEN /\ Total(retryTimers, Run) < MaxRetryTimers
            /\ retryTimers' = [retryTimers EXCEPT ![[r EXCEPT !.attempt = @ + 1]] = @ + 1]
       ELSE UNCHANGED retryTimers
    /\ Schedule(r.task, runningTasks \ {r.task.id}, runs \ {r})
    /\ UNCHANGED <<registered, objects, shadowed, stops>>

CronNext ==
    \/ \E i \in CronId : AddCronTask(i) \/ RemoveCronTask(i) \/ TriggerTask(i) \/ TimerFires(i)
    \/ \E r \in Run : RetryTimerFires(r) \/ RunSucceeds(r) \/ RunFails(r)
    \/ Stop

\* Handlers settle in the end, and timers fire.
CronFairness ==
    /\ \A i \in CronId : WF_cronVars(TimerFires(i))
    /\ \A i \in CronId : WF_cronVars(\E r \in runs : r.task.id = i /\ (RunSucceeds(r) \/ RunFails(r)))

CronSpec == CronInit /\ [][CronNext]_cronVars /\ CronFairness
-----------------------------------------------------------------------------
CronTypeOK ==
    /\ registered \in [CronId -> 0..MaxObjects] /\ timers \in [CronId -> 0..MaxObjects]
    /\ runs \in SUBSET Run /\ runningTasks \in SUBSET CronId
    /\ retryTimers \in [Run -> 0..MaxRetryTimers]
    /\ objects \in [CronId -> 0..MaxObjects]
    /\ stopped \in SUBSET CronId /\ shadowed \in SUBSET CronId /\ stops \in 0..MaxStops

\* Regular timers, retry timers, triggers and the objects of earlier lives of an
\* id never make two runs of one id overlap, and runningTasks lists just the ids
\* with a run.
OneRunPerId ==
    /\ runningTasks = {r.task.id : r \in runs}
    /\ \A r, s \in runs : r.task.id = s.task.id => r = s

\* A task that stays registered, and that no stop() takes, runs again and again:
\* not another object of its id, but the one in the Map, unless it was added while
\* an earlier object of the id still ran or waited for a retry.  The end of that
\* run puts the timer of the removed object in the place of the new one's, and
\* from then on the removed task may be the only one that runs: then the id does
\* run again and again.
RunsItself(i) == \E r \in runs : r.task = [id |-> i, number |-> registered[i]]

RunsAgainAndAgain ==
    \A i \in CronId :
        <>[](registered[i] # 0 /\ i \notin stopped)
            => []<>(RunsItself(i) \/ (i \in shadowed /\ i \in runningTasks))
=============================================================================
