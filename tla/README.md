# Lumix, specified

TLA+ models of the stateful parts of the lumix monorepo, the TLC runs that check
them on small instances, and proofs, checked by TLAPS, that the most important
properties hold for every instance. Paths below are relative to
`src/packages/` unless they start with `src/`.

Contents: 1 inventory · 2 plan · 3 modules and the code they model · 4 runs ·
5 fairness · 6 proofs · 7 findings and observations · 8 what is not modelled.

## 1 Inventory

Lumix is a TypeScript toolkit for DeFi agents: a large core package and some
twenty plugins. Most of the code is numerical analysis, scoring, wrappers around
services, and text processing. The part where order, interleaving and failure
matter is a set of in-memory managers that run on one JavaScript event loop:
their handlers interleave only where they `await`, and their hazards are what
was read before an await and is used after it, timers that fire late, and
operations that fail half way.

| component | state | operations | hard behaviour | correct when |
|---|---|---|---|---|
| **Rule engine** `plugin-multisig/src/rules/engine.ts` | ordered Map of approval rules | add, update, delete, evaluateContext | evaluateContext iterates the live Map and awaits between rules | an evaluation misses no rule that stays, returns none that never was |
| **Workflow manager** `plugin-multisig/src/workflow/manager.ts` | Map of workflows, cleanup timer | create, approve, approve across chains, reject, expire, clean up, stop | two operations await between check and update; expiry races with approval | a workflow is approved exactly when a quorum of distinct approvers has approved; decisions are final; everything is decided and deleted in the end |
| **Signature verification** `plugin-multisig/src/signature/` | cache of verifiers | verify | asynchronous answer | cryptography; only its answer matters here |
| **Parallel scheduler** `core/src/parallel/scheduler.ts` | tasks, queue, slots, results | add, cancel, clear, register handler; attempts that end, time out, retry | a failed attempt sleeps while its task is queued again | one attempt per task, slots given back, limit kept, a free slot goes to a runnable task |
| **Dependency resolver** `plugin-loader/src/dependency/resolver.ts` | descriptors, forward and reverse graph | add, remove, validate, cycles, load order, impact | traversals of graphs that failed registrations have made cyclic | the graphs mirror each other; the traversals agree with reachability |
| **Plugin lifecycle** `plugin-loader/src/lifecycle/manager.ts` | Map of plugin descriptors | register, initialize, start, stop, unload | hooks are awaited between check and write; an id may be unloaded and registered again meanwhile | no cycles among what registered plugins declare, dependencies initialised first, active means running |
| **Worker pool** `core/src/parallel/worker-pool.ts` | queue, workers, one timer per task, retries | execute; a worker's ready, result, error, exit; timeouts; recycling; shutdown | threads answer late or die; a timeout queues a task that still runs | a task is executed at most once more than it has retries; shutdown interrupts no task |
| **Load balancer and its pools** `core/src/parallel/balancer.ts`, `worker.ts` | pools with workers, queues and timers; a copy of each pool's load | add, remove, submit, select; answers, timeouts, retries, exits; health check; close | choice by a copy that exits and retries do not renew; timers that outlive tasks | a pool is never taken for less busy than it is |
| **Monitor thread pool and its scheduler** `core/src/monitor/thread-pool.ts`, `task-scheduler.ts` | queues by priority, workers, two copies of each worker's status and load | submit, results, errors, timeouts, replacement, stop | answers name no task and timers no thread | the copies agree; a task is in one place; only urgent tasks overfill the queue |
| **Cron scheduler** `core/src/scheduler/index.ts` | tasks, timers, running set | add, remove, trigger, stop, run, retry | timers and runs that outlive the task they were made for | no two runs of an id overlap; the registered task runs again and again |
| **Memory pool** `core/src/memory/pool.ts` | blocks over a buffer, list of free blocks | allocate, reserve, free, grow, expire, close | merging neighbours while iterating over them | blocks are disjoint; free memory can be used |
| **Memory cache** `core/src/cache/memory.ts` | entries, memoryUsage | set, mset, delete, clear, close, expiry, eviction | size checked before an await, entry inserted after it | accounts match entries; maxSize overrun only by concurrent sets |
| **Nonce tracking** `plugin-token-analysis/src/tools/transaction-processor.ts` | tracked nonce and pending transaction of a sender | send, clear the one or the other | counts and receipts that are old when they are stored | no transaction leaves a gap |
| **Stream processor** `core/src/monitor/stream-processor.ts` | queue, batch in progress | add, flush, send, retry, put back, stop | points arrive while a batch is retried | sent once, in order, none lost silently |
| **Oracle data collector** `plugin-oracle-validator/src/comparison/collector.ts` | Map of sources, rate limits, cache | add, remove, collect, fetch, retry, expire | the loop over the live Map suspends for a slot | each source that stays is counted once |
| **Core plugin registry** `core/src/plugin/plugin-registry.ts` | plugins, active ids | register, reload, unregister, start, stop | everything awaits hooks, nothing excludes a second call for the same id | limit overrun only by concurrent registrations |
| **Resource limiter** `core/src/resource/limiter.ts` | usage per resource | allocate, release, measure, change the limits, close | limit checked before an await; measurements overwrite; limits fall below what is allocated | highest limit, or measurement, overrun only by concurrent allocations |
| Two-level cache `core/src/cache/cache-manager.ts` | memory and Redis level | get, set, delete | write-back after an await | see 7 and 8 |
| Plugin loader, sandbox `plugin-loader/src/loader.ts`, `sandbox/` | sandboxes, cache | discover, load, reload, unload | replies of concurrent executions | see 8 |
| Transaction engine `core/src/transaction/engine.ts` | pending map, processing set | create, process, monitor, retry | cannot be constructed | see 8 |
| Alerting `core/src/monitor/alert.ts`, `core/src/security/emergency-handler.ts`, `plugin-alert/` | rules, active alerts | evaluate, resolve | rule removed while active | see 8 |
| The rest | | | | data collection, numerics, I/O, wrappers: section 8 |

How they interact. The workflow manager asks the rule engine for the rules that
match and copies the answer into the workflow; it shares no state with it
afterwards. The lifecycle manager owns a dependency resolver and calls it
synchronously. The monitor's thread pool owns a task scheduler: each calls the
other's handlers synchronously and keeps a copy of the other's state. The other
managers stand alone: schedulers call handlers that callers registered, the worker
pools exchange messages with their threads, the nonce tracker and the data
collector make requests to nodes and price sources, and the cache and the limiter
are used by callers only. Events (`emit`) report what happened and, with one
exception, change nothing: an `error` event nobody listens to throws, which the
lifecycle model has a constant for.

The hazards, each at its line with the properties that would catch it, are
listed in `PROJECT.json`.

## 2 Plan

Written, in this order, the most important behaviour first:

1. `MultisigRules`, `MultisigWorkflow` (composes the rule engine), abstract
   specification `QuorumDecision`, proofs `MultisigWorkflowProofs`.
2. `ParallelScheduler`, proofs `ParallelSchedulerProofs`.
3. `DependencyResolver`, `DependencyTraversals` (the resolver with its traversals),
   `PluginLifecycle` (composes the resolver), run together by `MCPlugins`; proofs of
   both `PluginLifecycleProofs`.
4. `WorkerPool`, `MonitorPool` (composes thread pool and task scheduler) and
   `PoolBalancer` (composes balancer and worker pools), run together by
   `MCWorkerPools`; proofs `PoolBalancerProofs` and, for the other pools and the
   composition, `WorkerPoolsProofs`.
5. `CronScheduler`, `MemoryPool`, `MemoryCache`, `NonceTracker`,
   `StreamProcessor`, `DataCollector`, `PluginRegistry`, `ResourceLimiter`: one
   manager each, run together with the rule engine by `MCServices`; proofs
   `MemoryCollectorProofs` (memory pool and data collector) and, for the others and
   for the composition, `ServicesProofs`.
6. `Selections` and `Sums`: filtering a sequence and adding numbers up, defined so
   that provers can reason about them; lemmas `DataLemmas`.

Left, most useful first:

7. The two levels of `CacheManager` against a register without lost deletions.
   The code does not implement it (section 7), so it needs a weaker promise first.

## 3 Modules and code

General conventions. One action is the code between two awaits, including every
synchronous call it makes. A call that is suspended is kept in a variable
(`evals`, `calls`, `executing`, `sleeping`). An operation that throws and
changes nothing is no action; one that throws after it changed something is
(`ExpireOnSubmit`, `FailRegister`, the `Refuse...` actions); section 8 lists the
exceptions. Definitions that
start with "Mutation:" are faulty variants that nothing uses; each replaces a
definition in a control run and makes a property fail, which shows that the
property can fail.

### MultisigRules (rules/engine.ts)

`rules` is the Map in insertion order; `evals[c]` is a caller's suspended
`evaluateContext`, with the rule object it captured (`current`), the position
the iterator asks for next (`cursor`) and the matches so far. `AddRule`,
`UpdateRule`, `DeleteRule` are synchronous. Deleting an entry behind an
iterator shifts it (`CursorAfterDelete`), which is how a JavaScript Map behaves.
`VisitRule` is one loop iteration: push the captured rule if its conditions
held, then take the next from the Map as it is now. Abstracted: a rule's
conditions are the set of contexts that satisfy them; approvers are a set plus
the length of the array (`slots`), because validation compares the length. The
Merkle root over the rules is left out: nothing reads it for a decision.

`MCMultisigRules` adds two history variables: the rules that stayed throughout
an evaluation (`steady`) and those that were there at some time (`offered`).

### MultisigWorkflow (workflow/manager.ts), QuorumDecision

`workflows[w]` is an entry of the Map, `"none"` a free slot; an id that was
deleted may be used again. `CreateWorkflow` is `createWorkflow` up to its await
(the pending limit is checked there), `Evaluate` the rule engine,
`FinishCreate`/`FailCreate` the rest. `SubmitApproval` has no await and is one
step. `SubmitCrossChain` checks status and expiry, `ResumeCrossChain` counts the
approval when the verification answers, without checking them again.
`CleanupExpiredWorkflows` is the interval callback over all workflows. Time is
`age` and `idle`, counted up to one past the limits they are compared with;
`Tick` may happen at any time. Both continuations are microtasks, so the timer
callback runs only when no call is suspended (`Quiescent`).

`QuorumDecision` is what the manager promises: the policy is fixed when the
proposal is opened, each voter votes once and is named by the policy, the vote
that completes a quorum decides. The refinement maps status to decision, matched
rules to policy and approvals to votes. With cross-chain approvals the abstract
specification has to admit late votes (`LateVotes`), because the code does.

### ParallelScheduler (core/src/parallel/scheduler.ts)

`tasks`, `queue`, `running`, `handled` and `retryCount` are the class's fields;
`executing` are attempts that await handler or timeout, `sleeping[t]` counts
attempts of `t` that await the retry delay. `ProcessQueue` is `processQueue`
with the `runTask` prefixes it calls synchronously; each of `AddTask`,
`Complete`, `Fail`, `Wake` ends in it, as the code does. The handler's result
and the timeout race; whichever comes first ends the attempt (`Complete`,
`FailAndRetry`, `Fail`). `Wake` is `finally` after the delay: it removes the id
from `running`, whoever put it there. Not in the model: a handler that the
timeout beat keeps running, but its result is ignored. `cleared` is a history
variable: has `clear` ever been called.

There is no ageing: `addTask` sorts by priority and `processQueue` takes the
first runnable task, so a stream of urgent additions starves a task of lower
priority for ever. `RunnableIsStarted` says what is left: a runnable task that
waits is started or leaves the queue, unless more urgent ones are started again
and again (`MoreUrgentStarts`).

### DependencyResolver, DependencyTraversals (dependency/resolver.ts)

`known`, `graph`, `reverse` are the three Maps. `AddPlugin` adds edges to those
an id has, `RemovePlugin` removes its own and those to it, following the Maps as
the code does. `HasCyclicDependencies` states what the search answers.

`DependencyTraversals` has the depth-first searches of `hasCyclicDependencies`,
`getLoadOrder` and `getImpactAnalysis`, call by call. `traversal` holds what the
three keep in local variables (`visited`, `recursionStack`, `order`,
`allDependents`) and the stack of the language: a frame is a call of `dfs`, `visit`
or `findAllDependents`, the id it is for (`node`) and what its loop has still to
visit (`left`). `CallRoot` and `CallNext` make a call from the outermost loop and
from the innermost one (`Called`: the early returns, or a new frame), `CallEnds`
leaves a call after its loop (`Returned`), and `CycleFound` is `return true` through
all calls at once. They follow `graph`, the impact analysis `reverse`. A Set or Map
is iterated in any order, so that no answer rests on insertion order. The
functions are synchronous: the graph changes only between traversals, and the
model then forgets the last answer. `getUnloadOrder` reverses the load order.

### PluginLifecycle (lifecycle/manager.ts)

`plugins[p]` is the state of the descriptor in the Map, `calls[c]` the hook a
caller awaits and whether the descriptor it holds is still in the Map
(`attached`): after unloading and registering again, a late answer writes to an
object nobody sees, while the catch blocks look the id up again and reach the
new one (`Failed`). `up[p]` is the plugin's own view: its start hook has
succeeded and its stop hook has not, since. `unloadPlugin` is two calls in
sequence (`unloadStop`, then `uninstall`). `FailRegister` is a registration that
throws after `addPlugin`: the resolver keeps descriptor and edges. A version
mismatch is a free choice, possible whenever there is a dependency.

`declares[p]` is what the registered descriptor of `p` declares. It is not what
the resolver's graph has: `unloadPlugin` looks for dependents before its awaits
and calls `removePlugin` after them, which takes the edges of dependents that
registered in between out of the graph, while these stay registered. What the code
can still promise is about the other declarations: `Dependencies` is `declares`
without the dependencies that were lost in this way, told by two history
variables, `racing` (registered while the dependency was being unloaded; forgotten
when that unload fails) and `orphaned` (the unload took it away). The loss itself is finding 6.

### WorkerPool (core/src/parallel/worker-pool.ts)

`pool` is a record of the class's Maps, queue and counter; it is one variable
because every handler ends in `processNextTask`, a function of all of them
(`ProcessNextTask`). `thread` is what the operating system does: a thread that
is terminated, or dies, is gone only at its exit event, and messages it sent
before (`posted` tasks, `greeting`) may be delivered until then. Each message,
event and timer is one action. `WorkerErrs` and `WorkerExits` are the two events
of a crash; `recycling` marks the terminations `recycleWorker` awaits, after
which it creates a worker, as the exit event does. Idle and queue management are
`RecycleIdle` and `ManageQueue`. Not in the model: statistics, and what the
`maxMemory` option does, which only configures the threads.

### MonitorPool (core/src/monitor/thread-pool.ts, task-scheduler.ts)

`monitor` holds the scheduler's queues and its copy of status and load, and what
the pool thinks each worker holds and times. `unanswered` are tasks posted to the
present thread of a worker, `stray` and `strayTimers` what threads that have been
replaced left behind: as an answer names no task and a timer no thread, either is
applied to the successor's task (`StrayAnswer`, `StrayTimeout`). Replacement
(`Recycle`) drops the task it finds and submits nothing.

### PoolBalancer (core/src/parallel/balancer.ts, worker.ts)

`workerPools[p]` is a pool: its array of workers, with what the thread of each
executes, its queue and its timers, counted per task id, as ids may be used again.
`balancer` is the balancer's Maps. `FirstWith` is the `find` of a worker by its
`taskId`: undefined, and not used, when there is none. `Handled` ends the handlers
that look at the queue and renews the balancer's copy when the pool told of a
task; a timeout leaves the worker busy, a retry and a death tell nothing. `chosen`
are submissions between the selection of a pool and its use; microtasks
(`NoMicrotask`) come before timers and messages. `Terminating` and `PoolClosed`
are the two halves of `close`: the threads terminated in between are replaced, and
the replacements leak.

### CronScheduler (core/src/scheduler/index.ts)

Tasks are objects, pairs of id and number, because a timer and a run keep the
object while the Maps are looked up by id. `Schedule` covers a next run in the
future (a timer, replacing the one of that id) and one already due (a run at
once). `RunSucceeds` and `RunFails` end `executeTask`, `finally` included: it
schedules the object it was made for, removed or not. `shadowed` is a history
variable: the ids whose object in the Map was added while an earlier object of the
id ran or waited for a retry. The end of that run puts the earlier object's timer
in the place of the later one's, which then may never run; `RunsAgainAndAgain`
asks of every other registered object that it runs itself, and of these that
their id does. That removed tasks run at all is an observation of section 7.

### MemoryPool (core/src/memory/pool.ts)

Maps are sequences in insertion order, blocks are named by offset. Splitting,
merging and growth are pure operators. The merge loop (`Merged`) and the loop of
`cleanup` (`Expired`) are recursive functions over the positions of the Map; one
turn of the first (`MergeWith`) keeps what the code keeps: it goes on with the
freed block after another one has absorbed it.

### MemoryCache, NonceTracker, StreamProcessor, DataCollector

`MemoryCache`: `set` is two steps, before and after the await of
`evictIfNeeded`; microtasks keep their order, hence a sequence of waiting sets.
Two limits are compared there, and they fare differently: the number of entries
stays within `maxSize` and the sets that wait, memory does not stay within
`maxMemory` (section 7).
`NonceTracker`: one sender's entries, concurrent calls of `sendTransaction`, and
the node as an external party that counts, replaces, mines and refuses.
`StreamProcessor`: without parallel workers. `batch` is what `processBatch`
holds across its awaits. `DataCollector`: `Visit` is one turn of the loop over
the live Map; `cursor` moves when an entry behind it is deleted, as in
`MultisigRules`; concurrent collections share limiter and cache.

### PluginRegistry, ResourceLimiter

Calls that suspend (`registryCalls`, `allocations`) and what they hold across
the await. An allocation looks (`looked`, with the usage it saw) or measures first,
is compared with the limit of a later moment (`CheckLimit`; `UpdateConfig` may have
changed it) and is added later still. A registration may be suspended in the hooks
of a reload, after the removal, in validation and in the start hooks. `options` are the switches of the
registry's configuration; every combination is an initial state.

### Selections, Sums, and loops

`Select(s, K)` is `Array.prototype.filter`: the elements of `s` that are in the
set `K`, in their order, defined by the ranks of the positions that are kept.
`SelectSeq` returns the same but takes an operator, which no prover reasons
about. `Total(f, K)` is `reduce` with `+`: the number of units of `f` over `K`,
for the folds of the community modules are recursions too. Loops over a list
that change state at every turn (`ProcessNextTasks` of the monitor pool,
`Proceed` of the data collector) are recursive functions, of the state after so
many turns.

## 4 Runs

| run | configuration | question and answer |
|---|---|---|
| multisig_safety | 2 callers, 3 approvers, rules 2-of-3, 1-of-1 and one with `requiredApprovals` 0 (2-of-1 when added, 0-of-1 when updated) sharing an approver, 1 workflow slot | local and cross-chain approvals, rejections, expiry and cleanup interleave: counters agree with approvals, approved means quorum, no decision missed, decisions final but for late cross-chain approvals, refinement of `QuorumDecision`; no workflow stays for ever |
| multisig_pending_limit | 2 callers, limit 1 | violated: finding 1 |
| multisig_late_approval | 2 callers, 2-of-2 | violated: finding 2 |
| scheduler_safety | 3 tasks, t3 waits for t1, t2 is critical, 2/1/0 retries, 2 slots, late handlers, clearings, ids added again while at most 2 of their attempts sleep | one attempt per task, no slot leaked, limit kept, retries exhausted before failing, finished stays finished, priorities respected |
| scheduler_competition | 3 independent tasks of 3 priorities, 2 slots, clearings, ids added again while at most 1 attempt sleeps | at most `maxConcurrent` first attempts; a runnable task leaves the queue unless more urgent ones start again and again |
| scheduler_retry_delay | as safety, no id used again while an attempt sleeps | violated: finding 3 |
| plugins | manager: 3 plugins in a ring (the closing edge optional), 2 callers; resolver alone: every graph that additions and removals reach over 3 ids, every order of iteration | the graphs mirror each other; cycle search, load order and impact agree with their definitions; no cycle among the dependencies registered plugins declare, dependencies initialised, both but for those finding 6 loses; active means running |
| plugin_unload_running | 2 plugins, 1 caller | violated: finding 4 |
| plugin_unload_dependents | 2 plugins, 1 caller | violated: finding 6 |
| worker_pools | worker pool: 2 tasks, 2 retries and none, 1 to 2 workers, 4 threads, 1 crash; monitor pool: 4 tasks of the 4 priorities, 2 workers, queue of 1, 1 error; balancer: pools of 2 threads and of 1, 2 submissions of equal or different ids, 1 death | executions stay within retries, shutdown interrupts no task; pool and scheduler agree, one place per task, only urgent tasks overfill the queue; the balancer never underestimates a load |
| services | one manager at a time; see below | rule evaluation is exact; no two cron runs of an id overlap and the registered task runs again and again; memory blocks are disjoint; no nonce gap; points sent in order; sources counted once; entries, plugins, queued points and resources exceed their limits only by concurrent calls |
| memory_pool_lost | buffer of 4 cells growing to 7 | violated: finding 5 |

The managers of `services` share nothing, so a behaviour is one of a single
manager and the others stay in their initial states (`part`); a product of their
states would show nothing more. Its instances: three rules and one evaluation at
a time, with edits of every kind; two cron ids with two lives each, one retry,
one stop, two runs at a time; a buffer of 4 cells that grows to 7, requests of 1 to 3; three cache
keys, limit 2 entries and 3 units, two sets at a time; two senders and three
transactions mined; batches of 2, a queue of 3, one retry, seven points; two
sources, two collections, one slot, two attempts, four edits; three plugins of
which one depends on another, limit 2, two callers, every combination of
options; two allocations at a time, amounts 1 and 2, limits 1
and 4, changed at any time, measurements 0 and 1.

Why the bounds are enough. Workflows do not influence each other except through
the pending limit, so one slot shows every behaviour of one workflow, and the
limit run has two. Two callers are what a race needs; a third adds only a
repetition of one of the two: the limits that concurrent calls overrun are stated
with the number of calls, so that two show the overrun. Expiration and cleanup
interval of one tick distinguish before, at and after the limit (the counters go
one past it). Two slots and three tasks are the smallest scheduler in which a task
waits, a retry overtakes and a dependency releases. Three plugins have graphs in
which two paths lead to one, and a cycle of two that the third hangs on or is
apart from; for larger graphs there are the proofs. `MaxAsleep`
bounds how many attempts of an id may sleep when the id is added again; two lets an
attempt sleep through two lives, and with one the retry of an earlier life meets the
next. Clearing itself is unbounded. Four threads let each of the two workers be replaced once, and one crash next to
idle recycling and shutdown reaches every order of error, exit and replacement.
The monitor's queue of one with four tasks is full, evicts, and overflows. Seven
cells are enough for three neighbouring free blocks around one that is freed, in
every order of the Map, which is what merging gets wrong. Seven points overflow a
queue of three while a batch of two waits to be put back. `MaxObjects`,
`MaxRetryTimers`, `MaxStops`, `MaxNonce`, `MaxPoints`, `MaxEdits`, `MaxThreads`,
`MaxCrashes`, `MaxErrors`, `MaxSets`, `MaxSubmits` and `MaxDeaths` are bounds on
counters the code does not bound; each guards the one action that counts.

Deadlock is checked but in `worker_pools` (after shutdown), in `services` and
in `memory_pool_lost` (bounds that are used up, a closed buffer): there the
program really may have nothing left to do. No state constraint is used. Symmetry is
used in `plugins` alone, of the two callers, which no definition tells
apart; that run checks no liveness property.

## 5 Fairness

Most runs assume none. `MultisigWorkflow!FairSpec`: continuations of promises
run (weak), time passes (weak), and the cleanup timer fires (strong, because
`Quiescent` comes and goes between the microtasks of different calls) until
`stop` clears it. Its liveness property has `EventLoopDrains` as a
premise: the event loop empties its microtask queue again and again, without
which no timer callback runs in Node.js. Nothing obliges callers to approve.
`CronScheduler!CronFairness`: the timer of an id fires and a run of an id ends,
because handlers settle; `RunsAgainAndAgain` asks it of task objects that stay
registered and whose timer no `stop` cleared, with the exception of section 3.
Retry timers need no fairness: the regular timer goes on without them.
`ParallelScheduler!FairSpec`: an attempt ends, because the timeout ends it when
the handler does not, and the delay timer fires. No fairness helps a task against
more urgent ones (section 3). Nothing obliges callers to add
or cancel tasks. `RunnableIsStarted` has the premise that every task has a
handler: a task without one takes a turn and drops out of the queue.

## 6 Proofs

`MultisigWorkflowProofs`, for any approvers, rules, callers, limits:
`TypeCorrect`, `AccountingCorrect`, `QuorumCorrect`, `DecisionCorrect`
(THEOREM Spec => []... for the invariants of multisig_safety), `ClosedCorrect`
(the action property `ClosedStaysClosed`) and `Refinement` (Spec implements
`QuorumDecision`). The inductive invariant `IInv` adds two
facts to the checked properties. `MatchesUncounted`: the matches an evaluation
collects have their full count, without which a new workflow could start with
counters that disagree with its empty list of approvals. `CallsTracked`: a
verification in flight keeps its workflow in the Map; cleanup deletes
workflows only when no call is suspended, so the workflow that
`ResumeCrossChain` updates is the one that was checked. The core lemma is that
counting down for a new approver raises `Consenting` of exactly the rules that
name it (cardinality of a set with one more element).

For the refinement each action maps to one abstract step: creation to `Open`,
both approvals to `Vote` (an approval that is not yet recorded, counted by the
same quorum test because the counters agree with the approvals: this is where
`ApprovalAccounting` is needed), rejection, expiry and the whole cleanup loop
to one `Sweep`, everything else to stuttering.

`PluginLifecycleProofs`, for any plugins, declarations, callers: `MirrorCorrect`,
`AcyclicCorrect`, `DependenciesCorrect`, `ActiveCorrect`, `TypeCorrect`. The
inductive invariant adds `GraphsMirror` (removal follows one graph to edit the
other, so both must agree), `ResolverKnowsRegistered` and `AttachedRegistered` (a
call that may write to the Map is about a registered plugin). `AcyclicCorrect` and
`DependenciesCorrect` are about what registered descriptors declare, while the
code decides by the resolver's graph: `GraphAcyclic` and `GraphInitialized` say the
same of the graph, `EdgesOfDeclared` that a declared dependency has its edge unless
an unload has taken it, and `OrphanedByRace` that this happens only to plugins
that registered while the dependency was being unloaded.
`AcyclicCorrect` rests on a lemma: if validation finds no cycle among
what the new plugin reaches, and the old plugins had none among themselves, the
union has none; failed registrations, which change edges of unregistered ids
only, and removals, which only take edges away, cannot create one.

`PluginLifecycleProofs`, of the resolver's traversals, for any plugins, graphs and
orders of iteration: `CyclesCorrect`, `LoadOrderCorrect`, `ImpactCorrect`,
`TraversalTypeCorrect`, `TraversalMirrorCorrect`, and `AdvanceCorrect`, the action
property `TraversalsAdvance`. The code is recursive and the prover has no induction
over its calls; with the stack in the state, what induction would assume of the
inner calls is an invariant, `TraversalInv`. `Walk` says that the calls on the stack
follow a path of edges, that what their loops have reached was visited, and that
whatever a call that is over depends on was visited too. To this each traversal adds
what it is for. `CyclesWalk`: nothing leads out of the ids whose calls are over, and
there is no cycle among them; for an id that a loop reaches is on the stack, which
closes a cycle (`CycleOnStack`), or its call is over. `OrderWalk`: the list holds the
ids whose calls are over, each after what it depends on, unless it leads to a
cycle. `ImpactWalk`: what is counted is what the loops have reached. A step that
makes a call is proved in two halves, the loop that takes an id (`NextTaken`,
`RootTaken`) and the call for it (`CalledFine`); between the two the invariant holds
but for that id, its parameter `D`. At the end the visited ids are closed under
the graph, hence all that is reached; that the impact, found in the reverse graph,
is right in the forward one needs `GraphsMirror`. `AdvanceCorrect` is termination
without fairness: twice the edges and roots not taken yet, and the calls on the
stack, are fewer after every step, around cycles too.

`ParallelSchedulerProofs`, for any tasks, dependencies, priorities, retries and
slots: `SchedulerTypeCorrect`, `SingleAttemptCorrect`, `NoSlotLeakCorrect`,
`SlotsCorrect`, `RetriesCorrect`, `OverrunCorrect`, and the action properties
`FinishedCorrect` and `PriorityCorrect`. The inductive invariant says in which
places an id may be at a time (queued once, or executed once, next to any number
of attempts that sleep), that each id in `running` belongs to an attempt that
executes or sleeps, that `retryCount` agrees with the status of the task, that
first attempts hold their slots as long as no id is used again, and that only
retried tasks stand before more urgent ones in the queue. What `processQueue` does
is stated once (`Starts`, lemma `Processed`): it starts some of the queue, each of
them runnable and none of them overtaken. All steps but four end in it, so a step
is proved by what it does before.

`WorkerPoolsProofs`, of the worker pool, for any tasks, retries, sizes and threads:
`PoolTypeCorrect`, `AttemptsCorrect`, `ShutdownCorrect` (an action property).
`ShutdownWaitsForTasks` needs `Covered`: `activeTaskCount` is never below the
number of tasks that were posted and not answered, so at zero there is none.
`AttemptsWithinRetries` needs `Within`: attempts made and places in the queue,
counted together, stay within one and the retries counted.

`WorkerPoolsProofs`, of the monitor's pool, for any tasks, priorities, threads and
errors: `MonitorTypeCorrect`, `OverfullCorrect`, `TracksPoolCorrect`,
`OnePlaceCorrect`. The invariant says which queue a task is in and that nothing
else holds it, that what a timer will submit again is nowhere else, and, until the
pool stops, that the scheduler's copy of a worker's status agrees with what the
pool has given it and no load exceeds 20. It assumes `LoadThreshold >= 20`, as the
pool passes 20: with a smaller one the scheduler would move load, and the copies
could differ. `processNextTasks` goes through the workers; what one turn keeps,
the round keeps (`RoundKeeps`). `PoolsTypeCorrect` and `PoolsCorrect` put the
three parts of `MCWorkerPools` together: each behaves among the others as it does
alone (`PoolsBehave`).

`PoolBalancerProofs`, for any pools, tasks, sizes, retries, limits and deaths:
`BalancerTypeCorrect` and `LoadCorrect`. `Known` says that the balancer's copy,
once it has one, covers the workers marked busy: marks are only set in
`processNextTask`, which tells the balancer. That the threads execute no more than
is marked holds for one of two reasons, each an invariant of its own. As long as
no thread has died, the threads owe as many answers for an id as workers are
marked with it (`Matched`), though not always the same workers, for an answer
frees the first worker with its id. As long as no id is used twice, a worker
executes just the task it is marked with (`Once`, `Alone`), deaths or not: an id
that was begun waits nowhere, so no error or timeout finds it queued, and it is
never retried. Without either the claim is false, and TLC shows it: shared ids and
a death leave a thread that executes a task nobody is marked with.

`MemoryCollectorProofs`, of the data collector, for any sources, collections,
limits and edits: `CollectorTypeCorrect`, `SteadyCorrect`. A steady source is in
one place: ahead of the cursor, held while the loop waits for a slot, asked by one
task, or answered once. Each turn of the loop and each answer moves one source on,
and deletions behind the cursor move the cursor with the entries. Request numbers
stay within the edits made, so the types are finite.

`MemoryCollectorProofs`, of the memory pool, for any sizes, growth factor and requests:
`BlocksStayDisjoint` and `MemoryTypeCorrect`. The invariant says that blocks are
apart and within the buffer (`Tiled`) and that `freeBlocks` lists the offset of
each free block once (`Listed`). It does not hold inside the merge loop, where a
block and what it has absorbed both stand in the Map; there, the freed block with
what it has absorbed overlaps nothing but what is going to be deleted, and what
absorbed it ends where it begins (`Absorbing`). Each turn keeps that
(`MergeWithKeeps`), hence the loop does; the deletions restore the invariant
(`AbsorbedFine`). Splitting and growth replace or add one block (`TakenFree`,
`AddedFree`).

`ServicesProofs`, for any instance of the managers:

- rule engine: `EvaluationCorrect` and `RulesTypeCorrect`. A rule that stays is
  collected, in the evaluation's hand or ahead of the cursor (`Reached`); what is
  collected was there (`OnlyOffered`); the Map has an id once (`UniqueIds`).
- cron scheduler: `CronCorrect` and `CronTypeCorrect`. `OneRunPerId` is inductive as it
  stands, stated as a
  relation `Agree` of the two variables, which each way of starting a run
  (`Execute`) and of ending one preserves. For the types, the retry timers of one
  run are at most all of them, whose `Total` the guard bounds.
- nonce tracker: `NonceCorrect` and `NonceTypeCorrect`, for any number of
  concurrent calls. `NoNonceGap` is not inductive: a count on its way, or a receipt
  not yet seen, will be stored in the tracker. `CallsBehind` bounds what every
  suspended call holds by what the account has mined, and `OneInPool` says
  that only one transaction waits at the node.
- plugin registry: `RegistryTypeCorrect` and its limit. A registration under way
  holds a place that it may use: the invariant counts plugins and places
  together, and each step of a call trades one for the other.
- stream processor: `SentInOrderCorrect`, `StreamTypeCorrect` and its limit. Sent,
  batch and queue, in this order, are increasing and lie below the points that
  arrived; a batch that is put back goes before a queue that came after it. With
  a listener for errors every point is sent, dropped by number, or on its way.
- memory cache: `CacheTypeCorrect` and its limit on entries. `memoryUsage` is the
  `Total` of the entries' sizes; the entries beyond `maxSize` are those of the sets
  that wait. There is no theorem about `maxMemory` (section 7).
- resource limiter: `LimiterTypeCorrect` and its limit, for any limits set at any
  time and any measurements. A call that has looked owes its amount already if
  what it saw leaves room under a bound (`OwedCalls`); for every bound that no limit
  so far exceeds, and no measurement with one amount, usage and what is owed stay
  within it and one amount for each further call (`OwedWithin`). The bounds above the
  present limits are needed because a limit may be raised between look and check.
- together: `LimitsCorrect`, `ManagersCorrect` and `ServicesTypeCorrect`, theorems of
  `ServicesSpec`, from one invariant per manager and the lemma that a step of one
  leaves the invariants of the others alone.

`DataLemmas` holds what these share: what `Select` returns (its order, its
elements, how often each occurs), that `Total` adds and subtracts, and that a
recursive function over `1..n` exists and keeps what each of its steps keeps
(`IterationExists`, `KeptByIteration`).

Assumptions on constants are the named ASSUMEs; TLC evaluates them in every run
of a module that uses them.

Only model-checked: the liveness properties (`WorkflowsEnd`,
`RunnableIsStarted`, `RunsAgainAndAgain`), for the prover does not reason about
fairness. Every other property of a passing run is the statement of a theorem.
`TraversalsAdvance` is a theorem only: its proof covers every graph a run could.

## 7 Findings and observations

Findings, each with a run that shows it:

1. `workflow/manager.ts:78` The pending limit is checked before the await and
   consumed after it: concurrent creations exceed `maxPendingWorkflows`.
2. `workflow/manager.ts:331` A cross-chain approval is counted for a workflow
   that was decided while its signature was verified, and may turn a rejected or
   expired one into an approved one.
3. `core/src/parallel/scheduler.ts:295` A failed task is queued before its retry
   delay, so its next attempt may start at once, and the end of the delay frees
   the slot of that attempt: handlers beyond `maxConcurrent` run.
4. `lifecycle/manager.ts:303` A running plugin that is started again, or whose
   stop is refused, is marked failed and later uninstalled without being stopped.
5. `core/src/memory/pool.ts:294` Merging goes on with a block that its predecessor
   has absorbed; the free block that follows is deleted and its memory belongs to
   no block any more, while `getStats` counts it as free.
6. `lifecycle/manager.ts:316` `unloadPlugin` looks for dependents, awaits stop and
   uninstall, and removes the plugin with the edges of dependents that registered in
   between: registered plugins whose dependency is gone, and, once it is registered
   again, cycles and uninitialised dependencies the resolver does not see.

Observations met while modelling, without a run of their own:

- `rules/engine.ts:100` The default number of approvals is filled in after
  validation, so a rule without one may need more approvals than it has
  approvers; `updateRule` does not fill it in, so the first approval suffices.
- `lifecycle/manager.ts:235` Active dependents are looked for before the stop
  hook is awaited, and `startPlugin` does not look at dependencies at all: an
  active plugin may have a stopped dependency.
- `lifecycle/manager.ts:48` A failed registration leaves the plugin in the
  resolver as a dependent: its dependencies can then be neither stopped nor
  unloaded.
- `lifecycle/manager.ts:111` Dependencies must be exactly `initialized`; once
  one is active, initialising its dependents fails and marks them failed.
- `core/src/parallel/scheduler.ts:254` A task whose handler is missing leaves
  the queue, stays pending for ever and takes the turn of the next one.

- `core/src/parallel/worker-pool.ts:340` `findTask` looks for a finished task in
  the queue, which it left when it was assigned: results are dropped and promises
  stay open unless a timeout has queued the task again. A worker that dies never
  gives its share of `activeTaskCount` back, so `shutdown` (line 518) then waits
  for ever; its replacement is created twice, so the pool may outgrow
  `maxWorkers`.
- `core/src/parallel/balancer.ts:170` Round robin keeps its index when fewer pools
  are available than before, and throws a `TypeError` until there are more again:
  with one of two pools full, the idle one may receive nothing.
- `core/src/parallel/worker.ts:313` `close` terminates the threads, whose exits
  create others; these it drops without terminating them. The results of this
  pool, too, are looked up in the queue (line 214), so promises stay open.
- `core/src/monitor/task-scheduler.ts:255` A task submitted again starts with
  `retries: 0`: `maxRetries` is never reached. After a worker was replaced nobody
  looks at the queues until the next result or submission. `balanceLoad` never
  finds a worker to relieve (`SchedulerTracksPool` shows why), and the promise of
  `ThreadPool.submitTask` (`thread-pool.ts:325`) is matched against fields that
  no answer has: whoever awaits it waits for ever.
- `core/src/scheduler/index.ts:154` A task removed or stopped during its run is
  scheduled again: it goes on running, and its timer replaces that of an object
  added since under the same id, which then may never run; timers ignore `maxConcurrent`, and retry timers are never cleared.
- `core/src/parallel/scheduler.ts:338` Priorities are absolute: urgent tasks that keep
  arriving starve the others.
- `core/src/memory/pool.ts:328` Growth copies the buffer; blocks allocated before
  keep views of the old one.
- `core/src/cache/memory.ts:332` A fifth of the entries is evicted when
  `maxMemory` is reached, however small they are, and the new entry is inserted
  however large it is: sets one after another exceed `maxMemory`, "maximum memory
  usage" (`adapter.ts:16`), by more and more, without any concurrency.
- `core/src/cache/memory.ts:312` Run-length coding writes counts as digits, so a
  string that contains digits does not survive it; `close` leaves `memoryUsage`.
- `core/src/cache/cache-manager.ts:190` A value read from Redis is written to the
  memory level after the await, whatever was set or deleted meanwhile.
- `core/src/plugin/plugin-registry.ts:162` `unregisterPlugin` ignores a stop that
  failed: the id stays active without a plugin, and a plugin registered under it
  later cannot be started. A full registry refuses a hot reload as well, which
  needs no room.
- `plugin-token-analysis/src/tools/transaction-processor.ts:278` Concurrent sends
  share a nonce, of which the node keeps one. The tracker never runs ahead but it
  may stay behind: after a reverted transaction, or one sent from elsewhere,
  sends fail until `clearNonceCache` or until a pending entry is overdue.
- `core/src/monitor/stream-processor.ts` Without a listener for `error`, the batch
  whose first attempt fails is lost; a full queue drops its oldest point even
  when the batch could be processed at once.
- `core/src/resource/limiter.ts:285` Disk and network usage always measure 0,
  which erases what was allocated; `updateConfig` (line 372) may set a limit below
  what is allocated, which stays.

## 8 Not modelled

Within the modelled components: cryptography, signatures and the verifier cache
(a verification is a free choice between valid and invalid); the Merkle tree;
event listeners, logging, metrics and timestamps that no decision reads;
dashboards; in the resolver the dependency tree, optional-dependency queries and
statistics, all read-only; the bytes in the memory pool; the alerts and counters
of registry and limiter.

Of the modelled operations, these paths are left out:

- `core/src/monitor/thread-pool.ts:294` A `postMessage` that throws, for data that
  cannot be cloned: the task is lost and its timeout stays set. The timeout of a
  worker without a task, or with another one, is modelled (`StrayTimeout`).
- `core/src/parallel/worker.ts:126` A thread that exits with code 0 while its pool is
  open: it is not replaced, and its worker keeps the task. Nothing in the
  thread's program ends it.
- `core/src/monitor/stream-processor.ts:240` A listener of `batch` that throws after
  another one took the batch makes the processor retry and send it twice: the
  model sends a batch when its listeners return.
- `plugin-token-analysis/src/tools/transaction-processor.ts:320` A
  `waitForTransaction` that rejects leaves a pending entry until it is overdue,
  like a receipt that never comes, which is modelled.
- `core/src/memory/pool.ts:86` The constructor takes any sizes and any growth
  factor. The model assumes positive integers and `InitialSize <= MaxSize`
  (`MemoryAssumption`); with others, offsets are no longer whole numbers, or the
  pool starts above its limit.

Stateful, but without a behaviour to model:

- `core/src/transaction/engine.ts`: its constructor assigns an adapter that is
  never declared, it uses a database that is never assigned and declares
  `calculateTransactionFee` three times: no engine can be constructed.
- `plugin-loader/src/loader.ts` cannot load a plugin: `discoverPlugins` returns
  no path, and `loadPlugin` validates a plugin (line 114) that it gives to the
  resolver only later (line 135).
- `StreamProcessor` with parallel workers and `parallel-processor.ts`: the first
  batch never ends, because `ThreadPool.submitTask` never settles.
- `core/src/plugin/plugin-hot-reload.ts` passes a plugin object where the manager
  expects a path.

Stateful, and left for later (section 2): the Redis level of the cache, whose
write-back violates every promise one would make of it. The alerting modules keep
one set of active alerts each behind thresholds; nothing interleaves there.

Backtesting, analysis, machine learning, language-model adapters, persistence,
chain adapters, crawlers, oracles and the command line, nine tenths of the
code, are sequential transformations or I/O around services: floating-point
series, SQL, HTTP, HTML reports, scores over token data. Their state is local to
a call, and tests over data serve them better than a model checker, which could
only choose their results freely. This is why the models, though they cover the
managers that keep state across awaits and timers, cover a small part of the
lines. `src/src/` holds earlier versions of core components.
