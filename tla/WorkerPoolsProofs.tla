------------------------- MODULE WorkerPoolsProofs -------------------------
(***************************************************************************)
(* The pools of worker threads.                                            *)
(*                                                                         *)
(* The worker pool, for any tasks, retries and threads: a task is never    *)
(* posted or queued more often than its retries allow, and shutdown()      *)
(* terminates no thread that has a task.  The operations work on the       *)
(* record of the pool's state (pool); what each of them keeps is a lemma   *)
(* about the record, and a step of the pool puts two or three together.    *)
(*                                                                         *)
(* The monitor's pool, for any tasks, priorities, number of threads, limit *)
(* of the queue and number of errors: MonitorTypeOK, OnePlacePerTask,      *)
(* OverfullOnlyByUrgent and SchedulerTracksPool.  processNextTasks goes    *)
(* through the workers one by one, and so do the proofs: what AssignNext   *)
(* keeps, the whole round keeps (RoundKeeps).                              *)
(*                                                                         *)
(* The balancer has a module of its own; the last section puts the three   *)
(* together.                                                               *)
(***************************************************************************)
EXTENDS MCWorkerPools, PoolBalancerProofs

-----------------------------------------------------------------------------
(***************************************************************************)
(* WorkerPool                                                              *)
(***************************************************************************)
\* The tasks posted and not answered, each at its place.
Outstanding(p) == UNION {{w} \X DOMAIN p.posted[w] : w \in Thread}

\* activeTaskCount covers the tasks posted.
Covered(p) ==
    /\ IsFiniteSet(Outstanding(p))
    /\ Cardinality(Outstanding(p)) <= p.active

Attempts(p, t) == p.assigned[t] + Occurrences(p.queue, t)

\* No task has been queued and posted more often than b allows.
Within(p, b) == \A t \in PoolTask : Attempts(p, t) <= b[t]

PoolSound(p, b) == p \in PoolState /\ Covered(p) /\ Within(p, b)

\* One attempt when the task is submitted, and one for every retry counted.
Allowed == [t \in PoolTask |-> IF timer[t] = "unset" THEN 0 ELSE 1 + retries[t]]

OneMore(b, t) == [b EXCEPT ![t] = @ + 1]

RetriesBounded ==
    \A t \in PoolTask : /\ retries[t] <= PoolRetries[t]
                        /\ timer[t] = "unset" => retries[t] = 0

PoolInv == PoolTypeOK /\ PoolSound(pool, Allowed) /\ RetriesBounded
-----------------------------------------------------------------------------
LEMMA OutstandingPairs ==
    ASSUME NEW p \in PoolState
    PROVE  \A x : x \in Outstanding(p) <=>
                  \E w \in Thread : \E i \in 1..Len(p.posted[w]) : x = <<w, i>>
<1>1. \A w \in Thread : DOMAIN p.posted[w] = 1..Len(p.posted[w])
  BY DEF PoolState
<1>. QED  BY <1>1 DEF Outstanding

LEMMA PoolFields ==
    ASSUME NEW p \in PoolState
    PROVE  /\ p.status \in [Thread -> {"none", "idle", "busy", "error"}]
           /\ p.current \in [Thread -> PoolTask \cup {NoTask}]
           /\ p.posted \in [Thread -> Seq(PoolTask)] /\ p.queue \in Seq(PoolTask)
           /\ p.active \in Int /\ p.assigned \in [PoolTask -> Nat]
           /\ p.made \in 0..MaxThreads
BY DEF PoolState

\* Fewer posted tasks are covered by the same count.
LEMMA FewerOutstanding ==
    ASSUME NEW p \in PoolState, Covered(p), NEW r \in PoolState,
           Outstanding(r) \subseteq Outstanding(p), p.active <= r.active
    PROVE  Covered(r)
<1>1. /\ IsFiniteSet(Outstanding(r))
      /\ Cardinality(Outstanding(r)) <= Cardinality(Outstanding(p))
  BY FS_Subset DEF Covered
<1>2. Cardinality(Outstanding(r)) \in Nat /\ Cardinality(Outstanding(p)) \in Nat
  BY <1>1, FS_CardinalityType DEF Covered
<1>3. p.active \in Int /\ r.active \in Int
  BY DEF PoolState
<1>. QED  BY <1>1, <1>2, <1>3 DEF Covered

\* A record with the same posted tasks and count, and no more attempts.
LEMMA SameTasks ==
    ASSUME NEW b, NEW p, PoolSound(p, b), NEW r \in PoolState,
           r.posted = p.posted, r.active = p.active, r.assigned = p.assigned,
           r.queue = p.queue
    PROVE  PoolSound(r, b)
<1>1. Outstanding(r) = Outstanding(p)
  BY DEF Outstanding
<1>. QED  BY <1>1 DEF PoolSound, Covered, Within, Attempts

LEMMA CreateWorkerKeeps ==
    ASSUME NEW b, NEW p, PoolSound(p, b)
    PROVE  PoolSound(CreateWorker(p), b) /\ CreateWorker(p).active = p.active
<1>1. CreateWorker(p) \in PoolState
  <2>1. CASE p.made < MaxThreads
    <3>1. /\ MaxThreads \in Nat /\ p.made + 1 \in Thread /\ p.made + 1 \in 0..MaxThreads
          /\ p.status \in [Thread -> {"none", "idle", "busy", "error"}]
      BY <2>1, PoolAssumption, PoolFields DEF PoolSound, Thread
    <3>2. [p.status EXCEPT ![p.made + 1] = "idle"]
              \in [Thread -> {"none", "idle", "busy", "error"}]
      BY <3>1
    <3>3. CreateWorker(p) = [p EXCEPT !.status = [p.status EXCEPT ![p.made + 1] = "idle"],
                                      !.made = p.made + 1]
      BY <2>1 DEF PoolSound, CreateWorker, PoolState
    <3>. QED  BY <3>1, <3>2, <3>3 DEF PoolSound, PoolState
  <2>2. CASE ~(p.made < MaxThreads)
    BY <2>2 DEF PoolSound, CreateWorker
  <2>. QED  BY <2>1, <2>2
<1>2. LET r == CreateWorker(p)
      IN  /\ r.posted = p.posted /\ r.active = p.active
          /\ r.assigned = p.assigned /\ r.queue = p.queue
  BY DEF PoolSound, PoolState, CreateWorker
<1>. QED  BY <1>1, <1>2, SameTasks

LEMMA RemoveWorkerKeeps ==
    ASSUME NEW b, NEW p, PoolSound(p, b), NEW w \in Thread
    PROVE  PoolSound(RemoveWorker(p, w), b)
<1>. DEFINE r == RemoveWorker(p, w)
<1>1. p \in PoolState /\ r \in PoolState
  <2>1. /\ [p.status EXCEPT ![w] = "none"] \in [Thread -> {"none", "idle", "busy", "error"}]
        /\ [p.current EXCEPT ![w] = NoTask] \in [Thread -> PoolTask \cup {NoTask}]
        /\ [p.posted EXCEPT ![w] = <<>>] \in [Thread -> Seq(PoolTask)]
    BY PoolFields DEF PoolSound
  <2>2. r = [p EXCEPT !.status = [p.status EXCEPT ![w] = "none"],
                      !.current = [p.current EXCEPT ![w] = NoTask],
                      !.posted = [p.posted EXCEPT ![w] = <<>>]]
    BY DEF PoolSound, PoolState, RemoveWorker
  <2>. QED  BY <2>1, <2>2 DEF PoolSound, PoolState
<1>2. /\ r.active = p.active /\ r.assigned = p.assigned /\ r.queue = p.queue
      /\ \A v \in Thread : r.posted[v] = IF v = w THEN <<>> ELSE p.posted[v]
  BY <1>1 DEF PoolState, RemoveWorker
<1>. HIDE DEF r
<1>3. Outstanding(r) \subseteq Outstanding(p)
  BY <1>1, <1>2, OutstandingPairs
<1>4. p.active <= r.active
  BY <1>1, <1>2 DEF PoolState
<1>. QED  BY <1>1, <1>2, <1>3, <1>4, FewerOutstanding DEF PoolSound, Within, Attempts, r

\* A task taken from the queue and posted is one attempt before and after.
LEMMA AssignTaskKeeps ==
    ASSUME NEW b, NEW p, PoolSound(p, b), p.queue # <<>>, NEW w \in Thread
    PROVE  PoolSound(AssignTask([p EXCEPT !.queue = Tail(@)], w, Head(p.queue)), b)
<1>. DEFINE t == Head(p.queue)
            r == AssignTask([p EXCEPT !.queue = Tail(@)], w, t)
            x == <<w, Len(p.posted[w]) + 1>>
<1>1. /\ p \in PoolState /\ p.queue \in Seq(PoolTask) /\ p.active \in Int
      /\ p.posted \in [Thread -> Seq(PoolTask)] /\ p.assigned \in [PoolTask -> Nat]
  BY DEF PoolSound, PoolState
<1>2. t \in PoolTask /\ Tail(p.queue) \in Seq(PoolTask)
  BY <1>1
<1>3. r \in PoolState
  <2>1. /\ [p.status EXCEPT ![w] = "busy"] \in [Thread -> {"none", "idle", "busy", "error"}]
        /\ [p.current EXCEPT ![w] = t] \in [Thread -> PoolTask \cup {NoTask}]
        /\ [p.posted EXCEPT ![w] = Append(@, t)] \in [Thread -> Seq(PoolTask)]
        /\ [p.assigned EXCEPT ![t] = @ + 1] \in [PoolTask -> Nat]
        /\ p.active + 1 \in Int
    BY <1>1, <1>2, PoolFields
  <2>2. r = [p EXCEPT !.status = [p.status EXCEPT ![w] = "busy"],
                      !.current = [p.current EXCEPT ![w] = t],
                      !.posted = [p.posted EXCEPT ![w] = Append(@, t)],
                      !.queue = Tail(p.queue), !.active = p.active + 1,
                      !.assigned = [p.assigned EXCEPT ![t] = @ + 1]]
    BY <1>1 DEF PoolState, AssignTask
  <2>. HIDE DEF r, t
  <2>. QED  BY <1>1, <1>2, <2>1, <2>2 DEF PoolState
<1>4. /\ r.active = p.active + 1 /\ r.queue = Tail(p.queue)
      /\ r.posted = [p.posted EXCEPT ![w] = Append(@, t)]
      /\ r.assigned = [p.assigned EXCEPT ![t] = @ + 1]
  BY <1>1 DEF PoolState, AssignTask
<1>. HIDE DEF r, t
<1>5. Outstanding(r) \subseteq Outstanding(p) \cup {x}
  <2>1. \A v \in Thread : \A i \in 1..Len(r.posted[v]) :
            (v = w /\ i = Len(p.posted[w]) + 1) \/ i \in 1..Len(p.posted[v])
    BY <1>1, <1>2, <1>4
  <2>2. ASSUME NEW y \in Outstanding(r)
        PROVE  y \in Outstanding(p) \cup {x}
    <3>1. PICK v \in Thread : \E i \in 1..Len(r.posted[v]) : y = <<v, i>>
      BY <1>3, OutstandingPairs
    <3>2. PICK i \in 1..Len(r.posted[v]) : y = <<v, i>>
      BY <3>1
    <3>3. CASE i \in 1..Len(p.posted[v])
      BY <1>1, <3>2, <3>3, OutstandingPairs
    <3>4. CASE v = w /\ i = Len(p.posted[w]) + 1
      BY <3>2, <3>4
    <3>. QED  BY <2>1, <3>2, <3>3, <3>4
  <2>. QED  BY <2>2
<1>6. Covered(r)
  <2>1. /\ IsFiniteSet(Outstanding(p) \cup {x})
        /\ Cardinality(Outstanding(p) \cup {x}) <= Cardinality(Outstanding(p)) + 1
        /\ Cardinality(Outstanding(p)) \in Nat
    <3>1. IsFiniteSet(Outstanding(p)) /\ Cardinality(Outstanding(p)) \in Nat
      BY FS_CardinalityType DEF PoolSound, Covered
    <3>2. /\ IsFiniteSet(Outstanding(p) \cup {x})
          /\ Cardinality(Outstanding(p) \cup {x}) =
                 IF x \in Outstanding(p) THEN Cardinality(Outstanding(p))
                                         ELSE Cardinality(Outstanding(p)) + 1
      BY <3>1, FS_AddElement
    <3>. QED  BY <3>1, <3>2
  <2>2. /\ IsFiniteSet(Outstanding(r))
        /\ Cardinality(Outstanding(r)) <= Cardinality(Outstanding(p) \cup {x})
    BY <1>5, <2>1, FS_Subset
  <2>3. Cardinality(Outstanding(r)) \in Nat /\ Cardinality(Outstanding(p) \cup {x}) \in Nat
    BY <2>1, <2>2, FS_CardinalityType
  <2>4. Cardinality(Outstanding(p)) <= p.active
    BY DEF PoolSound, Covered
  <2>. QED  BY <1>1, <1>4, <2>1, <2>2, <2>3, <2>4 DEF Covered
<1>7. ASSUME NEW u \in PoolTask  PROVE Attempts(r, u) = Attempts(p, u)
  <2>1. /\ Occurrences(p.queue, u) = Occurrences(Tail(p.queue), u) + IF t = u THEN 1 ELSE 0
        /\ Occurrences(Tail(p.queue), u) \in Nat
    BY <1>1, <1>2, TailOccurrences, OccurrencesType DEF t
  <2>2. r.assigned[u] = p.assigned[u] + IF t = u THEN 1 ELSE 0
    BY <1>1, <1>2, <1>4
  <2>3. p.assigned[u] \in Nat
    BY <1>1
  <2>. QED  BY <1>4, <2>1, <2>2, <2>3 DEF Attempts
<1>. QED  BY <1>3, <1>6, <1>7 DEF PoolSound, Within, r, t

LEMMA FirstIdleIsIdle ==
    ASSUME NEW p, Idle(p) # {}
    PROVE  FirstIdle(p) \in Idle(p)
<1>1. Idle(p) \in SUBSET (1..MaxThreads) /\ MaxThreads \in Nat
  BY PoolAssumption DEF Idle, Thread
<1>2. \E w \in Idle(p) : \A v \in Idle(p) : w <= v
  BY <1>1, LeastElement
<1>. QED  BY <1>2 DEF FirstIdle

\* processNextTask posts the task it dequeues, creates a worker or does nothing.
LEMMA ProcessNextTaskKeeps ==
    ASSUME NEW b, NEW p, PoolSound(p, b)
    PROVE  PoolSound(ProcessNextTask(p), b)
<1>1. CASE p.queue = <<>>
  BY <1>1 DEF ProcessNextTask
<1>2. CASE p.queue # <<>> /\ Idle(p) # {}
  <2>1. FirstIdle(p) \in Thread
    BY <1>2, FirstIdleIsIdle DEF Idle
  <2>. QED  BY <1>2, <2>1, AssignTaskKeeps DEF ProcessNextTask
<1>3. CASE p.queue # <<>> /\ Idle(p) = {} /\ Cardinality(Workers(p)) < MaxWorkers
  BY <1>3, CreateWorkerKeeps DEF ProcessNextTask
<1>4. CASE p.queue # <<>> /\ Idle(p) = {} /\ ~(Cardinality(Workers(p)) < MaxWorkers)
  BY <1>4 DEF ProcessNextTask
<1>. QED  BY <1>1, <1>2, <1>3, <1>4

\* The insertion by priority loses no task and adds one.
LEMMA InsertedOccurrences ==
    ASSUME NEW q \in Seq(PoolTask), NEW t \in PoolTask
    PROVE  /\ Inserted(q, t) \in Seq(PoolTask)
           /\ \A u \in PoolTask : Occurrences(Inserted(q, t), u) =
                  Occurrences(q, u) + IF u = t THEN 1 ELSE 0
<1>. DEFINE H == {u \in PoolTask : PoolPriority[u] >= PoolPriority[t]}
            L == {u \in PoolTask : PoolPriority[u] < PoolPriority[t]}
            s == Select(q, H) \o <<t>>
<1>1. Select(q, H) \in Seq(PoolTask) /\ Select(q, L) \in Seq(PoolTask)
  BY SelectValues
<1>2. <<t>> \in Seq(PoolTask) /\ Inserted(q, t) = s \o Select(q, L)
  BY DEF Inserted
<1>3. \A u \in PoolTask : u \in H <=> u \notin L
  BY PoolAssumption
<1>. HIDE DEF H, L
<1>4. s \in Seq(PoolTask)
  BY <1>1, <1>2
<1>5. ASSUME NEW u \in PoolTask
      PROVE  Occurrences(Inserted(q, t), u) = Occurrences(q, u) + IF u = t THEN 1 ELSE 0
  <2>1. Occurrences(s, u) = Occurrences(Select(q, H), u) + Occurrences(<<t>>, u)
    BY <1>1, <1>2, ConcatOccurrences
  <2>2. Occurrences(s \o Select(q, L), u) = Occurrences(s, u) + Occurrences(Select(q, L), u)
    BY <1>1, <1>4, ConcatOccurrences
  <2>3. /\ Occurrences(Select(q, H), u) = IF u \in H THEN Occurrences(q, u) ELSE 0
        /\ Occurrences(Select(q, L), u) = IF u \in L THEN Occurrences(q, u) ELSE 0
    BY SelectOccurrences
  <2>4. Occurrences(<<t>>, u) = IF u = t THEN 1 ELSE 0
    BY SingletonOccurrences
  <2>5. Occurrences(q, u) \in Nat
    BY OccurrencesType
  <2>. HIDE DEF s
  <2>. QED  BY <1>2, <1>3, <2>1, <2>2, <2>3, <2>4, <2>5
<1>6. Inserted(q, t) \in Seq(PoolTask)
  BY <1>1, <1>2, <1>4
<1>. QED  BY <1>5, <1>6

\* Queueing a task is one attempt more.
LEMMA AddToTaskQueueKeeps ==
    ASSUME NEW b \in [PoolTask -> Nat], NEW p, PoolSound(p, b), NEW t \in PoolTask
    PROVE  PoolSound(AddToTaskQueue(p, t), OneMore(b, t))
<1>. DEFINE r == [p EXCEPT !.queue = Inserted(@, t)]
<1>1. /\ p \in PoolState /\ p.queue \in Seq(PoolTask) /\ p.assigned \in [PoolTask -> Nat]
      /\ p.active \in Int
  BY DEF PoolSound, PoolState
<1>2. /\ Inserted(p.queue, t) \in Seq(PoolTask)
      /\ \A u \in PoolTask : Occurrences(Inserted(p.queue, t), u) =
             Occurrences(p.queue, u) + IF u = t THEN 1 ELSE 0
  BY <1>1, InsertedOccurrences
<1>3. r \in PoolState
  BY <1>1, <1>2 DEF PoolState
<1>4. /\ r.posted = p.posted /\ r.active = p.active /\ r.assigned = p.assigned
      /\ r.queue = Inserted(p.queue, t)
  BY <1>1 DEF PoolState
<1>. HIDE DEF r
<1>5. Covered(r)
  BY <1>4 DEF PoolSound, Covered, Outstanding
<1>6. Within(r, OneMore(b, t))
  <2>1. ASSUME NEW u \in PoolTask  PROVE Attempts(r, u) <= OneMore(b, t)[u]
    <3>1. p.assigned[u] \in Nat /\ Occurrences(p.queue, u) \in Nat /\ b[u] \in Nat
      BY <1>1, OccurrencesType
    <3>2. p.assigned[u] + Occurrences(p.queue, u) <= b[u]
      BY DEF PoolSound, Within, Attempts
    <3>3. OneMore(b, t)[u] = b[u] + IF u = t THEN 1 ELSE 0
      BY DEF OneMore
    <3>. QED  BY <1>2, <1>4, <3>1, <3>2, <3>3 DEF Attempts
  <2>. QED  BY <2>1 DEF Within
<1>7. PoolSound(r, OneMore(b, t))
  BY <1>3, <1>5, <1>6 DEF PoolSound
<1>. QED  BY <1>7, ProcessNextTaskKeeps DEF AddToTaskQueue, r

\* An answer takes one task off the thread and one off the count.
LEMMA AnsweredKeeps ==
    ASSUME NEW b, PoolSound(pool, b), NEW w \in Thread, NEW i \in DOMAIN pool.posted[w]
    PROVE  PoolSound(Answered(w, i), b)
<1>. DEFINE r == Answered(w, i)
            n == Len(pool.posted[w])
            x == <<w, n>>
<1>1. /\ pool \in PoolState /\ pool.active \in Int
      /\ pool.posted \in [Thread -> Seq(PoolTask)] /\ pool.posted[w] \in Seq(PoolTask)
  BY DEF PoolSound, PoolState
<1>2. n \in Nat /\ i \in 1..n
  BY <1>1
<1>3. Without(pool.posted[w], i) \in Seq(PoolTask) /\ Len(Without(pool.posted[w], i)) = n - 1
  <2>. DEFINE s == SubSeq(pool.posted[w], 1, i - 1)
              e == SubSeq(pool.posted[w], i + 1, n)
  <2>1. /\ s \in Seq(PoolTask) /\ Len(s) = i - 1
        /\ e \in Seq(PoolTask) /\ Len(e) = n - i
    BY <1>1, <1>2
  <2>. HIDE DEF s, e, n
  <2>2. s \o e \in Seq(PoolTask) /\ Len(s \o e) = n - 1
    BY <1>2, <2>1
  <2>. QED  BY <2>2 DEF Without, s, e, n
<1>4. r \in PoolState
  <2>1. /\ [pool.status EXCEPT ![w] = "idle"] \in [Thread -> {"none", "idle", "busy", "error"}]
        /\ [pool.current EXCEPT ![w] = NoTask] \in [Thread -> PoolTask \cup {NoTask}]
        /\ [pool.posted EXCEPT ![w] = Without(@, i)] \in [Thread -> Seq(PoolTask)]
        /\ pool.active - 1 \in Int
    BY <1>1, <1>3, PoolFields
  <2>2. r = [pool EXCEPT !.status = [pool.status EXCEPT ![w] = "idle"],
                         !.current = [pool.current EXCEPT ![w] = NoTask],
                         !.posted = [pool.posted EXCEPT ![w] = Without(@, i)],
                         !.active = pool.active - 1]
    BY <1>1 DEF PoolState, Answered
  <2>. HIDE DEF r
  <2>. QED  BY <1>1, <2>1, <2>2 DEF PoolState
<1>5. /\ r.active = pool.active - 1 /\ r.queue = pool.queue /\ r.assigned = pool.assigned
      /\ r.posted = [pool.posted EXCEPT ![w] = Without(@, i)]
  BY <1>1 DEF PoolState, Answered
<1>. HIDE DEF r, n
<1>6. x \in Outstanding(pool) /\ Outstanding(r) \subseteq Outstanding(pool) \ {x}
  <2>1. x \in Outstanding(pool)
    BY <1>1, <1>2, OutstandingPairs DEF n
  <2>2. \A v \in Thread : \A j \in 1..Len(r.posted[v]) :
            j \in 1..Len(pool.posted[v]) /\ <<v, j>> # x
    BY <1>1, <1>2, <1>3, <1>5 DEF n
  <2>3. ASSUME NEW y \in Outstanding(r)
        PROVE  y \in Outstanding(pool) \ {x}
    <3>1. PICK v \in Thread : \E j \in 1..Len(r.posted[v]) : y = <<v, j>>
      BY <1>4, OutstandingPairs
    <3>2. PICK j \in 1..Len(r.posted[v]) : y = <<v, j>>
      BY <3>1
    <3>3. j \in 1..Len(pool.posted[v]) /\ y # x
      BY <2>2, <3>2
    <3>. QED  BY <1>1, <3>2, <3>3, OutstandingPairs
  <2>. QED  BY <2>1, <2>3
<1>7. Covered(r)
  <2>1. /\ IsFiniteSet(Outstanding(pool) \ {x})
        /\ Cardinality(Outstanding(pool) \ {x}) = Cardinality(Outstanding(pool)) - 1
        /\ Cardinality(Outstanding(pool)) \in Nat
    BY <1>6, FS_RemoveElement, FS_CardinalityType DEF PoolSound, Covered
  <2>2. /\ IsFiniteSet(Outstanding(r))
        /\ Cardinality(Outstanding(r)) <= Cardinality(Outstanding(pool) \ {x})
    BY <1>6, <2>1, FS_Subset
  <2>3. Cardinality(Outstanding(r)) \in Nat
    BY <2>2, FS_CardinalityType
  <2>4. Cardinality(Outstanding(pool)) <= pool.active
    BY DEF PoolSound, Covered
  <2>. QED  BY <1>1, <1>5, <2>1, <2>2, <2>3, <2>4 DEF Covered
<1>. QED  BY <1>4, <1>5, <1>7 DEF PoolSound, Within, Attempts, r
-----------------------------------------------------------------------------
LEMMA PoolInitInv == PoolInit => PoolInv
<1>. SUFFICES ASSUME PoolInit PROVE PoolInv
  OBVIOUS
<1>1. pool \in PoolState
  BY PoolAssumption DEF PoolInit, PoolState, Thread
<1>2. /\ pool.posted = [w \in Thread |-> <<>>] /\ pool.queue = <<>> /\ pool.active = 0
      /\ pool.assigned = [t \in PoolTask |-> 0]
  BY DEF PoolInit
<1>3. PoolTypeOK
  BY <1>1, PoolAssumption DEF PoolInit, PoolTypeOK, Thread
<1>4. Covered(pool)
  <2>1. Outstanding(pool) = {}
    BY <1>1, <1>2, OutstandingPairs
  <2>. QED  BY <1>2, <2>1, FS_EmptySet DEF Covered
<1>5. Within(pool, Allowed) /\ RetriesBounded
  <2>1. \A t \in PoolTask : Occurrences(<<>>, t) = 0
    <3>1. <<>> \in Seq(PoolTask) /\ DOMAIN <<>> = {}
      OBVIOUS
    <3>. QED  BY <3>1, OccurrencesType
  <2>. QED  BY <1>2, <2>1, PoolAssumption
            DEF PoolInit, Within, Attempts, Allowed, RetriesBounded
<1>. QED  BY <1>1, <1>3, <1>4, <1>5 DEF PoolInv, PoolSound


\* More attempts may be allowed than before.
LEMMA SoundGrows ==
    ASSUME NEW b \in [PoolTask -> Nat], NEW c \in [PoolTask -> Nat],
           \A t \in PoolTask : b[t] <= c[t],
           NEW p, PoolSound(p, b)
    PROVE  PoolSound(p, c)
<1>1. ASSUME NEW t \in PoolTask  PROVE Attempts(p, t) <= c[t]
  <2>1. Attempts(p, t) \in Nat
    <3>1. p.assigned[t] \in Nat /\ p.queue \in Seq(PoolTask)
      BY PoolFields DEF PoolSound
    <3>2. Occurrences(p.queue, t) \in Nat
      BY <3>1, OccurrencesType
    <3>. QED  BY <3>1, <3>2 DEF Attempts
  <2>2. b[t] \in Nat /\ c[t] \in Nat /\ b[t] <= c[t] /\ Attempts(p, t) <= b[t]
    BY DEF PoolSound, Within
  <2>. QED  BY <2>1, <2>2
<1>. QED  BY <1>1 DEF PoolSound, Within

\* The status of a worker says nothing of the tasks.
LEMMA StatusKeeps ==
    ASSUME NEW b, NEW p, PoolSound(p, b), NEW w \in Thread,
           NEW st \in {"none", "idle", "busy", "error"}
    PROVE  PoolSound([p EXCEPT !.status[w] = st], b)
<1>1. [p EXCEPT !.status[w] = st] \in PoolState
  <2>1. [p.status EXCEPT ![w] = st] \in [Thread -> {"none", "idle", "busy", "error"}]
    BY PoolFields DEF PoolSound
  <2>2. [p EXCEPT !.status[w] = st] = [p EXCEPT !.status = [p.status EXCEPT ![w] = st]]
    BY DEF PoolSound, PoolState
  <2>. QED  BY <2>1, <2>2 DEF PoolSound, PoolState
<1>2. LET r == [p EXCEPT !.status[w] = st]
      IN  /\ r.posted = p.posted /\ r.active = p.active
          /\ r.assigned = p.assigned /\ r.queue = p.queue
  BY DEF PoolSound, PoolState
<1>. QED  BY <1>1, <1>2, SameTasks

\* Threads are made for the new entries of the Map.
LEMMA SpawnedTypes ==
    ASSUME PoolTypeOK, NEW p, Spawned(p)
    PROVE  /\ thread' \in [Thread -> {"new", "running", "ending", "gone"}]
           /\ greeting' \in SUBSET Thread
BY DEF PoolTypeOK, Spawned

LEMMA AllowedType ==
    ASSUME PoolTypeOK
    PROVE  Allowed \in [PoolTask -> Nat]
BY DEF PoolTypeOK, Allowed

\* An error that is retried, and one that is not.
LEMMA TaskErrorKeeps ==
    ASSUME PoolInv, NEW w \in Thread, TaskError(w)
    PROVE  PoolInv'
<1>1. /\ PoolTypeOK /\ RetriesBounded /\ PoolSound(pool, Allowed) /\ pool \in PoolState
      /\ Allowed \in [PoolTask -> Nat]
  BY AllowedType DEF PoolInv, PoolSound
<1>. DEFINE t == pool.current[w]
            found == t # NoTask /\ InQueue(pool, t)
            retry == found /\ retries[t] < PoolRetries[t]
<1>2. PICK i \in DOMAIN pool.posted[w] :
        /\ timer' = IF found THEN [timer EXCEPT ![t] = "over"] ELSE timer
        /\ retries' = IF retry THEN [retries EXCEPT ![t] = @ + 1] ELSE retries
        /\ outcome' = IF found /\ ~retry /\ outcome[t] = "open"
                      THEN [outcome EXCEPT ![t] = "rejected"] ELSE outcome
        /\ pool' = ProcessNextTask(IF retry THEN AddToTaskQueue(Answered(w, i), t)
                                            ELSE Answered(w, i))
        /\ Spawned(pool')
        /\ UNCHANGED <<recycling, phase, crashes>>
  BY DEF TaskError
<1>3. t \in PoolTask \cup {NoTask}
  BY <1>1, PoolFields
<1>4. PoolSound(Answered(w, i), Allowed)
  BY <1>1, AnsweredKeeps
<1>5. found => t \in PoolTask
  BY <1>3
<1>. HIDE DEF found, t
<1>6. /\ timer' \in [PoolTask -> {"unset", "pending", "over"}]
      /\ retries' \in [PoolTask -> Nat]
      /\ outcome' \in [PoolTask -> {"open", "resolved", "rejected"}]
      /\ RetriesBounded'
  BY <1>1, <1>2, <1>5, PoolAssumption DEF PoolTypeOK, RetriesBounded
<1>7. Allowed' \in [PoolTask -> Nat]
  BY <1>6 DEF Allowed
<1>8. ASSUME retry  PROVE PoolSound(pool, Allowed)'
  <2>1. PoolSound(pool', OneMore(Allowed, t))
    BY <1>1, <1>2, <1>4, <1>5, <1>8, AddToTaskQueueKeeps, ProcessNextTaskKeeps
  <2>2. /\ OneMore(Allowed, t) \in [PoolTask -> Nat]
        /\ \A u \in PoolTask : OneMore(Allowed, t)[u] <= Allowed'[u]
    BY <1>1, <1>2, <1>5, <1>8 DEF OneMore, Allowed, PoolTypeOK, RetriesBounded
  <2>. QED  BY <1>7, <2>1, <2>2, SoundGrows
<1>9. ASSUME ~retry  PROVE PoolSound(pool, Allowed)'
  <2>1. PoolSound(pool', Allowed)
    BY <1>2, <1>4, <1>9, ProcessNextTaskKeeps
  <2>2. \A u \in PoolTask : Allowed[u] <= Allowed'[u]
    BY <1>1, <1>2, <1>5, <1>9 DEF Allowed, PoolTypeOK, RetriesBounded
  <2>. QED  BY <1>1, <1>7, <2>1, <2>2, SoundGrows
<1>10. PoolSound(pool, Allowed)'
  BY <1>8, <1>9
<1>11. PoolTypeOK'
  <2>1. pool' \in PoolState
    BY <1>10 DEF PoolSound
  <2>. QED  BY <1>1, <1>2, <1>6, <2>1, SpawnedTypes DEF PoolTypeOK
<1>. QED  BY <1>6, <1>10, <1>11 DEF PoolInv

LEMMA PoolStepInv == PoolInv /\ [PoolNext]_poolVars => PoolInv'
<1>. SUFFICES ASSUME PoolInv, [PoolNext]_poolVars PROVE PoolInv'
  OBVIOUS
<1>1. /\ PoolTypeOK /\ RetriesBounded /\ PoolSound(pool, Allowed) /\ pool \in PoolState
      /\ Allowed \in [PoolTask -> Nat]
  BY AllowedType DEF PoolInv, PoolSound
<1>2. ASSUME NEW t \in PoolTask, ExecuteTask(t)  PROVE PoolInv'
  <2>1. Allowed' = OneMore(Allowed, t)
    BY <1>1, <1>2 DEF ExecuteTask, PoolTypeOK, RetriesBounded, Allowed, OneMore
  <2>2. PoolSound(pool', OneMore(Allowed, t))
    BY <1>1, <1>2, AddToTaskQueueKeeps DEF ExecuteTask
  <2>3. PoolSound(pool, Allowed)'
    BY <2>1, <2>2
  <2>4. pool' \in PoolState
    BY <2>2 DEF PoolSound
  <2>5. PoolTypeOK'
    BY <1>1, <1>2, <2>4, SpawnedTypes DEF ExecuteTask, PoolTypeOK
  <2>6. RetriesBounded'
    BY <1>1, <1>2 DEF ExecuteTask, PoolTypeOK, RetriesBounded
  <2>. QED  BY <2>3, <2>5, <2>6 DEF PoolInv
<1>3. ASSUME NEW t \in PoolTask, TaskTimeout(t)  PROVE PoolInv'
  <2>1. /\ timer' \in [PoolTask -> {"unset", "pending", "over"}]
        /\ retries' \in [PoolTask -> Nat]
        /\ outcome' \in [PoolTask -> {"open", "resolved", "rejected"}]
        /\ RetriesBounded'
    <3>1. /\ timer \in [PoolTask -> {"unset", "pending", "over"}]
          /\ outcome \in [PoolTask -> {"open", "resolved", "rejected"}]
          /\ retries \in [PoolTask -> Nat] /\ PoolRetries \in [PoolTask -> Nat]
          /\ timer' = [timer EXCEPT ![t] = "over"]
      BY <1>1, <1>3, PoolAssumption DEF TaskTimeout, PoolTypeOK
    <3>2. CASE retries[t] < PoolRetries[t]
      <4>1. retries' = [retries EXCEPT ![t] = @ + 1] /\ outcome' = outcome
        BY <1>3, <3>2 DEF TaskTimeout
      <4>. QED  BY <1>1, <3>1, <3>2, <4>1 DEF RetriesBounded
    <3>3. CASE ~(retries[t] < PoolRetries[t])
      <4>1. /\ outcome' = [outcome EXCEPT ![t] = IF @ = "open" THEN "rejected" ELSE @]
            /\ retries' = retries
        BY <1>3, <3>3 DEF TaskTimeout
      <4>. QED  BY <1>1, <3>1, <4>1 DEF RetriesBounded
    <3>. QED  BY <3>2, <3>3
  <2>2. ASSUME retries[t] < PoolRetries[t]  PROVE PoolSound(pool, Allowed)'
    <3>1. Allowed' = OneMore(Allowed, t)
      BY <1>1, <1>3, <2>2 DEF TaskTimeout, PoolTypeOK, Allowed, OneMore
    <3>2. PoolSound(pool', OneMore(Allowed, t))
      BY <1>1, <1>3, <2>2, AddToTaskQueueKeeps DEF TaskTimeout
    <3>. QED  BY <3>1, <3>2
  <2>3. ASSUME ~(retries[t] < PoolRetries[t])  PROVE PoolSound(pool, Allowed)'
    <3>1. Allowed' = Allowed /\ pool' = pool
      BY <1>1, <1>3, <2>3 DEF TaskTimeout, PoolTypeOK, Allowed
    <3>. QED  BY <1>1, <3>1
  <2>4. PoolSound(pool, Allowed)' /\ pool' \in PoolState
    BY <2>2, <2>3 DEF PoolSound
  <2>5. PoolTypeOK'
    BY <1>1, <1>3, <2>1, <2>4, SpawnedTypes DEF TaskTimeout, PoolTypeOK
  <2>. QED  BY <2>1, <2>4, <2>5 DEF PoolInv
<1>4. ASSUME NEW w \in Thread, WorkerReady(w)  PROVE PoolInv'
  <2>1. PoolSound(pool', Allowed)
    BY <1>1, <1>4, StatusKeeps, ProcessNextTaskKeeps DEF WorkerReady
  <2>2. Allowed' = Allowed
    BY <1>4 DEF WorkerReady, Allowed
  <2>3. PoolTypeOK' /\ RetriesBounded'
    BY <1>1, <1>4, <2>1 DEF WorkerReady, PoolTypeOK, RetriesBounded, PoolSound
  <2>. QED  BY <2>1, <2>2, <2>3 DEF PoolInv
<1>5. ASSUME NEW w \in Thread, TaskComplete(w)  PROVE PoolInv'
  <2>1. PICK i \in DOMAIN pool.posted[w] :
          LET t == pool.posted[w][i] IN
          /\ IF InQueue(pool, t)
             THEN /\ timer' = [timer EXCEPT ![t] = "over"]
                  /\ outcome' = [outcome EXCEPT ![t] = IF @ = "open" THEN "resolved" ELSE @]
             ELSE UNCHANGED <<timer, outcome>>
          /\ pool' = ProcessNextTask(Answered(w, i)) /\ Spawned(pool')
          /\ UNCHANGED <<recycling, retries, phase, crashes>>
    BY <1>5 DEF TaskComplete
  <2>2. PoolSound(pool', Allowed)
    BY <1>1, <2>1, AnsweredKeeps, ProcessNextTaskKeeps
  <2>3. pool.posted[w][i] \in PoolTask
    BY <1>1, <2>1, PoolFields
  <2>4. /\ timer' \in [PoolTask -> {"unset", "pending", "over"}]
        /\ outcome' \in [PoolTask -> {"open", "resolved", "rejected"}]
        /\ retries' = retries /\ RetriesBounded'
        /\ \A u \in PoolTask : timer'[u] # timer[u] => timer'[u] = "over"
    <3>1. /\ timer \in [PoolTask -> {"unset", "pending", "over"}]
          /\ outcome \in [PoolTask -> {"open", "resolved", "rejected"}]
          /\ retries \in [PoolTask -> Nat] /\ retries' = retries
      BY <1>1, <2>1 DEF PoolTypeOK
    <3>2. CASE InQueue(pool, pool.posted[w][i])
      <4>1. /\ timer' = [timer EXCEPT ![pool.posted[w][i]] = "over"]
            /\ outcome' = [outcome EXCEPT ![pool.posted[w][i]] =
                               IF @ = "open" THEN "resolved" ELSE @]
        BY <2>1, <3>2
      <4>. QED  BY <1>1, <2>3, <3>1, <4>1 DEF RetriesBounded
    <3>3. CASE ~InQueue(pool, pool.posted[w][i])
      <4>1. timer' = timer /\ outcome' = outcome
        BY <2>1, <3>3
      <4>. QED  BY <1>1, <3>1, <4>1 DEF RetriesBounded
    <3>. QED  BY <3>2, <3>3
  <2>5. /\ Allowed' \in [PoolTask -> Nat]
        /\ \A u \in PoolTask : Allowed[u] <= Allowed'[u]
    BY <1>1, <2>4 DEF PoolTypeOK, Allowed
  <2>6. PoolSound(pool, Allowed)'
    BY <1>1, <2>2, <2>5, SoundGrows
  <2>7. PoolTypeOK'
    BY <1>1, <2>1, <2>2, <2>4, SpawnedTypes DEF PoolTypeOK, PoolSound
  <2>. QED  BY <2>4, <2>6, <2>7 DEF PoolInv
<1>6. ASSUME NEW w \in Thread, TaskError(w)  PROVE PoolInv'
  BY <1>6, TaskErrorKeeps
<1>7. ASSUME NEW w \in Thread, WorkerErrs(w)  PROVE PoolInv'
  <2>1. PoolSound(pool', Allowed)
    BY <1>1, <1>7, StatusKeeps DEF WorkerErrs
  <2>2. Allowed' = Allowed
    BY <1>7 DEF WorkerErrs, Allowed
  <2>3. PoolTypeOK' /\ RetriesBounded'
    BY <1>1, <1>7, <2>1, PoolAssumption
    DEF WorkerErrs, PoolTypeOK, RetriesBounded, PoolSound
  <2>. QED  BY <2>1, <2>2, <2>3 DEF PoolInv
<1>8. ASSUME NEW w \in Thread, RecycleIdle(w)  PROVE PoolInv'
  <2>1. pool' = pool /\ Allowed' = Allowed
    BY <1>8 DEF RecycleIdle, Allowed
  <2>2. PoolTypeOK' /\ RetriesBounded'
    BY <1>1, <1>8 DEF RecycleIdle, PoolTypeOK, RetriesBounded
  <2>. QED  BY <1>1, <2>1, <2>2 DEF PoolInv
<1>9. ASSUME NEW w \in Thread, NEW code \in {0, 1}, WorkerExits(w, code)  PROVE PoolInv'
  <2>1. ASSUME NEW p, PoolSound(p, Allowed)  PROVE PoolSound(Replaced(p), Allowed)
    BY <2>1, CreateWorkerKeeps DEF Replaced
  <2>2. PoolSound(RemoveWorker(pool, w), Allowed)
    BY <1>1, RemoveWorkerKeeps
  <2>3. PoolSound(pool', Allowed)
    BY <1>9, <2>1, <2>2 DEF WorkerExits
  <2>4. Allowed' = Allowed
    BY <1>9 DEF WorkerExits, Allowed
  <2>5. PoolTypeOK' /\ RetriesBounded'
    BY <1>1, <1>9, <2>3, PoolAssumption
    DEF WorkerExits, PoolTypeOK, RetriesBounded, PoolSound
  <2>. QED  BY <2>3, <2>4, <2>5 DEF PoolInv
<1>10. CASE ManageQueue
  <2>1. PoolSound(pool', Allowed)
    BY <1>1, <1>10, CreateWorkerKeeps DEF ManageQueue
  <2>2. Allowed' = Allowed
    BY <1>10 DEF ManageQueue, Allowed
  <2>3. PoolTypeOK' /\ RetriesBounded'
    BY <1>1, <1>10, <2>1, SpawnedTypes DEF ManageQueue, PoolTypeOK, RetriesBounded, PoolSound
  <2>. QED  BY <2>1, <2>2, <2>3 DEF PoolInv
<1>11. CASE BeginShutdown \/ TerminateAll
  <2>1. pool' = pool /\ Allowed' = Allowed
    BY <1>11 DEF BeginShutdown, TerminateAll, Allowed
  <2>2. PoolTypeOK' /\ RetriesBounded'
    BY <1>1, <1>11 DEF BeginShutdown, TerminateAll, PoolTypeOK, RetriesBounded
  <2>. QED  BY <1>1, <2>1, <2>2 DEF PoolInv
<1>12. CASE EndShutdown
  <2>1. /\ pool' \in PoolState /\ pool'.active = 0 /\ pool'.queue = <<>>
        /\ pool'.posted = [w \in Thread |-> <<>>] /\ pool'.assigned = pool.assigned
    <3>. DEFINE st == [w \in Thread |-> "none"]
                cur == [w \in Thread |-> NoTask]
                none == [w \in Thread |-> <<>>]
    <3>1. /\ st \in [Thread -> {"none", "idle", "busy", "error"}]
          /\ cur \in [Thread -> PoolTask \cup {NoTask}]
          /\ none \in [Thread -> Seq(PoolTask)] /\ <<>> \in Seq(PoolTask) /\ 0 \in Int
      OBVIOUS
    <3>2. pool' = [pool EXCEPT !.status = st, !.current = cur, !.posted = none,
                               !.queue = <<>>, !.active = 0]
      BY <1>12 DEF EndShutdown
    <3>. HIDE DEF st, cur, none
    <3>3. pool' = [status |-> st, current |-> cur, posted |-> none, queue |-> <<>>,
                   active |-> 0, assigned |-> pool.assigned, made |-> pool.made]
      BY <1>1, <3>2 DEF PoolState
    <3>4. pool.assigned \in [PoolTask -> Nat] /\ pool.made \in 0..MaxThreads
      BY <1>1, PoolFields
    <3>5. pool' \in PoolState
      BY <3>1, <3>3, <3>4 DEF PoolState
    <3>. QED  BY <3>3, <3>5 DEF none
  <2>2. Covered(pool')
    <3>1. Outstanding(pool') = {}
      BY <2>1 DEF Outstanding
    <3>. QED  BY <2>1, <3>1, FS_EmptySet DEF Covered
  <2>3. Within(pool', Allowed)
    <3>1. ASSUME NEW t \in PoolTask  PROVE Attempts(pool', t) <= Allowed[t]
      <4>1. pool'.queue \in Seq(PoolTask) /\ DOMAIN pool'.queue = {}
        BY <2>1
      <4>2. Occurrences(pool'.queue, t) = 0
        BY <4>1, OccurrencesType
      <4>3. pool.queue \in Seq(PoolTask) /\ pool.assigned[t] \in Nat
        BY <1>1, PoolFields
      <4>4. Occurrences(pool.queue, t) \in Nat
        BY <4>3, OccurrencesType
      <4>5. Attempts(pool, t) <= Allowed[t] /\ Allowed[t] \in Nat
        BY <1>1 DEF PoolSound, Within
      <4>. QED  BY <2>1, <4>2, <4>3, <4>4, <4>5 DEF Attempts
    <3>. QED  BY <3>1 DEF Within
  <2>4. Allowed' = Allowed
    BY <1>12 DEF EndShutdown, Allowed
  <2>5. PoolTypeOK' /\ RetriesBounded'
    BY <1>1, <1>12, <2>1 DEF EndShutdown, PoolTypeOK, RetriesBounded
  <2>. QED  BY <2>1, <2>2, <2>3, <2>4, <2>5 DEF PoolInv, PoolSound
<1>13. CASE UNCHANGED poolVars
  <2>1. pool' = pool /\ Allowed' = Allowed /\ PoolTypeOK' /\ RetriesBounded'
    BY <1>1, <1>13 DEF poolVars, Allowed, PoolTypeOK, RetriesBounded
  <2>. QED  BY <1>1, <2>1 DEF PoolInv
<1>. QED
  BY <1>2, <1>3, <1>4, <1>5, <1>6, <1>7, <1>8, <1>9, <1>10, <1>11, <1>12, <1>13 DEF PoolNext

LEMMA PoolInductive == PoolSpec => []PoolInv
BY PoolInitInv, PoolStepInv, PTL DEF PoolSpec

\* Every reachable state of the pool is well typed.
THEOREM PoolTypeCorrect == PoolSpec => []PoolTypeOK
BY PoolInductive, PTL DEF PoolInv

\* A task is posted and queued at most once more than it has retries.
THEOREM AttemptsCorrect == PoolSpec => []AttemptsWithinRetries
<1>1. ASSUME PoolInv  PROVE AttemptsWithinRetries
  <2>1. ASSUME NEW t \in PoolTask  PROVE pool.assigned[t] + Copies(t) <= 1 + retries[t]
    <3>1. Attempts(pool, t) <= Allowed[t] /\ retries[t] \in Nat /\ Attempts(pool, t) \in Nat
      <4>1. pool.assigned[t] \in Nat /\ pool.queue \in Seq(PoolTask) /\ retries[t] \in Nat
        BY <1>1, PoolFields DEF PoolInv, PoolSound, PoolTypeOK
      <4>2. Occurrences(pool.queue, t) \in Nat
        BY <4>1, OccurrencesType
      <4>. QED  BY <1>1, <4>1, <4>2 DEF PoolInv, PoolSound, Within, Attempts
    <3>2. Allowed[t] <= 1 + retries[t]
      BY <3>1 DEF Allowed
    <3>3. Allowed[t] \in Nat
      BY <3>1 DEF Allowed
    <3>. QED  BY <3>1, <3>2, <3>3 DEF Attempts, Copies
  <2>. QED  BY <1>1, <2>1 DEF PoolInv, RetriesBounded, AttemptsWithinRetries
<1>. QED  BY <1>1, PoolInductive, PTL

TerminationStep ==
    phase = "draining" /\ phase' = "terminating" =>
        \A w \in Thread : pool.posted[w] = <<>>

\* shutdown() terminates the threads when none of them has a task.
THEOREM ShutdownCorrect == PoolSpec => ShutdownWaitsForTasks
<1>1. ASSUME PoolInv, [PoolNext]_poolVars  PROVE [TerminationStep]_poolVars
  <2>. SUFFICES ASSUME phase = "draining", phase' = "terminating", NEW w \in Thread
                PROVE  pool.posted[w] = <<>>
    BY DEF TerminationStep
  <2>1. TerminateAll
    BY <1>1 DEF PoolNext, ExecuteTask, TaskTimeout, WorkerReady, TaskComplete, TaskError,
                WorkerErrs, RecycleIdle, WorkerExits, ManageQueue, BeginShutdown,
                EndShutdown, poolVars
  <2>2. /\ pool.active <= 0 /\ pool.active \in Int /\ pool \in PoolState
        /\ IsFiniteSet(Outstanding(pool)) /\ Cardinality(Outstanding(pool)) <= pool.active
    BY <1>1, <2>1, PoolFields DEF TerminateAll, PoolInv, PoolSound, Covered
  <2>3. Cardinality(Outstanding(pool)) = 0
    BY <2>2, FS_CardinalityType
  <2>4. Outstanding(pool) = {}
    BY <2>2, <2>3, FS_EmptySet
  <2>5. Len(pool.posted[w]) \in Nat /\ pool.posted[w] \in Seq(PoolTask)
    BY <2>2, PoolFields
  <2>6. ~(1 \in 1..Len(pool.posted[w]))
    BY <2>2, <2>4, OutstandingPairs
  <2>. QED  BY <2>5, <2>6
<1>. QED  BY <1>1, PoolInductive, PTL DEF PoolSpec, ShutdownWaitsForTasks, TerminationStep
-----------------------------------------------------------------------------
(***************************************************************************)
(* MonitorPool                                                             *)
(***************************************************************************)
\* Every task waits in the queue of its priority, and once.
Sorted(q) == \A p \in 0..3 : \A i \in DOMAIN q[p] : JobPriority[q[p][i]] = p

QueuedOnce(q) == \A p \in 0..3 : \A i, j \in DOMAIN q[p] : q[p][i] = q[p][j] => i = j

HeldOnce(h) == \A v, w \in WorkerId : h[v] # NoJob /\ h[v] = h[w] => v = w

HeldNotQueued(q, h) ==
    \A w \in WorkerId : \A p \in 0..3 : \A i \in DOMAIN q[p] : q[p][i] # h[w]

\* Nothing in X is queued, or held.
Outside(q, h, X) ==
    /\ \A p \in 0..3 : \A i \in DOMAIN q[p] : q[p][i] \notin X
    /\ \A w \in WorkerId : h[w] \notin X

Placed(q, h, X) ==
    Sorted(q) /\ QueuedOnce(q) /\ HeldOnce(h) /\ HeldNotQueued(q, h) /\ Outside(q, h, X)

\* OverfullOnlyByUrgent of any queues.
Roomy(q) == QueueSize(q) > MaxQueueSize => LowWaiting(q) = {}

\* The scheduler's copy agrees with what the pool holds.
Tracked(m) ==
    \A w \in WorkerId :
        /\ m.status[w] # "unknown"
        /\ m.status[w] = "busy" <=> m.holding[w] # NoJob
        /\ m.load[w] <= 20

\* What holds of pool and scheduler while the tasks in X are elsewhere.
MonitorSound(m, X, up) ==
    /\ m \in MonitorState
    /\ Placed(m.queues, m.holding, X) /\ Roomy(m.queues)
    /\ up => Tracked(m)

\* The inductive invariant: MonitorTypeOK, with what a timer will submit again
\* and what was never submitted outside pool and scheduler.
MonitorInv ==
    /\ MonitorTypeOK
    /\ MonitorSound(monitor, delayed \cup fresh, stage = "up") /\ delayed \cap fresh = {}
-----------------------------------------------------------------------------
\* What assigning to one worker keeps, processNextTasks keeps.
LEMMA RoundKeeps ==
    ASSUME MonitorAssumption, NEW T, NEW m \in T,
           \A x \in T : \A w \in WorkerId : AssignNext(x, w) \in T
    PROVE  ProcessNextTasks(m) \in T
<1>. DEFINE Round(g) == [w \in 0..PoolSize |-> IF w = 0 THEN m ELSE AssignNext(g[w - 1], w)]
            after == CHOOSE g : g = Round(g)
            step == [w \in 1..PoolSize |-> [x \in T |-> AssignNext(x, w)]]
<1>1. PoolSize \in Nat \ {0}
  BY DEF MonitorAssumption
<1>2. step \in [1..PoolSize -> [T -> T]]
  BY DEF WorkerId
<1>3. PICK g : Records(g, PoolSize, T, m, step)
  <2>. HIDE DEF step
  <2>. QED  BY <1>1, <1>2, IterationExists
<1>4. g = Round(g)
  <2>1. \A w \in 1..PoolSize : w - 1 \in 0..PoolSize
    BY <1>1
  <2>2. \A w \in 1..PoolSize : g[w] = AssignNext(g[w - 1], w)
    BY <1>3, <2>1 DEF Records
  <2>3. \A w \in 0..PoolSize : w = 0 \/ w \in 1..PoolSize
    BY <1>1
  <2>. HIDE DEF step
  <2>4. \A w \in 0..PoolSize : g[w] = IF w = 0 THEN m ELSE AssignNext(g[w - 1], w)
    BY <1>3, <2>2, <2>3 DEF Records
  <2>5. g = [w \in 0..PoolSize |-> g[w]]
    BY <1>3 DEF Records
  <2>. QED  BY <2>4, <2>5
<1>5. after = Round(after)
  <2>. HIDE DEF Round
  <2>. QED  BY <1>4
<1>6. after[0] = m /\ \A w \in 1..PoolSize : after[w] = AssignNext(after[w - 1], w)
  <2>. HIDE DEF after
  <2>1. 0 \in 0..PoolSize /\ \A w \in 1..PoolSize : w \in 0..PoolSize /\ w # 0
    BY <1>1
  <2>. QED  BY <1>5, <2>1
<1>7. \A w \in 0..PoolSize : after[w] \in T
  <2>. HIDE DEF after
  <2>1. \A w \in 1..PoolSize : after[w - 1] \in T => after[w] \in T
    BY <1>6 DEF WorkerId
  <2>. QED  BY <1>1, <1>6, <2>1, KeptByIteration
<1>8. ProcessNextTasks(m) = after[PoolSize]
  BY DEF ProcessNextTasks
<1>. QED
  <2>. HIDE DEF after
  <2>. QED  BY <1>1, <1>7, <1>8

\* A sum of loads is not negative.
LEMMA SumOfLoadsNotNegative ==
    ASSUME MonitorAssumption, monitor.load \in [WorkerId -> 0..100]
    PROVE  SumOfLoads \in Nat
<1>. DEFINE loads == monitor.load
<1>1. IsFiniteSet(WorkerId)
  <2>1. 1 \in Int /\ PoolSize \in Int
    BY DEF MonitorAssumption
  <2>. QED  BY <2>1, FS_Interval DEF WorkerId
<1>2. \A w \in WorkerId : loads[w] \in Nat
  <2>1. 0..100 \subseteq Nat
    OBVIOUS
  <2>. QED  BY <2>1, Zenon
<1>3. Total(loads, WorkerId) \in Nat
  <2>. HIDE DEF loads
  <2>. QED  BY <1>1, <1>2, TotalType
<1>. QED  BY <1>3 DEF SumOfLoads
-----------------------------------------------------------------------------
\* What the queue operations do to positions.
LEMMA TailPositions ==
    ASSUME NEW S, NEW s \in Seq(S), s # <<>>
    PROVE  /\ Tail(s) \in Seq(S) /\ Len(Tail(s)) = Len(s) - 1
           /\ 1 \in DOMAIN s /\ Head(s) = s[1] /\ Head(s) \in S
           /\ \A i \in DOMAIN Tail(s) : i + 1 \in DOMAIN s /\ i + 1 # 1 /\ Tail(s)[i] = s[i + 1]
<1>1. Tail(s) \in Seq(S) /\ Len(Tail(s)) = Len(s) - 1 /\ Len(s) \in Nat /\ Len(s) > 0
  OBVIOUS
<1>2. DOMAIN s = 1..Len(s) /\ DOMAIN Tail(s) = 1..Len(Tail(s))
  BY <1>1
<1>3. Head(s) = s[1] /\ Head(s) \in S
  BY <1>1
<1>4. ASSUME NEW i \in DOMAIN Tail(s)  PROVE i + 1 \in DOMAIN s /\ i + 1 # 1 /\ Tail(s)[i] = s[i + 1]
  <2>1. i \in 1..(Len(s) - 1)
    BY <1>1, <1>2
  <2>2. Tail(s)[i] = s[i + 1]
    BY <2>1
  <2>. QED  BY <1>1, <1>2, <2>1, <2>2
<1>. QED  BY <1>1, <1>2, <1>3, <1>4

LEMMA FrontPositions ==
    ASSUME NEW S, NEW s \in Seq(S), s # <<>>
    PROVE  /\ Front(s) \in Seq(S) /\ Len(Front(s)) = Len(s) - 1
           /\ \A i \in DOMAIN Front(s) : i \in DOMAIN s /\ Front(s)[i] = s[i]
<1>1. Len(s) \in Nat /\ Len(s) > 0 /\ DOMAIN s = 1..Len(s)
  OBVIOUS
<1>2. \A i \in 1..(Len(s) - 1) : s[i] \in S /\ i \in 1..Len(s)
  BY <1>1
<1>3. Front(s) = [i \in 1..(Len(s) - 1) |-> s[i]]
  BY <1>1 DEF Front
<1>4. Front(s) \in Seq(S) /\ Len(Front(s)) = Len(s) - 1
  BY <1>1, <1>2, <1>3
<1>. QED  BY <1>1, <1>2, <1>3, <1>4

LEMMA AppendPositions ==
    ASSUME NEW S, NEW s \in Seq(S), NEW x \in S
    PROVE  /\ Append(s, x) \in Seq(S) /\ Len(Append(s, x)) = Len(s) + 1
           /\ \A i \in DOMAIN Append(s, x) :
                \/ i \in DOMAIN s /\ Append(s, x)[i] = s[i]
                \/ i = Len(s) + 1 /\ Append(s, x)[i] = x
OBVIOUS
-----------------------------------------------------------------------------
\* Reading and building the record of pool and scheduler.
LEMMA MonitorFields ==
    ASSUME NEW m \in MonitorState
    PROVE  /\ m.queues \in [0..3 -> Seq(Job)] /\ m.holding \in [WorkerId -> Job \cup {NoJob}]
           /\ m.timed \in [WorkerId -> BOOLEAN]
           /\ m.status \in [WorkerId -> {"idle", "busy", "unknown"}]
           /\ m.load \in [WorkerId -> 0..100]
BY DEF MonitorState

LEMMA SizeType ==
    ASSUME NEW q \in [0..3 -> Seq(Job)]
    PROVE  /\ QueueSize(q) \in Nat
           /\ QueueSize(q) > 0 <=> \E p \in 0..3 : q[p] # <<>>
<1>1. /\ 0 \in 0..3 /\ 1 \in 0..3 /\ 2 \in 0..3 /\ 3 \in 0..3
      /\ \A p \in 0..3 : p = 0 \/ p = 1 \/ p = 2 \/ p = 3
  OBVIOUS
<1>2. \A p \in 0..3 : q[p] \in Seq(Job) /\ Len(q[p]) \in Nat /\ (Len(q[p]) > 0 <=> q[p] # <<>>)
  OBVIOUS
<1>. QED  BY <1>1, <1>2 DEF QueueSize

\* One queue longer or shorter by n: so are all of them together.
LEMMA SizeChange ==
    ASSUME NEW q \in [0..3 -> Seq(Job)], NEW p \in 0..3, NEW s \in Seq(Job)
    PROVE  QueueSize([q EXCEPT ![p] = s]) = QueueSize(q) + Len(s) - Len(q[p])
<1>1. /\ 0 \in 0..3 /\ 1 \in 0..3 /\ 2 \in 0..3 /\ 3 \in 0..3
      /\ p = 0 \/ p = 1 \/ p = 2 \/ p = 3
  OBVIOUS
<1>2. Len(s) \in Nat /\ \A r \in 0..3 : Len(q[r]) \in Nat
  OBVIOUS
<1>. DEFINE n == [q EXCEPT ![p] = s]
<1>3. \A r \in 0..3 : Len(n[r]) = IF r = p THEN Len(s) ELSE Len(q[r])
  OBVIOUS
<1>4. QueueSize(n) = Len(n[0]) + Len(n[1]) + Len(n[2]) + Len(n[3])
  BY DEF QueueSize
<1>. HIDE DEF n
<1>5. QueueSize(q) = Len(q[0]) + Len(q[1]) + Len(q[2]) + Len(q[3])
  BY DEF QueueSize
<1>6. QueueSize(n) = QueueSize(q) + Len(s) - Len(q[p])
  <2>1. Len(q[0]) \in Nat /\ Len(q[1]) \in Nat /\ Len(q[2]) \in Nat /\ Len(q[3]) \in Nat
    BY <1>1, <1>2
  <2>2. CASE p = 0
    <3>1. Len(n[0]) = Len(s) /\ Len(n[1]) = Len(q[1]) /\ Len(n[2]) = Len(q[2]) /\ Len(n[3]) = Len(q[3])
      BY <1>1, <1>3, <2>2
    <3>. QED  BY <1>2, <1>4, <1>5, <2>1, <2>2, <3>1
  <2>3. CASE p = 1
    <3>1. Len(n[0]) = Len(q[0]) /\ Len(n[1]) = Len(s) /\ Len(n[2]) = Len(q[2]) /\ Len(n[3]) = Len(q[3])
      BY <1>1, <1>3, <2>3
    <3>. QED  BY <1>2, <1>4, <1>5, <2>1, <2>3, <3>1
  <2>4. CASE p = 2
    <3>1. Len(n[0]) = Len(q[0]) /\ Len(n[1]) = Len(q[1]) /\ Len(n[2]) = Len(s) /\ Len(n[3]) = Len(q[3])
      BY <1>1, <1>3, <2>4
    <3>. QED  BY <1>2, <1>4, <1>5, <2>1, <2>4, <3>1
  <2>5. CASE p = 3
    <3>1. Len(n[0]) = Len(q[0]) /\ Len(n[1]) = Len(q[1]) /\ Len(n[2]) = Len(q[2]) /\ Len(n[3]) = Len(s)
      BY <1>1, <1>3, <2>5
    <3>. QED  BY <1>2, <1>4, <1>5, <2>1, <2>5, <3>1
  <2>. QED  BY <1>1, <2>2, <2>3, <2>4, <2>5
<1>. QED  BY <1>6 DEF n

LEMMA HighestWaitingExists ==
    ASSUME NEW q \in [0..3 -> Seq(Job)], QueueSize(q) > 0
    PROVE  HighestWaiting(q) \in 0..3 /\ q[HighestWaiting(q)] # <<>>
<1>1. \E p \in 0..3 : q[p] # <<>>
  BY SizeType
<1>2. /\ 0 \in 0..3 /\ 1 \in 0..3 /\ 2 \in 0..3 /\ 3 \in 0..3
      /\ \A p \in 0..3 : p = 0 \/ p = 1 \/ p = 2 \/ p = 3
  OBVIOUS
<1>3. \E p \in 0..3 : q[p] # <<>> /\ \A r \in 0..3 : q[r] # <<>> => r <= p
  <2>1. CASE q[3] # <<>>
    BY <1>2, <2>1
  <2>2. CASE q[3] = <<>> /\ q[2] # <<>>
    BY <1>2, <2>2
  <2>3. CASE q[3] = <<>> /\ q[2] = <<>> /\ q[1] # <<>>
    BY <1>2, <2>3
  <2>4. CASE q[3] = <<>> /\ q[2] = <<>> /\ q[1] = <<>>
    BY <1>1, <1>2, <2>4
  <2>. QED  BY <2>1, <2>2, <2>3, <2>4
<1>. QED  BY <1>3 DEF HighestWaiting

\* removeLowPriorityTasks takes from a queue below HIGH that is not empty.
LEMMA EvictedChoice ==
    ASSUME NEW q \in [0..3 -> Seq(Job)], LowWaiting(q) # {}
    PROVE  \E p \in LowWaiting(q) : Evicted(q) = [q EXCEPT ![p] = Front(q[p])]
<1>1. \A p \in LowWaiting(q) : p = 0 \/ p = 1
  BY DEF LowWaiting, High
<1>2. \E p \in LowWaiting(q) : \A r \in LowWaiting(q) : p <= r
  BY <1>1
<1>. QED  BY <1>2 DEF Evicted
-----------------------------------------------------------------------------
\* A queue that loses an element, or keeps what it has.
LEMMA ShorterQueueKeeps ==
    ASSUME NEW q \in [0..3 -> Seq(Job)], NEW h, NEW X, NEW p \in 0..3, NEW s \in Seq(Job), NEW d \in 0..1,
           \A i \in DOMAIN s : i + d \in DOMAIN q[p] /\ s[i] = q[p][i + d],
           Len(s) < Len(q[p]), Placed(q, h, X), Roomy(q)
    PROVE  /\ Placed([q EXCEPT ![p] = s], h, X) /\ Roomy([q EXCEPT ![p] = s])
           /\ QueueSize([q EXCEPT ![p] = s]) < QueueSize(q)
<1>. DEFINE n == [q EXCEPT ![p] = s]
<1>1. n[p] = s /\ \A r \in 0..3 : r # p => n[r] = q[r]
  OBVIOUS
<1>2. \A r \in 0..3 : \A i \in DOMAIN n[r] : \E j \in DOMAIN q[r] : n[r][i] = q[r][j]
  <2>. HIDE DEF n
  <2>. QED  BY <1>1
<1>3. Sorted(n) /\ HeldNotQueued(n, h) /\ Outside(n, h, X)
  <2>. HIDE DEF n
  <2>1. Sorted(n)
    BY <1>2 DEF Placed, Sorted
  <2>2. HeldNotQueued(n, h)
    BY <1>2 DEF Placed, HeldNotQueued
  <2>3. Outside(n, h, X)
    BY <1>2 DEF Placed, Outside
  <2>. QED  BY <2>1, <2>2, <2>3
<1>4. QueuedOnce(n)
  <2>. HIDE DEF n
  <2>1. ASSUME NEW r \in 0..3, NEW i \in DOMAIN n[r], NEW j \in DOMAIN n[r], n[r][i] = n[r][j]  PROVE i = j
    <3>1. CASE r = p
      <4>1. i \in DOMAIN s /\ j \in DOMAIN s /\ s[i] = s[j]
        BY <1>1, <2>1, <3>1
      <4>2. DOMAIN s \subseteq Int
        OBVIOUS
      <4>3. i + d = j + d
        <5>1. i + d \in DOMAIN q[p] /\ j + d \in DOMAIN q[p] /\ q[p][i + d] = q[p][j + d]
          BY <4>1
        <5>. QED  BY <5>1 DEF Placed, QueuedOnce
      <4>. QED  BY <4>1, <4>2, <4>3
    <3>2. CASE r # p
      BY <1>1, <2>1, <3>2 DEF Placed, QueuedOnce
    <3>. QED  BY <3>1, <3>2
  <2>. QED  BY <2>1 DEF QueuedOnce
<1>5. QueueSize(n) < QueueSize(q) /\ QueueSize(n) \in Nat /\ QueueSize(q) \in Nat
  <2>1. n \in [0..3 -> Seq(Job)]
    OBVIOUS
  <2>2. QueueSize(n) = QueueSize(q) + Len(s) - Len(q[p])
    BY SizeChange
  <2>3. Len(s) \in Nat /\ Len(q[p]) \in Nat
    OBVIOUS
  <2>. HIDE DEF n
  <2>4. QueueSize(n) \in Nat /\ QueueSize(q) \in Nat
    BY <2>1, SizeType
  <2>. QED  BY <2>2, <2>3, <2>4
<1>6. Roomy(n)
  <2>. HIDE DEF n
  <2>1. LowWaiting(n) \subseteq LowWaiting(q)
    <3>1. \A r \in 0..3 : n[r] # <<>> => q[r] # <<>>
      <4>1. s # <<>> => q[p] # <<>>
        OBVIOUS
      <4>. QED  BY <1>1, <4>1
    <3>2. 0..(High - 1) \subseteq 0..3
      BY DEF High
    <3>. QED  BY <3>1, <3>2 DEF LowWaiting
  <2>2. MaxQueueSize \in Nat
    BY MonitorAssumption DEF MonitorAssumption
  <2>3. SUFFICES ASSUME QueueSize(n) > MaxQueueSize  PROVE LowWaiting(n) = {}
    BY DEF Roomy
  <2>4. QueueSize(q) > MaxQueueSize
    BY <1>5, <2>2, <2>3
  <2>. QED  BY <2>1, <2>4 DEF Roomy
<1>7. Placed(n, h, X)
  <2>. HIDE DEF n
  <2>. QED  BY <1>3, <1>4 DEF Placed
<1>. QED  BY <1>5, <1>6, <1>7

Joined(q, t) == [q EXCEPT ![JobPriority[t]] = Append(@, t)]

\* A task that was elsewhere, put into the queue of its priority.
LEMMA LongerQueueKeeps ==
    ASSUME NEW q \in [0..3 -> Seq(Job)], NEW h, NEW X, NEW t \in X, t \in Job,
           Placed(q, h, X)
    PROVE  /\ Placed(Joined(q, t), h, X \ {t})
           /\ QueueSize(Joined(q, t)) = QueueSize(q) + 1
           /\ Joined(q, t) \in [0..3 -> Seq(Job)]
<1>. DEFINE p == JobPriority[t]
            n == [q EXCEPT ![p] = Append(q[p], t)]
<1>1. p \in 0..3
  BY MonitorAssumption DEF MonitorAssumption
<1>. HIDE DEF p
<1>2. n \in [0..3 -> Seq(Job)] /\ n[p] = Append(q[p], t) /\ \A r \in 0..3 : r # p => n[r] = q[r]
  BY <1>1
<1>3. \A i \in DOMAIN n[p] : \/ i \in DOMAIN q[p] /\ n[p][i] = q[p][i]
                             \/ i = Len(q[p]) + 1 /\ n[p][i] = t
  <2>1. q[p] \in Seq(Job)
    BY <1>1
  <2>. QED  BY <1>2, <2>1, AppendPositions
<1>4. \A r \in 0..3 : \A i \in DOMAIN n[r] : \/ i \in DOMAIN q[r] /\ n[r][i] = q[r][i]
                                             \/ r = p /\ i = Len(q[r]) + 1 /\ n[r][i] = t
  <2>. HIDE DEF n
  <2>. QED  BY <1>2, <1>3
<1>5. /\ \A r \in 0..3 : \A i \in DOMAIN q[r] : q[r][i] # t
      /\ \A w \in WorkerId : h[w] # t
  BY DEF Placed, Outside
<1>6. Placed(n, h, X \ {t})
  <2>. HIDE DEF n
  <2>1. Sorted(n)
    BY <1>4 DEF Placed, Sorted, p
  <2>2. QueuedOnce(n)
    <3>1. ASSUME NEW r \in 0..3, NEW i \in DOMAIN n[r], NEW j \in DOMAIN n[r], n[r][i] = n[r][j]
          PROVE  i = j
      <4>1. CASE i \in DOMAIN q[r] /\ j \in DOMAIN q[r] /\ n[r][i] = q[r][i] /\ n[r][j] = q[r][j]
        BY <3>1, <4>1 DEF Placed, QueuedOnce
      <4>2. CASE n[r][i] = t \/ n[r][j] = t
        BY <1>4, <1>5, <3>1, <4>2
      <4>. QED  BY <1>4, <4>1, <4>2
    <3>. QED  BY <3>1 DEF QueuedOnce
  <2>3. HeldNotQueued(n, h)
    BY <1>4, <1>5 DEF Placed, HeldNotQueued
  <2>4. Outside(n, h, X \ {t})
    BY <1>4 DEF Placed, Outside
  <2>. QED  BY <2>1, <2>2, <2>3, <2>4 DEF Placed
<1>7. QueueSize(n) = QueueSize(q) + 1
  <2>1. q[p] \in Seq(Job) /\ Append(q[p], t) \in Seq(Job) /\ Len(Append(q[p], t)) = Len(q[p]) + 1 /\ Len(q[p]) \in Nat
    BY <1>1
  <2>2. QueueSize(n) = QueueSize(q) + Len(Append(q[p], t)) - Len(q[p])
    BY <1>1, <2>1, SizeChange
  <2>3. QueueSize(q) \in Nat
    BY SizeType
  <2>. HIDE DEF n
  <2>. QED  BY <2>1, <2>2, <2>3
<1>. QED  BY <1>2, <1>6, <1>7 DEF p, Joined

\* What a worker holds was in no other place, so that it may go elsewhere.
LEMMA ReleaseKeeps ==
    ASSUME NEW q, NEW h \in [WorkerId -> Job \cup {NoJob}], NEW X \in SUBSET Job,
           NEW w \in WorkerId, Placed(q, h, X),
           \A p \in 0..3 : \A i \in DOMAIN q[p] : q[p][i] \in Job
    PROVE  Placed(q, [h EXCEPT ![w] = NoJob], X \cup ({h[w]} \ {NoJob}))
<1>. DEFINE n == [h EXCEPT ![w] = NoJob]
<1>1. n[w] = NoJob /\ \A v \in WorkerId : v # w => n[v] = h[v]
  OBVIOUS
<1>2. NoJob \notin Job
  BY MonitorAssumption DEF MonitorAssumption
<1>. HIDE DEF n
<1>3. HeldOnce(n)
  BY <1>1 DEF Placed, HeldOnce
<1>4. HeldNotQueued(q, n)
  BY <1>1, <1>2 DEF Placed, HeldNotQueued
<1>5. Outside(q, n, X \cup ({h[w]} \ {NoJob}))
  <2>1. \A v \in WorkerId : n[v] \notin X \cup ({h[w]} \ {NoJob})
    BY <1>1, <1>2 DEF Placed, Outside, HeldOnce
  <2>2. \A p \in 0..3 : \A i \in DOMAIN q[p] : q[p][i] \notin X \cup ({h[w]} \ {NoJob})
    BY DEF Placed, Outside, HeldNotQueued
  <2>. QED  BY <2>1, <2>2 DEF Outside
<1>. QED  BY <1>3, <1>4, <1>5 DEF Placed, n

\* Emptying queues, or hands, disturbs nothing; nor does looking at fewer tasks.
LEMMA FewerOutside ==
    ASSUME NEW q, NEW h, NEW X, NEW Y \in SUBSET X, Placed(q, h, X)
    PROVE  Placed(q, h, Y)
BY DEF Placed, Outside
-----------------------------------------------------------------------------
LEMMA AssignNextKeeps ==
    ASSUME NEW X, NEW up, NEW m, MonitorSound(m, X, up), NEW w \in WorkerId
    PROVE  MonitorSound(AssignNext(m, w), X, up)
<1>. DEFINE q == m.queues
            h == m.holding
            p == HighestWaiting(q)
<1>1. m \in MonitorState /\ Placed(q, h, X) /\ Roomy(q)
  BY DEF MonitorSound
<1>2. SUFFICES ASSUME h[w] = NoJob, m.status[w] = "idle", QueueSize(q) > 0,
                      AssignNext(m, w) = [m EXCEPT !.queues[p] = Tail(@), !.holding[w] = Head(q[p]),
                                                   !.timed[w] = TRUE, !.status[w] = "busy", !.load[w] = 20]
               PROVE  MonitorSound(AssignNext(m, w), X, up)
  BY DEF AssignNext
<1>3. q \in [0..3 -> Seq(Job)] /\ h \in [WorkerId -> Job \cup {NoJob}]
  BY <1>1, MonitorFields
<1>4. p \in 0..3 /\ q[p] # <<>>
  BY <1>2, <1>3, HighestWaitingExists
<1>. DEFINE t == Head(q[p])
            nq == [q EXCEPT ![p] = Tail(q[p])]
            nh == [h EXCEPT ![w] = t]
            n == [m EXCEPT !.queues = nq, !.holding = nh, !.timed = [m.timed EXCEPT ![w] = TRUE],
                           !.status = [m.status EXCEPT ![w] = "busy"],
                           !.load = [m.load EXCEPT ![w] = 20]]
<1>5. AssignNext(m, w) = n
  BY <1>1, <1>2 DEF MonitorState
<1>. HIDE DEF p
<1>6. /\ q[p] \in Seq(Job) /\ Tail(q[p]) \in Seq(Job) /\ Len(Tail(q[p])) = Len(q[p]) - 1
      /\ 1 \in DOMAIN q[p] /\ t = q[p][1] /\ t \in Job
      /\ \A i \in DOMAIN Tail(q[p]) : i + 1 \in DOMAIN q[p] /\ i + 1 # 1 /\ Tail(q[p])[i] = q[p][i + 1]
  BY <1>3, <1>4, TailPositions
<1>. HIDE DEF t, q, h
<1>7. Placed(nq, h, X) /\ Roomy(nq)
  <2>. DEFINE s == Tail(q[p])
  <2>1. /\ s \in Seq(Job) /\ Len(s) < Len(q[p]) /\ 1 \in 0..1
        /\ \A i \in DOMAIN s : i + 1 \in DOMAIN q[p] /\ s[i] = q[p][i + 1]
    BY <1>6
  <2>. HIDE DEF s
  <2>2. Placed([q EXCEPT ![p] = s], h, X) /\ Roomy([q EXCEPT ![p] = s])
    BY <1>1, <1>3, <1>4, <2>1, ShorterQueueKeeps
  <2>. QED  BY <2>2 DEF s
<1>8. nq \in [0..3 -> Seq(Job)] /\ nh \in [WorkerId -> Job \cup {NoJob}]
  BY <1>3, <1>6
<1>9. /\ nq[p] = Tail(q[p]) /\ \A r \in 0..3 : r # p => nq[r] = q[r]
      /\ nh[w] = t /\ \A v \in WorkerId : v # w => nh[v] = h[v]
  BY <1>3, <1>4
<1>10. n \in MonitorState
  <2>1. /\ [m.timed EXCEPT ![w] = TRUE] \in [WorkerId -> BOOLEAN]
        /\ [m.status EXCEPT ![w] = "busy"] \in [WorkerId -> {"idle", "busy", "unknown"}]
        /\ [m.load EXCEPT ![w] = 20] \in [WorkerId -> 0..100]
    <3>1. /\ m.timed \in [WorkerId -> BOOLEAN] /\ m.load \in [WorkerId -> 0..100]
          /\ m.status \in [WorkerId -> {"idle", "busy", "unknown"}]
      BY <1>1, MonitorFields
    <3>2. 20 \in 0..100
      OBVIOUS
    <3>3. [m.timed EXCEPT ![w] = TRUE] \in [WorkerId -> BOOLEAN]
      BY <3>1, Zenon
    <3>4. [m.status EXCEPT ![w] = "busy"] \in [WorkerId -> {"idle", "busy", "unknown"}]
      BY <3>1
    <3>5. [m.load EXCEPT ![w] = 20] \in [WorkerId -> 0..100]
      BY <3>1, <3>2
    <3>. QED  BY <3>3, <3>4, <3>5
  <2>. HIDE DEF nq, nh
  <2>. QED  BY <1>1, <1>8, <2>1 DEF MonitorState
<1>11. Placed(nq, nh, X)
  <2>1. \A r \in 0..3 : \A i \in DOMAIN nq[r] : nq[r][i] # t
    <3>1. ASSUME NEW r \in 0..3, NEW i \in DOMAIN nq[r]  PROVE nq[r][i] # t
      <4>1. CASE r = p
        <5>1. i + 1 \in DOMAIN q[p] /\ i + 1 # 1 /\ nq[r][i] = q[p][i + 1]
          BY <1>6, <1>9, <3>1, <4>1
        <5>2. QueuedOnce(q)
          BY <1>1 DEF Placed
        <5>. QED  BY <1>4, <1>6, <5>1, <5>2 DEF QueuedOnce
      <4>2. CASE r # p
        <5>1. JobPriority[nq[r][i]] = r /\ JobPriority[t] = p
          BY <1>1, <1>4, <1>6, <1>9, <3>1, <4>2 DEF Placed, Sorted
        <5>. QED  BY <4>2, <5>1
      <4>. QED  BY <4>1, <4>2
    <3>. QED  BY <3>1
  <2>2. t \notin X /\ \A v \in WorkerId : h[v] # t
    BY <1>1, <1>4, <1>6 DEF Placed, Outside, HeldNotQueued
  <2>. HIDE DEF nq, nh
  <2>3. HeldOnce(nh)
    BY <1>1, <1>9, <2>2 DEF Placed, HeldOnce
  <2>4. HeldNotQueued(nq, nh)
    BY <1>7, <1>9, <2>1 DEF Placed, HeldNotQueued
  <2>5. Outside(nq, nh, X)
    BY <1>7, <1>9, <2>2 DEF Placed, Outside
  <2>. QED  BY <1>7, <2>3, <2>4, <2>5 DEF Placed
<1>12. ASSUME up  PROVE Tracked(n)
  <2>1. Tracked(m)
    BY <1>12 DEF MonitorSound
  <2>2. /\ n.status[w] = "busy" /\ n.load[w] = 20 /\ n.holding[w] = t
        /\ \A v \in WorkerId : v # w => /\ n.status[v] = m.status[v] /\ n.load[v] = m.load[v]
                                        /\ n.holding[v] = m.holding[v]
    <3>1. n.status = [m.status EXCEPT ![w] = "busy"] /\ n.load = [m.load EXCEPT ![w] = 20] /\ n.holding = nh
      <4>. HIDE DEF nq, nh
      <4>. QED  BY <1>1 DEF MonitorState
    <3>2. m.status \in [WorkerId -> {"idle", "busy", "unknown"}] /\ m.load \in [WorkerId -> 0..100]
      BY <1>1, MonitorFields
    <3>. HIDE DEF n, nh
    <3>. QED  BY <1>9, <3>1, <3>2 DEF h
  <2>3. t # NoJob
    BY <1>6, MonitorAssumption DEF MonitorAssumption
  <2>. HIDE DEF n
  <2>. QED  BY <2>1, <2>2, <2>3 DEF Tracked
<1>13. n.queues = nq /\ n.holding = nh
  <2>. HIDE DEF nq, nh
  <2>. QED  BY <1>1 DEF MonitorState
<1>. QED
  <2>. HIDE DEF n, nq, nh
  <2>. QED  BY <1>5, <1>7, <1>10, <1>11, <1>12, <1>13 DEF MonitorSound

\* So does the whole round.
LEMMA ProcessKeeps ==
    ASSUME NEW X, NEW up, NEW m, MonitorSound(m, X, up)
    PROVE  MonitorSound(ProcessNextTasks(m), X, up)
<1>. DEFINE T == {x \in MonitorState : MonitorSound(x, X, up)}
<1>1. m \in T
  BY DEF MonitorSound
<1>2. \A x \in T : \A w \in WorkerId : AssignNext(x, w) \in T
  <2>1. ASSUME NEW x \in T, NEW w \in WorkerId  PROVE AssignNext(x, w) \in T
    <3>1. MonitorSound(AssignNext(x, w), X, up)
      BY AssignNextKeeps
    <3>. QED  BY <3>1 DEF MonitorSound
  <2>. QED  BY <2>1
<1>3. ProcessNextTasks(m) \in T
  <2>. HIDE DEF T
  <2>. QED  BY <1>1, <1>2, RoundKeeps, MonitorAssumption
<1>. QED  BY <1>3
-----------------------------------------------------------------------------
\* The queues after submitTask: the task is in one of them, by eviction if need be.
LEMMA QueuesAfterSubmit ==
    ASSUME NEW old \in [0..3 -> Seq(Job)], NEW h, NEW X, NEW t \in X, t \in Job,
           Placed(old, h, X), Roomy(old),
           QueueSize(old) < MaxQueueSize \/ JobPriority[t] >= High,
           NEW q, q = (IF QueueSize(old) >= MaxQueueSize THEN Evicted(old) ELSE old),
           NEW n, n = Joined(q, t)
    PROVE  n \in [0..3 -> Seq(Job)] /\ Placed(n, h, X \ {t}) /\ Roomy(n)
<1>1. MaxQueueSize \in Nat /\ JobPriority[t] \in 0..3 /\ QueueSize(old) \in Nat
  BY SizeType, MonitorAssumption DEF MonitorAssumption
<1>2. CASE q = old /\ QueueSize(old) < MaxQueueSize
  <2>1. n \in [0..3 -> Seq(Job)] /\ Placed(n, h, X \ {t}) /\ QueueSize(n) = QueueSize(old) + 1
    BY <1>2, LongerQueueKeeps
  <2>2. ~(QueueSize(n) > MaxQueueSize)
    BY <1>1, <1>2, <2>1
  <2>. QED  BY <2>1, <2>2 DEF Roomy
<1>3. CASE q = old /\ JobPriority[t] >= High /\ LowWaiting(old) = {}
  <2>1. n \in [0..3 -> Seq(Job)] /\ Placed(n, h, X \ {t})
    BY <1>3, LongerQueueKeeps
  <2>2. LowWaiting(n) = {}
    <3>1. \A p \in 0..(High - 1) : p \in 0..3 /\ p # JobPriority[t]
      BY <1>1, <1>3 DEF High
    <3>2. \A p \in 0..(High - 1) : n[p] = old[p]
      BY <1>3, <3>1 DEF Joined
    <3>. QED  BY <1>3, <3>2 DEF LowWaiting
  <2>. QED  BY <2>1, <2>2 DEF Roomy
<1>4. CASE q = Evicted(old) /\ LowWaiting(old) # {}
  <2>1. PICK p \in LowWaiting(old) : q = [old EXCEPT ![p] = Front(old[p])]
    BY <1>4, EvictedChoice
  <2>2. p \in 0..3 /\ old[p] \in Seq(Job) /\ old[p] # <<>>
    BY DEF LowWaiting, High
  <2>. DEFINE s == Front(old[p])
  <2>3. /\ s \in Seq(Job) /\ Len(s) < Len(old[p]) /\ 0 \in 0..1
        /\ \A i \in DOMAIN s : i + 0 \in DOMAIN old[p] /\ s[i] = old[p][i + 0]
    <3>1. /\ s \in Seq(Job) /\ Len(s) = Len(old[p]) - 1 /\ DOMAIN s = 1..Len(s)
          /\ \A i \in DOMAIN s : i \in DOMAIN old[p] /\ s[i] = old[p][i]
      BY <2>2, FrontPositions
    <3>2. Len(s) \in Nat /\ Len(old[p]) \in Nat
      BY <2>2, <3>1
    <3>. HIDE DEF s
    <3>3. \A i \in DOMAIN s : i + 0 = i
      BY <3>1, <3>2
    <3>. QED  BY <3>1, <3>2, <3>3
  <2>. HIDE DEF s
  <2>4. Placed(q, h, X) /\ QueueSize(q) < QueueSize(old) /\ q \in [0..3 -> Seq(Job)]
    <3>1. q = [old EXCEPT ![p] = s]
      BY <2>1 DEF s
    <3>2. Placed([old EXCEPT ![p] = s], h, X) /\ QueueSize([old EXCEPT ![p] = s]) < QueueSize(old)
      BY <2>2, <2>3, ShorterQueueKeeps
    <3>. QED  BY <2>2, <2>3, <3>1, <3>2
  <2>5. n \in [0..3 -> Seq(Job)] /\ Placed(n, h, X \ {t}) /\ QueueSize(n) = QueueSize(q) + 1
    BY <2>4, LongerQueueKeeps
  <2>6. ~(QueueSize(n) > MaxQueueSize)
    <3>1. ~(QueueSize(old) > MaxQueueSize)
      BY <1>4 DEF Roomy
    <3>2. QueueSize(q) \in Nat
      BY <2>4, SizeType
    <3>. QED  BY <1>1, <2>4, <2>5, <3>1, <3>2
  <2>. QED  BY <2>5, <2>6 DEF Roomy
<1>5. \/ q = old /\ QueueSize(old) < MaxQueueSize
      \/ q = old /\ JobPriority[t] >= High /\ LowWaiting(old) = {}
      \/ q = Evicted(old) /\ LowWaiting(old) # {}
  BY <1>1 DEF Evicted
<1>. QED  BY <1>2, <1>3, <1>4, <1>5

\* A change of the queues alone.
LEMMA QueuesReplaced ==
    ASSUME NEW m \in MonitorState, NEW n \in [0..3 -> Seq(Job)]
    PROVE  LET r == [m EXCEPT !.queues = n] IN
           r \in MonitorState /\ r.queues = n /\ r.holding = m.holding /\ r.status = m.status /\ r.load = m.load
BY DEF MonitorState

\* What threads are posted is a task.
LEMMA PostedType ==
    ASSUME NEW u \in [WorkerId -> Seq(Job)], NEW h, NEW g \in [WorkerId -> Job \cup {NoJob}]
    PROVE  [w \in WorkerId |-> IF h[w] = NoJob /\ g[w] # NoJob THEN Append(u[w], g[w]) ELSE u[w]]
             \in [WorkerId -> Seq(Job)]
<1>1. \A w \in WorkerId : g[w] # NoJob => Append(u[w], g[w]) \in Seq(Job)
  OBVIOUS
<1>. QED  BY <1>1

LEMMA SubmitKeeps ==
    ASSUME MonitorInv, NEW t \in delayed \cup fresh, Submit(t)
    PROVE  /\ MonitorSound(monitor', (delayed \cup fresh) \ {t}, stage = "up")
           /\ unanswered' \in [WorkerId -> Seq(Job)]
<1>. DEFINE X == delayed \cup fresh
            old == monitor.queues
            h == monitor.holding
            q == IF QueueSize(old) >= MaxQueueSize THEN Evicted(old) ELSE old
            n == Joined(q, t)
            m == [monitor EXCEPT !.queues = n]
<1>1. /\ monitor \in MonitorState /\ Placed(old, h, X) /\ Roomy(old) /\ (stage = "up" => Tracked(monitor))
      /\ t \in Job /\ unanswered \in [WorkerId -> Seq(Job)]
  BY DEF MonitorInv, MonitorTypeOK, MonitorSound
<1>2. MonitorSound(monitor', X \ {t}, stage = "up")
  <2>1. CASE ~(stage = "up" /\ Accepted(t))
    <3>1. monitor' = monitor
      BY <2>1 DEF Submit
    <3>2. Placed(old, h, X \ {t})
      BY <1>1, FewerOutside
    <3>. QED  BY <1>1, <3>1, <3>2 DEF MonitorSound
  <2>2. CASE stage = "up" /\ Accepted(t)
    <3>1. monitor' = ProcessNextTasks(m)
      BY <2>2 DEF Submit, Joined
    <3>2. old \in [0..3 -> Seq(Job)]
      BY <1>1, MonitorFields
    <3>3. n \in [0..3 -> Seq(Job)] /\ Placed(n, h, X \ {t}) /\ Roomy(n)
      <4>1. QueueSize(old) < MaxQueueSize \/ JobPriority[t] >= High
        BY <2>2 DEF Accepted
      <4>. HIDE DEF X, old, h
      <4>2. t \in X
        BY DEF X
      <4>3. /\ q = (IF QueueSize(old) >= MaxQueueSize THEN Evicted(old) ELSE old)
            /\ n = Joined(q, t)
        OBVIOUS
      <4>. HIDE DEF n, q
      <4>. QED  BY <1>1, <3>2, <4>1, <4>2, <4>3, QueuesAfterSubmit
    <3>. HIDE DEF n
    <3>4. m \in MonitorState /\ m.queues = n /\ m.holding = h /\ m.status = monitor.status /\ m.load = monitor.load
      BY <1>1, <3>3, QueuesReplaced
    <3>. HIDE DEF m
    <3>5. Tracked(m)
      BY <1>1, <2>2, <3>4 DEF Tracked
    <3>6. MonitorSound(m, X \ {t}, stage = "up")
      BY <3>3, <3>4, <3>5 DEF MonitorSound
    <3>. HIDE DEF X
    <3>. QED  BY <3>1, <3>6, ProcessKeeps
  <2>. QED  BY <2>1, <2>2
<1>3. unanswered' \in [WorkerId -> Seq(Job)]
  <2>1. monitor'.holding \in [WorkerId -> Job \cup {NoJob}]
    BY <1>2, MonitorFields DEF MonitorSound
  <2>2. unanswered' = [w \in WorkerId |-> IF h[w] = NoJob /\ monitor'.holding[w] # NoJob
                                          THEN Append(unanswered[w], monitor'.holding[w]) ELSE unanswered[w]]
    BY DEF Submit, Posted
  <2>. HIDE DEF h
  <2>. QED  BY <1>1, <2>1, <2>2, PostedType
<1>. QED  BY <1>2, <1>3
-----------------------------------------------------------------------------
\* onTaskCompleted and onTaskError touch the scheduler's copy of one worker.
LEMMA AfterAnswer ==
    ASSUME NEW m \in MonitorState, NEW w \in WorkerId, NEW n,
           n = AfterError(m, w) \/ n = AfterCompletion(m, w)
    PROVE  /\ n \in MonitorState /\ n.queues = m.queues /\ n.holding = m.holding /\ n.timed = m.timed
           /\ \A v \in WorkerId : v # w => n.status[v] = m.status[v] /\ n.load[v] = m.load[v]
           /\ m.status[w] # "unknown" => n.status[w] = "idle"
           /\ n.load[w] <= m.load[w]
<1>1. /\ m.status \in [WorkerId -> {"idle", "busy", "unknown"}] /\ m.load \in [WorkerId -> 0..100]
  BY MonitorFields
<1>2. PICK d \in {10, 20} : n = IF m.status[w] = "unknown" THEN m
                               ELSE [m EXCEPT !.status[w] = "idle", !.load[w] = AtLeast(@ - d, 0)]
  BY DEF AfterError, AfterCompletion
<1>3. CASE m.status[w] = "unknown"
  BY <1>1, <1>2, <1>3
<1>4. CASE m.status[w] # "unknown"
  <2>. DEFINE l == AtLeast(m.load[w] - d, 0)
              status == [m.status EXCEPT ![w] = "idle"]
              load == [m.load EXCEPT ![w] = l]
  <2>1. l \in 0..100 /\ l <= m.load[w]
    <3>1. m.load[w] \in 0..100 /\ d \in Nat
      BY <1>1
    <3>. QED  BY <3>1 DEF AtLeast
  <2>. HIDE DEF l
  <2>2. /\ status \in [WorkerId -> {"idle", "busy", "unknown"}] /\ load \in [WorkerId -> 0..100]
        /\ \A v \in WorkerId : v # w => status[v] = m.status[v] /\ load[v] = m.load[v]
        /\ status[w] = "idle" /\ load[w] = l
    BY <1>1, <2>1
  <2>3. n = [m EXCEPT !.status = status, !.load = load]
    BY <1>2, <1>4 DEF MonitorState, l
  <2>. HIDE DEF status, load
  <2>4. /\ n \in MonitorState /\ n.queues = m.queues /\ n.holding = m.holding /\ n.timed = m.timed
        /\ n.status = status /\ n.load = load
    BY <2>2, <2>3 DEF MonitorState
  <2>. QED  BY <2>1, <2>2, <2>4
<1>. QED  BY <1>3, <1>4

\* A worker that has nothing to do any more, idle for the scheduler as well.
LEMMA ReleasedSound ==
    ASSUME NEW m, NEW X \in SUBSET Job, NEW up, MonitorSound(m, X, up), NEW w \in WorkerId,
           NEW n \in MonitorState, n.queues = m.queues, n.holding = [m.holding EXCEPT ![w] = NoJob],
           up => /\ n.status[w] = "idle" /\ n.load[w] <= 20
                 /\ \A v \in WorkerId : v # w => n.status[v] = m.status[v] /\ n.load[v] = m.load[v]
    PROVE  MonitorSound(n, X \cup ({m.holding[w]} \ {NoJob}), up)
<1>1. m \in MonitorState /\ Placed(m.queues, m.holding, X) /\ Roomy(m.queues)
  BY DEF MonitorSound
<1>2. m.queues \in [0..3 -> Seq(Job)] /\ m.holding \in [WorkerId -> Job \cup {NoJob}]
  BY <1>1, MonitorFields
<1>3. \A p \in 0..3 : \A i \in DOMAIN m.queues[p] : m.queues[p][i] \in Job
  <2>1. ASSUME NEW p \in 0..3, NEW i \in DOMAIN m.queues[p]  PROVE m.queues[p][i] \in Job
    <3>1. m.queues[p] \in Seq(Job)
      BY <1>2
    <3>. QED  BY <3>1
  <2>. QED  BY <2>1
<1>4. Placed(n.queues, n.holding, X \cup ({m.holding[w]} \ {NoJob}))
  <2>. DEFINE q == m.queues
              h == m.holding
  <2>1. /\ h \in [WorkerId -> Job \cup {NoJob}] /\ Placed(q, h, X)
        /\ \A p \in 0..3 : \A i \in DOMAIN q[p] : q[p][i] \in Job
    BY <1>1, <1>2, <1>3
  <2>. HIDE DEF q, h
  <2>2. Placed(q, [h EXCEPT ![w] = NoJob], X \cup ({h[w]} \ {NoJob}))
    BY <2>1, ReleaseKeeps
  <2>. QED  BY <2>2 DEF q, h
<1>5. ASSUME up  PROVE Tracked(n)
  <2>1. n.holding[w] = NoJob /\ \A v \in WorkerId : v # w => n.holding[v] = m.holding[v]
    BY <1>2
  <2>2. Tracked(m)
    BY <1>5 DEF MonitorSound
  <2>. QED  BY <1>5, <2>1, <2>2 DEF Tracked
<1>. QED  BY <1>1, <1>4, <1>5 DEF MonitorSound

\* handleWorkerResult: the task of the worker goes elsewhere, or is forgotten.
LEMMA WorkerResultKeeps ==
    ASSUME MonitorInv, NEW w \in WorkerId, NEW success \in BOOLEAN,
           NEW posted \in [WorkerId -> Seq(Job)], WorkerResult(w, success, posted)
    PROVE  /\ MonitorSound(monitor', delayed' \cup fresh, stage = "up")
           /\ unanswered' \in [WorkerId -> Seq(Job)]
           /\ delayed' \in SUBSET Job /\ delayed' \cap fresh = {}
<1>. DEFINE X == delayed \cup fresh
            t == monitor.holding[w]
            told == IF success THEN AfterCompletion(monitor, w) ELSE AfterError(monitor, w)
            free == TaskCleared(told, w)
<1>1. /\ monitor \in MonitorState /\ MonitorSound(monitor, X, stage = "up") /\ delayed \cap fresh = {}
      /\ delayed \in SUBSET Job /\ fresh \in SUBSET Job /\ X \in SUBSET Job
  BY DEF MonitorInv, MonitorTypeOK
<1>2. CASE NothingToEnd(w)
  BY <1>1, <1>2 DEF WorkerResult
<1>3. CASE ~NothingToEnd(w)
  <2>1. /\ monitor' = ProcessNextTasks(free)
        /\ unanswered' = [v \in WorkerId |-> IF free.holding[v] = NoJob /\ monitor'.holding[v] # NoJob
                                             THEN Append(posted[v], monitor'.holding[v]) ELSE posted[v]]
        /\ delayed' = IF success THEN delayed ELSE delayed \cup {t}
    BY <1>3 DEF WorkerResult
  <2>2. t # NoJob /\ t \in Job
    BY <1>1, <1>3, MonitorFields DEF NothingToEnd
  <2>3. /\ told \in MonitorState /\ told.queues = monitor.queues /\ told.holding = monitor.holding
        /\ \A v \in WorkerId : v # w => told.status[v] = monitor.status[v] /\ told.load[v] = monitor.load[v]
        /\ monitor.status[w] # "unknown" => told.status[w] = "idle"
        /\ told.load[w] <= monitor.load[w]
    BY <1>1, AfterAnswer
  <2>. HIDE DEF told
  <2>4. /\ free \in MonitorState /\ free.queues = told.queues /\ free.status = told.status
        /\ free.load = told.load /\ free.holding = [told.holding EXCEPT ![w] = NoJob]
    <3>. DEFINE holding == [told.holding EXCEPT ![w] = NoJob]
                timed == [told.timed EXCEPT ![w] = FALSE]
    <3>1. holding \in [WorkerId -> Job \cup {NoJob}]
      BY <2>3, MonitorFields
    <3>2. timed \in [WorkerId -> BOOLEAN]
      <4>1. told.timed \in [WorkerId -> BOOLEAN]
        BY <2>3, MonitorFields
      <4>. QED  BY <4>1, Zenon
    <3>3. free = [told EXCEPT !.holding = holding, !.timed = timed]
      BY <2>3 DEF TaskCleared, MonitorState
    <3>. HIDE DEF free, holding, timed
    <3>4. /\ free \in MonitorState /\ free.queues = told.queues /\ free.status = told.status
          /\ free.load = told.load /\ free.holding = holding
      BY <2>3, <3>1, <3>2, <3>3 DEF MonitorState
    <3>. QED  BY <3>4 DEF holding
  <2>. HIDE DEF free
  <2>5. MonitorSound(free, X \cup ({t} \ {NoJob}), stage = "up")
    <3>1. ASSUME stage = "up"
          PROVE  /\ free.status[w] = "idle" /\ free.load[w] <= 20
                 /\ \A v \in WorkerId : v # w => free.status[v] = monitor.status[v] /\ free.load[v] = monitor.load[v]
      <4>1. monitor.status[w] # "unknown" /\ monitor.load[w] <= 20
        BY <1>1, <3>1 DEF MonitorSound, Tracked
      <4>2. monitor.load[w] \in 0..100 /\ told.load[w] \in 0..100
        BY <1>1, <2>3, MonitorFields
      <4>3. free.load[w] <= 20
        <5>1. free.load[w] = told.load[w]
          BY <2>4
        <5>2. told.load[w] <= monitor.load[w]
          BY <2>3
        <5>3. \A a, b \in 0..100 : a <= b /\ b <= 20 => a <= 20
          OBVIOUS
        <5>. QED  BY <4>1, <4>2, <5>1, <5>2, <5>3
      <4>4. free.status[w] = "idle"
        BY <2>3, <2>4, <4>1
      <4>. QED  BY <2>3, <2>4, <4>3, <4>4
    <3>. HIDE DEF X
    <3>. QED  BY <1>1, <2>3, <2>4, <3>1, ReleasedSound
  <2>6. MonitorSound(free, delayed' \cup fresh, stage = "up")
    <3>1. delayed' \cup fresh \subseteq X \cup ({t} \ {NoJob})
      BY <2>1, <2>2
    <3>. HIDE DEF X, t
    <3>. QED  BY <2>5, <3>1, FewerOutside DEF MonitorSound
  <2>7. MonitorSound(monitor', delayed' \cup fresh, stage = "up")
    BY <2>1, <2>6, ProcessKeeps
  <2>8. unanswered' \in [WorkerId -> Seq(Job)]
    <3>1. monitor'.holding \in [WorkerId -> Job \cup {NoJob}]
      BY <2>7, MonitorFields DEF MonitorSound
    <3>. QED  BY <2>1, <3>1, PostedType
  <2>9. delayed' \in SUBSET Job /\ delayed' \cap fresh = {}
    <3>1. t \notin fresh
      BY <1>1 DEF MonitorSound, Placed, Outside
    <3>. HIDE DEF t
    <3>. QED  BY <1>1, <2>1, <2>2, <3>1
  <2>. QED  BY <2>7, <2>8, <2>9
<1>. QED  BY <1>2, <1>3

\* A new thread has nothing to do, and its predecessor's task is lost.
LEMMA RecycleKeeps ==
    ASSUME MonitorInv, NEW w \in WorkerId, NEW told, told = monitor \/ told = AfterError(monitor, w),
           Recycle(w, told)
    PROVE  /\ MonitorSound(monitor', delayed \cup fresh, stage = "up")
           /\ unanswered' \in [WorkerId -> Seq(Job)] /\ stray' \in [WorkerId -> Nat]
<1>. DEFINE X == delayed \cup fresh
<1>1. /\ monitor \in MonitorState /\ MonitorSound(monitor, X, stage = "up") /\ X \in SUBSET Job
      /\ unanswered \in [WorkerId -> Seq(Job)] /\ stray \in [WorkerId -> Nat]
  BY DEF MonitorInv, MonitorTypeOK
<1>2. /\ told \in MonitorState /\ told.queues = monitor.queues /\ told.holding = monitor.holding
      /\ \A v \in WorkerId : v # w => told.status[v] = monitor.status[v] /\ told.load[v] = monitor.load[v]
  BY <1>1, AfterAnswer
<1>. DEFINE holding == [told.holding EXCEPT ![w] = NoJob]
            timed == [told.timed EXCEPT ![w] = FALSE]
            status == [told.status EXCEPT ![w] = "idle"]
            load == [told.load EXCEPT ![w] = 0]
<1>3. /\ holding \in [WorkerId -> Job \cup {NoJob}]
      /\ status \in [WorkerId -> {"idle", "busy", "unknown"}] /\ status[w] = "idle"
      /\ load \in [WorkerId -> 0..100] /\ load[w] = 0
      /\ \A v \in WorkerId : v # w => status[v] = told.status[v] /\ load[v] = told.load[v]
  <2>1. /\ told.holding \in [WorkerId -> Job \cup {NoJob}] /\ told.load \in [WorkerId -> 0..100]
        /\ told.status \in [WorkerId -> {"idle", "busy", "unknown"}]
    BY <1>2, MonitorFields
  <2>2. 0 \in 0..100
    OBVIOUS
  <2>. QED  BY <2>1, <2>2
<1>4. timed \in [WorkerId -> BOOLEAN]
  <2>1. told.timed \in [WorkerId -> BOOLEAN]
    BY <1>2, MonitorFields
  <2>. QED  BY <2>1, Zenon
<1>5. monitor' = [told EXCEPT !.status = status, !.load = load, !.holding = holding, !.timed = timed]
  BY <1>2 DEF Recycle, Registered, MonitorState
<1>6. holding = [monitor.holding EXCEPT ![w] = NoJob]
  BY <1>2
<1>. HIDE DEF holding, timed, status, load
<1>7. /\ monitor' \in MonitorState /\ monitor'.queues = told.queues /\ monitor'.holding = holding
      /\ monitor'.status = status /\ monitor'.load = load
  BY <1>2, <1>3, <1>4, <1>5 DEF MonitorState
<1>8. MonitorSound(monitor', X \cup ({monitor.holding[w]} \ {NoJob}), stage = "up")
  <2>1. /\ monitor'.status[w] = "idle" /\ monitor'.load[w] <= 20
        /\ \A v \in WorkerId : v # w => /\ monitor'.status[v] = monitor.status[v]
                                        /\ monitor'.load[v] = monitor.load[v]
    BY <1>2, <1>3, <1>7
  <2>. HIDE DEF X
  <2>. QED  BY <1>1, <1>2, <1>6, <1>7, <2>1, ReleasedSound
<1>9. MonitorSound(monitor', X, stage = "up")
  BY <1>8, FewerOutside DEF MonitorSound
<1>10. unanswered' \in [WorkerId -> Seq(Job)]
  BY <1>1 DEF Recycle
<1>11. stray' \in [WorkerId -> Nat]
  <2>1. PICK n \in 0..Len(unanswered[w]) : stray' = [stray EXCEPT ![w] = @ + n]
    BY DEF Recycle
  <2>2. n \in Nat /\ stray[w] \in Nat
    BY <1>1, <2>1
  <2>3. stray[w] + n \in Nat
    BY <2>2
  <2>. QED  BY <1>1, <2>1, <2>3
<1>. QED  BY <1>9, <1>10, <1>11
-----------------------------------------------------------------------------
LEMMA MonitorInvInit == MonitorInit => MonitorInv
<1>1. SUFFICES ASSUME MonitorInit  PROVE MonitorInv
  OBVIOUS
<1>. DEFINE queues == [p \in 0..3 |-> <<>>]
            holding == [w \in WorkerId |-> NoJob]
            timed == [w \in WorkerId |-> FALSE]
            status == [w \in WorkerId |-> "idle"]
            load == [w \in WorkerId |-> 0]
<1>2. monitor = [queues |-> queues, holding |-> holding, timed |-> timed, status |-> status, load |-> load]
  BY <1>1 DEF MonitorInit
<1>3. /\ queues \in [0..3 -> Seq(Job)] /\ holding \in [WorkerId -> Job \cup {NoJob}]
      /\ timed \in [WorkerId -> BOOLEAN] /\ status \in [WorkerId -> {"idle", "busy", "unknown"}]
      /\ load \in [WorkerId -> 0..100]
  <2>1. <<>> \in Seq(Job) /\ 0 \in 0..100
    OBVIOUS
  <2>. QED  BY <2>1
<1>4. monitor \in MonitorState
  <2>. HIDE DEF queues, holding, timed, status, load
  <2>. QED  BY <1>2, <1>3 DEF MonitorState
<1>5. Placed(monitor.queues, monitor.holding, delayed \cup fresh) /\ Tracked(monitor)
  <2>1. \A p \in 0..3 : DOMAIN monitor.queues[p] = {}
    BY <1>2
  <2>2. \A w \in WorkerId : monitor.holding[w] = NoJob /\ monitor.status[w] = "idle" /\ monitor.load[w] = 0
    BY <1>2
  <2>3. delayed \cup fresh = Job /\ NoJob \notin Job
    BY <1>1, MonitorAssumption DEF MonitorInit, MonitorAssumption
  <2>. QED
    BY <2>1, <2>2, <2>3 DEF Placed, Sorted, QueuedOnce, HeldOnce, HeldNotQueued, Outside, Tracked
<1>6. Roomy(monitor.queues)
  <2>1. \A p \in 0..(High - 1) : p \in 0..3 /\ monitor.queues[p] = <<>>
    BY <1>2 DEF High
  <2>. QED  BY <2>1 DEF Roomy, LowWaiting
<1>7. MonitorTypeOK /\ delayed \cap fresh = {}
  <2>1. MaxErrors \in Nat
    BY MonitorAssumption DEF MonitorAssumption
  <2>2. unanswered \in [WorkerId -> Seq(Job)] /\ stray \in [WorkerId -> Nat] /\ strayTimers \in [WorkerId -> Nat]
    BY <1>1 DEF MonitorInit
  <2>3. delayed = {} /\ fresh = Job /\ stage = "up" /\ errors = 0
    BY <1>1 DEF MonitorInit
  <2>. QED  BY <1>4, <2>1, <2>2, <2>3 DEF MonitorTypeOK
<1>. QED  BY <1>4, <1>5, <1>6, <1>7 DEF MonitorInv, MonitorSound

\* What is left to show of a step whose stage stays as it is.
LEMMA InvFromParts ==
    ASSUME MonitorSound(monitor', delayed' \cup fresh', stage' = "up"),
           unanswered' \in [WorkerId -> Seq(Job)],
           stray' \in [WorkerId -> Nat], strayTimers' \in [WorkerId -> Nat],
           delayed' \in SUBSET Job, fresh' \in SUBSET Job, delayed' \cap fresh' = {},
           stage' \in {"up", "stopping", "down"}, errors' \in 0..MaxErrors
    PROVE  MonitorInv'
BY DEF MonitorInv, MonitorTypeOK, MonitorSound

LEMMA MonitorInvStep ==
    ASSUME MonitorInv, [MonitorNext]_monitorVars
    PROVE  MonitorInv'
<1>1. /\ monitor \in MonitorState /\ MonitorSound(monitor, delayed \cup fresh, stage = "up")
      /\ unanswered \in [WorkerId -> Seq(Job)]
      /\ stray \in [WorkerId -> Nat] /\ strayTimers \in [WorkerId -> Nat]
      /\ delayed \in SUBSET Job /\ fresh \in SUBSET Job /\ delayed \cap fresh = {}
      /\ stage \in {"up", "stopping", "down"} /\ errors \in 0..MaxErrors
  BY DEF MonitorInv, MonitorTypeOK
<1>2. CASE UNCHANGED monitorVars
  BY <1>1, <1>2, InvFromParts DEF monitorVars
<1>3. ASSUME NEW t \in Job, SubmitTask(t)  PROVE MonitorInv'
  <2>1. t \in fresh /\ fresh' = fresh \ {t} /\ Submit(t) /\ UNCHANGED <<stray, strayTimers, delayed, stage, errors>>
    BY <1>3 DEF SubmitTask
  <2>2. /\ MonitorSound(monitor', (delayed \cup fresh) \ {t}, stage = "up")
        /\ unanswered' \in [WorkerId -> Seq(Job)]
    BY <2>1, SubmitKeeps
  <2>3. (delayed \cup fresh) \ {t} = delayed' \cup fresh'
    BY <1>1, <2>1
  <2>. QED  BY <1>1, <2>1, <2>2, <2>3, InvFromParts
<1>4. ASSUME NEW t \in Job, SubmitAgain(t)  PROVE MonitorInv'
  <2>1. /\ t \in delayed /\ delayed' = delayed \ {t} /\ Submit(t)
        /\ UNCHANGED <<stray, strayTimers, fresh, stage, errors>>
    BY <1>4 DEF SubmitAgain
  <2>2. /\ MonitorSound(monitor', (delayed \cup fresh) \ {t}, stage = "up")
        /\ unanswered' \in [WorkerId -> Seq(Job)]
    BY <2>1, SubmitKeeps
  <2>3. (delayed \cup fresh) \ {t} = delayed' \cup fresh'
    BY <1>1, <2>1
  <2>. QED  BY <1>1, <2>1, <2>2, <2>3, InvFromParts
<1>5. ASSUME NEW w \in WorkerId, NEW success \in BOOLEAN, ThreadAnswers(w, success)  PROVE MonitorInv'
  <2>. DEFINE posted == [unanswered EXCEPT ![w] = Tail(@)]
  <2>1. /\ unanswered[w] # <<>> /\ WorkerResult(w, success, posted)
        /\ UNCHANGED <<stray, strayTimers, fresh, stage, errors>>
    BY <1>5 DEF ThreadAnswers
  <2>2. posted \in [WorkerId -> Seq(Job)]
    BY <1>1, <2>1
  <2>. HIDE DEF posted
  <2>3. /\ MonitorSound(monitor', delayed' \cup fresh, stage = "up")
        /\ unanswered' \in [WorkerId -> Seq(Job)]
        /\ delayed' \in SUBSET Job /\ delayed' \cap fresh = {}
    BY <2>1, <2>2, WorkerResultKeeps
  <2>. QED  BY <1>1, <2>1, <2>3, InvFromParts
<1>6. ASSUME NEW w \in WorkerId, NEW success \in BOOLEAN, StrayAnswer(w, success)  PROVE MonitorInv'
  <2>1. /\ stray[w] > 0 /\ stray' = [stray EXCEPT ![w] = @ - 1] /\ WorkerResult(w, success, unanswered)
        /\ UNCHANGED <<strayTimers, fresh, stage, errors>>
    BY <1>6 DEF StrayAnswer
  <2>2. stray' \in [WorkerId -> Nat]
    <3>1. stray[w] - 1 \in Nat
      BY <1>1, <2>1
    <3>. QED  BY <1>1, <2>1, <3>1
  <2>3. /\ MonitorSound(monitor', delayed' \cup fresh, stage = "up")
        /\ unanswered' \in [WorkerId -> Seq(Job)]
        /\ delayed' \in SUBSET Job /\ delayed' \cap fresh = {}
    BY <1>1, <2>1, WorkerResultKeeps
  <2>. QED  BY <1>1, <2>1, <2>2, <2>3, InvFromParts
<1>7. ASSUME NEW w \in WorkerId, WorkerError(w)  PROVE MonitorInv'
  <2>. DEFINE told == IF monitor.holding[w] # NoJob THEN AfterError(monitor, w) ELSE monitor
  <2>1. /\ errors < MaxErrors /\ errors' = errors + 1 /\ Recycle(w, told)
        /\ strayTimers' = [strayTimers EXCEPT ![w] = @ + IF monitor.timed[w] THEN 1 ELSE 0]
        /\ UNCHANGED <<delayed, fresh, stage>>
    BY <1>7 DEF WorkerError
  <2>2. told = monitor \/ told = AfterError(monitor, w)
    OBVIOUS
  <2>. HIDE DEF told
  <2>3. /\ MonitorSound(monitor', delayed \cup fresh, stage = "up")
        /\ unanswered' \in [WorkerId -> Seq(Job)] /\ stray' \in [WorkerId -> Nat]
    BY <2>1, <2>2, RecycleKeeps
  <2>4. strayTimers' \in [WorkerId -> Nat]
    <3>1. strayTimers[w] + (IF monitor.timed[w] THEN 1 ELSE 0) \in Nat
      BY <1>1
    <3>. QED  BY <1>1, <2>1, <3>1
  <2>5. errors' \in 0..MaxErrors
    BY <1>1, <2>1, MonitorAssumption DEF MonitorAssumption
  <2>. QED  BY <1>1, <2>1, <2>3, <2>4, <2>5, InvFromParts
<1>8. ASSUME NEW w \in WorkerId, WorkerTimeout(w)  PROVE MonitorInv'
  <2>1. Recycle(w, AfterError(monitor, w)) /\ UNCHANGED <<strayTimers, delayed, fresh, stage, errors>>
    BY <1>8 DEF WorkerTimeout
  <2>2. /\ MonitorSound(monitor', delayed \cup fresh, stage = "up")
        /\ unanswered' \in [WorkerId -> Seq(Job)] /\ stray' \in [WorkerId -> Nat]
    BY <2>1, RecycleKeeps
  <2>. QED  BY <1>1, <2>1, <2>2, InvFromParts
<1>9. ASSUME NEW w \in WorkerId, StrayTimeout(w)  PROVE MonitorInv'
  <2>1. strayTimers[w] > 0 /\ UNCHANGED <<delayed, fresh, stage, errors>>
    BY <1>9 DEF StrayTimeout
  <2>2. CASE Recycle(w, AfterError(monitor, w)) /\ UNCHANGED strayTimers
    <3>1. /\ MonitorSound(monitor', delayed \cup fresh, stage = "up")
          /\ unanswered' \in [WorkerId -> Seq(Job)] /\ stray' \in [WorkerId -> Nat]
      BY <2>2, RecycleKeeps
    <3>. QED  BY <1>1, <2>1, <2>2, <3>1, InvFromParts
  <2>3. CASE strayTimers' = [strayTimers EXCEPT ![w] = @ - 1] /\ UNCHANGED <<monitor, unanswered, stray>>
    <3>1. strayTimers' \in [WorkerId -> Nat]
      <4>1. strayTimers[w] - 1 \in Nat
        BY <1>1, <2>1
      <4>. QED  BY <1>1, <2>3, <4>1
    <3>. QED  BY <1>1, <2>1, <2>3, <3>1, InvFromParts
  <2>. QED  BY <1>9, <2>2, <2>3 DEF StrayTimeout
<1>10. ASSUME BeginStop  PROVE MonitorInv'
  <2>. DEFINE queues == [p \in 0..3 |-> <<>>]
              status == [w \in WorkerId |-> "unknown"]
              load == [w \in WorkerId |-> 0]
  <2>1. /\ stage' = "stopping" /\ UNCHANGED <<unanswered, stray, strayTimers, delayed, fresh, errors>>
        /\ monitor' = [monitor EXCEPT !.queues = queues, !.status = status, !.load = load]
    BY <1>10 DEF BeginStop
  <2>2. /\ queues \in [0..3 -> Seq(Job)] /\ status \in [WorkerId -> {"idle", "busy", "unknown"}]
        /\ load \in [WorkerId -> 0..100]
    <3>1. <<>> \in Seq(Job) /\ 0 \in 0..100
      OBVIOUS
    <3>. QED  BY <3>1
  <2>3. \A p \in 0..3 : DOMAIN queues[p] = {} /\ queues[p] = <<>>
    OBVIOUS
  <2>. HIDE DEF queues, status, load
  <2>4. monitor' \in MonitorState /\ monitor'.queues = queues /\ monitor'.holding = monitor.holding
    BY <1>1, <2>1, <2>2 DEF MonitorState
  <2>5. Placed(queues, monitor.holding, delayed \cup fresh)
    BY <1>1, <2>3 DEF MonitorSound, Placed, Sorted, QueuedOnce, HeldNotQueued, Outside
  <2>6. Roomy(queues)
    <3>1. \A p \in 0..(High - 1) : p \in 0..3
      BY DEF High
    <3>. QED  BY <2>3, <3>1 DEF Roomy, LowWaiting
  <2>7. MonitorSound(monitor', delayed' \cup fresh', stage' = "up")
    BY <2>1, <2>4, <2>5, <2>6 DEF MonitorSound
  <2>. QED  BY <1>1, <2>1, <2>7, InvFromParts
<1>11. ASSUME EndStop  PROVE MonitorInv'
  <2>. DEFINE holding == [w \in WorkerId |-> NoJob]
              timed == [w \in WorkerId |-> FALSE]
  <2>1. /\ stage' = "down" /\ UNCHANGED <<unanswered, stray, strayTimers, delayed, fresh, errors>>
        /\ monitor' = [monitor EXCEPT !.holding = holding, !.timed = timed]
    BY <1>11 DEF EndStop
  <2>2. /\ holding \in [WorkerId -> Job \cup {NoJob}] /\ timed \in [WorkerId -> BOOLEAN]
        /\ \A w \in WorkerId : holding[w] = NoJob
    OBVIOUS
  <2>. HIDE DEF holding, timed
  <2>3. monitor' \in MonitorState /\ monitor'.queues = monitor.queues /\ monitor'.holding = holding
    BY <1>1, <2>1, <2>2 DEF MonitorState
  <2>4. NoJob \notin Job
    BY MonitorAssumption DEF MonitorAssumption
  <2>5. Placed(monitor.queues, holding, delayed \cup fresh) /\ Roomy(monitor.queues)
    <3>1. \A p \in 0..3 : \A i \in DOMAIN monitor.queues[p] : monitor.queues[p][i] \in Job
      <4>1. ASSUME NEW p \in 0..3, NEW i \in DOMAIN monitor.queues[p]  PROVE monitor.queues[p][i] \in Job
        <5>1. monitor.queues[p] \in Seq(Job)
          BY <1>1, MonitorFields
        <5>. QED  BY <5>1
      <4>. QED  BY <4>1
    <3>2. HeldOnce(holding)
      BY <2>2 DEF HeldOnce
    <3>3. HeldNotQueued(monitor.queues, holding)
      BY <2>2, <2>4, <3>1 DEF HeldNotQueued
    <3>4. Outside(monitor.queues, holding, delayed \cup fresh)
      BY <1>1, <2>2, <2>4 DEF MonitorSound, Placed, Outside
    <3>. QED  BY <1>1, <3>2, <3>3, <3>4 DEF MonitorSound, Placed
  <2>6. MonitorSound(monitor', delayed' \cup fresh', stage' = "up")
    BY <2>1, <2>3, <2>5 DEF MonitorSound
  <2>. QED  BY <1>1, <2>1, <2>6, InvFromParts
<1>. QED
  BY <1>2, <1>3, <1>4, <1>5, <1>6, <1>7, <1>8, <1>9, <1>10, <1>11 DEF MonitorNext

LEMMA MonitorInvAlways == MonitorSpec => []MonitorInv
BY MonitorInvInit, MonitorInvStep, PTL DEF MonitorSpec
-----------------------------------------------------------------------------
\* Pool and scheduler keep states of their types: handlers of answers, timers and
\* errors, of threads present and replaced, included.
THEOREM MonitorTypeCorrect == MonitorSpec => []MonitorTypeOK
<1>1. MonitorInv => MonitorTypeOK
  BY DEF MonitorInv
<1>. QED  BY <1>1, MonitorInvAlways, PTL

\* A full queue grows only by urgent tasks, and only when nothing less urgent is
\* left to make room (submitTask with removeLowPriorityTasks).
THEOREM OverfullCorrect == MonitorSpec => []OverfullOnlyByUrgent
<1>1. MonitorInv => OverfullOnlyByUrgent
  BY DEF MonitorInv, MonitorSound, Roomy, OverfullOnlyByUrgent
<1>. QED  BY <1>1, MonitorInvAlways, PTL

\* The scheduler takes a worker for busy exactly when the pool works on something
\* there, and balanceLoad finds no worker to take tasks from.
THEOREM TracksPoolCorrect == MonitorSpec => []SchedulerTracksPool
<1>1. ASSUME MonitorInv, stage = "up", NEW w \in WorkerId
      PROVE  /\ (monitor.status[w] = "busy") <=> (monitor.holding[w] # NoJob)
             /\ PoolSize * monitor.load[w] <= SumOfLoads + PoolSize * LoadThreshold
  <2>1. Tracked(monitor) /\ monitor \in MonitorState
    BY <1>1 DEF MonitorInv, MonitorSound
  <2>2. SumOfLoads \in Nat
    BY <2>1, MonitorFields, SumOfLoadsNotNegative, MonitorAssumption
  <2>3. monitor.load[w] \in 0..100 /\ monitor.load[w] <= 20
    BY <2>1, MonitorFields DEF Tracked
  <2>4. PoolSize \in Nat /\ LoadThreshold \in Nat /\ 20 <= LoadThreshold
    BY MonitorAssumption DEF MonitorAssumption
  <2>5. monitor.load[w] \in Nat /\ monitor.load[w] <= LoadThreshold
    BY <2>3, <2>4
  <2>6. \A n, a, b \in Nat : a <= b => n * a <= n * b /\ n * a \in Nat /\ n * b \in Nat
    OBVIOUS
  <2>7. /\ PoolSize * monitor.load[w] <= PoolSize * LoadThreshold
        /\ PoolSize * monitor.load[w] \in Nat /\ PoolSize * LoadThreshold \in Nat
    BY <2>4, <2>5, <2>6
  <2>8. \A x, y, s \in Nat : x <= y => x <= s + y
    OBVIOUS
  <2>9. PoolSize * monitor.load[w] <= SumOfLoads + PoolSize * LoadThreshold
    BY <2>2, <2>7, <2>8
  <2>. QED  BY <2>1, <2>9 DEF Tracked
<1>2. MonitorInv => SchedulerTracksPool
  BY <1>1 DEF SchedulerTracksPool
<1>. QED  BY <1>2, MonitorInvAlways, PTL

LEMMA AtMostOne ==
    ASSUME NEW S, \A x, y \in S : x = y
    PROVE  Cardinality(S) \in 0..1 /\ (Cardinality(S) = 1 => S # {})
<1>1. CASE S = {}
  BY <1>1, FS_EmptySet
<1>2. CASE S # {}
  <2>1. PICK x \in S : S = {x}
    BY <1>2
  <2>. QED  BY <1>2, <2>1, FS_Singleton
<1>. QED  BY <1>1, <1>2

\* A task is in one place at most, whichever thread's answer, and whichever
\* timer, moved it: queued, held by a worker, or awaiting a submission.
THEOREM OnePlaceCorrect == MonitorSpec => []OnePlacePerTask
<1>1. ASSUME MonitorInv, NEW t \in Job  PROVE Places(t) <= 1
  <2>. DEFINE H == {w \in WorkerId : monitor.holding[w] = t}
              Q == {i \in DOMAIN monitor.queues[JobPriority[t]] : monitor.queues[JobPriority[t]][i] = t}
              D == {t} \cap delayed
              F == {t} \cap fresh
  <2>1. JobPriority[t] \in 0..3 /\ t # NoJob
    BY MonitorAssumption DEF MonitorAssumption
  <2>2. Placed(monitor.queues, monitor.holding, delayed \cup fresh) /\ delayed \cap fresh = {}
    BY <1>1 DEF MonitorInv, MonitorSound
  <2>3. \A v, w \in H : v = w
    BY <2>1, <2>2 DEF Placed, HeldOnce
  <2>4. \A i, j \in Q : i = j
    BY <2>1, <2>2 DEF Placed, QueuedOnce
  <2>5. /\ H = {} \/ Q = {}
        /\ H = {} \/ (D = {} /\ F = {})
        /\ Q = {} \/ (D = {} /\ F = {})
        /\ D = {} \/ F = {}
    <3>1. H = {} \/ Q = {}
      BY <2>1, <2>2 DEF Placed, HeldNotQueued
    <3>2. (H = {} /\ Q = {}) \/ (D = {} /\ F = {})
      BY <2>1, <2>2 DEF Placed, Outside
    <3>. QED  BY <2>2, <3>1, <3>2
  <2>6. /\ \A x, y \in D : x = y
        /\ \A x, y \in F : x = y
    OBVIOUS
  <2>. HIDE DEF H, Q, D, F
  <2>7. /\ Cardinality(H) \in 0..1 /\ (Cardinality(H) = 1 => H # {})
        /\ Cardinality(Q) \in 0..1 /\ (Cardinality(Q) = 1 => Q # {})
        /\ Cardinality(D) \in 0..1 /\ (Cardinality(D) = 1 => D # {})
        /\ Cardinality(F) \in 0..1 /\ (Cardinality(F) = 1 => F # {})
    BY <2>3, <2>4, <2>6, AtMostOne
  <2>8. Cardinality(H) + Cardinality(Q) + Cardinality(D) + Cardinality(F) <= 1
    BY <2>5, <2>7
  <2>. QED  BY <2>8 DEF Places, H, Q, D, F
<1>2. MonitorInv => OnePlacePerTask
  BY <1>1 DEF OnePlacePerTask
<1>. QED  BY <1>2, MonitorInvAlways, PTL
-----------------------------------------------------------------------------
(***************************************************************************)
(* MCWorkerPools                                                           *)
(***************************************************************************)
\* Each of the three behaves, among the others, as it does alone.
LEMMA PoolsBehave == MCSpec => PoolSpec /\ MonitorSpec /\ BalancerSpec
<1>1. MCInit => PoolInit /\ MonitorInit /\ BalancerInit
  BY DEF MCInit
<1>2. ASSUME [MCNext]_mcVars
      PROVE  [PoolNext]_poolVars /\ [MonitorNext]_monitorVars /\ [BalancerNext]_balancerVars
  <2>1. CASE PoolNext /\ UNCHANGED <<part, monitorVars, balancerVars>>
    BY <2>1
  <2>2. CASE MonitorNext /\ UNCHANGED <<part, poolVars, balancerVars>>
    BY <2>2
  <2>3. CASE BalancerNext /\ UNCHANGED <<part, poolVars, monitorVars>>
    BY <2>3
  <2>4. CASE UNCHANGED mcVars
    BY <2>4 DEF mcVars
  <2>. QED  BY <1>2, <2>1, <2>2, <2>3, <2>4 DEF MCNext
<1>. QED  BY <1>1, <1>2, PTL DEF MCSpec, PoolSpec, MonitorSpec, BalancerSpec

\* The three pools of threads and the balancer keep states of their types.
THEOREM PoolsTypeCorrect == MCSpec => []PoolsTypeOK
BY PoolsBehave, PoolTypeCorrect, MonitorTypeCorrect, BalancerTypeCorrect, PTL DEF PoolsTypeOK

\* ... and each keeps its promises: retries, shutdown, queue, workers and load.
THEOREM PoolsCorrect ==
    MCSpec => /\ [](/\ AttemptsWithinRetries /\ SchedulerTracksPool /\ OverfullOnlyByUrgent
                    /\ OnePlacePerTask /\ LoadNeverUnderestimated)
              /\ ShutdownWaitsForTasks
BY PoolsBehave, AttemptsCorrect, ShutdownCorrect, TracksPoolCorrect, OverfullCorrect,
   OnePlaceCorrect, LoadCorrect, PTL
=============================================================================
