----------------------- MODULE ParallelSchedulerProofs -----------------------
(***************************************************************************)
(* The safety of the task scheduler, for any number of tasks, slots and    *)
(* retries and any dependencies.                                           *)
(*                                                                         *)
(* Every step but four ends in processQueue.  What that does to the queue  *)
(* and the slots is stated once (Starts, LEMMA Processed); the steps are   *)
(* then a few cases each.                                                  *)
(***************************************************************************)
EXTENDS ParallelScheduler, DataLemmas

\* What a call of processQueue leaves behind, when it starts the tasks of S.
Starts(status, waiting, held, active, S) ==
    /\ S \subseteq Elements(waiting) \cap Task
    /\ queue' \in Seq(Task) /\ Distinct(queue')
    /\ Elements(queue') \subseteq Elements(waiting) \ S
    /\ \A x, y : Precedes(queue', x, y) => Precedes(waiting, x, y)
    /\ \A x \in S, y \in Elements(queue') : CanRun(status, y) => Precedes(waiting, x, y)
    /\ running' = held \cup S /\ Cardinality(running') <= MaxConcurrent
    /\ executing' = active \cup S
    /\ tasks' = [t \in Task |-> IF t \in S THEN "running" ELSE status[t]]

\* A prefix has no more elements than its length.
LEMMA PrefixCardinality ==
    ASSUME NEW s \in Seq(Task), NEW n \in 0..Len(s)
    PROVE  /\ Elements(SubSeq(s, 1, n)) = {s[i] : i \in 1..n}
           /\ IsFiniteSet(Elements(SubSeq(s, 1, n)))
           /\ Cardinality(Elements(SubSeq(s, 1, n))) <= n
<1>1. /\ DOMAIN SubSeq(s, 1, n) = 1..n
      /\ \A i \in 1..n : SubSeq(s, 1, n)[i] = s[i] /\ s[i] \in Task
  OBVIOUS
<1>. DEFINE E == {s[i] : i \in 1..n}
            f == [i \in 1..n |-> s[i]]
<1>2. Elements(SubSeq(s, 1, n)) = E
  BY <1>1 DEF Elements
<1>3. f \in Surjection(1..n, E)
  BY DEF Surjection
<1>4. IsFiniteSet(1..n) /\ Cardinality(1..n) = n
  BY FS_Interval
<1>. HIDE DEF E, f
<1>5. IsFiniteSet(E) /\ Cardinality(E) <= n
  BY <1>3, <1>4, FS_Surjection
<1>. QED  BY <1>2, <1>5 DEF E

\* processQueue starts tasks of the queue, the first that can run, and no more
\* than there are free slots.
LEMMA Processed ==
    ASSUME NEW status, NEW waiting \in Seq(Task), Distinct(waiting),
           NEW held \in SUBSET Task, Cardinality(held) <= MaxConcurrent, NEW active,
           ProcessQueue(status, waiting, held, active)
    PROVE  \E S \in SUBSET Task : Starts(status, waiting, held, active, S)
<1>. DEFINE runnable == Select(waiting, {t \in Task : CanRun(status, t)})
            n == IF FreeSlots(held) < Len(runnable) THEN FreeSlots(held) ELSE Len(runnable)
            chosen == Elements(SubSeq(runnable, 1, n))
            started == chosen \cap handled
<1>1. /\ queue' = WithoutChosen(waiting, chosen)
      /\ running' = held \cup started /\ executing' = active \cup started
      /\ tasks' = [t \in Task |-> IF t \in started THEN "running" ELSE status[t]]
  BY DEF ProcessQueue
<1>2. /\ runnable \in Seq(Task) /\ Len(runnable) \in Nat /\ DOMAIN runnable = 1..Len(runnable)
      /\ Elements(runnable) = Elements(waiting) \cap {t \in Task : CanRun(status, t)}
      /\ \A x, y : Precedes(runnable, x, y) => Precedes(waiting, x, y)
  <2>1. /\ runnable \in Seq(Task)
        /\ Elements(runnable) = Elements(waiting) \cap {t \in Task : CanRun(status, t)}
    BY SelectValues
  <2>2. \A x, y : Precedes(runnable, x, y) => Precedes(waiting, x, y)
    BY SelectPrecedes
  <2>. HIDE DEF runnable
  <2>. QED  BY <2>1, <2>2
<1>3. IsFiniteSet(held) /\ Cardinality(held) \in Nat /\ MaxConcurrent \in Nat
  BY SchedulerAssumption, FS_Subset, FS_CardinalityType
<1>. HIDE DEF runnable
<1>4. n \in 0..Len(runnable) /\ n <= MaxConcurrent - Cardinality(held)
  BY <1>2, <1>3 DEF FreeSlots
<1>. HIDE DEF n
<1>5. /\ chosen = {runnable[i] : i \in 1..n}
      /\ IsFiniteSet(chosen) /\ Cardinality(chosen) <= n
  BY <1>2, <1>4, PrefixCardinality
<1>6. chosen \subseteq Elements(runnable)
  BY <1>2, <1>4, <1>5 DEF Elements
<1>7. started \in SUBSET Task /\ started \subseteq Elements(waiting) /\ started \subseteq chosen
  BY <1>2, <1>6
<1>8. Cardinality(held \cup started) <= MaxConcurrent
  <2>1. IsFiniteSet(started) /\ Cardinality(started) <= Cardinality(chosen)
    BY <1>5, FS_Subset
  <2>2. Cardinality(started) \in Nat /\ Cardinality(chosen) \in Nat
    BY <1>5, <2>1, FS_CardinalityType
  <2>. HIDE DEF started, chosen
  <2>3. /\ IsFiniteSet(held \cap started)
        /\ Cardinality(held \cup started)
             = Cardinality(held) + Cardinality(started) - Cardinality(held \cap started)
    BY <1>3, <2>1, FS_Union, FS_Intersection
  <2>4. Cardinality(held \cap started) \in Nat
    BY <2>3, FS_CardinalityType
  <2>. QED  BY <1>3, <1>4, <1>5, <2>1, <2>2, <2>3, <2>4
<1>9. /\ queue' \in Seq(Task) /\ Distinct(queue')
      /\ Elements(queue') = Elements(waiting) \cap (Task \ chosen)
      /\ \A x, y : Precedes(queue', x, y) => Precedes(waiting, x, y)
  <2>1. queue' = Select(waiting, Task \ chosen)
    BY <1>1 DEF WithoutChosen
  <2>. HIDE DEF chosen
  <2>. QED  BY <2>1, SelectValues, SelectDistinct, SelectPrecedes
<1>10. ASSUME NEW x \in started, NEW y \in Elements(queue'), CanRun(status, y)
       PROVE  Precedes(waiting, x, y)
  <2>1. y \in Elements(runnable) /\ y \notin chosen
    BY <1>2, <1>9, <1>10
  <2>2. PICK i \in 1..n : runnable[i] = x
    BY <1>5, <1>7
  <2>3. PICK j \in 1..Len(runnable) : runnable[j] = y
    BY <1>2, <2>1 DEF Elements
  <2>4. ~(j <= n)
    BY <1>4, <1>5, <2>1, <2>3
  <2>5. i < j /\ i \in DOMAIN runnable /\ j \in DOMAIN runnable
    BY <1>2, <1>4, <2>4
  <2>6. Precedes(runnable, x, y)
    BY <2>2, <2>3, <2>5 DEF Precedes
  <2>. QED  BY <1>2, <2>6
<1>. HIDE DEF started
<1>11. Starts(status, waiting, held, active, started)
  BY <1>1, <1>7, <1>8, <1>9, <1>10 DEF Starts
<1>. QED  BY <1>7, <1>11
-----------------------------------------------------------------------------
(***************************************************************************)
(* The inductive invariant.  Its parts speak of statuses, queue and slots  *)
(* as parameters: processQueue finds them halfway through a step.          *)
(***************************************************************************)
Typed(status, waiting, held, sleep, count) ==
    /\ status \in [Task -> Status] /\ waiting \in Seq(Task) /\ held \in SUBSET Task
    /\ sleep \in [Task -> Nat] /\ count \in [Task -> Nat]

\* SingleAttempt
OnePlace(status, waiting, active) ==
    /\ Distinct(waiting)
    /\ \A t \in Elements(waiting) : status[t] = "pending"
    /\ active = {t \in Task : status[t] = "running"}

\* NoSlotLeak and SlotsWithinLimit
SlotsOwned(held, active, sleep) ==
    /\ \A t \in held : t \in active \/ sleep[t] > 0
    /\ Cardinality(held) <= MaxConcurrent

\* An attempt that runs or waits has a retry left or is the first.
RetriesCounted(status, count) ==
    \A t \in Task :
        /\ status[t] = "absent" => count[t] = 0
        /\ status[t] \in {"pending", "running"} => count[t] <= Retries[t]
        /\ status[t] = "failed" => count[t] = Retries[t] + 1

\* Until an id is used again, a first attempt has no predecessor that sleeps and
\* could give its slot away.
FirstAttemptsHoldSlots(status, held, active, sleep, count, again) ==
    ~again => \A t \in Task :
        /\ status[t] = "absent" => sleep[t] = 0
        /\ status[t] \in {"pending", "running"} /\ count[t] = 0 => sleep[t] = 0
        /\ t \in active /\ count[t] = 0 => t \in held

\* Only retried tasks stand in front of more urgent ones.
QueueOrdered(waiting, count) ==
    \A x, y \in Task : Precedes(waiting, x, y) /\ count[x] = 0 => Priority[y] <= Priority[x]

Consistent(status, waiting, held, active, sleep, count, again) ==
    /\ Typed(status, waiting, held, sleep, count)
    /\ OnePlace(status, waiting, active)
    /\ SlotsOwned(held, active, sleep)
    /\ RetriesCounted(status, count)
    /\ FirstAttemptsHoldSlots(status, held, active, sleep, count, again)
    /\ QueueOrdered(waiting, count)

IInv ==
    /\ Consistent(tasks, queue, running, executing, sleeping, retryCount, cleared)
    /\ handled \in SUBSET Task /\ cleared \in BOOLEAN

\* A first attempt starts before nothing more urgent.
UrgentFirst(active) ==
    \A x \in executing' \ active, y \in Elements(queue') :
        retryCount'[x] = 0 /\ CanRun(tasks', y) => Priority[y] <= Priority[x]

\* processQueue keeps the invariant, starts nothing that was finished, and first
\* attempts in the order of their priorities.
LEMMA ProcessKeeps ==
    ASSUME NEW status, NEW waiting, NEW held, NEW active,
           Consistent(status, waiting, held, active, sleeping', retryCount', cleared'),
           ProcessQueue(status, waiting, held, active)
    PROVE  /\ Consistent(tasks', queue', running', executing', sleeping', retryCount', cleared')
           /\ \A t \in Task : status[t] \in Finished => tasks'[t] = status[t]
           /\ UrgentFirst(active)
<1>. USE DEF Consistent, Typed
<1>1. PICK S \in SUBSET Task : Starts(status, waiting, held, active, S)
  BY Processed DEF OnePlace, SlotsOwned
<1>. USE <1>1 DEF Starts
<1>2. \A t \in S : status[t] = "pending"
  BY DEF OnePlace
<1>3. Typed(tasks', queue', running', sleeping', retryCount')
  BY DEF Status
<1>4. OnePlace(tasks', queue', executing')
  <2>1. \A t \in Elements(queue') : t \in Task /\ t \notin S /\ tasks'[t] = "pending"
    <3>1. Elements(queue') \subseteq Task
      BY DEF Elements
    <3>. QED  BY <3>1 DEF OnePlace
  <2>2. executing' = {t \in Task : tasks'[t] = "running"}
    BY DEF OnePlace
  <2>. QED  BY <2>1, <2>2 DEF OnePlace
<1>5. SlotsOwned(running', executing', sleeping')
  BY DEF SlotsOwned
<1>6. RetriesCounted(tasks', retryCount')
  BY <1>2 DEF RetriesCounted
<1>7. FirstAttemptsHoldSlots(tasks', running', executing', sleeping', retryCount', cleared')
  BY <1>2 DEF FirstAttemptsHoldSlots
<1>8. QueueOrdered(queue', retryCount')
  BY DEF QueueOrdered
<1>9. \A t \in Task : status[t] \in Finished => tasks'[t] = status[t]
  BY <1>2 DEF Finished
<1>10. UrgentFirst(active)
  <2>1. SUFFICES ASSUME NEW x \in S, NEW y \in Elements(queue'), retryCount'[x] = 0,
                        CanRun(tasks', y)
                 PROVE  Priority[y] <= Priority[x]
    BY DEF UrgentFirst
  <2>2. x \in Task /\ y \in Task
    BY DEF Elements
  <2>3. CanRun(status, y)
    BY <2>1, <2>2, SchedulerAssumption DEF CanRun
  <2>. QED  BY <2>1, <2>2, <2>3 DEF QueueOrdered
<1>. QED  BY <1>3, <1>4, <1>5, <1>6, <1>7, <1>8, <1>9, <1>10
-----------------------------------------------------------------------------
(***************************************************************************)
(* The queue                                                               *)
(***************************************************************************)
LEMMA OfPriorityFacts ==
    ASSUME NEW s \in Seq(Task), Distinct(s), NEW p
    PROVE  /\ OfPriority(s, p) \in Seq(Task) /\ Distinct(OfPriority(s, p))
           /\ Elements(OfPriority(s, p)) = {t \in Elements(s) : Priority[t] = p}
<1>1. Elements(s) \subseteq Task
  BY DEF Elements
<1>. QED  BY <1>1, SelectValues, SelectDistinct DEF OfPriority

\* sortQueue keeps the tasks and puts more urgent ones first.
LEMMA SortedFacts ==
    ASSUME NEW s \in Seq(Task), Distinct(s)
    PROVE  /\ Sorted(s) \in Seq(Task) /\ Distinct(Sorted(s))
           /\ Elements(Sorted(s)) = Elements(s)
           /\ \A x, y \in Task : Precedes(Sorted(s), x, y) => Priority[y] <= Priority[x]
<1>. DEFINE P(p) == OfPriority(s, p)
            E(p) == {t \in Elements(s) : Priority[t] = p}
            ordered(q) == \A x, y : Precedes(q, x, y) => Priority[y] <= Priority[x]
<1>1. \A p : P(p) \in Seq(Task) /\ Distinct(P(p)) /\ Elements(P(p)) = E(p)
  BY OfPriorityFacts
<1>2. Elements(s) \subseteq Task /\ \A t \in Elements(s) : Priority[t] \in 0..3
  BY SchedulerAssumption DEF Elements
<1>. HIDE DEF P
<1>3. ASSUME NEW p \in 0..3  PROVE ordered(P(p))
  <2>1. \A x, y : Precedes(P(p), x, y) => x \in Elements(P(p)) /\ y \in Elements(P(p))
    BY DEF Precedes, Elements
  <2>. QED  BY <1>1, <1>2, <2>1
<1>. DEFINE a == P(3) \o P(2)
            b == a \o P(1)
            c == b \o P(0)
<1>4. /\ a \in Seq(Task) /\ Distinct(a) /\ Elements(a) = E(3) \cup E(2) /\ ordered(a)
  <2>1. a \in Seq(Task) /\ Elements(a) = E(3) \cup E(2)
    BY <1>1, ConcatElements
  <2>2. Distinct(a)
    <3>1. E(3) \cap E(2) = {}
      OBVIOUS
    <3>. QED  BY <1>1, <3>1, ConcatDistinct
  <2>3. \A x, y : Precedes(a, x, y) => \/ Precedes(P(3), x, y) \/ Precedes(P(2), x, y)
                                       \/ x \in E(3) /\ y \in E(2)
    BY <1>1, ConcatElements
  <2>4. ordered(a)
    BY <1>3, <2>3
  <2>. QED  BY <2>1, <2>2, <2>4
<1>5. /\ b \in Seq(Task) /\ Distinct(b) /\ Elements(b) = E(3) \cup E(2) \cup E(1) /\ ordered(b)
  <2>. HIDE DEF a
  <2>1. b \in Seq(Task) /\ Elements(b) = E(3) \cup E(2) \cup E(1)
    BY <1>1, <1>4, ConcatElements
  <2>2. Distinct(b)
    <3>1. (E(3) \cup E(2)) \cap E(1) = {}
      OBVIOUS
    <3>. QED  BY <1>1, <1>4, <3>1, ConcatDistinct
  <2>3. \A x, y : Precedes(b, x, y) => \/ Precedes(a, x, y) \/ Precedes(P(1), x, y)
                                       \/ x \in E(3) \cup E(2) /\ y \in E(1)
    BY <1>1, <1>4, ConcatElements
  <2>4. ordered(b)
    BY <1>3, <1>4, <2>3
  <2>. QED  BY <2>1, <2>2, <2>4
<1>6. /\ c \in Seq(Task) /\ Distinct(c) /\ Elements(c) = E(3) \cup E(2) \cup E(1) \cup E(0)
      /\ ordered(c)
  <2>. HIDE DEF b
  <2>1. c \in Seq(Task) /\ Elements(c) = E(3) \cup E(2) \cup E(1) \cup E(0)
    BY <1>1, <1>5, ConcatElements
  <2>2. Distinct(c)
    <3>1. (E(3) \cup E(2) \cup E(1)) \cap E(0) = {}
      OBVIOUS
    <3>. QED  BY <1>1, <1>5, <3>1, ConcatDistinct
  <2>3. \A x, y : Precedes(c, x, y) => \/ Precedes(b, x, y) \/ Precedes(P(0), x, y)
                                       \/ x \in E(3) \cup E(2) \cup E(1) /\ y \in E(0)
    BY <1>1, <1>5, ConcatElements
  <2>4. ordered(c)
    BY <1>3, <1>5, <2>3
  <2>. QED  BY <2>1, <2>2, <2>4
<1>7. Sorted(s) = c
  <2>1. \A q, r, t, u \in Seq(Task) : q \o r \o t \o u = ((q \o r) \o t) \o u
    OBVIOUS
  <2>. QED  BY DEF Sorted, P
<1>8. E(3) \cup E(2) \cup E(1) \cup E(0) = Elements(s)
  BY <1>2
<1>. HIDE DEF c
<1>. QED  BY <1>6, <1>7, <1>8
-----------------------------------------------------------------------------
(***************************************************************************)
(* The steps                                                               *)
(***************************************************************************)
LEMMA InitInv == Init => IInv
<1>. SUFFICES ASSUME Init  PROVE IInv
  OBVIOUS
<1>1. Elements(queue) = {} /\ Distinct(queue) /\ \A x, y : ~Precedes(queue, x, y)
  BY DEF Init, Elements, Distinct, Precedes
<1>2. Cardinality(running) <= MaxConcurrent
  BY SchedulerAssumption, FS_EmptySet DEF Init
<1>3. /\ Typed(tasks, queue, running, sleeping, retryCount)
      /\ OnePlace(tasks, queue, executing) /\ SlotsOwned(running, executing, sleeping)
      /\ RetriesCounted(tasks, retryCount) /\ QueueOrdered(queue, retryCount)
  BY <1>1, <1>2, SchedulerAssumption
  DEF Init, Typed, OnePlace, SlotsOwned, RetriesCounted, QueueOrdered, Status
<1>4. FirstAttemptsHoldSlots(tasks, running, executing, sleeping, retryCount, cleared)
  BY DEF Init, FirstAttemptsHoldSlots
<1>5. handled \in SUBSET Task /\ cleared \in BOOLEAN
  BY SchedulerAssumption DEF Init
<1>. QED  BY <1>3, <1>4, <1>5 DEF IInv, Consistent

\* A slot given back is one fewer taken.
LEMMA SlotGivenBack ==
    ASSUME NEW held \in SUBSET Task, NEW t, Cardinality(held) <= MaxConcurrent
    PROVE  Cardinality(held \ {t}) <= MaxConcurrent
<1>1. IsFiniteSet(held)
  BY SchedulerAssumption, FS_Subset
<1>2. /\ IsFiniteSet(held \ {t}) /\ Cardinality(held \ {t}) <= Cardinality(held)
      /\ Cardinality(held) \in Nat /\ Cardinality(held \ {t}) \in Nat
  BY <1>1, FS_Subset, FS_CardinalityType
<1>. QED  BY <1>2, SchedulerAssumption

LEMMA AddKeeps ==
    ASSUME IInv, NEW t \in Task, AddTask(t)
    PROVE  IInv' /\ UrgentFirst(executing) /\ \A u \in Task : tasks[u] \in Finished => tasks'[u] = tasks[u]
<1>. DEFINE status == [tasks EXCEPT ![t] = "pending"]
            waiting == Sorted(Append(queue, t))
<1>. USE DEF IInv, Consistent, Typed
<1>0. tasks[t] = "absent" /\ ProcessQueue(status, waiting, running, executing)
      /\ UNCHANGED <<sleeping, retryCount, handled, cleared>>
  BY DEF AddTask
<1>1. Append(queue, t) = queue \o <<t>> /\ t \notin Elements(queue)
  <2>1. t \notin Elements(queue)
    BY <1>0 DEF OnePlace
  <2>. QED  BY <2>1
<1>2. /\ Append(queue, t) \in Seq(Task) /\ Distinct(Append(queue, t))
      /\ Elements(Append(queue, t)) = Elements(queue) \cup {t}
  <2>1. queue \in Seq(Task) /\ Distinct(queue)
    BY DEF OnePlace
  <2>2. <<t>> \in Seq(Task) /\ Elements(<<t>>) = {t} /\ Distinct(<<t>>)
    BY SingletonSeq
  <2>3. Elements(queue) \cap Elements(<<t>>) = {}
    BY <1>1, <2>2
  <2>4. /\ queue \o <<t>> \in Seq(Task)
        /\ Elements(queue \o <<t>>) = Elements(queue) \cup Elements(<<t>>)
    BY <2>1, <2>2, ConcatElements
  <2>5. Distinct(queue \o <<t>>)
    BY <2>1, <2>2, <2>3, ConcatDistinct
  <2>. QED  BY <1>1, <2>2, <2>4, <2>5
<1>3. /\ waiting \in Seq(Task) /\ Distinct(waiting) /\ Elements(waiting) = Elements(queue) \cup {t}
      /\ \A x, y \in Task : Precedes(waiting, x, y) => Priority[y] <= Priority[x]
  BY <1>2, SortedFacts
<1>. HIDE DEF waiting
<1>4. Typed(status, waiting, running, sleeping, retryCount)
  BY <1>3 DEF Status
<1>5. OnePlace(status, waiting, executing)
  BY <1>0, <1>3 DEF OnePlace
<1>6. SlotsOwned(running, executing, sleeping)
  OBVIOUS
<1>7. RetriesCounted(status, retryCount)
  BY <1>0, SchedulerAssumption DEF RetriesCounted
<1>8. FirstAttemptsHoldSlots(status, running, executing, sleeping, retryCount, cleared)
  BY <1>0 DEF FirstAttemptsHoldSlots
<1>9. QueueOrdered(waiting, retryCount)
  BY <1>3 DEF QueueOrdered
<1>10. Consistent(status, waiting, running, executing, sleeping', retryCount', cleared')
  BY <1>0, <1>4, <1>5, <1>6, <1>7, <1>8, <1>9
<1>11. \A u \in Task : tasks[u] \in Finished => status[u] = tasks[u]
  BY <1>0 DEF Finished
<1>. HIDE DEF status
<1>12. /\ Consistent(tasks', queue', running', executing', sleeping', retryCount', cleared')
       /\ UrgentFirst(executing)
       /\ \A u \in Task : status[u] \in Finished => tasks'[u] = status[u]
  BY <1>0, <1>10, ProcessKeeps DEF Consistent
<1>. QED  BY <1>0, <1>11, <1>12

\* An attempt that ends, for good, before processQueue: the status is final.
LEMMA EndKeeps ==
    ASSUME IInv, NEW t \in Task, t \in executing, NEW final \in {"completed", "failed"},
           ProcessQueue([tasks EXCEPT ![t] = final], queue, running \ {t}, executing \ {t}),
           retryCount' \in [Task -> Nat], \A u \in Task \ {t} : retryCount'[u] = retryCount[u],
           final = "failed" => retryCount'[t] = Retries[t] + 1,
           UNCHANGED <<sleeping, handled, cleared>>
    PROVE  IInv' /\ UrgentFirst(executing \ {t})
           /\ \A u \in Task : tasks[u] \in Finished => tasks'[u] = tasks[u]
<1>. DEFINE status == [tasks EXCEPT ![t] = final]
<1>. USE DEF IInv, Consistent, Typed
<1>1. tasks[t] = "running" /\ t \notin Elements(queue)
  BY DEF OnePlace
<1>2. Typed(status, queue, running \ {t}, sleeping', retryCount')
  BY DEF Status, Finished
<1>3. OnePlace(status, queue, executing \ {t})
  <2>1. Elements(queue) \subseteq Task
    BY DEF Elements
  <2>. QED  BY <1>1, <2>1 DEF OnePlace
<1>4. SlotsOwned(running \ {t}, executing \ {t}, sleeping')
  BY SlotGivenBack DEF SlotsOwned
<1>5. RetriesCounted(status, retryCount')
  BY DEF RetriesCounted
<1>6. FirstAttemptsHoldSlots(status, running \ {t}, executing \ {t}, sleeping', retryCount', cleared')
  BY DEF FirstAttemptsHoldSlots
<1>7. QueueOrdered(queue, retryCount')
  <2>1. \A x, y : Precedes(queue, x, y) => x # t
    BY <1>1 DEF Precedes, Elements
  <2>. QED  BY <2>1 DEF QueueOrdered
<1>8. \A u \in Task : tasks[u] \in Finished => status[u] = tasks[u]
  BY <1>1 DEF Finished
<1>9. Consistent(status, queue, running \ {t}, executing \ {t}, sleeping', retryCount', cleared')
  BY <1>2, <1>3, <1>4, <1>5, <1>6, <1>7
<1>10. ProcessQueue(status, queue, running \ {t}, executing \ {t})
  OBVIOUS
<1>. HIDE DEF status
<1>11. /\ Consistent(tasks', queue', running', executing', sleeping', retryCount', cleared')
       /\ UrgentFirst(executing \ {t})
       /\ \A u \in Task : status[u] \in Finished => tasks'[u] = status[u]
  BY <1>9, <1>10, ProcessKeeps DEF Consistent
<1>. QED  BY <1>8, <1>11

\* A failed attempt that goes to sleep; its task is first in the queue again.
LEMMA RetryKeeps ==
    ASSUME IInv, NEW t \in Task, FailAndRetry(t)
    PROVE  IInv' /\ \A u \in Task : tasks[u] \in Finished => tasks'[u] = tasks[u]
<1>. USE DEF IInv, Consistent, Typed
<1>1. /\ t \in executing /\ retryCount[t] + 1 <= Retries[t]
      /\ retryCount' = [retryCount EXCEPT ![t] = @ + 1]
      /\ tasks' = [tasks EXCEPT ![t] = "pending"] /\ queue' = <<t>> \o queue
      /\ executing' = executing \ {t} /\ sleeping' = [sleeping EXCEPT ![t] = @ + 1]
      /\ UNCHANGED <<running, handled, cleared>>
  BY DEF FailAndRetry
<1>2. tasks[t] = "running" /\ t \notin Elements(queue) /\ Elements(queue) \subseteq Task
  <2>1. OnePlace(tasks, queue, executing) /\ t \in executing
    BY <1>1
  <2>2. tasks[t] = "running" /\ \A u \in Elements(queue) : tasks[u] = "pending"
    BY <2>1, Zenon DEF OnePlace
  <2>3. "running" # "pending"
    OBVIOUS
  <2>4. Elements(queue) \subseteq Task
    <3>1. queue \in Seq(Task)
      OBVIOUS
    <3>. QED  BY <3>1 DEF Elements
  <2>. QED  BY <2>2, <2>3, <2>4, Zenon
<1>3. /\ queue' \in Seq(Task) /\ Distinct(queue') /\ Elements(queue') = {t} \cup Elements(queue)
      /\ \A x, y : Precedes(queue', x, y) => Precedes(queue, x, y) \/ x = t
  <2>1. queue \in Seq(Task) /\ Distinct(queue)
    BY DEF OnePlace
  <2>2. /\ <<t>> \in Seq(Task) /\ Elements(<<t>>) = {t} /\ Distinct(<<t>>)
        /\ \A y, z : ~Precedes(<<t>>, y, z)
    BY SingletonSeq
  <2>3. /\ <<t>> \o queue \in Seq(Task)
        /\ Elements(<<t>> \o queue) = Elements(<<t>>) \cup Elements(queue)
        /\ \A x, y : Precedes(<<t>> \o queue, x, y) =>
             \/ Precedes(<<t>>, x, y) \/ Precedes(queue, x, y)
             \/ x \in Elements(<<t>>) /\ y \in Elements(queue)
    BY <2>1, <2>2, ConcatElements
  <2>4. Distinct(<<t>> \o queue)
    BY <1>2, <2>1, <2>2, ConcatDistinct
  <2>. QED  BY <1>1, <2>2, <2>3, <2>4
<1>4. Typed(tasks', queue', running', sleeping', retryCount')
  BY <1>1, <1>3 DEF Status
<1>5. OnePlace(tasks', queue', executing')
  BY <1>1, <1>2, <1>3 DEF OnePlace
<1>6. SlotsOwned(running', executing', sleeping')
  BY <1>1 DEF SlotsOwned
<1>7. RetriesCounted(tasks', retryCount')
  BY <1>1 DEF RetriesCounted
<1>8. FirstAttemptsHoldSlots(tasks', running', executing', sleeping', retryCount', cleared')
  BY <1>1, <1>2 DEF FirstAttemptsHoldSlots
<1>9. QueueOrdered(queue', retryCount')
  <2>1. \A x, y : Precedes(queue, x, y) => x # t
    BY <1>2 DEF Precedes, Elements
  <2>2. retryCount'[t] # 0 /\ \A x \in Task \ {t} : retryCount'[x] = retryCount[x]
    BY <1>1
  <2>3. ASSUME NEW x \in Task, NEW y \in Task, Precedes(queue', x, y), retryCount'[x] = 0
        PROVE  Priority[y] <= Priority[x]
    <3>1. x # t /\ Precedes(queue, x, y) /\ retryCount[x] = 0
      BY <1>3, <2>2, <2>3
    <3>. QED  BY <3>1 DEF QueueOrdered
  <2>. QED  BY <2>3 DEF QueueOrdered
<1>10. \A u \in Task : tasks[u] \in Finished => tasks'[u] = tasks[u]
  BY <1>1, <1>2 DEF Finished
<1>. QED  BY <1>1, <1>4, <1>5, <1>6, <1>7, <1>8, <1>9, <1>10

LEMMA WakeKeeps ==
    ASSUME IInv, NEW t \in Task, Wake(t)
    PROVE  IInv' /\ UrgentFirst(executing) /\ \A u \in Task : tasks[u] \in Finished => tasks'[u] = tasks[u]
<1>. USE DEF IInv, Consistent, Typed
<1>1. /\ sleeping[t] > 0 /\ sleeping' = [sleeping EXCEPT ![t] = @ - 1]
      /\ ProcessQueue(tasks, queue, running \ {t}, executing)
      /\ UNCHANGED <<retryCount, handled, cleared>>
  BY DEF Wake
<1>2. sleeping' \in [Task -> Nat]
  BY <1>1
<1>3. SlotsOwned(running \ {t}, executing, sleeping')
  BY <1>1, SlotGivenBack DEF SlotsOwned
<1>4. FirstAttemptsHoldSlots(tasks, running \ {t}, executing, sleeping', retryCount', cleared')
  <2>1. t \in executing => tasks[t] = "running"
    BY DEF OnePlace
  <2>. QED  BY <1>1, <2>1 DEF FirstAttemptsHoldSlots
<1>5. Consistent(tasks, queue, running \ {t}, executing, sleeping', retryCount', cleared')
  BY <1>1, <1>2, <1>3, <1>4
<1>6. /\ Consistent(tasks', queue', running', executing', sleeping', retryCount', cleared')
      /\ UrgentFirst(executing)
      /\ \A u \in Task : tasks[u] \in Finished => tasks'[u] = tasks[u]
  BY <1>1, <1>5, ProcessKeeps DEF Consistent
<1>. QED  BY <1>1, <1>6

LEMMA CancelKeeps ==
    ASSUME IInv, NEW t \in Task, CancelTask(t)
    PROVE  IInv' /\ \A u \in Task : tasks[u] \in Finished => tasks'[u] \in Finished
<1>. USE DEF IInv, Consistent, Typed
<1>1. /\ tasks[t] \notin {"absent", "running"} /\ tasks' = [tasks EXCEPT ![t] = "cancelled"]
      /\ queue' = Select(queue, Task \ {t})
      /\ UNCHANGED <<running, executing, sleeping, retryCount, handled, cleared>>
  BY DEF CancelTask
<1>2. /\ queue' \in Seq(Task) /\ Distinct(queue') /\ Elements(queue') = Elements(queue) \ {t}
      /\ \A x, y : Precedes(queue', x, y) => Precedes(queue, x, y)
  <2>1. Elements(queue) \subseteq Task /\ Distinct(queue) /\ queue \in Seq(Task)
    BY DEF Elements, OnePlace
  <2>2. queue' \in Seq(Task) /\ Elements(queue') = Elements(queue) \cap (Task \ {t})
    BY <1>1, <2>1, SelectValues
  <2>3. Distinct(queue')
    BY <1>1, <2>1, SelectDistinct
  <2>4. \A x, y : Precedes(queue', x, y) => Precedes(queue, x, y)
    BY <1>1, <2>1, SelectPrecedes
  <2>. QED  BY <2>1, <2>2, <2>3, <2>4
<1>3. Typed(tasks', queue', running', sleeping', retryCount')
  BY <1>1, <1>2 DEF Status, Finished
<1>4. OnePlace(tasks', queue', executing')
  <2>1. Elements(queue) \subseteq Task
    BY DEF Elements
  <2>. QED  BY <1>1, <1>2, <2>1 DEF OnePlace
<1>5. SlotsOwned(running', executing', sleeping') /\ RetriesCounted(tasks', retryCount')
  BY <1>1 DEF SlotsOwned, RetriesCounted
<1>6. FirstAttemptsHoldSlots(tasks', running', executing', sleeping', retryCount', cleared')
  BY <1>1 DEF FirstAttemptsHoldSlots
<1>7. QueueOrdered(queue', retryCount')
  BY <1>1, <1>2 DEF QueueOrdered
<1>8. \A u \in Task : tasks[u] \in Finished => tasks'[u] \in Finished
  BY <1>1 DEF Finished
<1>. QED  BY <1>1, <1>3, <1>4, <1>5, <1>6, <1>7, <1>8

LEMMA ClearKeeps ==
    ASSUME IInv, ClearCompletedTasks
    PROVE  IInv'
<1>. USE DEF IInv, Consistent, Typed
<1>1. /\ cleared' = TRUE
      /\ tasks' = [t \in Task |-> IF tasks[t] \in Finished THEN "absent" ELSE tasks[t]]
      /\ retryCount' = [t \in Task |-> IF tasks[t] \in Finished THEN 0 ELSE retryCount[t]]
      /\ UNCHANGED <<queue, running, executing, sleeping, handled>>
  BY DEF ClearCompletedTasks
<1>2. Typed(tasks', queue', running', sleeping', retryCount')
  BY <1>1 DEF Status
<1>3. Elements(queue) \subseteq Task
  BY DEF Elements
<1>4. OnePlace(tasks', queue', executing') /\ SlotsOwned(running', executing', sleeping')
  BY <1>1, <1>3 DEF OnePlace, SlotsOwned, Finished
<1>5. RetriesCounted(tasks', retryCount')
  BY <1>1 DEF RetriesCounted, Finished
<1>6. cleared' \in BOOLEAN /\ cleared'
  BY <1>1
<1>7. FirstAttemptsHoldSlots(tasks', running', executing', sleeping', retryCount', cleared')
  BY <1>6 DEF FirstAttemptsHoldSlots
<1>8. QueueOrdered(queue', retryCount')
  <2>1. \A x, y : Precedes(queue, x, y) => x \in Elements(queue)
    BY DEF Precedes, Elements
  <2>2. \A x, y : Precedes(queue, x, y) => tasks[x] = "pending"
    BY <2>1 DEF OnePlace
  <2>. QED  BY <1>1, <2>2 DEF QueueOrdered, Finished
<1>. QED  BY <1>1, <1>2, <1>4, <1>5, <1>6, <1>7, <1>8

\* What the two action properties say of a step.
FinishedStep == \A t \in Task : tasks[t] \in Finished => tasks'[t] \in Finished \cup {"absent"}

PriorityStep ==
    \A t, u \in Task :
        (/\ t \in executing' \ executing /\ retryCount[t] = 0
         /\ u \in Elements(queue) /\ u \in Elements(queue')
         /\ CanRun(tasks, u) /\ CanRun(tasks', u))
            => Priority[u] <= Priority[t]

\* One step, of any kind.
LEMMA StepKeeps ==
    ASSUME IInv, [Next]_vars
    PROVE  IInv' /\ FinishedStep /\ PriorityStep
<1>. USE DEF FinishedStep, PriorityStep
<1>0. /\ tasks \in [Task -> Status] /\ retryCount \in [Task -> Nat]
      /\ \A t \in Task : t \in executing => tasks[t] = "running" /\ retryCount[t] <= Retries[t]
  <2>1. \A t \in Task : t \in executing => tasks[t] = "running"
    BY DEF IInv, Consistent, OnePlace
  <2>. QED  BY <2>1 DEF IInv, Consistent, Typed, RetriesCounted
<1>1. ASSUME NEW t \in Task, RegisterHandler(t)
      PROVE  IInv' /\ FinishedStep /\ PriorityStep
  BY <1>1 DEF RegisterHandler, IInv, Consistent, Typed, OnePlace, SlotsOwned, RetriesCounted,
              FirstAttemptsHoldSlots, QueueOrdered
<1>2. ASSUME NEW t \in Task, AddTask(t)
      PROVE  IInv' /\ FinishedStep /\ PriorityStep
  <2>1. IInv' /\ UrgentFirst(executing) /\ FinishedStep
    BY <1>2, AddKeeps
  <2>2. retryCount' = retryCount
    BY <1>2 DEF AddTask
  <2>. QED  BY <2>1, <2>2 DEF UrgentFirst
<1>3. ASSUME NEW t \in Task, CancelTask(t)
      PROVE  IInv' /\ FinishedStep /\ PriorityStep
  <2>1. IInv' /\ FinishedStep
    BY <1>3, CancelKeeps
  <2>2. executing' = executing
    BY <1>3 DEF CancelTask
  <2>. QED  BY <2>1, <2>2
<1>4. ASSUME NEW t \in Task, Complete(t)
      PROVE  IInv' /\ FinishedStep /\ PriorityStep
  <2>1. /\ t \in executing /\ retryCount' = [retryCount EXCEPT ![t] = 0]
        /\ ProcessQueue([tasks EXCEPT ![t] = "completed"], queue, running \ {t}, executing \ {t})
        /\ UNCHANGED <<sleeping, handled, cleared>>
    BY <1>4 DEF Complete
  <2>2. retryCount' \in [Task -> Nat] /\ \A u \in Task \ {t} : retryCount'[u] = retryCount[u]
    BY <1>0, <2>1
  <2>3. IInv' /\ UrgentFirst(executing \ {t}) /\ FinishedStep
    BY <2>1, <2>2, EndKeeps
  <2>. QED  BY <2>1, <2>2, <2>3 DEF UrgentFirst
<1>5. ASSUME NEW t \in Task, Fail(t)
      PROVE  IInv' /\ FinishedStep /\ PriorityStep
  <2>1. /\ t \in executing /\ retryCount[t] + 1 > Retries[t]
        /\ retryCount' = [retryCount EXCEPT ![t] = @ + 1]
        /\ ProcessQueue([tasks EXCEPT ![t] = "failed"], queue, running \ {t}, executing \ {t})
        /\ UNCHANGED <<sleeping, handled, cleared>>
    BY <1>5 DEF Fail
  <2>2. /\ retryCount' \in [Task -> Nat] /\ \A u \in Task \ {t} : retryCount'[u] = retryCount[u]
        /\ retryCount'[t] = Retries[t] + 1
    <3>1. retryCount[t] \in Nat /\ Retries[t] \in Nat /\ retryCount[t] <= Retries[t]
      BY <1>0, <2>1, SchedulerAssumption
    <3>2. retryCount[t] + 1 = Retries[t] + 1
      BY <2>1, <3>1
    <3>. QED  BY <1>0, <2>1, <3>1, <3>2
  <2>3. IInv' /\ UrgentFirst(executing \ {t}) /\ FinishedStep
    BY <2>1, <2>2, EndKeeps
  <2>. QED  BY <2>1, <2>2, <2>3 DEF UrgentFirst
<1>6. ASSUME NEW t \in Task, FailAndRetry(t)
      PROVE  IInv' /\ FinishedStep /\ PriorityStep
  <2>1. IInv' /\ FinishedStep
    BY <1>6, RetryKeeps
  <2>2. executing' = executing \ {t}
    BY <1>6 DEF FailAndRetry
  <2>. QED  BY <2>1, <2>2
<1>7. ASSUME NEW t \in Task, Wake(t)
      PROVE  IInv' /\ FinishedStep /\ PriorityStep
  <2>1. IInv' /\ UrgentFirst(executing) /\ FinishedStep
    BY <1>7, WakeKeeps
  <2>2. retryCount' = retryCount
    BY <1>7 DEF Wake
  <2>. QED  BY <2>1, <2>2 DEF UrgentFirst
<1>8. CASE ClearCompletedTasks
  <2>1. IInv'
    BY <1>8, ClearKeeps
  <2>2. executing' = executing /\ FinishedStep
    BY <1>8 DEF ClearCompletedTasks
  <2>. QED  BY <2>1, <2>2
<1>9. CASE UNCHANGED vars
  BY <1>9 DEF vars, IInv, Consistent, Typed, OnePlace, SlotsOwned, RetriesCounted,
              FirstAttemptsHoldSlots, QueueOrdered
<1>. QED  BY <1>1, <1>2, <1>3, <1>4, <1>5, <1>6, <1>7, <1>8, <1>9 DEF Next
-----------------------------------------------------------------------------
(***************************************************************************)
(* The theorems                                                            *)
(***************************************************************************)
LEMMA Inductive == Spec => []IInv
<1>1. IInv /\ [Next]_vars => IInv'
  BY StepKeeps
<1>. QED  BY <1>1, InitInv, PTL DEF Spec

\* Every reachable state of the scheduler is well typed.
THEOREM SchedulerTypeCorrect == Spec => []TypeOK
<1>1. IInv => TypeOK
  BY DEF IInv, Consistent, Typed, OnePlace, TypeOK
<1>. QED  BY <1>1, Inductive, PTL

\* A task is queued once or executed once, and its status says which.
THEOREM SingleAttemptCorrect == Spec => []SingleAttempt
<1>1. IInv => SingleAttempt
  BY DEF IInv, Consistent, OnePlace, Distinct, SingleAttempt
<1>. QED  BY <1>1, Inductive, PTL

\* Every slot taken belongs to an attempt that runs or awaits its retry.
THEOREM NoSlotLeakCorrect == Spec => []NoSlotLeak
<1>1. IInv => NoSlotLeak
  BY DEF IInv, Consistent, SlotsOwned, NoSlotLeak
<1>. QED  BY <1>1, Inductive, PTL

\* maxConcurrent bounds the slots taken.
THEOREM SlotsCorrect == Spec => []SlotsWithinLimit
<1>1. IInv => SlotsWithinLimit
  BY DEF IInv, Consistent, SlotsOwned, SlotsWithinLimit
<1>. QED  BY <1>1, Inductive, PTL

\* No task fails before it has used its retries.
THEOREM RetriesCorrect == Spec => []FailureExhaustsRetries
<1>1. IInv => FailureExhaustsRetries
  BY DEF IInv, Consistent, RetriesCounted, FailureExhaustsRetries
<1>. QED  BY <1>1, Inductive, PTL

\* First attempts stay within maxConcurrent while no id is used twice.
THEOREM OverrunCorrect == Spec => []OverrunOnlyByRetries
<1>1. ASSUME IInv  PROVE OverrunOnlyByRetries
  <2>. SUFFICES ASSUME ~cleared
                PROVE  Cardinality({t \in executing : retryCount[t] = 0}) <= MaxConcurrent
    BY DEF OverrunOnlyByRetries
  <2>. DEFINE first == {t \in executing : retryCount[t] = 0}
  <2>1. first \subseteq running /\ running \subseteq Task /\ Cardinality(running) <= MaxConcurrent
    BY <1>1 DEF IInv, Consistent, Typed, OnePlace, FirstAttemptsHoldSlots, SlotsOwned
  <2>. HIDE DEF first
  <2>2. IsFiniteSet(running) /\ IsFiniteSet(first) /\ Cardinality(first) <= Cardinality(running)
    BY <2>1, SchedulerAssumption, FS_Subset
  <2>3. Cardinality(first) \in Nat /\ Cardinality(running) \in Nat /\ MaxConcurrent \in Nat
    BY <2>2, SchedulerAssumption, FS_CardinalityType
  <2>. QED  BY <2>1, <2>2, <2>3 DEF first
<1>. QED  BY <1>1, Inductive, PTL

\* A finished task stays finished until it is cleared.
THEOREM FinishedCorrect == Spec => FinishedStaysFinished
<1>1. IInv /\ [Next]_vars => [FinishedStep]_vars
  BY StepKeeps
<1>. QED  BY <1>1, Inductive, PTL DEF Spec, FinishedStaysFinished, FinishedStep

\* A first attempt overtakes no runnable task of a higher priority.
THEOREM PriorityCorrect == Spec => PriorityRespected
<1>1. IInv /\ [Next]_vars => [PriorityStep]_vars
  BY StepKeeps
<1>. QED  BY <1>1, Inductive, PTL DEF Spec, PriorityRespected, PriorityStep
=============================================================================
