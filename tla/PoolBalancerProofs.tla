------------------------- MODULE PoolBalancerProofs -------------------------
(***************************************************************************)
(* LoadNeverUnderestimated and BalancerTypeOK for any pools, tasks,        *)
(* retries, limits and deaths of threads.                                  *)
(*                                                                         *)
(* Known: the balancer has counted the workers that are marked busy.  That *)
(* no thread executes more than that takes one of two invariants of a      *)
(* pool: Matched, as long as no thread has died, or Once, as long as no id *)
(* is used twice.  Each handler is a lemma about the record of one pool.   *)
(***************************************************************************)
EXTENDS PoolBalancer, DataLemmas

-----------------------------------------------------------------------------
(***************************************************************************)
(* Sequences and sums                                                      *)
(***************************************************************************)
\* What is left without one element, and how often each element is left.
LEMMA RemovedAt ==
    ASSUME NEW S, NEW s \in Seq(S), NEW i \in DOMAIN s
    PROVE  /\ RemoveAt(s, i) \in Seq(S) /\ Len(RemoveAt(s, i)) = Len(s) - 1
           /\ \A k \in 1..(Len(s) - 1) :
                RemoveAt(s, i)[k] = s[IF k < i THEN k ELSE k + 1]
           /\ \A x : Occurrences(s, x)
                = Occurrences(RemoveAt(s, i), x) + (IF s[i] = x THEN 1 ELSE 0)
<1>. DEFINE n == Len(s)
            a == SubSeq(s, 1, i - 1)
            b == SubSeq(s, i + 1, n)
            m == <<s[i]>>
<1>1. n \in Nat /\ i \in 1..n /\ DOMAIN s = 1..n /\ s[i] \in S
  OBVIOUS
<1>2. /\ a \in Seq(S) /\ Len(a) = i - 1 /\ \A k \in 1..(i - 1) : a[k] = s[k]
      /\ b \in Seq(S) /\ Len(b) = n - i /\ \A k \in 1..(n - i) : b[k] = s[i + k]
  BY <1>1
<1>3. m \in Seq(S) /\ Len(m) = 1 /\ m[1] = s[i]
  BY <1>1
<1>. HIDE DEF n, a, b, m
<1>4. /\ a \o b \in Seq(S) /\ Len(a \o b) = n - 1
      /\ \A k \in 1..(n - 1) : (a \o b)[k] = s[IF k < i THEN k ELSE k + 1]
  <2>1. /\ a \o b \in Seq(S) /\ Len(a \o b) = Len(a) + Len(b)
        /\ \A k \in 1..(Len(a) + Len(b)) : (a \o b)[k] = IF k <= Len(a) THEN a[k] ELSE b[k - Len(a)]
    BY <1>2, ConcatProperties
  <2>2. ASSUME NEW k \in 1..(n - 1)  PROVE (a \o b)[k] = s[IF k < i THEN k ELSE k + 1]
    <3>1. CASE k < i
      <4>1. k \in 1..(i - 1) /\ k \in 1..(Len(a) + Len(b)) /\ k <= Len(a)
        BY <1>1, <1>2, <3>1
      <4>. QED  BY <1>2, <2>1, <3>1, <4>1
    <3>2. CASE ~(k < i)
      <4>1. k - Len(a) \in 1..(n - i) /\ k \in 1..(Len(a) + Len(b)) /\ ~(k <= Len(a))
            /\ i + (k - Len(a)) = k + 1
        BY <1>1, <1>2, <3>2
      <4>2. (a \o b)[k] = b[k - Len(a)] /\ b[k - Len(a)] = s[i + (k - Len(a))]
        BY <1>2, <2>1, <4>1
      <4>. QED  BY <3>2, <4>1, <4>2
    <3>. QED  BY <3>1, <3>2
  <2>. QED  BY <1>1, <1>2, <2>1, <2>2
<1>5. s = (a \o m) \o b
  <2>1. /\ a \o m \in Seq(S) /\ Len(a \o m) = i
        /\ \A k \in 1..i : (a \o m)[k] = IF k <= i - 1 THEN a[k] ELSE m[k - (i - 1)]
    <3>1. /\ a \o m \in Seq(S) /\ Len(a \o m) = Len(a) + Len(m)
          /\ \A k \in 1..(Len(a) + Len(m)) : (a \o m)[k] = IF k <= Len(a) THEN a[k] ELSE m[k - Len(a)]
      BY <1>2, <1>3, ConcatProperties
    <3>2. Len(a) + Len(m) = i
      BY <1>1, <1>2, <1>3
    <3>. QED  BY <1>2, <3>1, <3>2
  <2>2. \A k \in 1..i : (a \o m)[k] = s[k]
    <3>1. ASSUME NEW k \in 1..i  PROVE (a \o m)[k] = s[k]
      <4>1. CASE k <= i - 1
        BY <1>1, <1>2, <2>1, <4>1
      <4>2. CASE k = i
        <5>1. ~(i <= i - 1) /\ i - (i - 1) = 1 /\ i \in 1..i
          BY <1>1
        <5>2. (a \o m)[i] = m[i - (i - 1)]
          BY <2>1, <5>1
        <5>. QED  BY <1>3, <4>2, <5>1, <5>2
      <4>3. k <= i - 1 \/ k = i
        BY <1>1
      <4>. QED  BY <4>1, <4>2, <4>3
    <3>. QED  BY <3>1
  <2>3. /\ (a \o m) \o b \in Seq(S) /\ Len((a \o m) \o b) = n
        /\ \A k \in 1..n : ((a \o m) \o b)[k] = IF k <= i THEN (a \o m)[k] ELSE b[k - i]
    <3>1. /\ (a \o m) \o b \in Seq(S) /\ Len((a \o m) \o b) = Len(a \o m) + Len(b)
          /\ \A k \in 1..(Len(a \o m) + Len(b)) :
               ((a \o m) \o b)[k] = IF k <= Len(a \o m) THEN (a \o m)[k] ELSE b[k - Len(a \o m)]
      BY <1>2, <2>1, ConcatProperties
    <3>2. Len(a \o m) + Len(b) = n
      BY <1>1, <1>2, <2>1
    <3>. QED  BY <2>1, <3>1, <3>2
  <2>4. \A k \in 1..n : ((a \o m) \o b)[k] = s[k]
    <3>1. ASSUME NEW k \in 1..n, ~(k <= i)  PROVE b[k - i] = s[k]
      <4>1. k - i \in 1..(n - i) /\ i + (k - i) = k
        BY <1>1, <3>1
      <4>. QED  BY <1>2, <4>1
    <3>2. \A k \in 1..n : k <= i => k \in 1..i
      BY <1>1
    <3>. QED  BY <2>2, <2>3, <3>1, <3>2
  <2>5. Len(s) = n
    BY DEF n
  <2>. QED  BY <2>3, <2>4, <2>5, SeqEqual
<1>6. \A x : Occurrences(s, x) = Occurrences(a \o b, x) + (IF s[i] = x THEN 1 ELSE 0)
  <2>1. a \o m \in Seq(S)
    BY <1>2, <1>3, ConcatProperties
  <2>2. ASSUME NEW x  PROVE Occurrences(s, x) = Occurrences(a \o b, x) + (IF s[i] = x THEN 1 ELSE 0)
    <3>1. Occurrences(s, x) = Occurrences(a \o m, x) + Occurrences(b, x)
      <4>. DEFINE am == a \o m
      <4>1. am \in Seq(S) /\ s = am \o b
        BY <1>5, <2>1
      <4>. HIDE DEF am
      <4>2. Occurrences(am \o b, x) = Occurrences(am, x) + Occurrences(b, x)
        BY <1>2, <4>1, ConcatOccurrences
      <4>3. Occurrences(s, x) = Occurrences(am, x) + Occurrences(b, x)
        BY <4>1, <4>2
      <4>. QED  BY <4>3 DEF am
    <3>2. Occurrences(a \o m, x) = Occurrences(a, x) + Occurrences(m, x)
      BY <1>2, <1>3, ConcatOccurrences
    <3>3. Occurrences(a \o b, x) = Occurrences(a, x) + Occurrences(b, x)
      BY <1>2, ConcatOccurrences
    <3>4. Occurrences(m, x) = IF s[i] = x THEN 1 ELSE 0
      BY SingletonOccurrences DEF m
    <3>5. Occurrences(a, x) \in Nat /\ Occurrences(b, x) \in Nat /\ Occurrences(m, x) \in Nat
      BY <1>2, <1>3, OccurrencesType
    <3>. QED  BY <3>1, <3>2, <3>3, <3>4, <3>5
  <2>. QED  BY <2>2
<1>7. RemoveAt(s, i) = a \o b /\ n = Len(s)
  BY DEF RemoveAt, a, b, n
<1>. QED  BY <1>4, <1>6, <1>7

\* A sum of which one number changes.
LEMMA TotalChanged ==
    ASSUME NEW S, IsFiniteSet(S), NEW k \in S, NEW f, NEW g,
           \A l \in S : f[l] \in Nat /\ g[l] \in Nat,
           \A l \in S \ {k} : f[l] = g[l]
    PROVE  Total(g, S) = Total(f, S) - f[k] + g[k]
<1>1. PICK K : K = {k}
  OBVIOUS
<1>2. K \in SUBSET S /\ S \in SUBSET S /\ S \ K \in SUBSET S
  BY <1>1
<1>3. Total(f, S \ K) = Total(f, S) - Total(f, K) /\ Total(g, S \ K) = Total(g, S) - Total(g, K)
  BY <1>2, TotalOfRest
<1>4. Total(f, S \ K) = Total(g, S \ K)
  BY <1>1, TotalSame
<1>5. Total(f, K) = f[k] /\ Total(g, K) = g[k]
  BY <1>1, TotalOfOne
<1>6. Total(f, S) \in Nat /\ Total(g, S) \in Nat
  BY <1>2, TotalType
<1>. QED  BY <1>3, <1>4, <1>5, <1>6

\* The part of A that c maps to k is no larger than the part of B that d maps to k.
SmallerParts(A, B, K, c, d) ==
    \A k \in K : Cardinality({a \in A : c[a] = k}) <= Cardinality({b \in B : d[b] = k})

\* A set is no larger than another when none of its parts is.
LEMMA NoLargerByParts ==
    ASSUME NEW A, NEW B, IsFiniteSet(A), IsFiniteSet(B), NEW K,
           NEW c \in [A -> K], NEW d, SmallerParts(A, B, K, c, d)
    PROVE  Cardinality(A) <= Cardinality(B)
<1>. DEFINE P(k) == {a \in A : c[a] = k}
            Q(k) == {b \in B : d[b] = k}
<1>1. ASSUME NEW k \in K  PROVE \E g : g \in Injection(P(k), Q(k))
  <2>1. P(k) \in SUBSET A /\ Q(k) \in SUBSET B
    OBVIOUS
  <2>2. IsFiniteSet(P(k)) /\ IsFiniteSet(Q(k)) /\ Cardinality(P(k)) <= Cardinality(Q(k))
    <3>1. IsFiniteSet(P(k)) /\ IsFiniteSet(Q(k))
      BY <2>1, FS_Subset
    <3>. QED  BY <3>1 DEF SmallerParts
  <2>. HIDE DEF P, Q
  <2>3. /\ Cardinality(P(k)) \in Nat /\ ExistsBijection(1..Cardinality(P(k)), P(k))
        /\ Cardinality(Q(k)) \in Nat /\ ExistsBijection(1..Cardinality(Q(k)), Q(k))
    BY <2>2, FS_CardinalityType
  <2>4. PICK p \in Bijection(1..Cardinality(P(k)), P(k)), q \in Bijection(1..Cardinality(Q(k)), Q(k)) : TRUE
    BY <2>3 DEF ExistsBijection
  <2>. DEFINE m == Cardinality(P(k))
              n == Cardinality(Q(k))
              inv == [a \in P(k) |-> CHOOSE i \in 1..m : p[i] = a]
              g == [a \in P(k) |-> q[inv[a]]]
  <2>5. \A a \in P(k) : inv[a] \in 1..m /\ p[inv[a]] = a
    BY <2>4 DEF Bijection, Surjection
  <2>6. \A i \in 1..m : i \in 1..n
    BY <2>2, <2>3
  <2>7. \A i, j \in 1..n : q[i] \in Q(k) /\ (q[i] = q[j] => i = j)
    BY <2>4 DEF Bijection, Injection, IsInjective
  <2>. HIDE DEF m, n, inv
  <2>8. g \in [P(k) -> Q(k)]
    BY <2>5, <2>6, <2>7
  <2>9. \A a, b \in P(k) : g[a] = g[b] => a = b
    BY <2>5, <2>6, <2>7
  <2>. QED  BY <2>8, <2>9 DEF Injection, IsInjective
<1>. DEFINE part == [k \in K |-> CHOOSE g : g \in Injection(P(k), Q(k))]
            h == [a \in A |-> part[c[a]][a]]
<1>2. \A k \in K : part[k] \in Injection(P(k), Q(k))
  BY <1>1
<1>. HIDE DEF part
<1>3. \A a \in A : c[a] \in K /\ h[a] \in B /\ d[h[a]] = c[a]
  <2>1. ASSUME NEW a \in A  PROVE c[a] \in K /\ part[c[a]][a] \in Q(c[a])
    <3>1. c[a] \in K /\ a \in P(c[a])
      OBVIOUS
    <3>. QED  BY <1>2, <3>1 DEF Injection
  <2>. QED  BY <2>1
<1>4. ASSUME NEW a \in A, NEW b \in A, h[a] = h[b]  PROVE a = b
  <2>1. c[a] = c[b]
    BY <1>3, <1>4
  <2>2. part[c[a]] \in Injection(P(c[a]), Q(c[a])) /\ a \in P(c[a]) /\ b \in P(c[a])
    BY <1>2, <1>3, <2>1
  <2>3. part[c[a]][a] = part[c[a]][b]
    BY <1>4, <2>1
  <2>. QED  BY <2>2, <2>3 DEF Injection, IsInjective
<1>5. h \in Injection(A, B)
  BY <1>3, <1>4 DEF Injection, IsInjective
<1>. QED  BY <1>5, FS_Injection
-----------------------------------------------------------------------------
(***************************************************************************)
(* What is known of a pool.  W is its array of workers.                    *)
(***************************************************************************)
Marked(W, t) == {i \in DOMAIN W : W[i].taskId = t}

\* How many answers of t each worker still owes.
Owed(W, t) == [i \in DOMAIN W |-> Occurrences(W[i].unanswered, t)]

\* No thread died, and none is about to: each task that is executed is marked once.
Matched(W) ==
    /\ \A i \in DOMAIN W : ~W[i].ending
    /\ \A t \in BalancedTask : Total(Owed(W, t), DOMAIN W) = Cardinality(Marked(W, t))

\* No id is used twice: a worker executes just the task it is marked for.
Alone(W) ==
    /\ \A i \in DOMAIN W :
         W[i].unanswered = IF W[i].taskId = NoTaskId THEN <<>> ELSE <<W[i].taskId>>
    /\ \A i, j \in DOMAIN W : W[i].taskId = W[j].taskId /\ W[i].taskId # NoTaskId => i = j

Waits(q, c, t) == c[t] + Occurrences(q.tasks, t)

Begun(q, t) == q.timeouts[t] > 0 \/ Marked(q.workers, t) # {}

\* c counts the submissions that are on their way to q, s those made: a task that
\* was begun waits nowhere, so no error finds it queued and it is not retried.
Once(q, c, s) ==
    /\ Alone(q.workers)
    /\ \A t \in BalancedTask :
         /\ q.retryTimers[t] = 0 /\ Waits(q, c, t) <= s[t]
         /\ Begun(q, t) => Waits(q, c, t) = 0 /\ s[t] # 0

UsedOnce(s) == \A t \in BalancedTask : s[t] <= 1

Sound(q, c, s, d) ==
    /\ q \in BalancedPoolState
    /\ d = 0 /\ q.stage = "open" => Matched(q.workers)
    /\ UsedOnce(s) => Once(q, c, s)

LEMMA StateFields ==
    ASSUME NEW q \in BalancedPoolState
    PROVE  /\ q.workers \in Seq(WorkerState) /\ q.tasks \in Seq(BalancedTask)
           /\ q.timeouts \in [BalancedTask -> Nat] /\ q.retryTimers \in [BalancedTask -> Nat]
           /\ q.retries \in [BalancedTask -> Nat]
           /\ q.leaked \in Nat /\ q.stage \in {"open", "closing", "closed"}
           /\ q = [workers |-> q.workers, tasks |-> q.tasks, timeouts |-> q.timeouts,
                   retryTimers |-> q.retryTimers, retries |-> q.retries,
                   leaked |-> q.leaked, stage |-> q.stage]
BY DEF BalancedPoolState, Counts

LEMMA WorkerFields ==
    ASSUME NEW W \in Seq(WorkerState)
    PROVE  /\ Len(W) \in Nat /\ DOMAIN W = 1..Len(W) /\ IsFiniteSet(DOMAIN W)
           /\ \A i \in DOMAIN W : /\ W[i] \in WorkerState
                                  /\ W[i].taskId \in BalancedTask \cup {NoTaskId}
                                  /\ W[i].unanswered \in Seq(BalancedTask)
                                  /\ W[i].ending \in BOOLEAN
<1>1. Len(W) \in Nat /\ DOMAIN W = 1..Len(W) /\ \A i \in DOMAIN W : W[i] \in WorkerState
  OBVIOUS
<1>2. IsFiniteSet(DOMAIN W)
  BY <1>1, FS_Interval
<1>. QED  BY <1>1, <1>2 DEF WorkerState

LEMMA NewWorkerType == NewWorker \in WorkerState
BY DEF NewWorker, WorkerState

\* Array.prototype.find.
LEMMA FirstWithFound ==
    ASSUME NEW q \in BalancedPoolState, NEW t, NEW k \in Marked(q.workers, t)
    PROVE  FirstWith(q, t) \in DOMAIN q.workers /\ q.workers[FirstWith(q, t)].taskId = t
<1>. DEFINE W == q.workers
            I == Marked(W, t)
<1>1. Len(W) \in Nat /\ DOMAIN W = 1..Len(W) /\ I \in SUBSET (1..Len(W)) /\ I # {}
  BY StateFields, WorkerFields DEF Marked
<1>2. PICK m \in I : \A i \in I : m <= i
  BY <1>1, LeastElement
<1>3. /\ m \in DOMAIN W /\ W[m].taskId = t
      /\ \A j \in 1..(m - 1) : W[j].taskId # t
  <2>1. m \in 1..Len(W) /\ W[m].taskId = t
    BY <1>1 DEF Marked
  <2>2. ASSUME NEW j \in 1..(m - 1), W[j].taskId = t  PROVE FALSE
    <3>1. j \in 1..Len(W) /\ j < m
      BY <1>1, <2>1
    <3>2. j \in I
      BY <1>1, <2>2, <3>1 DEF Marked
    <3>. QED  BY <1>1, <1>2, <3>1, <3>2
  <2>. QED  BY <1>1, <2>1, <2>2
<1>. QED  BY <1>3 DEF FirstWith

\* W with the worker at i replaced.
LEMMA WorkerReplaced ==
    ASSUME NEW W \in Seq(WorkerState), NEW i \in DOMAIN W, NEW w \in WorkerState
    PROVE  /\ [W EXCEPT ![i] = w] \in Seq(WorkerState) /\ DOMAIN [W EXCEPT ![i] = w] = DOMAIN W
           /\ [W EXCEPT ![i] = w][i] = w
           /\ \A j \in DOMAIN W : j # i => [W EXCEPT ![i] = w][j] = W[j]
BY WorkerFields

\* Replacing a worker adds and subtracts what it owes ...
LEMMA OwedReplaced ==
    ASSUME NEW W \in Seq(WorkerState), NEW i \in DOMAIN W, NEW w \in WorkerState,
           NEW t \in BalancedTask
    PROVE  /\ Total(Owed(W, t), DOMAIN W) \in Nat
           /\ Total(Owed([W EXCEPT ![i] = w], t), DOMAIN [W EXCEPT ![i] = w])
                = Total(Owed(W, t), DOMAIN W) - Occurrences(W[i].unanswered, t)
                    + Occurrences(w.unanswered, t)
<1>. DEFINE V == [W EXCEPT ![i] = w]
            f == Owed(W, t)
            g == Owed(V, t)
            S == DOMAIN W
<1>1. /\ V \in Seq(WorkerState) /\ DOMAIN V = S /\ V[i] = w
      /\ \A j \in S : j # i => V[j] = W[j]
  BY WorkerReplaced
<1>. HIDE DEF V
<1>2. \A j \in S : f[j] = Occurrences(W[j].unanswered, t) /\ f[j] \in Nat
  BY WorkerFields, OccurrencesType DEF Owed
<1>3. \A j \in S : g[j] = Occurrences(V[j].unanswered, t) /\ g[j] \in Nat
  BY <1>1, WorkerFields, OccurrencesType DEF Owed
<1>4. IsFiniteSet(S) /\ S \in SUBSET S /\ i \in S
  BY WorkerFields
<1>5. g[i] = Occurrences(w.unanswered, t) /\ f[i] = Occurrences(W[i].unanswered, t)
  BY <1>1, <1>2, <1>3
<1>6. \A j \in S \ {i} : f[j] = g[j]
  BY <1>1, <1>2, <1>3
<1>. HIDE DEF f, g, S
<1>7. Total(g, S) = Total(f, S) - f[i] + g[i]
  BY <1>2, <1>3, <1>4, <1>6, TotalChanged
<1>8. Total(f, S) \in Nat
  BY <1>2, <1>4, TotalType
<1>. QED  BY <1>1, <1>5, <1>7, <1>8 DEF f, g, S, V

\* ... and its mark.
LEMMA MarkedReplaced ==
    ASSUME NEW W \in Seq(WorkerState), NEW i \in DOMAIN W, NEW w \in WorkerState,
           NEW t \in BalancedTask
    PROVE  /\ IsFiniteSet(Marked(W, t)) /\ Cardinality(Marked(W, t)) \in Nat
           /\ Cardinality(Marked([W EXCEPT ![i] = w], t))
                = Cardinality(Marked(W, t)) - (IF W[i].taskId = t THEN 1 ELSE 0)
                    + (IF w.taskId = t THEN 1 ELSE 0)
<1>. DEFINE V == [W EXCEPT ![i] = w]
            M == Marked(W, t)
            R == M \ {i}
<1>1. /\ DOMAIN V = DOMAIN W /\ V[i] = w /\ \A j \in DOMAIN W : j # i => V[j] = W[j]
  BY WorkerReplaced
<1>. HIDE DEF V
<1>2. IsFiniteSet(DOMAIN W) /\ M \in SUBSET DOMAIN W /\ (i \in M <=> W[i].taskId = t)
  BY WorkerFields DEF Marked
<1>3. Marked(V, t) = IF w.taskId = t THEN R \cup {i} ELSE R
  BY <1>1 DEF Marked
<1>. HIDE DEF M
<1>4. IsFiniteSet(M) /\ Cardinality(M) \in Nat
  BY <1>2, FS_Subset, FS_CardinalityType
<1>5. IsFiniteSet(R) /\ Cardinality(R) = IF i \in M THEN Cardinality(M) - 1 ELSE Cardinality(M)
  BY <1>4, FS_RemoveElement
<1>6. i \notin R
  OBVIOUS
<1>. HIDE DEF R
<1>7. Cardinality(R \cup {i}) = Cardinality(R) + 1
  BY <1>5, <1>6, FS_AddElement
<1>8. Cardinality(R) \in Nat
  BY <1>5, FS_CardinalityType
<1>9. Cardinality(Marked(V, t)) = Cardinality(R) + (IF w.taskId = t THEN 1 ELSE 0)
  BY <1>3, <1>7, <1>8
<1>10. Cardinality(R) = Cardinality(M) - (IF W[i].taskId = t THEN 1 ELSE 0)
  BY <1>2, <1>4, <1>5
<1>. QED  BY <1>4, <1>9, <1>10 DEF M, V
-----------------------------------------------------------------------------
(***************************************************************************)
(* The handlers of a pool                                                  *)
(***************************************************************************)
\* The state after Head(q.tasks) was posted to worker i.
StartedAt(q, i) ==
    [q EXCEPT !.tasks = Tail(@), !.timeouts[Head(q.tasks)] = @ + 1,
              !.workers[i] = Given(@, Head(q.tasks))]

LEMMA ProcessNextCases ==
    ASSUME NEW q \in BalancedPoolState
    PROVE  \/ ProcessNext(q) = q
           \/ /\ q.tasks # <<>>
              /\ \E i \in DOMAIN q.workers :
                   q.workers[i].taskId = NoTaskId /\ ProcessNext(q) = StartedAt(q, i)
<1>1. CASE q.tasks = <<>> \/ BusyWorkers(q) = DOMAIN q.workers
  BY <1>1 DEF ProcessNext
<1>2. CASE ~(q.tasks = <<>> \/ BusyWorkers(q) = DOMAIN q.workers)
  <2>. DEFINE i == FirstWith(q, NoTaskId)
              t == Head(q.tasks)
  <2>1. i \in DOMAIN q.workers /\ q.workers[i].taskId = NoTaskId
    <3>1. PICK k \in DOMAIN q.workers : q.workers[k].taskId = NoTaskId
      BY <1>2 DEF BusyWorkers
    <3>2. k \in Marked(q.workers, NoTaskId)
      BY <3>1 DEF Marked
    <3>. QED  BY <3>2, FirstWithFound
  <2>2. ProcessNext(q) = StartedAt(q, i)
    BY <1>2 DEF ProcessNext, StartedAt
  <2>. QED  BY <1>2, <2>1, <2>2
<1>. QED  BY <1>1, <1>2

LEMMA StartedFields ==
    ASSUME NEW q \in BalancedPoolState, NEW i
    PROVE  LET r == StartedAt(q, i)  t == Head(q.tasks) IN
           /\ r.workers = [q.workers EXCEPT ![i] = Given(q.workers[i], t)]
           /\ r.tasks = Tail(q.tasks) /\ r.timeouts = [q.timeouts EXCEPT ![t] = q.timeouts[t] + 1]
           /\ r.retryTimers = q.retryTimers /\ r.retries = q.retries
           /\ r.leaked = q.leaked /\ r.stage = q.stage
           /\ DOMAIN r = DOMAIN q
BY DEF StartedAt, BalancedPoolState

LEMMA GivenType ==
    ASSUME NEW w \in WorkerState, NEW t \in BalancedTask
    PROVE  /\ Given(w, t) \in WorkerState /\ Given(w, t).taskId = t
           /\ Given(w, t).ending = w.ending
           /\ \A u : Occurrences(Given(w, t).unanswered, u)
                       = Occurrences(w.unanswered, u) + (IF t = u THEN 1 ELSE 0)
<1>1. w.unanswered \in Seq(BalancedTask) /\ w.ending \in BOOLEAN
  BY DEF WorkerState
<1>2. Append(w.unanswered, t) \in Seq(BalancedTask) /\ Append(w.unanswered, t) = w.unanswered \o <<t>>
  BY <1>1, AppendProperties, AppendIsConcat
<1>3. ASSUME NEW u
      PROVE  Occurrences(Append(w.unanswered, t), u)
               = Occurrences(w.unanswered, u) + (IF t = u THEN 1 ELSE 0)
  <2>. DEFINE e == <<t>>
  <2>1. e \in Seq(BalancedTask) /\ Occurrences(e, u) = IF t = u THEN 1 ELSE 0
    BY SingletonOccurrences
  <2>2. Append(w.unanswered, t) = w.unanswered \o e
    BY <1>2
  <2>. HIDE DEF e
  <2>. QED  BY <1>1, <2>1, <2>2, ConcatOccurrences
<1>. QED  BY <1>1, <1>2, <1>3 DEF Given, WorkerState

LEMMA StartedKeepsMatched ==
    ASSUME NEW W \in Seq(WorkerState), Matched(W), NEW i \in DOMAIN W, NEW t \in BalancedTask,
           W[i].taskId = NoTaskId
    PROVE  Matched([W EXCEPT ![i] = Given(W[i], t)])
<1>. DEFINE w == Given(W[i], t)
            V == [W EXCEPT ![i] = w]
<1>1. W[i] \in WorkerState
  BY WorkerFields
<1>2. /\ w \in WorkerState /\ w.taskId = t /\ w.ending = W[i].ending
      /\ \A u : Occurrences(w.unanswered, u)
                  = Occurrences(W[i].unanswered, u) + (IF t = u THEN 1 ELSE 0)
  BY <1>1, GivenType
<1>. HIDE DEF w
<1>3. /\ DOMAIN V = DOMAIN W /\ V[i] = w /\ \A j \in DOMAIN W : j # i => V[j] = W[j]
  BY <1>2, WorkerReplaced
<1>4. ASSUME NEW u \in BalancedTask  PROVE Total(Owed(V, u), DOMAIN V) = Cardinality(Marked(V, u))
  <2>1. /\ Total(Owed(W, u), DOMAIN W) \in Nat
        /\ Total(Owed(V, u), DOMAIN V)
             = Total(Owed(W, u), DOMAIN W) - Occurrences(W[i].unanswered, u) + Occurrences(w.unanswered, u)
    BY <1>2, OwedReplaced
  <2>2. /\ Cardinality(Marked(W, u)) \in Nat
        /\ Cardinality(Marked(V, u))
             = Cardinality(Marked(W, u)) - (IF W[i].taskId = u THEN 1 ELSE 0) + (IF w.taskId = u THEN 1 ELSE 0)
    BY <1>2, MarkedReplaced
  <2>3. Total(Owed(W, u), DOMAIN W) = Cardinality(Marked(W, u))
    BY DEF Matched
  <2>4. W[i].taskId # u
    BY BalancerAssumption DEF BalancerAssumption
  <2>5. Occurrences(W[i].unanswered, u) \in Nat
    BY WorkerFields, OccurrencesType
  <2>. HIDE DEF V
  <2>. QED  BY <1>2, <2>1, <2>2, <2>3, <2>4, <2>5
<1>. HIDE DEF V
<1>5. \A j \in DOMAIN V : ~V[j].ending
  BY <1>2, <1>3 DEF Matched
<1>6. Matched(V)
  BY <1>4, <1>5 DEF Matched
<1>. QED  BY <1>6 DEF V, w

\* The task that is started waited, so nothing was begun with its id.
LEMMA StartedKeepsOnce ==
    ASSUME NEW q \in BalancedPoolState, NEW c \in [BalancedTask -> Nat],
           NEW s \in [BalancedTask -> Nat], UsedOnce(s), Once(q, c, s), q.tasks # <<>>,
           NEW i \in DOMAIN q.workers, q.workers[i].taskId = NoTaskId
    PROVE  Once(StartedAt(q, i), c, s)
<1>. DEFINE W == q.workers
            t == Head(q.tasks)
            r == StartedAt(q, i)
            V == r.workers
<1>1. /\ W \in Seq(WorkerState) /\ q.tasks \in Seq(BalancedTask) /\ t \in BalancedTask
      /\ Tail(q.tasks) \in Seq(BalancedTask) /\ q.timeouts \in [BalancedTask -> Nat]
  BY StateFields
<1>2. /\ r.tasks = Tail(q.tasks) /\ r.timeouts = [q.timeouts EXCEPT ![t] = @ + 1]
      /\ r.retryTimers = q.retryTimers /\ V = [W EXCEPT ![i] = Given(W[i], t)]
  BY StartedFields
<1>. HIDE DEF t, r, V
<1>3. W[i].unanswered = <<>> /\ Given(W[i], t).taskId = t /\ Given(W[i], t).unanswered = <<t>>
  <2>1. W[i].unanswered = <<>> /\ W[i] \in WorkerState
    BY <1>1, WorkerFields DEF Once, Alone
  <2>. QED  BY <2>1 DEF Given, WorkerState
<1>4. /\ DOMAIN V = DOMAIN W /\ V[i] = Given(W[i], t) /\ \A j \in DOMAIN W : j # i => V[j] = W[j]
  <2>1. W[i] \in WorkerState
    BY <1>1, WorkerFields
  <2>. QED  BY <1>1, <1>2, <2>1, GivenType, WorkerReplaced
<1>5. \A u \in BalancedTask :
          Occurrences(q.tasks, u) = Occurrences(r.tasks, u) + (IF t = u THEN 1 ELSE 0)
  BY <1>1, <1>2, TailOccurrences DEF t
<1>6. \A u \in BalancedTask : /\ Occurrences(q.tasks, u) \in Nat /\ Occurrences(r.tasks, u) \in Nat
                              /\ c[u] \in Nat /\ s[u] \in Nat /\ s[u] <= 1
  BY <1>1, <1>2, OccurrencesType DEF UsedOnce
<1>7. Waits(q, c, t) >= 1 /\ Waits(q, c, t) <= s[t]
  <2>1. Waits(q, c, t) <= s[t]
    BY <1>1 DEF Once
  <2>. QED  BY <1>1, <1>5, <1>6, <2>1 DEF Waits
<1>8. ~Begun(q, t) /\ s[t] # 0 /\ Waits(r, c, t) = 0
  <2>1. Waits(q, c, t) # 0 /\ s[t] # 0 /\ s[t] <= 1
    BY <1>1, <1>6, <1>7 DEF Waits
  <2>2. Waits(q, c, t) = Waits(r, c, t) + 1 /\ Waits(r, c, t) \in Nat
    <3>1. Occurrences(q.tasks, t) = Occurrences(r.tasks, t) + 1
      BY <1>1, <1>5
    <3>2. Occurrences(r.tasks, t) \in Nat /\ c[t] \in Nat
      BY <1>1, <1>6
    <3>. QED  BY <3>1, <3>2 DEF Waits
  <2>. QED  BY <1>1, <1>6, <1>7, <2>1, <2>2 DEF Once
<1>9. \A j \in DOMAIN W : W[j].taskId # t
  BY <1>8 DEF Begun, Marked
<1>10. t # NoTaskId
  BY <1>1, BalancerAssumption DEF BalancerAssumption
<1>11. Alone(V)
  <2>1. /\ \A j \in DOMAIN W :
             W[j].unanswered = IF W[j].taskId = NoTaskId THEN <<>> ELSE <<W[j].taskId>>
        /\ \A j, k \in DOMAIN W : W[j].taskId = W[k].taskId /\ W[j].taskId # NoTaskId => j = k
    BY DEF Once, Alone
  <2>2. V[i].taskId = t /\ V[i].unanswered = <<t>>
    BY <1>3, <1>4
  <2>3. ASSUME NEW j \in DOMAIN W
        PROVE  V[j].unanswered = IF V[j].taskId = NoTaskId THEN <<>> ELSE <<V[j].taskId>>
    BY <1>4, <1>10, <2>1, <2>2
  <2>4. ASSUME NEW j \in DOMAIN W, NEW k \in DOMAIN W,
               V[j].taskId = V[k].taskId, V[j].taskId # NoTaskId
        PROVE  j = k
    BY <1>4, <1>9, <2>1, <2>2, <2>4
  <2>. QED  BY <1>4, <2>3, <2>4 DEF Alone
<1>12. ASSUME NEW u \in BalancedTask
       PROVE  /\ r.retryTimers[u] = 0 /\ Waits(r, c, u) <= s[u]
              /\ Begun(r, u) => Waits(r, c, u) = 0 /\ s[u] # 0
  <2>1. CASE u = t
    <3>1. Waits(r, c, u) <= s[u]
      BY <1>6, <1>8, <2>1
    <3>2. r.retryTimers[u] = 0
      BY <1>2 DEF Once
    <3>. QED  BY <1>8, <2>1, <3>1, <3>2
  <2>2. CASE u # t
    <3>1. Waits(r, c, u) = Waits(q, c, u)
      BY <1>5, <1>6, <2>2 DEF Waits
    <3>2. r.timeouts[u] = q.timeouts[u]
      BY <1>1, <1>2, <2>2
    <3>3. Marked(V, u) = Marked(W, u)
      <4>1. V[i].taskId # u /\ W[i].taskId # u
        BY <1>3, <1>4, <2>2, BalancerAssumption DEF BalancerAssumption
      <4>. QED  BY <1>4, <4>1 DEF Marked
    <3>4. Begun(r, u) => Begun(q, u)
      BY <3>2, <3>3 DEF Begun, V
    <3>. QED  BY <1>2, <3>1, <3>4 DEF Once
  <2>. QED  BY <2>1, <2>2
<1>13. Once(r, c, s)
  BY <1>11, <1>12 DEF Once, V
<1>. QED  BY <1>13 DEF r

LEMMA StartedType ==
    ASSUME NEW q \in BalancedPoolState, q.tasks # <<>>, NEW i \in DOMAIN q.workers
    PROVE  StartedAt(q, i) \in BalancedPoolState
<1>1. /\ q.workers \in Seq(WorkerState) /\ q.tasks \in Seq(BalancedTask)
      /\ Head(q.tasks) \in BalancedTask /\ Tail(q.tasks) \in Seq(BalancedTask)
  BY StateFields
<1>2. q.workers[i] \in WorkerState
  BY <1>1, WorkerFields
<1>3. [q.workers EXCEPT ![i] = Given(q.workers[i], Head(q.tasks))] \in Seq(WorkerState)
  BY <1>1, <1>2, GivenType, WorkerReplaced
<1>4. [q.timeouts EXCEPT ![Head(q.tasks)] = @ + 1] \in Counts
  BY <1>1, StateFields DEF Counts
<1>. QED  BY <1>1, <1>3, <1>4, StateFields DEF StartedAt, BalancedPoolState, Counts

\* processNextTask.
LEMMA ProcessNextSound ==
    ASSUME NEW q, NEW c \in [BalancedTask -> Nat], NEW s \in [BalancedTask -> Nat], NEW d,
           Sound(q, c, s, d)
    PROVE  Sound(ProcessNext(q), c, s, d)
<1>1. q \in BalancedPoolState
  BY DEF Sound
<1>2. CASE ProcessNext(q) = q
  BY <1>2
<1>3. ASSUME q.tasks # <<>>, NEW i \in DOMAIN q.workers, q.workers[i].taskId = NoTaskId,
             ProcessNext(q) = StartedAt(q, i)
      PROVE  Sound(ProcessNext(q), c, s, d)
  <2>1. StartedAt(q, i) \in BalancedPoolState
    BY <1>1, <1>3, StartedType
  <2>2. d = 0 /\ StartedAt(q, i).stage = "open" => Matched(StartedAt(q, i).workers)
    <3>1. Head(q.tasks) \in BalancedTask /\ q.workers \in Seq(WorkerState)
      BY <1>1, <1>3, StateFields
    <3>2. /\ StartedAt(q, i).workers
               = [q.workers EXCEPT ![i] = Given(q.workers[i], Head(q.tasks))]
          /\ StartedAt(q, i).stage = q.stage
      BY <1>1, StartedFields
    <3>3. Matched(q.workers) => Matched(StartedAt(q, i).workers)
      BY <1>3, <3>1, <3>2, StartedKeepsMatched
    <3>. QED  BY <3>2, <3>3 DEF Sound
  <2>3. UsedOnce(s) => Once(StartedAt(q, i), c, s)
    BY <1>1, <1>3, StartedKeepsOnce DEF Sound
  <2>. QED  BY <1>3, <2>1, <2>2, <2>3 DEF Sound
<1>. QED  BY <1>1, <1>2, <1>3, ProcessNextCases

-----------------------------------------------------------------------------
\* A thread has answered the j-th of the tasks it executes.
AnswerTaken(q, i, j) == [q EXCEPT !.workers[i].unanswered = RemoveAt(@, j)]

\* What AnswerTaken changes.
HasAnswered(q, i, j) ==
           LET r == AnswerTaken(q, i, j)
               w == [q.workers[i] EXCEPT !.unanswered = RemoveAt(q.workers[i].unanswered, j)] IN
           /\ r \in BalancedPoolState /\ w \in WorkerState
           /\ r.workers = [q.workers EXCEPT ![i] = w]
           /\ w.taskId = q.workers[i].taskId /\ w.ending = q.workers[i].ending
           /\ w.unanswered = RemoveAt(q.workers[i].unanswered, j)
           /\ r.tasks = q.tasks /\ r.timeouts = q.timeouts /\ r.retryTimers = q.retryTimers
           /\ r.stage = q.stage

LEMMA AnswerFields ==
    ASSUME NEW q \in BalancedPoolState, NEW i \in DOMAIN q.workers,
           NEW j \in DOMAIN q.workers[i].unanswered
    PROVE  HasAnswered(q, i, j)
<1>. DEFINE r == AnswerTaken(q, i, j)
            a == RemoveAt(q.workers[i].unanswered, j)
            w == [q.workers[i] EXCEPT !.unanswered = a]
<1>1. q.workers \in Seq(WorkerState) /\ q.workers[i] \in WorkerState
      /\ q.workers[i].unanswered \in Seq(BalancedTask)
  BY StateFields, WorkerFields
<1>2. a \in Seq(BalancedTask)
  BY <1>1, RemovedAt
<1>3. /\ r.workers = [q.workers EXCEPT ![i] = w]
      /\ r = [q EXCEPT !.workers = [q.workers EXCEPT ![i] = w]]
      /\ r.tasks = q.tasks /\ r.timeouts = q.timeouts /\ r.retryTimers = q.retryTimers
      /\ r.stage = q.stage
  BY DEF AnswerTaken, BalancedPoolState
<1>. HIDE DEF a
<1>4. /\ w \in WorkerState /\ w.taskId = q.workers[i].taskId /\ w.ending = q.workers[i].ending
      /\ w.unanswered = a
  BY <1>1, <1>2 DEF WorkerState
<1>. HIDE DEF w, r
<1>5. [q.workers EXCEPT ![i] = w] \in Seq(WorkerState)
  BY <1>1, <1>4, WorkerReplaced
<1>6. r \in BalancedPoolState
  BY <1>3, <1>5 DEF BalancedPoolState
<1>. QED  BY <1>3, <1>4, <1>6 DEF HasAnswered, r, w, a

\* The worker at k is idle.
IdleAt(W, k) == [W EXCEPT ![k].taskId = NoTaskId]

LEMMA IdleAtFields ==
    ASSUME NEW W \in Seq(WorkerState), NEW k \in DOMAIN W
    PROVE  LET w == [W[k] EXCEPT !.taskId = NoTaskId] IN
           /\ IdleAt(W, k) = [W EXCEPT ![k] = w] /\ w \in WorkerState
           /\ w.taskId = NoTaskId /\ w.ending = W[k].ending /\ w.unanswered = W[k].unanswered
           /\ IdleAt(W, k) \in Seq(WorkerState)
<1>. DEFINE w == [W[k] EXCEPT !.taskId = NoTaskId]
<1>1. W[k] \in WorkerState
  BY WorkerFields
<1>2. w \in WorkerState /\ w.taskId = NoTaskId /\ w.ending = W[k].ending /\ w.unanswered = W[k].unanswered
  BY <1>1 DEF WorkerState
<1>3. IdleAt(W, k) = [W EXCEPT ![k] = w]
  BY DEF IdleAt
<1>. HIDE DEF w
<1>4. IdleAt(W, k) \in Seq(WorkerState)
  BY <1>2, <1>3, WorkerReplaced
<1>. QED  BY <1>2, <1>3, <1>4 DEF w

\* What Freed changes.
HasFreed(q, t) ==
    /\ FirstWith(q, t) \in DOMAIN q.workers /\ q.workers[FirstWith(q, t)].taskId = t
    /\ Freed(q, t) \in BalancedPoolState
    /\ Freed(q, t).workers = IdleAt(q.workers, FirstWith(q, t))
    /\ Freed(q, t).tasks = q.tasks /\ Freed(q, t).timeouts = q.timeouts
    /\ Freed(q, t).retryTimers = q.retryTimers /\ Freed(q, t).stage = q.stage

LEMMA FreedFields ==
    ASSUME NEW q \in BalancedPoolState, NEW t, Marked(q.workers, t) # {}
    PROVE  HasFreed(q, t)
<1>. DEFINE k == FirstWith(q, t)
            r == Freed(q, t)
<1>1. k \in DOMAIN q.workers /\ q.workers[k].taskId = t
  BY FirstWithFound
<1>2. /\ r.workers = IdleAt(q.workers, k)
      /\ r = [q EXCEPT !.workers = IdleAt(q.workers, k)]
      /\ r.tasks = q.tasks /\ r.timeouts = q.timeouts /\ r.retryTimers = q.retryTimers
      /\ r.stage = q.stage
  BY DEF Freed, BalancedPoolState, IdleAt
<1>3. IdleAt(q.workers, k) \in Seq(WorkerState)
  BY <1>1, StateFields, IdleAtFields
<1>. HIDE DEF k, r
<1>4. r \in BalancedPoolState
  BY <1>2, <1>3 DEF BalancedPoolState
<1>. QED  BY <1>1, <1>2, <1>4 DEF HasFreed, k, r

LEMMA OnceKept ==
    ASSUME NEW q, NEW r, NEW c, NEW s, Once(q, c, s), r.tasks = q.tasks,
           r.retryTimers = q.retryTimers, Alone(r.workers),
           \A u \in BalancedTask : Begun(r, u) => Begun(q, u)
    PROVE  Once(r, c, s)
BY DEF Once, Waits

\* A task that is owed once less ...
LEMMA AnswerOwedLess ==
    ASSUME NEW q \in BalancedPoolState, NEW i \in DOMAIN q.workers,
           NEW j \in DOMAIN q.workers[i].unanswered, NEW u \in BalancedTask
    PROVE  LET W == q.workers
               V == AnswerTaken(q, i, j).workers IN
           /\ Total(Owed(W, u), DOMAIN W) \in Nat
           /\ Total(Owed(V, u), DOMAIN V)
                = Total(Owed(W, u), DOMAIN W) - (IF W[i].unanswered[j] = u THEN 1 ELSE 0)
           /\ Marked(V, u) = Marked(W, u)
<1>. DEFINE W == q.workers
            V == AnswerTaken(q, i, j).workers
            w == [W[i] EXCEPT !.unanswered = RemoveAt(W[i].unanswered, j)]
<1>1. W \in Seq(WorkerState) /\ W[i].unanswered \in Seq(BalancedTask)
  BY StateFields, WorkerFields
<1>2. /\ w \in WorkerState /\ V = [W EXCEPT ![i] = w] /\ w.taskId = W[i].taskId
      /\ w.unanswered = RemoveAt(W[i].unanswered, j)
  BY AnswerFields DEF HasAnswered
<1>. HIDE DEF w, V
<1>3. Occurrences(W[i].unanswered, u)
        = Occurrences(w.unanswered, u) + (IF W[i].unanswered[j] = u THEN 1 ELSE 0)
  BY <1>1, <1>2, RemovedAt
<1>4. Occurrences(w.unanswered, u) \in Nat
  <2>1. w.unanswered \in Seq(BalancedTask)
    BY <1>2 DEF WorkerState
  <2>. QED  BY <2>1, OccurrencesType
<1>5. /\ Total(Owed(W, u), DOMAIN W) \in Nat
      /\ Total(Owed(V, u), DOMAIN V) = Total(Owed(W, u), DOMAIN W) - Occurrences(W[i].unanswered, u)
                                         + Occurrences(w.unanswered, u)
  BY <1>1, <1>2, OwedReplaced
<1>6. Marked(V, u) = Marked(W, u)
  <2>1. /\ DOMAIN V = DOMAIN W /\ V[i] = w /\ \A k \in DOMAIN W : k # i => V[k] = W[k]
    BY <1>1, <1>2, WorkerReplaced
  <2>. QED  BY <1>2, <2>1 DEF Marked
<1>7. Total(Owed(V, u), DOMAIN V)
        = Total(Owed(W, u), DOMAIN W) - (IF W[i].unanswered[j] = u THEN 1 ELSE 0)
  <2>. HIDE DEF W
  <2>. QED  BY <1>3, <1>4, <1>5
<1>. QED  BY <1>5, <1>6, <1>7 DEF V

\* ... is marked once less, where one is marked at all.
LEMMA AnswerKeepsMatched ==
    ASSUME NEW q \in BalancedPoolState, NEW i \in DOMAIN q.workers,
           NEW j \in DOMAIN q.workers[i].unanswered, Matched(q.workers)
    PROVE  LET t == q.workers[i].unanswered[j]
               h == AnswerTaken(q, i, j) IN
           Marked(h.workers, t) # {} /\ Matched(Freed(h, t).workers)
<1>. DEFINE W == q.workers
            t == W[i].unanswered[j]
            h == AnswerTaken(q, i, j)
            X == h.workers
            V == Freed(h, t).workers
<1>1. W \in Seq(WorkerState) /\ W[i].unanswered \in Seq(BalancedTask) /\ t \in BalancedTask
      /\ i \in DOMAIN W /\ IsFiniteSet(DOMAIN W)
  BY StateFields, WorkerFields
<1>2. h \in BalancedPoolState /\ X \in Seq(WorkerState)
  <2>1. HasAnswered(q, i, j)
    BY AnswerFields
  <2>2. h \in BalancedPoolState
    BY <2>1 DEF HasAnswered
  <2>. HIDE DEF h
  <2>. QED  BY <2>2, StateFields
<1>. DEFINE o(u) == Total(Owed(W, u), DOMAIN W)
<1>3. \A u \in BalancedTask :
          /\ o(u) \in Nat
          /\ Total(Owed(X, u), DOMAIN X) = o(u) - (IF t = u THEN 1 ELSE 0)
          /\ Marked(X, u) = Marked(W, u)
  BY AnswerOwedLess
<1>4. \A u \in BalancedTask : o(u) = Cardinality(Marked(W, u))
  BY DEF Matched
<1>5. \A k \in DOMAIN X : ~X[k].ending
  <2>. DEFINE w == [q.workers[i] EXCEPT !.unanswered = RemoveAt(q.workers[i].unanswered, j)]
  <2>1. w \in WorkerState /\ X = [W EXCEPT ![i] = w] /\ w.ending = W[i].ending
    BY AnswerFields DEF HasAnswered
  <2>. HIDE DEF w, X
  <2>2. /\ DOMAIN X = DOMAIN W /\ X[i] = w /\ \A k \in DOMAIN W : k # i => X[k] = W[k]
    BY <1>1, <2>1, WorkerReplaced
  <2>. QED  BY <2>1, <2>2 DEF Matched
<1>6. Marked(X, t) # {}
  <2>1. \A k \in DOMAIN W : Owed(W, t)[k] \in Nat
    BY <1>1, WorkerFields, OccurrencesType DEF Owed
  <2>2. Owed(W, t)[i] <= Total(Owed(W, t), DOMAIN W)
    BY <1>1, <2>1, TotalIncludes
  <2>3. Owed(W, t)[i] # 0
    <3>1. Owed(W, t)[i] = Occurrences(W[i].unanswered, t)
      BY DEF Owed
    <3>2. j \in DOMAIN W[i].unanswered /\ W[i].unanswered[j] = t
      OBVIOUS
    <3>3. Occurrences(W[i].unanswered, t) = 0 <=> \A l \in DOMAIN W[i].unanswered : W[i].unanswered[l] # t
      BY <1>1, OccurrencesType
    <3>. QED  BY <3>1, <3>2, <3>3
  <2>4. o(t) # 0
    <3>. HIDE DEF t, W
    <3>. QED  BY <1>1, <1>3, <2>1, <2>2, <2>3
  <2>5. Cardinality(Marked(W, t)) # 0
    BY <1>1, <1>4, <2>4
  <2>. QED  BY <1>1, <1>3, <2>5, FS_EmptySet
<1>. DEFINE k == FirstWith(h, t)
            w == [X[k] EXCEPT !.taskId = NoTaskId]
<1>7. /\ k \in DOMAIN X /\ X[k].taskId = t /\ w \in WorkerState
      /\ V = [X EXCEPT ![k] = w] /\ w.taskId = NoTaskId
      /\ w.ending = X[k].ending /\ w.unanswered = X[k].unanswered
  <2>1. k \in DOMAIN X /\ X[k].taskId = t /\ V = IdleAt(X, k)
    <3>1. h \in BalancedPoolState /\ Marked(h.workers, t) # {}
      BY <1>2, <1>6
    <3>. HIDE DEF h, t
    <3>2. HasFreed(h, t)
      BY <3>1, FreedFields
    <3>. QED  BY <3>2 DEF HasFreed
  <2>. HIDE DEF h, X, V, t, W, k
  <2>. QED  BY <1>2, <2>1, IdleAtFields
<1>. HIDE DEF k, w
<1>. HIDE DEF h, X, V, t, W
<1>8. ASSUME NEW u \in BalancedTask  PROVE Total(Owed(V, u), DOMAIN V) = Cardinality(Marked(V, u))
  <2>1. /\ Total(Owed(X, u), DOMAIN X) \in Nat
        /\ Total(Owed(V, u), DOMAIN V) = Total(Owed(X, u), DOMAIN X) - Occurrences(X[k].unanswered, u)
                                           + Occurrences(w.unanswered, u)
    BY <1>2, <1>7, OwedReplaced
  <2>2. Occurrences(X[k].unanswered, u) \in Nat
    BY <1>2, <1>7, WorkerFields, OccurrencesType
  <2>3. /\ Cardinality(Marked(X, u)) \in Nat
        /\ Cardinality(Marked(V, u)) = Cardinality(Marked(X, u)) - (IF X[k].taskId = u THEN 1 ELSE 0)
                                         + (IF w.taskId = u THEN 1 ELSE 0)
    <3>1. X \in Seq(WorkerState) /\ k \in DOMAIN X /\ w \in WorkerState /\ V = [X EXCEPT ![k] = w]
      BY <1>2, <1>7
    <3>2. /\ Cardinality(Marked(X, u)) \in Nat
          /\ Cardinality(Marked([X EXCEPT ![k] = w], u))
               = Cardinality(Marked(X, u)) - (IF X[k].taskId = u THEN 1 ELSE 0)
                   + (IF w.taskId = u THEN 1 ELSE 0)
      <4>1. ASSUME NEW Y \in Seq(WorkerState), NEW l \in DOMAIN Y, NEW v \in WorkerState
            PROVE  /\ Cardinality(Marked(Y, u)) \in Nat
                   /\ Cardinality(Marked([Y EXCEPT ![l] = v], u))
                        = Cardinality(Marked(Y, u)) - (IF Y[l].taskId = u THEN 1 ELSE 0)
                           + (IF v.taskId = u THEN 1 ELSE 0)
        BY MarkedReplaced
      <4>. QED BY <3>1, <4>1
    <3>. QED  BY <3>1, <3>2
  <2>4. w.taskId # u
    BY <1>7, BalancerAssumption DEF BalancerAssumption
  <2>5. Total(Owed(X, u), DOMAIN X) = Cardinality(Marked(X, u)) - (IF t = u THEN 1 ELSE 0)
    BY <1>3, <1>4
  <2>. QED  BY <1>7, <2>1, <2>2, <2>3, <2>4, <2>5
<1>9. \A l \in DOMAIN V : ~V[l].ending
  BY <1>2, <1>5, <1>7, WorkerReplaced
<1>10. Matched(V)
  BY <1>8, <1>9 DEF Matched
<1>. QED  BY <1>6, <1>10 DEF h, X, V, t, W

\* While no id is used twice, the answer is that of the worker's own task.
LEMMA AnswerKeepsOnce ==
    ASSUME NEW q \in BalancedPoolState, NEW c, NEW s, Once(q, c, s),
           NEW i \in DOMAIN q.workers, NEW j \in DOMAIN q.workers[i].unanswered
    PROVE  LET t == q.workers[i].unanswered[j]
               h == AnswerTaken(q, i, j) IN
           /\ Marked(h.workers, t) # {} /\ Waits(q, c, t) = 0
           /\ Once(Freed(h, t), c, s)
<1>. DEFINE W == q.workers
            t == W[i].unanswered[j]
            h == AnswerTaken(q, i, j)
            X == h.workers
            r == Freed(h, t)
            V == r.workers
            k == FirstWith(h, t)
            w == [W[i] EXCEPT !.unanswered = RemoveAt(W[i].unanswered, j)]
            v == [X[k] EXCEPT !.taskId = NoTaskId]
<1>1. W \in Seq(WorkerState) /\ W[i].unanswered \in Seq(BalancedTask) /\ t \in BalancedTask
      /\ i \in DOMAIN W
  BY StateFields, WorkerFields
<1>2. /\ \A l \in DOMAIN W :
             W[l].unanswered = IF W[l].taskId = NoTaskId THEN <<>> ELSE <<W[l].taskId>>
      /\ \A l, m \in DOMAIN W : W[l].taskId = W[m].taskId /\ W[l].taskId # NoTaskId => l = m
  BY DEF Once, Alone
<1>3. W[i].unanswered = <<W[i].taskId>> /\ t = W[i].taskId
  <2>1. W[i].unanswered # <<>>
    BY <1>1
  <2>2. W[i].unanswered = <<W[i].taskId>>
    BY <1>1, <1>2, <2>1
  <2>. QED  BY <2>2
<1>4. RemoveAt(W[i].unanswered, j) = <<>>
  <2>1. Len(W[i].unanswered) = 1
    BY <1>3
  <2>2. ASSUME NEW u \in Seq(BalancedTask), Len(u) = 1, NEW l \in DOMAIN u
        PROVE  RemoveAt(u, l) = <<>>
    <3>1. RemoveAt(u, l) \in Seq(BalancedTask) /\ Len(RemoveAt(u, l)) = Len(u) - 1
      BY RemovedAt
    <3>2. Len(RemoveAt(u, l)) = 0
      BY <2>2, <3>1
    <3>. HIDE DEF W
    <3>. QED  BY <3>1, <3>2
  <2>3. j \in DOMAIN W[i].unanswered
    OBVIOUS
  <2>. HIDE DEF W
  <2>. QED  BY <1>1, <2>1, <2>2, <2>3
<1>5. /\ h \in BalancedPoolState /\ w \in WorkerState /\ X = [W EXCEPT ![i] = w]
      /\ w.taskId = W[i].taskId /\ w.unanswered = <<>>
      /\ h.tasks = q.tasks /\ h.timeouts = q.timeouts /\ h.retryTimers = q.retryTimers
  BY <1>4, AnswerFields DEF HasAnswered
<1>. HIDE DEF h, w
<1>6. X \in Seq(WorkerState) /\ DOMAIN X = DOMAIN W /\ X[i] = w
      /\ \A l \in DOMAIN W : l # i => X[l] = W[l]
  BY <1>1, <1>5, WorkerReplaced
<1>7. i \in Marked(X, t)
  BY <1>1, <1>3, <1>5, <1>6 DEF Marked
<1>8. /\ k \in DOMAIN X /\ X[k].taskId = t /\ V = IdleAt(X, k)
      /\ r.tasks = q.tasks /\ r.timeouts = q.timeouts /\ r.retryTimers = q.retryTimers
  <2>1. h \in BalancedPoolState /\ Marked(h.workers, t) # {}
    BY <1>5, <1>7
  <2>2. HasFreed(h, t)
    <3>. HIDE DEF t
    <3>. QED  BY <2>1, FreedFields
  <2>. HIDE DEF t
  <2>. QED  BY <1>5, <2>2 DEF HasFreed
<1>. HIDE DEF t
<1>9. t # NoTaskId
  BY <1>1, BalancerAssumption DEF BalancerAssumption
<1>10. k = i
  <2>1. W[k].taskId = t /\ k \in DOMAIN W
    BY <1>3, <1>5, <1>6, <1>8
  <2>. QED  BY <1>1, <1>2, <1>3, <1>9, <2>1
<1>. HIDE DEF X, V, r, k
<1>11. /\ DOMAIN V = DOMAIN W /\ V[i].taskId = NoTaskId /\ V[i].unanswered = <<>>
       /\ \A l \in DOMAIN W : l # i => V[l] = W[l]
  <2>1. V = [X EXCEPT ![i] = v] /\ v \in WorkerState /\ v.taskId = NoTaskId
        /\ v.unanswered = X[i].unanswered
    BY <1>6, <1>8, <1>10, IdleAtFields
  <2>. HIDE DEF v
  <2>2. DOMAIN V = DOMAIN X /\ V[i] = v /\ \A l \in DOMAIN X : l # i => V[l] = X[l]
    BY <1>1, <1>6, <2>1, WorkerReplaced
  <2>. QED  BY <1>5, <1>6, <2>1, <2>2
<1>12. Alone(V)
  <2>1. ASSUME NEW l \in DOMAIN W
        PROVE  V[l].unanswered = IF V[l].taskId = NoTaskId THEN <<>> ELSE <<V[l].taskId>>
    BY <1>2, <1>11
  <2>2. ASSUME NEW l \in DOMAIN W, NEW m \in DOMAIN W, V[l].taskId = V[m].taskId,
               V[l].taskId # NoTaskId
        PROVE  l = m
    BY <1>2, <1>11, <2>2
  <2>. QED  BY <1>11, <2>1, <2>2 DEF Alone
<1>13. ASSUME NEW u \in BalancedTask, Begun(r, u)  PROVE Begun(q, u)
  <2>1. Marked(V, u) # {} => Marked(W, u) # {}
    <3>1. u # NoTaskId
      BY BalancerAssumption DEF BalancerAssumption
    <3>. QED  BY <1>11, <3>1 DEF Marked
  <2>. QED  BY <1>8, <1>13, <2>1 DEF Begun, V
<1>14. Once(r, c, s)
  BY <1>8, <1>12, <1>13, OnceKept DEF V
<1>15. Begun(q, t)
  BY <1>1, <1>3 DEF Begun, Marked
<1>16. Waits(q, c, t) = 0
  BY <1>1, <1>15 DEF Once
<1>. QED  BY <1>7, <1>14, <1>16 DEF t, h, r, X

Idles(q, r) == BusyWorkers(r) \in SUBSET BusyWorkers(q)

LEMMA BusyFinite ==
    ASSUME NEW q \in BalancedPoolState
    PROVE  /\ IsFiniteSet(BusyWorkers(q)) /\ Cardinality(BusyWorkers(q)) \in Nat
           /\ \A r : Idles(q, r) => Cardinality(BusyWorkers(r)) <= Cardinality(BusyWorkers(q))
<1>1. IsFiniteSet(DOMAIN q.workers) /\ BusyWorkers(q) \in SUBSET DOMAIN q.workers
  BY StateFields, WorkerFields DEF BusyWorkers
<1>2. IsFiniteSet(BusyWorkers(q)) /\ Cardinality(BusyWorkers(q)) \in Nat
  BY <1>1, FS_Subset, FS_CardinalityType
<1>. QED  BY <1>2, FS_Subset DEF Idles

\* What is known when a thread has answered.
SoundAnswer(q, c, s, d, i, j) ==
    LET t == q.workers[i].unanswered[j]
        h == AnswerTaken(q, i, j) IN
    /\ h.workers \in Seq(WorkerState) /\ DOMAIN h.workers = DOMAIN q.workers
    /\ \A k \in DOMAIN q.workers : h.workers[k].taskId = q.workers[k].taskId
    /\ t \in BalancedTask
    /\ Marked(q.workers, t) = {} => Sound(h, c, s, d) /\ Idles(q, h)
    /\ Marked(q.workers, t) # {} =>
         /\ Sound(Freed(h, t), c, s, d) /\ Idles(q, Freed(h, t))
         /\ Freed(h, t).tasks = q.tasks
         /\ UsedOnce(s) => Occurrences(q.tasks, t) = 0

\* handleWorkerMessage up to what it does about an error.
LEMMA AnswerSound ==
    ASSUME NEW q, NEW c \in [BalancedTask -> Nat], NEW s \in [BalancedTask -> Nat], NEW d,
           Sound(q, c, s, d), NEW i \in DOMAIN q.workers,
           NEW j \in DOMAIN q.workers[i].unanswered
    PROVE  SoundAnswer(q, c, s, d, i, j)
<1>. DEFINE W == q.workers
            t == W[i].unanswered[j]
            h == AnswerTaken(q, i, j)
            X == h.workers
            r == Freed(h, t)
            w == [W[i] EXCEPT !.unanswered = RemoveAt(W[i].unanswered, j)]
<1>1. /\ q \in BalancedPoolState /\ W \in Seq(WorkerState) /\ t \in BalancedTask
      /\ i \in DOMAIN W
  BY StateFields, WorkerFields DEF Sound
<1>2. /\ h \in BalancedPoolState /\ w \in WorkerState /\ X = [W EXCEPT ![i] = w]
      /\ w.taskId = W[i].taskId
      /\ h.tasks = q.tasks /\ h.timeouts = q.timeouts /\ h.retryTimers = q.retryTimers
      /\ h.stage = q.stage
  <2>1. HasAnswered(q, i, j)
    BY <1>1, AnswerFields
  <2>. QED  BY <2>1 DEF HasAnswered
<1>. HIDE DEF h, w
<1>3. /\ X \in Seq(WorkerState) /\ DOMAIN X = DOMAIN W
      /\ \A k \in DOMAIN W : X[k].taskId = W[k].taskId
  BY <1>1, <1>2, WorkerReplaced
<1>4. Marked(X, t) = Marked(W, t) /\ BusyWorkers(h) = BusyWorkers(q)
  BY <1>3 DEF Marked, BusyWorkers
<1>5. d = 0 /\ q.stage = "open" => Marked(X, t) # {} /\ Matched(r.workers)
  BY <1>1, AnswerKeepsMatched DEF Sound, h
<1>6. UsedOnce(s) => Marked(X, t) # {} /\ Waits(q, c, t) = 0 /\ Once(r, c, s)
  BY <1>1, AnswerKeepsOnce DEF Sound, h
<1>7. Marked(W, t) = {} => Sound(h, c, s, d) /\ Idles(q, h)
  <2>1. Marked(W, t) = {} => Sound(h, c, s, d)
    BY <1>2, <1>4, <1>5, <1>6 DEF Sound
  <2>. QED  BY <1>4, <2>1 DEF Idles
<1>8. ASSUME Marked(W, t) # {}
      PROVE  /\ Sound(r, c, s, d) /\ Idles(q, r) /\ r.tasks = q.tasks
             /\ UsedOnce(s) => Occurrences(q.tasks, t) = 0
  <2>. DEFINE k == FirstWith(h, t)
  <2>1. /\ k \in DOMAIN X /\ r \in BalancedPoolState /\ r.workers = IdleAt(X, k)
        /\ r.tasks = h.tasks /\ r.stage = h.stage
    <3>1. h \in BalancedPoolState /\ Marked(h.workers, t) # {}
      BY <1>2, <1>4, <1>8
    <3>. HIDE DEF t
    <3>2. HasFreed(h, t)
      BY <3>1, FreedFields
    <3>. QED  BY <1>2, <3>2 DEF HasFreed
  <2>. HIDE DEF k, r, X
  <2>2. DOMAIN r.workers = DOMAIN X
        /\ \A l \in DOMAIN X : r.workers[l].taskId \in {X[l].taskId, NoTaskId}
    <3>. DEFINE v == [X[k] EXCEPT !.taskId = NoTaskId]
    <3>1. r.workers = [X EXCEPT ![k] = v] /\ v \in WorkerState /\ v.taskId = NoTaskId
      BY <1>3, <2>1, IdleAtFields
    <3>. HIDE DEF v
    <3>2. DOMAIN r.workers = DOMAIN X /\ r.workers[k] = v
          /\ \A l \in DOMAIN X : l # k => r.workers[l] = X[l]
      BY <1>3, <2>1, <3>1, WorkerReplaced
    <3>. QED  BY <3>1, <3>2
  <2>3. Idles(q, r)
    BY <1>3, <2>2 DEF Idles, BusyWorkers
  <2>4. UsedOnce(s) => Occurrences(q.tasks, t) = 0
    <3>1. Occurrences(q.tasks, t) \in Nat /\ c[t] \in Nat
      BY <1>1, StateFields, OccurrencesType
    <3>. QED  BY <1>6, <3>1 DEF Waits
  <2>5. Sound(r, c, s, d)
    BY <1>2, <1>5, <1>6, <2>1 DEF Sound
  <2>. QED  BY <1>2, <2>1, <2>3, <2>4, <2>5
<1>. QED  BY <1>1, <1>3, <1>7, <1>8 DEF SoundAnswer, h
-----------------------------------------------------------------------------
\* A task that does not wait more, and was begun only if it was begun before.
LEMMA OnceKeptWaitingLess ==
    ASSUME NEW q \in BalancedPoolState, NEW r \in BalancedPoolState,
           NEW c \in [BalancedTask -> Nat], NEW e \in [BalancedTask -> Nat],
           NEW s \in [BalancedTask -> Nat], Once(q, c, s),
           r.retryTimers = q.retryTimers, Alone(r.workers),
           \A u \in BalancedTask : /\ Waits(r, e, u) <= Waits(q, c, u)
                                   /\ Begun(r, u) => Begun(q, u)
    PROVE  Once(r, e, s)
<1>1. ASSUME NEW u \in BalancedTask
      PROVE  /\ r.retryTimers[u] = 0 /\ Waits(r, e, u) <= s[u]
             /\ Begun(r, u) => Waits(r, e, u) = 0 /\ s[u] # 0
  <2>1. Waits(q, c, u) \in Nat /\ Waits(r, e, u) \in Nat /\ s[u] \in Nat
    <3>1. Occurrences(q.tasks, u) \in Nat /\ Occurrences(r.tasks, u) \in Nat
      BY StateFields, OccurrencesType
    <3>. QED  BY <3>1 DEF Waits
  <2>2. /\ q.retryTimers[u] = 0 /\ Waits(q, c, u) <= s[u]
        /\ Begun(q, u) => Waits(q, c, u) = 0 /\ s[u] # 0
    BY DEF Once
  <2>3. Waits(r, e, u) <= Waits(q, c, u) /\ (Begun(r, u) => Begun(q, u))
    OBVIOUS
  <2>. QED  BY <2>1, <2>2, <2>3
<1>. QED  BY <1>1 DEF Once

\* handleTaskError, of a task that an id used once leaves nowhere in the queue.
LEMMA TaskErrorSound ==
    ASSUME NEW q, NEW c, NEW s, NEW d, Sound(q, c, s, d), NEW t \in BalancedTask,
           UsedOnce(s) => Occurrences(q.tasks, t) = 0
    PROVE  /\ Sound(AfterTaskError(q, t), c, s, d)
           /\ AfterTaskError(q, t).workers = q.workers
<1>. DEFINE r == [q EXCEPT !.retries[t] = @ + 1, !.retryTimers[t] = @ + 1]
<1>1. q \in BalancedPoolState
  BY DEF Sound
<1>2. CASE ~Retried(q, t)
  BY <1>2 DEF AfterTaskError
<1>3. CASE Retried(q, t)
  <2>1. ~UsedOnce(s)
    <3>1. q.tasks \in Seq(BalancedTask) /\ t \in Elements(q.tasks)
      BY <1>1, <1>3, StateFields DEF Retried
    <3>2. Occurrences(q.tasks, t) # 0
      BY <3>1, OccurrencesType DEF Elements
    <3>. QED  BY <3>2
  <2>. DEFINE a == [q.retries EXCEPT ![t] = @ + 1]
              b == [q.retryTimers EXCEPT ![t] = @ + 1]
  <2>2. a \in Counts /\ b \in Counts
    BY <1>1, StateFields DEF Counts
  <2>3. r = [q EXCEPT !.retries = a, !.retryTimers = b]
    BY <1>1 DEF BalancedPoolState
  <2>. HIDE DEF a, b
  <2>4. r \in BalancedPoolState /\ r.workers = q.workers /\ r.stage = q.stage
    <3>. HIDE DEF r
    <3>. QED  BY <1>1, <2>2, <2>3 DEF BalancedPoolState
  <2>. HIDE DEF r
  <2>5. Sound(r, c, s, d)
    BY <2>1, <2>4 DEF Sound
  <2>6. AfterTaskError(q, t) = r
    BY <1>3 DEF AfterTaskError, r
  <2>. QED  BY <2>4, <2>5, <2>6
<1>. QED  BY <1>2, <1>3

LEMMA EnqueuedFields ==
    ASSUME NEW q \in BalancedPoolState, NEW t \in BalancedTask
    PROVE  /\ Enqueued(q, t) \in BalancedPoolState
           /\ Enqueued(q, t).workers = q.workers /\ Enqueued(q, t).stage = q.stage
           /\ Enqueued(q, t).timeouts = q.timeouts
           /\ Enqueued(q, t).retryTimers = q.retryTimers
           /\ \A u : Occurrences(Enqueued(q, t).tasks, u)
                       = Occurrences(q.tasks, u) + (IF t = u THEN 1 ELSE 0)
<1>. DEFINE e == <<t>>
            a == Append(q.tasks, t)
<1>1. q.tasks \in Seq(BalancedTask) /\ a \in Seq(BalancedTask) /\ a = q.tasks \o e /\ e \in Seq(BalancedTask)
  BY StateFields, AppendProperties, AppendIsConcat
<1>2. \A u : Occurrences(e, u) = IF t = u THEN 1 ELSE 0
  BY SingletonOccurrences
<1>3. /\ Enqueued(q, t).tasks = a /\ Enqueued(q, t) = [q EXCEPT !.tasks = a]
      /\ Enqueued(q, t).workers = q.workers /\ Enqueued(q, t).stage = q.stage
      /\ Enqueued(q, t).timeouts = q.timeouts
      /\ Enqueued(q, t).retryTimers = q.retryTimers
  BY DEF Enqueued, BalancedPoolState
<1>. HIDE DEF e, a
<1>4. Enqueued(q, t) \in BalancedPoolState
  BY <1>1, <1>3 DEF BalancedPoolState
<1>5. ASSUME NEW u  PROVE Occurrences(a, u) = Occurrences(q.tasks, u) + (IF t = u THEN 1 ELSE 0)
  <2>1. Occurrences(q.tasks \o e, u) = Occurrences(q.tasks, u) + Occurrences(e, u)
    BY <1>1, ConcatOccurrences
  <2>. QED  BY <1>1, <1>2, <2>1
<1>. QED  BY <1>3, <1>4, <1>5

\* submitTask of a pool: a submission that was on its way has arrived.
LEMMA EnqueuedSound ==
    ASSUME NEW q, NEW c \in [BalancedTask -> Nat], NEW s \in [BalancedTask -> Nat], NEW d,
           Sound(q, c, s, d), NEW t \in BalancedTask, c[t] > 0
    PROVE  Sound(Enqueued(q, t), [c EXCEPT ![t] = c[t] - 1], s, d)
<1>. DEFINE e == [c EXCEPT ![t] = c[t] - 1]
            r == Enqueued(q, t)
<1>1. q \in BalancedPoolState
  BY DEF Sound
<1>2. /\ r \in BalancedPoolState /\ r.workers = q.workers /\ r.stage = q.stage
      /\ r.timeouts = q.timeouts /\ r.retryTimers = q.retryTimers
      /\ \A u : Occurrences(r.tasks, u) = Occurrences(q.tasks, u) + (IF t = u THEN 1 ELSE 0)
  BY <1>1, EnqueuedFields
<1>3. e \in [BalancedTask -> Nat] /\ \A u \in BalancedTask : e[u] = c[u] - (IF t = u THEN 1 ELSE 0)
  OBVIOUS
<1>. HIDE DEF e, r
<1>4. ASSUME NEW u \in BalancedTask
      PROVE  Waits(r, e, u) <= Waits(q, c, u) /\ (Begun(r, u) => Begun(q, u))
  <2>1. Occurrences(q.tasks, u) \in Nat
    BY <1>1, StateFields, OccurrencesType
  <2>2. Waits(r, e, u) = Waits(q, c, u) /\ Waits(q, c, u) \in Nat
    BY <1>2, <1>3, <2>1 DEF Waits
  <2>. QED  BY <1>2, <2>2 DEF Begun
<1>5. Once(q, c, s) => Once(r, e, s)
  <2>1. SUFFICES ASSUME Once(q, c, s)  PROVE Once(r, e, s)
    OBVIOUS
  <2>2. Alone(r.workers)
    BY <1>2, <2>1 DEF Once
  <2>. QED  BY <1>1, <1>2, <1>3, <1>4, <2>1, <2>2, OnceKeptWaitingLess
<1>6. Sound(r, e, s, d)
  BY <1>2, <1>5 DEF Sound
<1>. QED  BY <1>6 DEF e, r

\* A task whose id is used once is never retried.
LEMMA RetrySound ==
    ASSUME NEW q, NEW c \in [BalancedTask -> Nat], NEW s \in [BalancedTask -> Nat], NEW d,
           Sound(q, c, s, d), NEW t \in BalancedTask, q.retryTimers[t] > 0
    PROVE  LET r == [q EXCEPT !.retryTimers[t] = @ - 1] IN
           Sound(Enqueued(r, t), c, s, d) /\ Enqueued(r, t).workers = q.workers
<1>. DEFINE r == [q EXCEPT !.retryTimers[t] = @ - 1]
<1>1. q \in BalancedPoolState
  BY DEF Sound
<1>2. ~UsedOnce(s)
  BY DEF Sound, Once
<1>3. r \in BalancedPoolState /\ r.workers = q.workers /\ r.stage = q.stage
  <2>. DEFINE a == [q.retryTimers EXCEPT ![t] = @ - 1]
  <2>1. a \in Counts
    BY <1>1, StateFields DEF Counts
  <2>2. r = [q EXCEPT !.retryTimers = a]
    BY <1>1 DEF BalancedPoolState
  <2>. HIDE DEF a, r
  <2>. QED  BY <1>1, <2>1, <2>2 DEF BalancedPoolState
<1>. HIDE DEF r
<1>4. /\ Enqueued(r, t) \in BalancedPoolState /\ Enqueued(r, t).workers = q.workers
      /\ Enqueued(r, t).stage = q.stage
  BY <1>3, EnqueuedFields
<1>5. Sound(Enqueued(r, t), c, s, d)
  BY <1>2, <1>4 DEF Sound
<1>. QED  BY <1>4, <1>5 DEF r

\* A timer fires, when the task was begun.
LEMMA TimeoutSound ==
    ASSUME NEW q, NEW c \in [BalancedTask -> Nat], NEW s \in [BalancedTask -> Nat], NEW d,
           Sound(q, c, s, d), NEW t \in BalancedTask, q.timeouts[t] > 0
    PROVE  LET r == [q EXCEPT !.timeouts[t] = @ - 1] IN
           /\ Sound(r, c, s, d) /\ r.workers = q.workers
           /\ UsedOnce(s) => Occurrences(r.tasks, t) = 0
<1>. DEFINE r == [q EXCEPT !.timeouts[t] = @ - 1]
<1>1. q \in BalancedPoolState
  BY DEF Sound
<1>2. /\ r \in BalancedPoolState /\ r.workers = q.workers /\ r.stage = q.stage
      /\ r.tasks = q.tasks /\ r.retryTimers = q.retryTimers
      /\ r.timeouts = [q.timeouts EXCEPT ![t] = @ - 1]
  <2>. DEFINE a == [q.timeouts EXCEPT ![t] = @ - 1]
  <2>1. a \in Counts
    BY <1>1, StateFields DEF Counts
  <2>2. r = [q EXCEPT !.timeouts = a]
    BY <1>1 DEF BalancedPoolState
  <2>3. a = [q.timeouts EXCEPT ![t] = @ - 1]
    OBVIOUS
  <2>. HIDE DEF a, r
  <2>. QED  BY <1>1, <2>1, <2>2, <2>3 DEF BalancedPoolState
<1>. HIDE DEF r
<1>3. ASSUME UsedOnce(s)  PROVE Once(r, c, s) /\ Occurrences(r.tasks, t) = 0
  <2>1. Once(q, c, s)
    BY <1>3 DEF Sound
  <2>2. Occurrences(q.tasks, t) \in Nat /\ c[t] \in Nat
    BY <1>1, StateFields, OccurrencesType
  <2>3. Waits(q, c, t) = 0
    BY <2>1 DEF Once, Begun
  <2>4. Occurrences(q.tasks, t) = 0
    BY <2>2, <2>3 DEF Waits
  <2>5. ASSUME NEW u \in BalancedTask, Begun(r, u)  PROVE Begun(q, u)
    <3>1. r.timeouts[u] > 0 => q.timeouts[u] > 0
      BY <1>1, <1>2, StateFields
    <3>. QED  BY <1>2, <2>5, <3>1 DEF Begun
  <2>6. Alone(r.workers)
    BY <1>2, <2>1 DEF Once
  <2>. QED  BY <1>2, <2>1, <2>4, <2>5, <2>6, OnceKept
<1>4. Sound(r, c, s, d)
  BY <1>2, <1>3 DEF Sound
<1>. QED  BY <1>2, <1>3, <1>4 DEF r
-----------------------------------------------------------------------------
\* Workers that are moved, and new ones: from[k] is where the k-th one was, or 0.
Moved(W, V, from) ==
    /\ from \in [DOMAIN V -> DOMAIN W \cup {0}]
    /\ \A k \in DOMAIN V :
         IF from[k] = 0 THEN V[k].taskId = NoTaskId /\ V[k].unanswered = <<>>
         ELSE V[k].taskId = W[from[k]].taskId /\ V[k].unanswered = W[from[k]].unanswered
    /\ \A k, l \in DOMAIN V : from[k] = from[l] /\ from[k] # 0 => k = l

LEMMA MovedKeepsAlone ==
    ASSUME NEW W, NEW V, NEW from, Moved(W, V, from), 0 \notin DOMAIN W, Alone(W)
    PROVE  Alone(V)
<1>1. ASSUME NEW k \in DOMAIN V
      PROVE  V[k].unanswered = IF V[k].taskId = NoTaskId THEN <<>> ELSE <<V[k].taskId>>
  <2>1. CASE from[k] = 0
    BY <2>1 DEF Moved
  <2>2. CASE from[k] # 0
    <3>1. /\ from[k] \in DOMAIN W /\ V[k].taskId = W[from[k]].taskId
          /\ V[k].unanswered = W[from[k]].unanswered
      BY <2>2 DEF Moved
    <3>. QED  BY <3>1 DEF Alone
  <2>. QED  BY <2>1, <2>2
<1>2. ASSUME NEW k \in DOMAIN V, NEW l \in DOMAIN V, V[k].taskId = V[l].taskId,
             V[k].taskId # NoTaskId
      PROVE  k = l
  <2>1. from[k] # 0 /\ from[l] # 0
    BY <1>2 DEF Moved
  <2>2. /\ from[k] \in DOMAIN W /\ from[l] \in DOMAIN W
        /\ W[from[k]].taskId = V[k].taskId /\ W[from[l]].taskId = V[l].taskId
    BY <2>1 DEF Moved
  <2>3. from[k] = from[l]
    BY <1>2, <2>2 DEF Alone
  <2>. QED  BY <2>1, <2>3 DEF Moved
<1>. QED  BY <1>1, <1>2 DEF Alone

LEMMA MovedMarks ==
    ASSUME NEW W, NEW V, NEW from, Moved(W, V, from), NEW u \in BalancedTask,
           Marked(V, u) # {}
    PROVE  Marked(W, u) # {}
<1>1. PICK k \in DOMAIN V : V[k].taskId = u
  BY DEF Marked
<1>2. u # NoTaskId
  BY BalancerAssumption DEF BalancerAssumption
<1>3. from[k] # 0
  BY <1>1, <1>2 DEF Moved
<1>4. from[k] \in DOMAIN W /\ W[from[k]].taskId = u
  BY <1>1, <1>3 DEF Moved
<1>. QED  BY <1>4 DEF Marked

\* Neither the queue nor the timers change; d is not 0 or the pool is not open.
LEMMA MovedSound ==
    ASSUME NEW q \in BalancedPoolState, NEW r \in BalancedPoolState,
           NEW c, NEW s, NEW d, NEW e, Sound(q, c, s, d),
           NEW from, Moved(q.workers, r.workers, from),
           r.tasks = q.tasks, r.timeouts = q.timeouts, r.retryTimers = q.retryTimers,
           e = 0 => r.stage # "open"
    PROVE  Sound(r, c, s, e)
<1>1. 0 \notin DOMAIN q.workers
  BY StateFields, WorkerFields
<1>2. ASSUME Once(q, c, s)  PROVE Once(r, c, s)
  <2>1. Alone(r.workers)
    BY <1>1, <1>2, MovedKeepsAlone DEF Once
  <2>2. ASSUME NEW u \in BalancedTask, Begun(r, u)  PROVE Begun(q, u)
    <3>1. Marked(r.workers, u) # {} => Marked(q.workers, u) # {}
      BY MovedMarks
    <3>. QED  BY <2>2, <3>1 DEF Begun
  <2>. QED  BY <1>2, <2>1, <2>2, OnceKept
<1>. QED  BY <1>2 DEF Sound

LEMMA MovedBusy ==
    ASSUME NEW q \in BalancedPoolState, NEW r \in BalancedPoolState,
           NEW from, Moved(q.workers, r.workers, from)
    PROVE  Cardinality(BusyWorkers(r)) <= Cardinality(BusyWorkers(q))
<1>. DEFINE A == BusyWorkers(r)
            B == BusyWorkers(q)
            f == [k \in A |-> from[k]]
<1>1. \A k \in A : from[k] \in B /\ from[k] # 0
  BY DEF Moved, BusyWorkers
<1>2. \A k, l \in A : from[k] = from[l] => k = l
  <2>1. \A k \in A : k \in DOMAIN r.workers
    BY DEF BusyWorkers
  <2>. HIDE DEF A, B
  <2>. QED  BY <1>1, <2>1 DEF Moved
<1>3. IsFiniteSet(A) /\ IsFiniteSet(B)
  BY BusyFinite
<1>. HIDE DEF A, B
<1>4. f \in Injection(A, B)
  BY <1>1, <1>2 DEF Injection, IsInjective
<1>5. Cardinality(A) <= Cardinality(B)
  BY <1>3, <1>4, FS_Injection
<1>. QED  BY <1>5 DEF A, B

\* handleWorkerExit.
Died(q, i) == [q EXCEPT !.workers = Append(RemoveAt(q.workers, i), NewWorker)]

LEMMA DiesSound ==
    ASSUME NEW q, NEW c, NEW s, NEW d, NEW e, Sound(q, c, s, d),
           NEW i \in DOMAIN q.workers, (q.workers[i].ending /\ e = d) \/ e # 0
    PROVE  /\ Sound(Died(q, i), c, s, e)
           /\ Cardinality(BusyWorkers(Died(q, i))) <= Cardinality(BusyWorkers(q))
<1>. DEFINE W == q.workers
            n == Len(W)
            R == RemoveAt(W, i)
            V == Append(R, NewWorker)
            r == [q EXCEPT !.workers = V]
            from == [k \in 1..n |-> IF k = n THEN 0 ELSE IF k < i THEN k ELSE k + 1]
<1>1. q \in BalancedPoolState /\ W \in Seq(WorkerState)
  BY StateFields DEF Sound
<1>2. n \in Nat /\ DOMAIN W = 1..n /\ i \in 1..n
  BY <1>1, WorkerFields
<1>3. /\ R \in Seq(WorkerState) /\ Len(R) = n - 1
      /\ \A k \in 1..(n - 1) : R[k] = W[IF k < i THEN k ELSE k + 1]
  BY <1>1, RemovedAt
<1>. HIDE DEF R, n
<1>4. /\ V \in Seq(WorkerState) /\ DOMAIN V = 1..n /\ V[n] = NewWorker
      /\ \A k \in 1..(n - 1) : V[k] = W[IF k < i THEN k ELSE k + 1]
  <2>1. V \in Seq(WorkerState) /\ Len(V) = n
    BY <1>2, <1>3, NewWorkerType, AppendProperties
  <2>2. \A k \in 1..(n - 1) : V[k] = R[k]
    BY <1>2, <1>3, NewWorkerType, AppendProperties
  <2>3. V[n] = NewWorker
    BY <1>2, <1>3, NewWorkerType, AppendProperties
  <2>. HIDE DEF V
  <2>. QED  BY <1>2, <1>3, <2>1, <2>2, <2>3
<1>. HIDE DEF V
<1>5. r \in BalancedPoolState /\ r.workers = V
      /\ r.tasks = q.tasks /\ r.timeouts = q.timeouts /\ r.retryTimers = q.retryTimers
      /\ r.stage = q.stage
  BY <1>1, <1>4 DEF BalancedPoolState
<1>6. Moved(W, V, from)
  <2>1. from \in [DOMAIN V -> DOMAIN W \cup {0}]
    BY <1>2, <1>4
  <2>2. ASSUME NEW k \in DOMAIN V
        PROVE  IF from[k] = 0 THEN V[k].taskId = NoTaskId /\ V[k].unanswered = <<>>
               ELSE V[k].taskId = W[from[k]].taskId /\ V[k].unanswered = W[from[k]].unanswered
    <3>1. CASE k = n
      <4>1. from[k] = 0 /\ V[k] = NewWorker
        BY <1>2, <1>4, <3>1
      <4>. QED  BY <4>1 DEF NewWorker
    <3>2. CASE k # n
      <4>1. k \in 1..(n - 1) /\ from[k] = IF k < i THEN k ELSE k + 1
        BY <1>2, <1>4, <3>2
      <4>2. from[k] # 0
        BY <4>1
      <4>3. V[k] = W[from[k]]
        BY <1>4, <4>1
      <4>. QED  BY <4>2, <4>3
    <3>. QED  BY <3>1, <3>2
  <2>3. ASSUME NEW k \in DOMAIN V, NEW l \in DOMAIN V, from[k] = from[l], from[k] # 0
        PROVE  k = l
    BY <1>2, <1>4, <2>3
  <2>. HIDE DEF from
  <2>. QED  BY <2>1, <2>2, <2>3 DEF Moved
<1>. HIDE DEF from, r
<1>7. e = 0 => r.stage # "open"
  BY <1>5 DEF Sound, Matched
<1>8. Sound(r, c, s, e)
  BY <1>1, <1>5, <1>6, <1>7, MovedSound
<1>9. Cardinality(BusyWorkers(r)) <= Cardinality(BusyWorkers(q))
  BY <1>1, <1>5, <1>6, MovedBusy
<1>. QED  BY <1>8, <1>9 DEF Died, r, V, R

\* ... of a thread that is in no array.
Revived(q) == [q EXCEPT !.leaked = @ - 1, !.workers = Append(@, NewWorker)]

LEMMA LeakedSound ==
    ASSUME NEW q, NEW c, NEW s, NEW d, NEW e, Sound(q, c, s, d), e # 0, q.leaked > 0
    PROVE  /\ Sound(Revived(q), c, s, e)
           /\ Cardinality(BusyWorkers(Revived(q))) <= Cardinality(BusyWorkers(q))
<1>. DEFINE W == q.workers
            n == Len(W)
            V == Append(W, NewWorker)
            m == q.leaked - 1
            r == [q EXCEPT !.leaked = m, !.workers = V]
            from == [k \in 1..(n + 1) |-> IF k = n + 1 THEN 0 ELSE k]
<1>1. q \in BalancedPoolState /\ W \in Seq(WorkerState) /\ q.leaked \in Nat /\ m \in Nat
  BY StateFields DEF Sound
<1>2. n \in Nat /\ DOMAIN W = 1..n
  BY <1>1, WorkerFields
<1>3. /\ V \in Seq(WorkerState) /\ DOMAIN V = 1..(n + 1) /\ V[n + 1] = NewWorker
      /\ \A k \in 1..n : V[k] = W[k]
  BY <1>1, <1>2, NewWorkerType, AppendProperties
<1>4. r = Revived(q)
  BY <1>1 DEF Revived, BalancedPoolState
<1>. HIDE DEF V, m, n
<1>5. r \in BalancedPoolState /\ r.workers = V
      /\ r.tasks = q.tasks /\ r.timeouts = q.timeouts /\ r.retryTimers = q.retryTimers
  BY <1>1, <1>3 DEF BalancedPoolState
<1>. HIDE DEF r
<1>6. Moved(W, V, from)
  <2>1. from \in [DOMAIN V -> DOMAIN W \cup {0}]
    BY <1>2, <1>3
  <2>2. ASSUME NEW k \in DOMAIN V
        PROVE  IF from[k] = 0 THEN V[k].taskId = NoTaskId /\ V[k].unanswered = <<>>
               ELSE V[k].taskId = W[from[k]].taskId /\ V[k].unanswered = W[from[k]].unanswered
    <3>1. CASE k = n + 1
      <4>1. from[k] = 0 /\ V[k] = NewWorker
        BY <1>2, <1>3, <3>1
      <4>. QED  BY <4>1 DEF NewWorker
    <3>2. CASE k # n + 1
      <4>1. from[k] = k /\ k # 0 /\ V[k] = W[k]
        BY <1>2, <1>3, <3>2
      <4>. QED  BY <4>1
    <3>. QED  BY <3>1, <3>2
  <2>3. ASSUME NEW k \in DOMAIN V, NEW l \in DOMAIN V, from[k] = from[l], from[k] # 0
        PROVE  k = l
    BY <1>2, <1>3, <2>3
  <2>. HIDE DEF from
  <2>. QED  BY <2>1, <2>2, <2>3 DEF Moved
<1>. HIDE DEF from
<1>7. Sound(r, c, s, e)
  BY <1>1, <1>5, <1>6, MovedSound
<1>8. Cardinality(BusyWorkers(r)) <= Cardinality(BusyWorkers(q))
  BY <1>1, <1>5, <1>6, MovedBusy
<1>. QED  BY <1>4, <1>7, <1>8

\* close().
LEMMA TerminatingSound ==
    ASSUME NEW q, NEW c, NEW s, NEW d, Sound(q, c, s, d)
    PROVE  Sound(Terminating(q), c, s, d) /\ BusyWorkers(Terminating(q)) = BusyWorkers(q)
<1>. DEFINE W == q.workers
            V == [i \in DOMAIN W |-> [W[i] EXCEPT !.ending = TRUE]]
            r == Terminating(q)
            from == [k \in DOMAIN W |-> k]
<1>1. q \in BalancedPoolState /\ W \in Seq(WorkerState)
  BY StateFields DEF Sound
<1>2. Len(W) \in Nat /\ DOMAIN W = 1..Len(W)
  BY <1>1, WorkerFields
<1>3. \A i \in DOMAIN W : /\ [W[i] EXCEPT !.ending = TRUE] \in WorkerState
                          /\ [W[i] EXCEPT !.ending = TRUE].taskId = W[i].taskId
                          /\ [W[i] EXCEPT !.ending = TRUE].unanswered = W[i].unanswered
  <2>1. \A i \in DOMAIN W : W[i] \in WorkerState
    BY <1>1, WorkerFields
  <2>. QED  BY <2>1 DEF WorkerState
<1>4. /\ V \in Seq(WorkerState) /\ DOMAIN V = DOMAIN W
      /\ \A i \in DOMAIN W : V[i].taskId = W[i].taskId /\ V[i].unanswered = W[i].unanswered
  BY <1>2, <1>3
<1>. HIDE DEF V
<1>5. r = [q EXCEPT !.stage = "closing", !.workers = V]
  BY <1>1 DEF Terminating, BalancedPoolState, V
<1>6. r \in BalancedPoolState /\ r.workers = V /\ r.stage = "closing"
      /\ r.tasks = q.tasks /\ r.timeouts = q.timeouts /\ r.retryTimers = q.retryTimers
  <2>. HIDE DEF r
  <2>. QED  BY <1>1, <1>4, <1>5 DEF BalancedPoolState
<1>. HIDE DEF r
<1>7. Moved(W, V, from)
  BY <1>2, <1>4 DEF Moved
<1>8. Sound(r, c, s, d)
  <2>. HIDE DEF from
  <2>. QED  BY <1>1, <1>6, <1>7, MovedSound
<1>9. BusyWorkers(r) = BusyWorkers(q)
  BY <1>4, <1>6 DEF BusyWorkers
<1>. QED  BY <1>8, <1>9 DEF r

Shut(q) == [q EXCEPT !.stage = "closed", !.leaked = @ + Len(q.workers),
                     !.workers = <<>>, !.tasks = <<>>, !.retries = NoCounts]

LEMMA ClosedSound ==
    ASSUME NEW q, NEW c \in [BalancedTask -> Nat], NEW s \in [BalancedTask -> Nat], NEW d,
           Sound(q, c, s, d)
    PROVE  Sound(Shut(q), c, s, d) /\ Idles(q, Shut(q))
<1>. DEFINE m == q.leaked + Len(q.workers)
            r == [q EXCEPT !.stage = "closed", !.leaked = m,
                           !.workers = <<>>, !.tasks = <<>>, !.retries = NoCounts]
<1>1. q \in BalancedPoolState /\ q.workers \in Seq(WorkerState) /\ q.leaked \in Nat /\ m \in Nat
  BY StateFields DEF Sound
<1>2. r = Shut(q)
  BY <1>1 DEF Shut, BalancedPoolState
<1>3. NoCounts \in Counts
  BY DEF NoCounts, Counts
<1>. HIDE DEF m
<1>4. r \in BalancedPoolState /\ r.workers = <<>> /\ r.stage = "closed" /\ r.tasks = <<>>
      /\ r.timeouts = q.timeouts /\ r.retryTimers = q.retryTimers
  <2>1. PICK z : z = <<>> /\ z \in Seq(WorkerState) /\ z \in Seq(BalancedTask)
    BY EmptySeq
  <2>2. r = [q EXCEPT !.stage = "closed", !.leaked = m, !.workers = z, !.tasks = z, !.retries = NoCounts]
    BY <2>1
  <2>. HIDE DEF r
  <2>. QED  BY <1>1, <1>3, <2>1, <2>2 DEF BalancedPoolState
<1>. HIDE DEF r
<1>5. Alone(r.workers)
  BY <1>4 DEF Alone
<1>6. ASSUME NEW u \in BalancedTask
      PROVE  Waits(r, c, u) <= Waits(q, c, u) /\ (Begun(r, u) => Begun(q, u))
  <2>1. Occurrences(q.tasks, u) \in Nat /\ c[u] \in Nat
    BY <1>1, StateFields, OccurrencesType
  <2>2. Occurrences(r.tasks, u) = 0
    <3>1. r.tasks \in Seq(BalancedTask) /\ \A i \in DOMAIN r.tasks : r.tasks[i] # u
      BY <1>4
    <3>. QED  BY <3>1, OccurrencesType
  <2>3. Waits(r, c, u) <= Waits(q, c, u)
    BY <2>1, <2>2 DEF Waits
  <2>4. Marked(r.workers, u) = {}
    BY <1>4 DEF Marked
  <2>. QED  BY <1>4, <2>3, <2>4 DEF Begun
<1>7. Once(q, c, s) => Once(r, c, s)
  BY <1>1, <1>4, <1>5, <1>6, OnceKeptWaitingLess
<1>8. Sound(r, c, s, d)
  BY <1>4, <1>7 DEF Sound
<1>9. Idles(q, r)
  BY <1>4 DEF Idles, BusyWorkers
<1>. QED  BY <1>2, <1>8, <1>9

\* A submission, to this pool or to another one.
LEMMA SubmitSound ==
    ASSUME NEW q, NEW c \in [BalancedTask -> Nat], NEW s \in [BalancedTask -> Nat], NEW d,
           Sound(q, c, s, d), NEW t \in BalancedTask,
           NEW e \in [BalancedTask -> Nat], e[t] <= c[t] + 1,
           \A u \in BalancedTask : u # t => e[u] = c[u]
    PROVE  Sound(q, e, [s EXCEPT ![t] = @ + 1], d)
<1>. DEFINE z == [s EXCEPT ![t] = @ + 1]
<1>1. q \in BalancedPoolState
  BY DEF Sound
<1>2. z \in [BalancedTask -> Nat] /\ z[t] = s[t] + 1 /\ \A u \in BalancedTask : u # t => z[u] = s[u]
  OBVIOUS
<1>. HIDE DEF z
<1>3. ASSUME UsedOnce(z)  PROVE Once(q, e, z)
  <2>1. UsedOnce(s) /\ s[t] = 0
    <3>1. z[t] <= 1 /\ s[t] \in Nat
      BY <1>3 DEF UsedOnce
    <3>2. s[t] = 0
      BY <1>2, <3>1
    <3>3. \A u \in BalancedTask : s[u] <= 1
      BY <1>2, <1>3, <3>2 DEF UsedOnce
    <3>. QED  BY <3>2, <3>3 DEF UsedOnce
  <2>2. Once(q, c, s)
    BY <2>1 DEF Sound
  <2>3. ASSUME NEW u \in BalancedTask
        PROVE  /\ q.retryTimers[u] = 0 /\ Waits(q, e, u) <= z[u]
               /\ Begun(q, u) => Waits(q, e, u) = 0 /\ z[u] # 0
    <3>1. /\ q.retryTimers[u] = 0 /\ Waits(q, c, u) <= s[u]
          /\ Begun(q, u) => Waits(q, c, u) = 0 /\ s[u] # 0
      BY <2>2 DEF Once
    <3>2. Occurrences(q.tasks, u) \in Nat /\ c[u] \in Nat /\ e[u] \in Nat /\ s[u] \in Nat
      BY <1>1, StateFields, OccurrencesType
    <3>3. CASE u = t
      <4>1. ~Begun(q, u)
        BY <2>1, <3>1, <3>3
      <4>. QED  BY <1>2, <3>1, <3>2, <3>3, <4>1 DEF Waits
    <3>4. CASE u # t
      <4>1. e[u] = c[u] /\ z[u] = s[u]
        BY <1>2, <3>4
      <4>. QED  BY <3>1, <3>2, <4>1 DEF Waits
    <3>. QED  BY <3>3, <3>4
  <2>4. Alone(q.workers)
    BY <2>2 DEF Once
  <2>. QED  BY <2>3, <2>4 DEF Once
<1>4. Sound(q, e, z, d)
  BY <1>1, <1>3 DEF Sound
<1>. QED  BY <1>4 DEF z
-----------------------------------------------------------------------------
(***************************************************************************)
(* The balancer                                                            *)
(***************************************************************************)
\* The submissions that await selectPool and will go to p.
ChosenFor(p) == [t \in BalancedTask |-> Occurrences(chosen, [task |-> t, pool |-> p])]

\* What b holds of pool p, once heard of, is no less than the load of q.
Known(b, p, q) ==
    p \in Elements(b.attached) /\ b.stats[p].heard =>
        Cardinality(BusyWorkers(q)) <= b.stats[p].busy

BalancerInv ==
    /\ BalancerTypeOK
    /\ \A p \in BalancedPool : /\ Sound(workerPools[p], ChosenFor(p), submitted, deaths)
                               /\ Known(balancer, p, workerPools[p])

LEMMA BalancerFields ==
    ASSUME NEW b \in BalancerState
    PROVE  /\ b.attached \in Seq(BalancedPool) /\ b.currentIndex \in Nat
           /\ b.awaited \in SUBSET BalancedPool /\ b.stage \in {"open", "closing", "closed"}
           /\ b.stats \in [BalancedPool -> [heard: BOOLEAN, busy: Nat, size: Nat]]
           /\ \A p \in BalancedPool : b.stats[p].busy \in Nat
BY DEF BalancerState

LEMMA StatusType ==
    ASSUME NEW q \in BalancedPoolState
    PROVE  /\ Status(q) \in [heard: BOOLEAN, busy: Nat, size: Nat]
           /\ Status(q).busy = Cardinality(BusyWorkers(q))
<1>1. Len(q.workers) \in Nat /\ Cardinality(BusyWorkers(q)) \in Nat
  BY StateFields, WorkerFields, BusyFinite
<1>. QED  BY <1>1 DEF Status

LEMMA FreshType == FreshStats \in [heard: BOOLEAN, busy: Nat, size: Nat] /\ ~FreshStats.heard
BY DEF FreshStats

\* Only what is held of p changes.
LEMMA StatsReplaced ==
    ASSUME NEW b \in BalancerState, NEW p \in BalancedPool,
           NEW x \in [heard: BOOLEAN, busy: Nat, size: Nat]
    PROVE  LET e == [b EXCEPT !.stats[p] = x] IN
           /\ e \in BalancerState /\ e.attached = b.attached /\ e.stats[p] = x
           /\ \A o \in BalancedPool : o # p => e.stats[o] = b.stats[o]
<1>. DEFINE f == [b.stats EXCEPT ![p] = x]
            e == [b EXCEPT !.stats[p] = x]
<1>1. f \in [BalancedPool -> [heard: BOOLEAN, busy: Nat, size: Nat]]
      /\ f[p] = x /\ \A o \in BalancedPool : o # p => f[o] = b.stats[o]
  BY BalancerFields
<1>2. e = [b EXCEPT !.stats = f]
  BY DEF BalancerState
<1>. HIDE DEF f, e
<1>3. e \in BalancerState /\ e.attached = b.attached /\ e.stats = f
  BY <1>1, <1>2 DEF BalancerState
<1>. QED  BY <1>1, <1>3 DEF e

LEMMA HeardKnown ==
    ASSUME NEW b \in BalancerState, NEW p \in BalancedPool, NEW q \in BalancedPoolState
    PROVE  /\ Heard(b, p, q) \in BalancerState /\ Known(Heard(b, p, q), p, q)
           /\ \A o \in BalancedPool : \A x : o # p /\ Known(b, o, x) => Known(Heard(b, p, q), o, x)
<1>1. CASE p \notin Elements(b.attached)
  BY <1>1 DEF Heard, Known
<1>2. CASE p \in Elements(b.attached)
  <2>. DEFINE e == [b EXCEPT !.stats[p] = Status(q)]
  <2>1. /\ e \in BalancerState /\ e.attached = b.attached /\ e.stats[p] = Status(q)
        /\ \A o \in BalancedPool : o # p => e.stats[o] = b.stats[o]
    BY StatusType, StatsReplaced
  <2>2. Heard(b, p, q) = e
    BY <1>2 DEF Heard
  <2>. HIDE DEF e
  <2>3. Known(e, p, q)
    <3>1. e.stats[p].busy = Cardinality(BusyWorkers(q)) /\ Cardinality(BusyWorkers(q)) \in Nat
      BY <2>1, StatusType, BusyFinite
    <3>. QED  BY <3>1 DEF Known
  <2>4. \A o \in BalancedPool : \A x : o # p /\ Known(b, o, x) => Known(e, o, x)
    BY <2>1 DEF Known
  <2>. QED  BY <2>1, <2>2, <2>3, <2>4
<1>. QED  BY <1>1, <1>2

\* The balancer's part of Handled.
AfterHandling(b, p, q, told) ==
    IF told \/ ProcessNext(q) # q THEN Heard(b, p, ProcessNext(q)) ELSE b

LEMMA HandledKnown ==
    ASSUME NEW b \in BalancerState, NEW p \in BalancedPool, NEW o \in BalancedPoolState,
           NEW q \in BalancedPoolState, ProcessNext(q) \in BalancedPoolState,
           Known(b, p, o), Cardinality(BusyWorkers(q)) <= Cardinality(BusyWorkers(o)),
           NEW told \in BOOLEAN
    PROVE  LET e == AfterHandling(b, p, q, told) IN
           /\ e \in BalancerState /\ Known(e, p, ProcessNext(q))
           /\ \A l \in BalancedPool : \A x : l # p /\ Known(b, l, x) => Known(e, l, x)
<1>1. CASE told \/ ProcessNext(q) # q
  BY <1>1, HeardKnown DEF AfterHandling
<1>2. CASE ~(told \/ ProcessNext(q) # q)
  <2>1. AfterHandling(b, p, q, told) = b /\ ProcessNext(q) = q
    BY <1>2 DEF AfterHandling
  <2>2. Known(b, p, q)
    <3>1. b.stats[p].busy \in Nat /\ Cardinality(BusyWorkers(q)) \in Nat
          /\ Cardinality(BusyWorkers(o)) \in Nat
      BY BalancerFields, BusyFinite
    <3>. QED  BY <3>1 DEF Known
  <2>. QED  BY <2>1, <2>2
<1>. QED  BY <1>1, <1>2
-----------------------------------------------------------------------------
\* A step of one pool, and what the balancer hears of it.
LEMMA OnePoolStepInv ==
    ASSUME BalancerInv, NEW p \in BalancedPool, NEW r, NEW b \in BalancerState,
           Sound(r, ChosenFor(p), submitted, deaths'), Known(b, p, r),
           \A o \in BalancedPool : o # p => Known(b, o, workerPools[o]),
           deaths' \in 0..MaxDeaths, deaths' = deaths \/ deaths' # 0,
           workerPools' = [workerPools EXCEPT ![p] = r], balancer' = b,
           UNCHANGED <<chosen, strategy, submitted>>
    PROVE  BalancerInv'
<1>1. workerPools \in [BalancedPool -> BalancedPoolState] /\ r \in BalancedPoolState
  BY DEF BalancerInv, BalancerTypeOK, Sound
<1>2. /\ workerPools' \in [BalancedPool -> BalancedPoolState] /\ workerPools'[p] = r
      /\ \A o \in BalancedPool : o # p => workerPools'[o] = workerPools[o]
  BY <1>1
<1>3. \A o : ChosenFor(o)' = ChosenFor(o)
  BY DEF ChosenFor
<1>4. BalancerTypeOK'
  BY <1>2 DEF BalancerInv, BalancerTypeOK
<1>5. ASSUME NEW o \in BalancedPool
      PROVE  Sound(workerPools'[o], ChosenFor(o), submitted, deaths') /\ Known(b, o, workerPools'[o])
  <2>1. CASE o = p
    BY <1>2, <2>1
  <2>2. CASE o # p
    <3>1. workerPools'[o] = workerPools[o]
      BY <1>2, <2>2
    <3>2. Sound(workerPools[o], ChosenFor(o), submitted, deaths)
      BY DEF BalancerInv
    <3>3. Sound(workerPools[o], ChosenFor(o), submitted, deaths')
      BY <3>2 DEF Sound
    <3>. QED  BY <2>2, <3>1, <3>3
  <2>. QED  BY <2>1, <2>2
<1>6. ASSUME NEW o \in BalancedPool
      PROVE  /\ Sound(workerPools'[o], ChosenFor(o)', submitted', deaths')
             /\ Known(balancer', o, workerPools'[o])
  <2>1. Sound(workerPools'[o], ChosenFor(o), submitted', deaths')
    BY <1>5
  <2>2. Sound(workerPools'[o], ChosenFor(o)', submitted', deaths')
    BY <1>3, <2>1
  <2>. QED  BY <1>5, <2>2
<1>. QED  BY <1>4, <1>6 DEF BalancerInv

LEMMA CountsTypes ==
    ASSUME BalancerInv, NEW p \in BalancedPool
    PROVE  /\ ChosenFor(p) \in [BalancedTask -> Nat] /\ submitted \in [BalancedTask -> Nat]
           /\ workerPools \in [BalancedPool -> BalancedPoolState]
           /\ workerPools[p] \in BalancedPoolState /\ balancer \in BalancerState
           /\ Sound(workerPools[p], ChosenFor(p), submitted, deaths)
           /\ Known(balancer, p, workerPools[p]) /\ deaths \in 0..MaxDeaths
<1>1. chosen \in Seq([task: BalancedTask, pool: BalancedPool])
  BY DEF BalancerInv, BalancerTypeOK
<1>2. ChosenFor(p) \in [BalancedTask -> Nat]
  BY <1>1, OccurrencesType DEF ChosenFor
<1>. QED  BY <1>2 DEF BalancerInv, BalancerTypeOK, Counts

\* A handler that ends in processNextTask.
LEMMA HandledInv ==
    ASSUME BalancerInv, NEW p \in BalancedPool, NEW q,
           Sound(q, ChosenFor(p), submitted, deaths),
           Cardinality(BusyWorkers(q)) <= Cardinality(BusyWorkers(workerPools[p])),
           NEW told \in BOOLEAN, Handled(p, q, told),
           UNCHANGED <<chosen, strategy, submitted, deaths>>
    PROVE  BalancerInv'
<1>. DEFINE r == ProcessNext(q)
            b == AfterHandling(balancer, p, q, told)
<1>1. /\ ChosenFor(p) \in [BalancedTask -> Nat] /\ submitted \in [BalancedTask -> Nat]
      /\ workerPools[p] \in BalancedPoolState /\ balancer \in BalancerState
      /\ Known(balancer, p, workerPools[p]) /\ deaths \in 0..MaxDeaths
  BY CountsTypes
<1>2. Sound(r, ChosenFor(p), submitted, deaths)
  BY <1>1, ProcessNextSound
<1>3. q \in BalancedPoolState /\ r \in BalancedPoolState
  BY <1>2 DEF Sound
<1>4. /\ b \in BalancerState /\ Known(b, p, r)
      /\ \A l \in BalancedPool : \A x : l # p /\ Known(balancer, l, x) => Known(b, l, x)
  BY <1>1, <1>3, HandledKnown
<1>5. workerPools' = [workerPools EXCEPT ![p] = r] /\ balancer' = b
  BY DEF Handled, AfterHandling
<1>6. \A o \in BalancedPool : o # p => Known(b, o, workerPools[o])
  BY <1>4 DEF BalancerInv
<1>. HIDE DEF r, b
<1>. QED  BY <1>1, <1>2, <1>4, <1>5, <1>6, OnePoolStepInv

\* What the balancer holds does not change, and the pool is no busier.
LEMMA UnheardInv ==
    ASSUME BalancerInv, NEW p \in BalancedPool, NEW r,
           Sound(r, ChosenFor(p), submitted, deaths'),
           Cardinality(BusyWorkers(r)) <= Cardinality(BusyWorkers(workerPools[p])),
           deaths' \in 0..MaxDeaths, deaths' = deaths \/ deaths' # 0,
           workerPools' = [workerPools EXCEPT ![p] = r],
           UNCHANGED <<balancer, chosen, strategy, submitted>>
    PROVE  BalancerInv'
<1>1. /\ workerPools[p] \in BalancedPoolState /\ balancer \in BalancerState
      /\ Known(balancer, p, workerPools[p]) /\ r \in BalancedPoolState
  BY CountsTypes DEF Sound
<1>2. Known(balancer, p, r)
  <2>1. balancer.stats[p].busy \in Nat /\ Cardinality(BusyWorkers(r)) \in Nat
        /\ Cardinality(BusyWorkers(workerPools[p])) \in Nat
    BY <1>1, BalancerFields, BusyFinite
  <2>. QED  BY <1>1, <2>1 DEF Known
<1>3. \A o \in BalancedPool : o # p => Known(balancer, o, workerPools[o])
  BY DEF BalancerInv
<1>4. balancer' = balancer
  OBVIOUS
<1>. QED  BY <1>1, <1>2, <1>3, <1>4, OnePoolStepInv
-----------------------------------------------------------------------------
(***************************************************************************)
(* The steps of a pool                                                     *)
(***************************************************************************)
LEMMA AnswersInv == BalancerInv => \A p \in BalancedPool : \A success \in BOOLEAN :
                                     WorkerAnswers(p, success) => BalancerInv'
<1>. SUFFICES ASSUME BalancerInv, NEW p \in BalancedPool, NEW success \in BOOLEAN,
                     WorkerAnswers(p, success)
              PROVE  BalancerInv'
  OBVIOUS
<1>. DEFINE q == workerPools[p]
            C == ChosenFor(p)
<1>1. /\ C \in [BalancedTask -> Nat] /\ submitted \in [BalancedTask -> Nat]
      /\ q \in BalancedPoolState /\ Sound(q, C, submitted, deaths) /\ deaths \in 0..MaxDeaths
  BY CountsTypes
<1>2. UNCHANGED <<chosen, strategy, submitted, deaths>>
  BY DEF WorkerAnswers
<1>. DEFINE Outcome(i, j) ==
              LET t == q.workers[i].unanswered[j]
                  h == AnswerTaken(q, i, j)
              IN  IF \A k \in DOMAIN q.workers : q.workers[k].taskId # t
                  THEN workerPools' = [workerPools EXCEPT ![p] = h] /\ UNCHANGED balancer
                  ELSE IF success THEN Handled(p, Freed(h, t), TRUE)
                  ELSE Handled(p, AfterTaskError(Freed(h, t), t), ~Retried(q, t))
<1>3. PICK i \in DOMAIN q.workers : \E j \in DOMAIN q.workers[i].unanswered : Outcome(i, j)
  BY DEF WorkerAnswers, AnswerTaken
<1>4. PICK j \in DOMAIN q.workers[i].unanswered : Outcome(i, j)
  BY <1>3
<1>. DEFINE t == q.workers[i].unanswered[j]
            h == AnswerTaken(q, i, j)
            f == Freed(h, t)
<1>5. /\ t \in BalancedTask
      /\ Marked(q.workers, t) = {} => Sound(h, C, submitted, deaths) /\ Idles(q, h)
      /\ Marked(q.workers, t) # {} =>
           /\ Sound(f, C, submitted, deaths) /\ Idles(q, f) /\ f.tasks = q.tasks
           /\ UsedOnce(submitted) => Occurrences(q.tasks, t) = 0
  <2>. HIDE DEF q, C
  <2>1. SoundAnswer(q, C, submitted, deaths, i, j)
    BY <1>1, AnswerSound
  <2>. QED  BY <2>1 DEF SoundAnswer
<1>6. Marked(q.workers, t) = {} <=> \A k \in DOMAIN q.workers : q.workers[k].taskId # t
  BY DEF Marked
<1>7. \A r : Idles(q, r) => Cardinality(BusyWorkers(r)) <= Cardinality(BusyWorkers(q))
  BY <1>1, BusyFinite
<1>8. /\ Marked(q.workers, t) = {} => workerPools' = [workerPools EXCEPT ![p] = h] /\ UNCHANGED balancer
      /\ Marked(q.workers, t) # {} /\ success => Handled(p, f, TRUE)
      /\ Marked(q.workers, t) # {} /\ ~success => Handled(p, AfterTaskError(f, t), ~Retried(q, t))
  BY <1>4, <1>6
<1>. HIDE DEF C, t, h, f
<1>9. CASE Marked(q.workers, t) = {}
  <2>1. Sound(h, C, submitted, deaths') /\ deaths' \in 0..MaxDeaths /\ deaths' = deaths
    BY <1>1, <1>2, <1>5, <1>9
  <2>2. Cardinality(BusyWorkers(h)) <= Cardinality(BusyWorkers(q))
    BY <1>5, <1>7, <1>9
  <2>. QED  BY <1>2, <1>8, <1>9, <2>1, <2>2, UnheardInv DEF C
<1>10. CASE Marked(q.workers, t) # {} /\ success
  <2>1. Sound(f, C, submitted, deaths) /\ Cardinality(BusyWorkers(f)) <= Cardinality(BusyWorkers(q))
    BY <1>5, <1>7, <1>10
  <2>2. Handled(p, f, TRUE)
    BY <1>8, <1>10
  <2>. QED  BY <1>2, <2>1, <2>2, HandledInv DEF C
<1>11. CASE Marked(q.workers, t) # {} /\ ~success
  <2>. DEFINE g == AfterTaskError(f, t)
  <2>1. Sound(f, C, submitted, deaths) /\ Cardinality(BusyWorkers(f)) <= Cardinality(BusyWorkers(q))
        /\ (UsedOnce(submitted) => Occurrences(f.tasks, t) = 0)
    BY <1>5, <1>7, <1>11
  <2>2. Sound(g, C, submitted, deaths) /\ g.workers = f.workers
    BY <1>5, <2>1, TaskErrorSound
  <2>3. PICK told \in BOOLEAN : told = ~Retried(q, t)
    OBVIOUS
  <2>4. Handled(p, g, told)
    BY <1>8, <1>11, <2>3
  <2>. HIDE DEF g
  <2>5. BusyWorkers(g) = BusyWorkers(f)
    BY <2>2 DEF BusyWorkers
  <2>. HIDE DEF q
  <2>6. Cardinality(BusyWorkers(g)) <= Cardinality(BusyWorkers(workerPools[p]))
    BY <2>1, <2>5 DEF q
  <2>. QED  BY <1>2, <2>2, <2>4, <2>6, HandledInv DEF C
<1>. QED  BY <1>9, <1>10, <1>11

LEMMA TimesOutInv == BalancerInv => \A p \in BalancedPool : \A t \in BalancedTask :
                                      TaskTimesOut(p, t) => BalancerInv'
<1>. SUFFICES ASSUME BalancerInv, NEW p \in BalancedPool, NEW t \in BalancedTask,
                     TaskTimesOut(p, t)
              PROVE  BalancerInv'
  OBVIOUS
<1>. DEFINE o == workerPools[p]
            C == ChosenFor(p)
            q == [o EXCEPT !.timeouts[t] = @ - 1]
            r == AfterTaskError(q, t)
            b == IF Retried(q, t) THEN balancer ELSE Heard(balancer, p, q)
<1>1. /\ C \in [BalancedTask -> Nat] /\ submitted \in [BalancedTask -> Nat]
      /\ o \in BalancedPoolState /\ Sound(o, C, submitted, deaths) /\ deaths \in 0..MaxDeaths
      /\ balancer \in BalancerState /\ Known(balancer, p, o)
  BY CountsTypes
<1>2. /\ UNCHANGED <<chosen, strategy, submitted, deaths>> /\ o.timeouts[t] > 0
      /\ workerPools' = [workerPools EXCEPT ![p] = r]
      /\ balancer' = b
  BY DEF TaskTimesOut
<1>3. /\ Sound(q, C, submitted, deaths) /\ q.workers = o.workers
      /\ UsedOnce(submitted) => Occurrences(q.tasks, t) = 0
  <2>. HIDE DEF o, C
  <2>. QED  BY <1>1, <1>2, TimeoutSound
<1>4. Sound(r, C, submitted, deaths) /\ r.workers = q.workers
  <2>. HIDE DEF q, C
  <2>. QED  BY <1>3, TaskErrorSound
<1>. HIDE DEF q, r, C
<1>5. BusyWorkers(r) = BusyWorkers(o) /\ BusyWorkers(q) = BusyWorkers(o) /\ q \in BalancedPoolState
  BY <1>3, <1>4 DEF BusyWorkers, Sound
<1>6. /\ b \in BalancerState /\ Known(b, p, r)
      /\ \A l \in BalancedPool : l # p => Known(b, l, workerPools[l])
  <2>1. \A l \in BalancedPool : Known(balancer, l, workerPools[l])
    BY DEF BalancerInv
  <2>2. CASE Retried(q, t)
    BY <1>1, <1>5, <2>1, <2>2 DEF Known
  <2>3. CASE ~Retried(q, t)
    <3>1. b = Heard(balancer, p, q)
      BY <2>3
    <3>2. Known(b, p, q) /\ b \in BalancerState
      BY <1>1, <1>5, <3>1, HeardKnown
    <3>3. \A l \in BalancedPool : l # p => Known(b, l, workerPools[l])
      BY <1>1, <1>5, <2>1, <3>1, HeardKnown
    <3>. QED  BY <1>5, <3>2, <3>3 DEF Known
  <2>. QED  BY <2>2, <2>3
<1>7. Sound(r, ChosenFor(p), submitted, deaths') /\ deaths' \in 0..MaxDeaths /\ deaths' = deaths
  BY <1>1, <1>2, <1>4 DEF C
<1>. HIDE DEF b
<1>. QED  BY <1>2, <1>6, <1>7, OnePoolStepInv

LEMMA RetryInv == BalancerInv => \A p \in BalancedPool : \A t \in BalancedTask :
                                   RetryDelayOver(p, t) => BalancerInv'
<1>. SUFFICES ASSUME BalancerInv, NEW p \in BalancedPool, NEW t \in BalancedTask,
                     RetryDelayOver(p, t)
              PROVE  BalancerInv'
  OBVIOUS
<1>. DEFINE o == workerPools[p]
            C == ChosenFor(p)
            q == Enqueued([o EXCEPT !.retryTimers[t] = @ - 1], t)
<1>1. /\ C \in [BalancedTask -> Nat] /\ submitted \in [BalancedTask -> Nat]
      /\ Sound(o, C, submitted, deaths)
  BY CountsTypes
<1>2. /\ UNCHANGED <<chosen, strategy, submitted, deaths>> /\ o.retryTimers[t] > 0
      /\ Handled(p, q, FALSE)
  BY DEF RetryDelayOver
<1>3. Sound(q, C, submitted, deaths) /\ q.workers = o.workers
  <2>. HIDE DEF o, C
  <2>. QED  BY <1>1, <1>2, RetrySound
<1>. HIDE DEF q
<1>4. BusyWorkers(q) = BusyWorkers(o)
  BY <1>3 DEF BusyWorkers
<1>5. Cardinality(BusyWorkers(o)) \in Nat
  BY <1>1, BusyFinite DEF Sound
<1>6. Cardinality(BusyWorkers(q)) <= Cardinality(BusyWorkers(workerPools[p]))
  BY <1>4, <1>5
<1>. QED  BY <1>2, <1>3, <1>6, HandledInv

LEMMA DiesInv == BalancerInv => \A p \in BalancedPool : WorkerDies(p) => BalancerInv'
<1>. SUFFICES ASSUME BalancerInv, NEW p \in BalancedPool, WorkerDies(p)  PROVE BalancerInv'
  OBVIOUS
<1>. DEFINE q == workerPools[p]
            C == ChosenFor(p)
<1>1. /\ C \in [BalancedTask -> Nat] /\ submitted \in [BalancedTask -> Nat]
      /\ Sound(q, C, submitted, deaths) /\ deaths \in 0..MaxDeaths
      /\ q \in BalancedPoolState /\ workerPools \in [BalancedPool -> BalancedPoolState]
  BY CountsTypes
<1>2. PICK i \in DOMAIN q.workers :
        /\ \/ q.workers[i].ending /\ UNCHANGED deaths
           \/ ~q.workers[i].ending /\ deaths < MaxDeaths /\ deaths' = deaths + 1
        /\ workerPools' = [workerPools EXCEPT ![p].workers = Append(RemoveAt(@, i), NewWorker)]
  BY DEF WorkerDies
<1>3. UNCHANGED <<balancer, chosen, strategy, submitted>>
  BY DEF WorkerDies
<1>. DEFINE r == Died(q, i)
<1>4. workerPools' = [workerPools EXCEPT ![p] = r]
  BY <1>1, <1>2 DEF Died
<1>5. /\ deaths' \in 0..MaxDeaths
      /\ deaths' = deaths \/ deaths' # 0
      /\ (q.workers[i].ending /\ deaths' = deaths) \/ deaths' # 0
  BY <1>1, <1>2, BalancerAssumption DEF BalancerAssumption
<1>6. /\ Sound(r, C, submitted, deaths')
      /\ Cardinality(BusyWorkers(r)) <= Cardinality(BusyWorkers(q))
  <2>. HIDE DEF q, C
  <2>. QED  BY <1>1, <1>5, DiesSound
<1>. HIDE DEF r
<1>. QED  BY <1>3, <1>4, <1>5, <1>6, UnheardInv

LEMMA LeakedInv == BalancerInv => \A p \in BalancedPool : LeakedDies(p) => BalancerInv'
<1>. SUFFICES ASSUME BalancerInv, NEW p \in BalancedPool, LeakedDies(p)  PROVE BalancerInv'
  OBVIOUS
<1>. DEFINE q == workerPools[p]
            C == ChosenFor(p)
            r == Revived(q)
<1>1. /\ C \in [BalancedTask -> Nat] /\ submitted \in [BalancedTask -> Nat]
      /\ Sound(q, C, submitted, deaths) /\ deaths \in 0..MaxDeaths
      /\ q \in BalancedPoolState /\ workerPools \in [BalancedPool -> BalancedPoolState]
  BY CountsTypes
<1>2. /\ q.leaked > 0 /\ deaths < MaxDeaths /\ deaths' = deaths + 1
      /\ workerPools' = [workerPools EXCEPT ![p].leaked = @ - 1,
                                            ![p].workers = Append(@, NewWorker)]
      /\ UNCHANGED <<balancer, chosen, strategy, submitted>>
  BY DEF LeakedDies
<1>3. workerPools' = [workerPools EXCEPT ![p] = r]
  BY <1>1, <1>2 DEF Revived
<1>4. deaths' \in 0..MaxDeaths /\ deaths' # 0
  BY <1>1, <1>2, BalancerAssumption DEF BalancerAssumption
<1>5. /\ Sound(r, C, submitted, deaths')
      /\ Cardinality(BusyWorkers(r)) <= Cardinality(BusyWorkers(q))
  <2>. HIDE DEF q, C
  <2>. QED  BY <1>1, <1>2, <1>4, LeakedSound
<1>. HIDE DEF r
<1>. QED  BY <1>2, <1>3, <1>4, <1>5, UnheardInv

LEMMA ClosedInv == BalancerInv => \A p \in BalancedPool : PoolClosed(p) => BalancerInv'
<1>. SUFFICES ASSUME BalancerInv, NEW p \in BalancedPool, PoolClosed(p)  PROVE BalancerInv'
  OBVIOUS
<1>. DEFINE q == workerPools[p]
            C == ChosenFor(p)
            r == Shut(q)
<1>1. /\ C \in [BalancedTask -> Nat] /\ submitted \in [BalancedTask -> Nat]
      /\ Sound(q, C, submitted, deaths) /\ deaths \in 0..MaxDeaths
      /\ q \in BalancedPoolState /\ workerPools \in [BalancedPool -> BalancedPoolState]
  BY CountsTypes
<1>2. /\ workerPools' = [workerPools EXCEPT ![p].stage = "closed", ![p].leaked = @ + Len(q.workers),
                             ![p].workers = <<>>, ![p].tasks = <<>>, ![p].retries = NoCounts]
      /\ UNCHANGED <<balancer, chosen, strategy, submitted, deaths>>
  BY DEF PoolClosed
<1>3. workerPools' = [workerPools EXCEPT ![p] = r]
  BY <1>1, <1>2 DEF Shut
<1>4. Sound(r, C, submitted, deaths) /\ Idles(q, r)
  <2>. HIDE DEF q, C
  <2>. QED  BY <1>1, ClosedSound
<1>. HIDE DEF r
<1>5. Cardinality(BusyWorkers(r)) <= Cardinality(BusyWorkers(q))
  BY <1>1, <1>4, BusyFinite
<1>6. deaths' = deaths /\ UNCHANGED <<balancer, chosen, strategy, submitted>>
  BY <1>2
<1>. QED  BY <1>1, <1>3, <1>4, <1>5, <1>6, UnheardInv
-----------------------------------------------------------------------------
(***************************************************************************)
(* The steps of the balancer                                               *)
(***************************************************************************)
\* Only the balancer's record changes.
LEMMA BalancerStepInv ==
    ASSUME BalancerInv, NEW b \in BalancerState,
           \A p \in BalancedPool : Known(b, p, workerPools[p]),
           balancer' = b, UNCHANGED <<workerPools, chosen, strategy, submitted, deaths>>
    PROVE  BalancerInv'
<1>1. \A p : ChosenFor(p)' = ChosenFor(p)
  BY DEF ChosenFor
<1>2. BalancerTypeOK'
  BY DEF BalancerInv, BalancerTypeOK
<1>3. ASSUME NEW p \in BalancedPool
      PROVE  /\ Sound(workerPools'[p], ChosenFor(p)', submitted', deaths')
             /\ Known(balancer', p, workerPools'[p])
  <2>1. Sound(workerPools[p], ChosenFor(p), submitted, deaths)
    BY DEF BalancerInv
  <2>2. Sound(workerPools'[p], ChosenFor(p), submitted', deaths')
    BY <2>1
  <2>. QED  BY <1>1, <2>2
<1>. QED  BY <1>2, <1>3 DEF BalancerInv

LEMMA BalancerPre ==
    ASSUME BalancerInv
    PROVE  /\ balancer \in BalancerState /\ workerPools \in [BalancedPool -> BalancedPoolState]
           /\ chosen \in Seq([task: BalancedTask, pool: BalancedPool])
           /\ \A p \in BalancedPool : Known(balancer, p, workerPools[p])
BY DEF BalancerInv, BalancerTypeOK

\* What is held of p is dropped, and no pool but p is attached.
Dropped(b, p, a) == [b EXCEPT !.stats[p] = FreshStats, !.attached = a]

LEMMA DroppedInv ==
    ASSUME BalancerInv, NEW p \in BalancedPool, NEW a \in Seq(BalancedPool),
           Elements(a) \in SUBSET (Elements(balancer.attached) \cup {p}),
           balancer' = Dropped(balancer, p, a),
           UNCHANGED <<workerPools, chosen, strategy, submitted, deaths>>
    PROVE  BalancerInv'
<1>. DEFINE e == [balancer EXCEPT !.stats[p] = FreshStats]
            b == [e EXCEPT !.attached = a]
<1>1. balancer \in BalancerState /\ \A o \in BalancedPool : Known(balancer, o, workerPools[o])
  BY BalancerPre
<1>2. /\ e \in BalancerState /\ e.stats[p] = FreshStats
      /\ \A o \in BalancedPool : o # p => e.stats[o] = balancer.stats[o]
  BY <1>1, FreshType, StatsReplaced
<1>3. balancer' = b
  BY DEF Dropped
<1>. HIDE DEF e
<1>4. b \in BalancerState /\ b.stats = e.stats /\ b.attached = a
  BY <1>2 DEF BalancerState
<1>. HIDE DEF b
<1>5. \A o \in BalancedPool : Known(b, o, workerPools[o])
  <2>1. Known(b, p, workerPools[p])
    BY <1>2, <1>4, FreshType DEF Known
  <2>2. \A o \in BalancedPool : o # p => Known(b, o, workerPools[o])
    BY <1>1, <1>2, <1>4 DEF Known
  <2>. QED  BY <2>1, <2>2
<1>. QED  BY <1>3, <1>4, <1>5, BalancerStepInv

LEMMA AddInv == BalancerInv => \A p \in BalancedPool : AddPool(p) => BalancerInv'
<1>. SUFFICES ASSUME BalancerInv, NEW p \in BalancedPool, AddPool(p)  PROVE BalancerInv'
  OBVIOUS
<1>. DEFINE s == balancer.attached
            a == IF p \in Elements(s) THEN s ELSE Append(s, p)
<1>1. balancer \in BalancerState /\ s \in Seq(BalancedPool)
  BY BalancerPre, BalancerFields
<1>2. a \in Seq(BalancedPool) /\ Elements(a) \in SUBSET (Elements(s) \cup {p})
  <2>. DEFINE e == <<p>>
  <2>1. e \in Seq(BalancedPool) /\ Elements(e) = {p} /\ Append(s, p) = s \o e
    BY <1>1, SingletonSeq, AppendIsConcat
  <2>. HIDE DEF e, s
  <2>2. s \o e \in Seq(BalancedPool) /\ Elements(s \o e) = Elements(s) \cup Elements(e)
    BY <1>1, <2>1, ConcatElements
  <2>. QED  BY <1>1, <2>1, <2>2
<1>3. /\ balancer' = Dropped(balancer, p, a)
      /\ UNCHANGED <<workerPools, chosen, strategy, submitted, deaths>>
  BY <1>1 DEF AddPool, Dropped, BalancerState
<1>. HIDE DEF a
<1>. QED  BY <1>2, <1>3, DroppedInv

LEMMA RemoveInv == BalancerInv => \A p \in BalancedPool : RemovePool(p) => BalancerInv'
<1>. SUFFICES ASSUME BalancerInv, NEW p \in BalancedPool, RemovePool(p)  PROVE BalancerInv'
  OBVIOUS
<1>. DEFINE s == balancer.attached
            a == Select(s, BalancedPool \ {p})
<1>1. balancer \in BalancerState /\ s \in Seq(BalancedPool)
  BY BalancerPre, BalancerFields
<1>2. a \in Seq(BalancedPool) /\ Elements(a) \in SUBSET (Elements(s) \cup {p})
  <2>. HIDE DEF s
  <2>. QED  BY <1>1, SelectValues
<1>3. /\ balancer' = Dropped(balancer, p, a)
      /\ UNCHANGED <<workerPools, chosen, strategy, submitted, deaths>>
  BY <1>1 DEF RemovePool, Dropped, BalancerState
<1>. HIDE DEF a
<1>. QED  BY <1>2, <1>3, DroppedInv

LEMMA HealthInv == BalancerInv /\ HealthCheck => BalancerInv'
<1>. SUFFICES ASSUME BalancerInv, HealthCheck  PROVE BalancerInv'
  OBVIOUS
<1>. DEFINE f == [p \in BalancedPool |-> IF p \in Elements(balancer.attached)
                                         THEN Status(workerPools[p]) ELSE balancer.stats[p]]
            b == [balancer EXCEPT !.stats = f]
<1>1. /\ balancer \in BalancerState /\ workerPools \in [BalancedPool -> BalancedPoolState]
      /\ \A o \in BalancedPool : Known(balancer, o, workerPools[o])
  BY BalancerPre
<1>2. f \in [BalancedPool -> [heard: BOOLEAN, busy: Nat, size: Nat]]
  BY <1>1, BalancerFields, StatusType
<1>3. balancer' = b /\ UNCHANGED <<workerPools, chosen, strategy, submitted, deaths>>
  BY <1>1 DEF HealthCheck, BalancerState
<1>4. \A p \in BalancedPool : p \in Elements(balancer.attached) =>
          f[p].busy = Cardinality(BusyWorkers(workerPools[p]))
  BY <1>1, StatusType
<1>. HIDE DEF f
<1>5. b \in BalancerState /\ b.attached = balancer.attached /\ b.stats = f
  BY <1>1, <1>2 DEF BalancerState
<1>. HIDE DEF b
<1>6. ASSUME NEW p \in BalancedPool  PROVE Known(b, p, workerPools[p])
  <2>1. Cardinality(BusyWorkers(workerPools[p])) \in Nat
    BY <1>1, BusyFinite
  <2>. QED  BY <1>4, <1>5, <2>1 DEF Known
<1>. QED  BY <1>3, <1>5, <1>6, BalancerStepInv

LEMMA AllClosedInv == BalancerInv /\ BalancerClosed => BalancerInv'
<1>. SUFFICES ASSUME BalancerInv, BalancerClosed  PROVE BalancerInv'
  OBVIOUS
<1>. DEFINE f == [p \in BalancedPool |-> FreshStats]
            b == [balancer EXCEPT !.stage = "closed", !.attached = <<>>, !.awaited = {}, !.stats = f]
<1>1. balancer \in BalancerState
  BY BalancerPre
<1>2. balancer' = b /\ UNCHANGED <<workerPools, chosen, strategy, submitted, deaths>>
  BY DEF BalancerClosed
<1>3. f \in [BalancedPool -> [heard: BOOLEAN, busy: Nat, size: Nat]]
      /\ \A p \in BalancedPool : ~f[p].heard
  BY FreshType
<1>. HIDE DEF f
<1>4. <<>> \in Seq(BalancedPool)
  BY EmptySeq
<1>5. b \in BalancerState /\ b.stats = f
  BY <1>1, <1>3, <1>4 DEF BalancerState
<1>. HIDE DEF b
<1>6. \A p \in BalancedPool : Known(b, p, workerPools[p])
  BY <1>3, <1>5 DEF Known
<1>. QED  BY <1>2, <1>5, <1>6, BalancerStepInv

LEMMA CloseInv == BalancerInv /\ CloseBalancer => BalancerInv'
<1>. SUFFICES ASSUME BalancerInv, CloseBalancer  PROVE BalancerInv'
  OBVIOUS
<1>. DEFINE b == [balancer EXCEPT !.stage = "closing", !.awaited = Elements(balancer.attached)]
            f == [p \in BalancedPool |-> IF p \in Elements(balancer.attached)
                                         THEN Terminating(workerPools[p]) ELSE workerPools[p]]
<1>1. /\ balancer \in BalancerState /\ workerPools \in [BalancedPool -> BalancedPoolState]
      /\ balancer.attached \in Seq(BalancedPool)
  BY BalancerPre, BalancerFields
<1>2. balancer' = b /\ workerPools' = f /\ UNCHANGED <<chosen, strategy, submitted, deaths>>
  BY DEF CloseBalancer
<1>3. Elements(balancer.attached) \in SUBSET BalancedPool
  BY <1>1 DEF Elements
<1>4. b \in BalancerState /\ b.attached = balancer.attached /\ b.stats = balancer.stats
  BY <1>1, <1>3 DEF BalancerState
<1>5. ASSUME NEW p \in BalancedPool
      PROVE  Sound(f[p], ChosenFor(p), submitted, deaths) /\ Known(b, p, f[p])
  <2>1. Sound(workerPools[p], ChosenFor(p), submitted, deaths) /\ Known(balancer, p, workerPools[p])
    BY DEF BalancerInv
  <2>2. /\ Sound(Terminating(workerPools[p]), ChosenFor(p), submitted, deaths)
        /\ BusyWorkers(Terminating(workerPools[p])) = BusyWorkers(workerPools[p])
    BY <2>1, TerminatingSound
  <2>. HIDE DEF b
  <2>. QED  BY <1>4, <2>1, <2>2 DEF Known
<1>6. f \in [BalancedPool -> BalancedPoolState]
  <2>1. \A p \in BalancedPool : f[p] \in BalancedPoolState
    <3>. HIDE DEF f
    <3>. QED  BY <1>5 DEF Sound
  <2>. QED  BY <2>1
<1>. HIDE DEF b, f
<1>7. \A p : ChosenFor(p)' = ChosenFor(p)
  BY <1>2 DEF ChosenFor
<1>8. BalancerTypeOK'
  BY <1>2, <1>4, <1>6 DEF BalancerInv, BalancerTypeOK
<1>9. ASSUME NEW p \in BalancedPool
      PROVE  /\ Sound(workerPools'[p], ChosenFor(p)', submitted', deaths')
             /\ Known(balancer', p, workerPools'[p])
  <2>1. Sound(workerPools'[p], ChosenFor(p), submitted', deaths')
    BY <1>2, <1>5
  <2>. QED  BY <1>2, <1>5, <1>7, <2>1
<1>. QED  BY <1>8, <1>9 DEF BalancerInv

\* The microtasks of submitTask, as counted by ChosenFor.
LEMMA SubmitInv == BalancerInv => \A t \in BalancedTask : SubmitToBalancer(t) => BalancerInv'
<1>. SUFFICES ASSUME BalancerInv, NEW t \in BalancedTask, SubmitToBalancer(t)  PROVE BalancerInv'
  OBVIOUS
<1>1. /\ balancer \in BalancerState /\ workerPools \in [BalancedPool -> BalancedPoolState]
      /\ chosen \in Seq([task: BalancedTask, pool: BalancedPool])
      /\ \A p \in BalancedPool : Known(balancer, p, workerPools[p])
      /\ balancer.attached \in Seq(BalancedPool) /\ balancer.currentIndex \in Nat
  BY BalancerPre, BalancerFields
<1>2. Available \in Seq(BalancedPool)
  BY <1>1, SelectValues DEF Available
<1>3. PICK o \in Elements(Available) : chosen' = Append(chosen, [task |-> t, pool |-> o])
  BY DEF SubmitToBalancer
<1>4. o \in BalancedPool /\ Len(Available) \in Nat \ {0}
  BY <1>2 DEF Elements
<1>. DEFINE x == [task |-> t, pool |-> o]
            X == [task: BalancedTask, pool: BalancedPool]
            e == <<x>>
            b == IF strategy = "round_robin"
                 THEN [balancer EXCEPT !.currentIndex = (@ + 1) % Len(Available)] ELSE balancer
<1>5. x \in X /\ e \in Seq(X) /\ Append(chosen, x) = chosen \o e /\ Append(chosen, x) \in Seq(X)
  BY <1>1, <1>4, AppendIsConcat, AppendProperties
<1>6. \A y : Occurrences(e, y) = IF x = y THEN 1 ELSE 0
  BY SingletonOccurrences
<1>7. b \in BalancerState /\ b.attached = balancer.attached /\ b.stats = balancer.stats
  <2>1. (balancer.currentIndex + 1) % Len(Available) \in Nat
    BY <1>1, <1>4
  <2>. QED  BY <1>1, <2>1 DEF BalancerState
<1>8. /\ balancer' = b /\ submitted' = [submitted EXCEPT ![t] = @ + 1]
      /\ UNCHANGED <<workerPools, strategy, deaths>>
  BY DEF SubmitToBalancer
<1>. HIDE DEF b, e, X
<1>9. ASSUME NEW y  PROVE Occurrences(chosen', y) = Occurrences(chosen, y) + (IF x = y THEN 1 ELSE 0)
  <2>1. Occurrences(chosen \o e, y) = Occurrences(chosen, y) + Occurrences(e, y)
    BY <1>1, <1>5, ConcatOccurrences DEF X
  <2>. QED  BY <1>3, <1>5, <1>6, <2>1
<1>10. ASSUME NEW p \in BalancedPool
       PROVE  Sound(workerPools[p], ChosenFor(p)', [submitted EXCEPT ![t] = @ + 1], deaths)
  <2>. DEFINE c == ChosenFor(p)
              d == ChosenFor(p)'
  <2>1. /\ c \in [BalancedTask -> Nat] /\ submitted \in [BalancedTask -> Nat]
        /\ Sound(workerPools[p], c, submitted, deaths)
    BY CountsTypes
  <2>2. \A u \in BalancedTask :
          d[u] = c[u] + (IF x = [task |-> u, pool |-> p] THEN 1 ELSE 0)
    BY <1>9 DEF ChosenFor
  <2>3. d = [u \in BalancedTask |-> d[u]]
    BY DEF ChosenFor
  <2>4. \A u \in BalancedTask : x = [task |-> u, pool |-> p] => u = t
    OBVIOUS
  <2>. HIDE DEF c, d, x
  <2>5. d \in [BalancedTask -> Nat]
    <3>1. \A u \in BalancedTask : d[u] \in Nat
      BY <2>1, <2>2
    <3>. QED  BY <2>3, <3>1
  <2>6. d[t] <= c[t] + 1 /\ \A u \in BalancedTask : u # t => d[u] = c[u]
    BY <2>1, <2>2, <2>4
  <2>7. Sound(workerPools[p], d, [submitted EXCEPT ![t] = @ + 1], deaths)
    BY <2>1, <2>5, <2>6, SubmitSound
  <2>. QED  BY <2>7 DEF d
<1>11. BalancerTypeOK'
  <2>1. chosen' \in Seq([task: BalancedTask, pool: BalancedPool])
    BY <1>3, <1>5 DEF X
  <2>2. [submitted EXCEPT ![t] = @ + 1] \in Counts
    BY DEF BalancerInv, BalancerTypeOK, Counts
  <2>. QED  BY <1>7, <1>8, <2>1, <2>2 DEF BalancerInv, BalancerTypeOK
<1>12. ASSUME NEW p \in BalancedPool
       PROVE  /\ Sound(workerPools'[p], ChosenFor(p)', submitted', deaths')
              /\ Known(balancer', p, workerPools'[p])
  <2>1. Known(b, p, workerPools[p])
    BY <1>1, <1>7 DEF Known
  <2>. QED  BY <1>8, <1>10, <2>1
<1>. QED  BY <1>11, <1>12 DEF BalancerInv

\* A submission on its way is lost with its pool.
LEMMA FewerOnTheWay ==
    ASSUME NEW q, NEW c \in [BalancedTask -> Nat], NEW s \in [BalancedTask -> Nat], NEW d,
           Sound(q, c, s, d), NEW e \in [BalancedTask -> Nat],
           \A u \in BalancedTask : e[u] <= c[u]
    PROVE  Sound(q, e, s, d)
<1>1. q \in BalancedPoolState
  BY DEF Sound
<1>2. ASSUME Once(q, c, s)  PROVE Once(q, e, s)
  <2>1. Alone(q.workers)
    BY <1>2 DEF Once
  <2>2. ASSUME NEW u \in BalancedTask  PROVE Waits(q, e, u) <= Waits(q, c, u)
    <3>1. Occurrences(q.tasks, u) \in Nat /\ c[u] \in Nat /\ e[u] \in Nat /\ e[u] <= c[u]
      BY <1>1, StateFields, OccurrencesType
    <3>. QED  BY <3>1 DEF Waits
  <2>. QED  BY <1>1, <1>2, <2>1, <2>2, OnceKeptWaitingLess
<1>. QED  BY <1>1, <1>2 DEF Sound

LEMMA ExecuteInv == BalancerInv /\ ExecuteInPool => BalancerInv'
<1>. SUFFICES ASSUME BalancerInv, ExecuteInPool  PROVE BalancerInv'
  OBVIOUS
<1>. DEFINE x == Head(chosen)
            p == x.pool
            t == x.task
            X == [task: BalancedTask, pool: BalancedPool]
            D(o) == [u \in BalancedTask |-> Occurrences(Tail(chosen), [task |-> u, pool |-> o])]
            q == Enqueued(workerPools[p], t)
            r == ProcessNext(q)
            b == AfterHandling(balancer, p, q, FALSE)
<1>1. /\ balancer \in BalancerState /\ workerPools \in [BalancedPool -> BalancedPoolState]
      /\ chosen \in Seq(X) /\ \A o \in BalancedPool : Known(balancer, o, workerPools[o])
  BY BalancerPre
<1>2. /\ chosen # <<>> /\ chosen' = Tail(chosen) /\ UNCHANGED <<strategy, submitted, deaths>>
      /\ p \in Elements(balancer.attached) => Handled(p, q, FALSE)
      /\ p \notin Elements(balancer.attached) => UNCHANGED <<workerPools, balancer>>
  BY DEF ExecuteInPool
<1>3. /\ x \in X /\ Tail(chosen) \in Seq(X)
      /\ \A y : Occurrences(chosen, y) = Occurrences(Tail(chosen), y) + (IF x = y THEN 1 ELSE 0)
  <2>. HIDE DEF X
  <2>1. x \in X /\ Tail(chosen) \in Seq(X)
    BY <1>1, <1>2
  <2>. QED  BY <1>1, <1>2, <2>1, TailOccurrences
<1>4. p \in BalancedPool /\ t \in BalancedTask /\ x = [task |-> t, pool |-> p]
  BY <1>3
<1>. HIDE DEF x
<1>5. \A o : ChosenFor(o)' = D(o)
  BY <1>2 DEF ChosenFor
<1>6. ASSUME NEW o \in BalancedPool
      PROVE  /\ D(o) \in [BalancedTask -> Nat] /\ ChosenFor(o) \in [BalancedTask -> Nat]
             /\ \A u \in BalancedTask :
                  ChosenFor(o)[u] = D(o)[u] + (IF o = p /\ u = t THEN 1 ELSE 0)
  <2>1. \A u \in BalancedTask : Occurrences(Tail(chosen), [task |-> u, pool |-> o]) \in Nat
    BY <1>3, OccurrencesType
  <2>2. D(o) \in [BalancedTask -> Nat]
    BY <2>1
  <2>3. ASSUME NEW u \in BalancedTask
        PROVE  ChosenFor(o)[u] = D(o)[u] + (IF o = p /\ u = t THEN 1 ELSE 0)
    <3>1. x = [task |-> u, pool |-> o] <=> o = p /\ u = t
      BY <1>4
    <3>. QED  BY <1>3, <3>1 DEF ChosenFor
  <2>. QED  BY <2>2, <2>3, CountsTypes
<1>7. ASSUME NEW o \in BalancedPool
      PROVE  Sound(workerPools[o], D(o), submitted, deaths)
  <2>1. /\ submitted \in [BalancedTask -> Nat] /\ Sound(workerPools[o], ChosenFor(o), submitted, deaths)
    BY CountsTypes
  <2>. HIDE DEF D
  <2>2. \A u \in BalancedTask : D(o)[u] <= ChosenFor(o)[u]
    <3>1. \A u \in BalancedTask : D(o)[u] \in Nat /\ ChosenFor(o)[u] \in Nat
      BY <1>6
    <3>. QED  BY <1>6, <3>1
  <2>. QED  BY <1>6, <2>1, <2>2, FewerOnTheWay
<1>. HIDE DEF D
<1>8. CASE p \notin Elements(balancer.attached)
  <2>1. UNCHANGED <<workerPools, balancer, strategy, submitted, deaths>>
    BY <1>2, <1>8
  <2>2. BalancerTypeOK'
    BY <1>2, <1>3, <2>1 DEF BalancerInv, BalancerTypeOK
  <2>3. ASSUME NEW o \in BalancedPool
        PROVE  /\ Sound(workerPools'[o], ChosenFor(o)', submitted', deaths')
               /\ Known(balancer', o, workerPools'[o])
    BY <1>1, <1>5, <1>7, <2>1
  <2>. QED  BY <2>2, <2>3 DEF BalancerInv
<1>9. CASE p \in Elements(balancer.attached)
  <2>1. /\ ChosenFor(p) \in [BalancedTask -> Nat] /\ submitted \in [BalancedTask -> Nat]
        /\ Sound(workerPools[p], ChosenFor(p), submitted, deaths)
        /\ workerPools[p] \in BalancedPoolState
    BY <1>4, CountsTypes
  <2>2. Sound(q, D(p), submitted, deaths)
    <3>1. ChosenFor(p)[t] > 0
      BY <1>4, <1>6
    <3>2. Sound(q, [ChosenFor(p) EXCEPT ![t] = ChosenFor(p)[t] - 1], submitted, deaths)
      BY <1>4, <2>1, <3>1, EnqueuedSound
    <3>3. [ChosenFor(p) EXCEPT ![t] = ChosenFor(p)[t] - 1] = D(p)
      BY <1>4, <1>6
    <3>. QED  BY <3>2, <3>3
  <2>3. Sound(r, D(p), submitted, deaths)
    <3>. HIDE DEF q
    <3>. QED  BY <1>4, <1>6, <2>1, <2>2, ProcessNextSound
  <2>4. q \in BalancedPoolState /\ r \in BalancedPoolState /\ q.workers = workerPools[p].workers
    BY <1>4, <2>1, <2>2, <2>3, EnqueuedFields DEF Sound
  <2>5. BusyWorkers(q) = BusyWorkers(workerPools[p]) /\ Cardinality(BusyWorkers(q)) \in Nat
    BY <2>4, BusyFinite DEF BusyWorkers
  <2>6. /\ b \in BalancerState /\ Known(b, p, r)
        /\ \A l \in BalancedPool : \A y : l # p /\ Known(balancer, l, y) => Known(b, l, y)
    <3>1. Cardinality(BusyWorkers(q)) <= Cardinality(BusyWorkers(workerPools[p]))
      BY <2>5
    <3>2. Known(balancer, p, workerPools[p]) /\ FALSE \in BOOLEAN
      BY <1>1, <1>4
    <3>. HIDE DEF q, p
    <3>. QED  BY <1>1, <1>4, <2>1, <2>4, <3>1, <3>2, HandledKnown
  <2>7. workerPools' = [workerPools EXCEPT ![p] = r] /\ balancer' = b
    BY <1>2, <1>9 DEF Handled, AfterHandling
  <2>. HIDE DEF q, r, b
  <2>8. /\ workerPools' \in [BalancedPool -> BalancedPoolState] /\ workerPools'[p] = r
        /\ \A o \in BalancedPool : o # p => workerPools'[o] = workerPools[o]
    BY <1>1, <1>4, <2>4, <2>7
  <2>9. BalancerTypeOK'
    BY <1>2, <1>3, <2>6, <2>7, <2>8 DEF BalancerInv, BalancerTypeOK
  <2>10. ASSUME NEW o \in BalancedPool
         PROVE  /\ Sound(workerPools'[o], ChosenFor(o)', submitted', deaths')
                /\ Known(balancer', o, workerPools'[o])
    <3>1. CASE o = p
      BY <1>2, <1>5, <2>3, <2>6, <2>7, <2>8, <3>1
    <3>2. CASE o # p
      <4>1. workerPools'[o] = workerPools[o] /\ Known(balancer, o, workerPools[o])
        BY <1>1, <2>8, <3>2
      <4>. QED  BY <1>2, <1>5, <1>7, <2>6, <2>7, <3>2, <4>1
    <3>. QED  BY <3>1, <3>2
  <2>. QED  BY <2>9, <2>10 DEF BalancerInv
<1>. QED  BY <1>8, <1>9
-----------------------------------------------------------------------------
LEMMA NoOccurrences ==
    ASSUME NEW x
    PROVE  Occurrences(<<>>, x) = 0
<1>1. Positions(<<>>, {x}) = {}
  BY DEF Positions
<1>. QED  BY <1>1, FS_EmptySet DEF Occurrences

LEMMA BalancerInitInv == BalancerInit => BalancerInv
<1>. SUFFICES ASSUME BalancerInit  PROVE BalancerInv
  OBVIOUS
<1>. DEFINE w(p) == [i \in 1..PoolThreads[p] |-> NewWorker]
            o(p) == [workers |-> w(p), tasks |-> <<>>, timeouts |-> NoCounts,
                     retryTimers |-> NoCounts, retries |-> NoCounts, leaked |-> 0, stage |-> "open"]
<1>1. /\ workerPools = [p \in BalancedPool |-> o(p)]
      /\ balancer = [attached |-> <<>>, stats |-> [p \in BalancedPool |-> FreshStats],
                     currentIndex |-> 0, awaited |-> {}, stage |-> "open"]
      /\ chosen = <<>> /\ submitted = NoCounts /\ deaths = 0
      /\ strategy \in {"round_robin", "least_busy", "weighted"}
  BY DEF BalancerInit
<1>2. NoCounts \in Counts /\ \A t \in BalancedTask : NoCounts[t] = 0
  BY DEF NoCounts, Counts
<1>3. ASSUME NEW p \in BalancedPool
      PROVE  /\ w(p) \in Seq(WorkerState) /\ DOMAIN w(p) = 1..PoolThreads[p]
             /\ \A i \in DOMAIN w(p) : w(p)[i] = NewWorker
  <2>1. PoolThreads[p] \in Nat
    BY BalancerAssumption DEF BalancerAssumption
  <2>. QED  BY <2>1, NewWorkerType
<1>4. ASSUME NEW p \in BalancedPool
      PROVE  /\ o(p) \in BalancedPoolState /\ o(p).workers = w(p) /\ o(p).tasks = <<>>
             /\ o(p).timeouts = NoCounts /\ o(p).retryTimers = NoCounts
  <2>1. <<>> \in Seq(BalancedTask)
    BY EmptySeq
  <2>. HIDE DEF w
  <2>. QED  BY <1>2, <1>3, <2>1 DEF BalancedPoolState
<1>5. BalancerTypeOK
  <2>1. workerPools \in [BalancedPool -> BalancedPoolState]
    <3>. HIDE DEF o
    <3>. QED  BY <1>1, <1>4
  <2>2. balancer \in BalancerState
    <3>1. PICK f : f = [p \in BalancedPool |-> FreshStats]
      OBVIOUS
    <3>2. f \in [BalancedPool -> [heard: BOOLEAN, busy: Nat, size: Nat]]
      BY <3>1, FreshType
    <3>3. PICK z : z = <<>> /\ z \in Seq(BalancedPool)
      BY EmptySeq
    <3>4. balancer = [attached |-> z, stats |-> f, currentIndex |-> 0, awaited |-> {}, stage |-> "open"]
      BY <1>1, <3>1, <3>3
    <3>. QED  BY <3>2, <3>3, <3>4 DEF BalancerState
  <2>3. chosen \in Seq([task: BalancedTask, pool: BalancedPool])
    BY <1>1, EmptySeq
  <2>4. deaths \in 0..MaxDeaths
    BY <1>1, BalancerAssumption DEF BalancerAssumption
  <2>. QED  BY <1>1, <1>2, <2>1, <2>2, <2>3, <2>4 DEF BalancerTypeOK
<1>6. ASSUME NEW p \in BalancedPool
      PROVE  Sound(o(p), ChosenFor(p), submitted, deaths)
  <2>. DEFINE q == o(p)
              W == w(p)
  <2>1. /\ q \in BalancedPoolState /\ q.workers = W /\ q.tasks = <<>>
        /\ q.timeouts = NoCounts /\ q.retryTimers = NoCounts
        /\ W \in Seq(WorkerState) /\ IsFiniteSet(DOMAIN W)
        /\ \A i \in DOMAIN W : W[i] = NewWorker
    BY <1>3, <1>4, WorkerFields
  <2>. HIDE DEF q, W
  <2>2. \A i \in DOMAIN W : W[i].taskId = NoTaskId /\ W[i].unanswered = <<>> /\ ~W[i].ending
    BY <2>1 DEF NewWorker
  <2>3. ASSUME NEW t \in BalancedTask  PROVE Marked(W, t) = {}
    BY <2>2, BalancerAssumption DEF Marked, BalancerAssumption
  <2>4. ASSUME NEW t \in BalancedTask
        PROVE  Total(Owed(W, t), DOMAIN W) = Cardinality(Marked(W, t))
    <3>1. \A i \in DOMAIN W : Owed(W, t)[i] = 0
      BY <2>2, NoOccurrences DEF Owed
    <3>2. Units(Owed(W, t), DOMAIN W) = {}
      BY <3>1 DEF Units
    <3>. QED  BY <2>3, <3>2 DEF Total
  <2>5. Matched(W)
    BY <2>2, <2>4 DEF Matched
  <2>6. Alone(W)
    BY <2>2 DEF Alone
  <2>7. ASSUME NEW t \in BalancedTask
        PROVE  /\ q.retryTimers[t] = 0 /\ Waits(q, ChosenFor(p), t) <= submitted[t]
               /\ Begun(q, t) => Waits(q, ChosenFor(p), t) = 0 /\ submitted[t] # 0
    <3>1. ChosenFor(p)[t] = 0 /\ Occurrences(q.tasks, t) = 0
      BY <1>1, <2>1, NoOccurrences DEF ChosenFor
    <3>2. ~Begun(q, t)
      BY <1>2, <2>1, <2>3 DEF Begun
    <3>. QED  BY <1>1, <1>2, <2>1, <3>1, <3>2 DEF Waits
  <2>8. Once(q, ChosenFor(p), submitted)
    BY <2>1, <2>6, <2>7 DEF Once
  <2>9. Sound(q, ChosenFor(p), submitted, deaths)
    BY <2>1, <2>5, <2>8 DEF Sound
  <2>. QED  BY <2>9 DEF q
<1>. HIDE DEF o
<1>7. ASSUME NEW p \in BalancedPool
      PROVE  /\ Sound(workerPools[p], ChosenFor(p), submitted, deaths)
             /\ Known(balancer, p, workerPools[p])
  <2>1. ~balancer.stats[p].heard
    BY <1>1, FreshType
  <2>. QED  BY <1>1, <1>6, <2>1 DEF Known
<1>. QED  BY <1>5, <1>7 DEF BalancerInv

LEMMA BalancerStep == BalancerInv /\ [BalancerNext]_balancerVars => BalancerInv'
<1>. SUFFICES ASSUME BalancerInv, [BalancerNext]_balancerVars  PROVE BalancerInv'
  OBVIOUS
<1>1. CASE UNCHANGED balancerVars
  <2>1. UNCHANGED <<workerPools, balancer, chosen, strategy, submitted, deaths>>
    BY <1>1 DEF balancerVars
  <2>2. balancer \in BalancerState /\ \A p \in BalancedPool : Known(balancer, p, workerPools[p])
    BY BalancerPre
  <2>. QED  BY <2>1, <2>2, BalancerStepInv
<1>2. ASSUME NEW p \in BalancedPool,
             \/ AddPool(p) \/ RemovePool(p) \/ PoolClosed(p)
             \/ WorkerDies(p) \/ LeakedDies(p)
             \/ \E success \in BOOLEAN : WorkerAnswers(p, success)
             \/ \E t \in BalancedTask : TaskTimesOut(p, t) \/ RetryDelayOver(p, t)
      PROVE  BalancerInv'
  <2>1. CASE AddPool(p) \/ RemovePool(p)
    BY <2>1, AddInv, RemoveInv
  <2>2. CASE PoolClosed(p) \/ WorkerDies(p) \/ LeakedDies(p)
    BY <2>2, ClosedInv, DiesInv, LeakedInv
  <2>3. CASE \E success \in BOOLEAN : WorkerAnswers(p, success)
    BY <2>3, AnswersInv
  <2>4. CASE \E t \in BalancedTask : TaskTimesOut(p, t) \/ RetryDelayOver(p, t)
    BY <2>4, TimesOutInv, RetryInv
  <2>. QED  BY <1>2, <2>1, <2>2, <2>3, <2>4
<1>3. CASE \E t \in BalancedTask : SubmitToBalancer(t)
  BY <1>3, SubmitInv
<1>4. CASE ExecuteInPool \/ HealthCheck
  BY <1>4, ExecuteInv, HealthInv
<1>5. CASE CloseBalancer \/ BalancerClosed
  BY <1>5, CloseInv, AllClosedInv
<1>. QED  BY <1>1, <1>2, <1>3, <1>4, <1>5 DEF BalancerNext

LEMMA BalancerInvAlways == BalancerSpec => []BalancerInv
BY BalancerInitInv, BalancerStep, PTL DEF BalancerSpec

\* The balancer, its pools and the submissions on their way keep states of their
\* types.
THEOREM BalancerTypeCorrect == BalancerSpec => []BalancerTypeOK
<1>1. BalancerInv => BalancerTypeOK
  BY DEF BalancerInv
<1>. QED  BY <1>1, BalancerInvAlways, PTL
-----------------------------------------------------------------------------
\* A thread executes no task that no worker is marked for, and no two tasks for
\* one mark.
LEMMA ExecutingMatched ==
    ASSUME NEW q \in BalancedPoolState, Matched(q.workers)
    PROVE  Cardinality(Executing(q)) <= Cardinality(BusyWorkers(q))
<1>. DEFINE W == q.workers
            A == Executing(q)
            B == BusyWorkers(q)
            c == [i \in A |-> Head(W[i].unanswered)]
            d == [i \in DOMAIN W |-> W[i].taskId]
<1>1. W \in Seq(WorkerState) /\ IsFiniteSet(DOMAIN W) /\ \A i \in DOMAIN W : W[i].unanswered \in Seq(BalancedTask)
  BY StateFields, WorkerFields
<1>2. A \in SUBSET DOMAIN W /\ B \in SUBSET DOMAIN W /\ \A i \in A : W[i].unanswered # <<>>
  BY DEF Executing, BusyWorkers
<1>3. IsFiniteSet(A) /\ IsFiniteSet(B)
  BY <1>1, <1>2, FS_Subset
<1>4. B = {i \in DOMAIN W : W[i].taskId # NoTaskId}
  BY DEF BusyWorkers
<1>. HIDE DEF A, B, W
<1>5. c \in [A -> BalancedTask]
  BY <1>1, <1>2
<1>6. ASSUME NEW t \in BalancedTask
      PROVE  Cardinality({i \in A : c[i] = t}) <= Cardinality({i \in B : d[i] = t})
  <2>. DEFINE P == {i \in A : c[i] = t}
              f == Owed(W, t)
              U == Units(f, DOMAIN W)
              g == [i \in P |-> <<i, 1>>]
  <2>1. \A i \in DOMAIN W : f[i] \in Nat /\ (f[i] = 0 <=> \A j \in DOMAIN W[i].unanswered : W[i].unanswered[j] # t)
    BY <1>1, OccurrencesType DEF Owed
  <2>2. \A i \in P : i \in DOMAIN W /\ f[i] \in Nat /\ f[i] # 0
    <3>1. ASSUME NEW i \in P  PROVE i \in DOMAIN W /\ f[i] \in Nat /\ f[i] # 0
      <4>1. /\ i \in DOMAIN W /\ W[i].unanswered \in Seq(BalancedTask) /\ W[i].unanswered # <<>>
            /\ Head(W[i].unanswered) = t
        BY <1>1, <1>2
      <4>2. 1 \in DOMAIN W[i].unanswered /\ W[i].unanswered[1] = t
        BY <4>1
      <4>. HIDE DEF f
      <4>. QED  BY <2>1, <4>1, <4>2
    <3>. QED  BY <3>1
  <2>3. IsFiniteSet(U) /\ Total(f, DOMAIN W) = Cardinality(U)
    <3>1. DOMAIN W \in SUBSET DOMAIN W
      OBVIOUS
    <3>. HIDE DEF f
    <3>. QED  BY <1>1, <2>1, <3>1, TotalType DEF Total
  <2>. HIDE DEF f, P
  <2>4. g \in Injection(P, U)
    <3>1. \A i \in P : <<i, 1>> \in U
      BY <2>2 DEF Units
    <3>2. \A i, j \in P : g[i] = g[j] => i = j
      OBVIOUS
    <3>. HIDE DEF U
    <3>. QED  BY <3>1, <3>2 DEF Injection, IsInjective
  <2>5. Cardinality(P) <= Cardinality(U)
    BY <2>3, <2>4, FS_Injection
  <2>6. Cardinality(U) = Cardinality(Marked(W, t))
    BY <2>3 DEF Matched, f, W
  <2>7. {i \in B : d[i] = t} = Marked(W, t)
    BY <1>4, BalancerAssumption DEF Marked, BalancerAssumption
  <2>. QED  BY <2>5, <2>6, <2>7 DEF P
<1>7. Cardinality(A) <= Cardinality(B)
  <2>1. SmallerParts(A, B, BalancedTask, c, d)
    BY <1>6 DEF SmallerParts
  <2>. HIDE DEF c, d
  <2>. QED  BY <1>3, <1>5, <2>1, NoLargerByParts
<1>. QED  BY <1>7 DEF A, B

LEMMA ExecutingAlone ==
    ASSUME NEW q, Alone(q.workers)
    PROVE  Executing(q) = BusyWorkers(q)
<1>1. \A x : <<x>> # <<>>
  OBVIOUS
<1>2. \A i \in DOMAIN q.workers : q.workers[i].unanswered = <<>> <=> q.workers[i].taskId = NoTaskId
  BY <1>1, Zenon DEF Alone
<1>. QED  BY <1>2, Zenon DEF Executing, BusyWorkers

\* LoadNeverUnderestimated: what the balancer has heard of a pool is at least the
\* number of its workers that are marked busy and, while no thread died or no id is
\* used twice, of its threads that execute a task.
THEOREM LoadCorrect == BalancerSpec => []LoadNeverUnderestimated
<1>1. BalancerInv => LoadNeverUnderestimated
  <2>. SUFFICES ASSUME BalancerInv, NEW p \in Elements(balancer.attached),
                       balancer.stats[p].heard
                PROVE  LET q == workerPools[p] IN
                       /\ Cardinality(BusyWorkers(q)) <= balancer.stats[p].busy
                       /\ (deaths = 0 /\ q.stage = "open") \/ (\A t \in BalancedTask : submitted[t] <= 1) =>
                              Cardinality(Executing(q)) <= balancer.stats[p].busy
    BY DEF LoadNeverUnderestimated
  <2>. DEFINE q == workerPools[p]
  <2>1. p \in BalancedPool
    BY BalancerPre, BalancerFields DEF Elements
  <2>2. /\ q \in BalancedPoolState /\ balancer \in BalancerState
        /\ Sound(q, ChosenFor(p), submitted, deaths) /\ Known(balancer, p, q)
    BY <2>1, CountsTypes
  <2>3. balancer.stats[p].busy \in Nat /\ Cardinality(BusyWorkers(q)) \in Nat
    BY <2>1, <2>2, BalancerFields, BusyFinite
  <2>4. Cardinality(BusyWorkers(q)) <= balancer.stats[p].busy
    BY <2>2 DEF Known
  <2>. HIDE DEF q
  <2>5. ASSUME deaths = 0 /\ q.stage = "open"
        PROVE  Cardinality(Executing(q)) <= Cardinality(BusyWorkers(q))
    <3>1. Matched(q.workers)
      BY <2>2, <2>5 DEF Sound
    <3>. QED  BY <2>2, <3>1, ExecutingMatched
  <2>6. ASSUME \A t \in BalancedTask : submitted[t] <= 1
        PROVE  Executing(q) = BusyWorkers(q)
    <3>1. Alone(q.workers)
      BY <2>2, <2>6 DEF Sound, Once, UsedOnce
    <3>. QED  BY <3>1, ExecutingAlone
  <2>7. IsFiniteSet(Executing(q)) /\ Cardinality(Executing(q)) \in Nat
    <3>1. IsFiniteSet(DOMAIN q.workers) /\ Executing(q) \in SUBSET DOMAIN q.workers
      BY <2>2, StateFields, WorkerFields DEF Executing
    <3>. QED  BY <3>1, FS_Subset, FS_CardinalityType
  <2>8. (deaths = 0 /\ q.stage = "open") \/ (\A t \in BalancedTask : submitted[t] <= 1) =>
           Cardinality(Executing(q)) <= balancer.stats[p].busy
    BY <2>3, <2>4, <2>5, <2>6, <2>7
  <2>. QED  BY <2>4, <2>8 DEF q
<1>. QED  BY <1>1, BalancerInvAlways, PTL
=============================================================================
