---------------------------- MODULE DataCollector ----------------------------
(***************************************************************************)
(* DataCollector of packages/plugin-oracle-validator: collectData asks     *)
(* every source for the price of a symbol, a few at a time, within their   *)
(* rate limits, with retries and a cache.                                  *)
(*                                                                         *)
(* The loop runs over the live Map of sources and suspends when all slots  *)
(* are taken, while sources are added and removed and other collections    *)
(* run.  All collections here are for one symbol, so that they share the   *)
(* cache; what they answer is counted per source.  Time is left out: an    *)
(* interval may be over, a cache entry expired, at any moment.             *)
(***************************************************************************)
EXTENDS Integers, Sequences, FiniteSets, SequencesExt

CONSTANTS Source, Collection,
          MaxRequests,      \* maxConcurrentRequests
          MaxAttempts,      \* retryAttempts
          RateLimit,        \* requests per interval
          MaxEdits,         \* bound: addSource and removeSource calls
          NoSource, NoCollect

ASSUME CollectorAssumption ==
    /\ IsFiniteSet(Source) /\ IsFiniteSet(Collection) /\ NoSource \notin Source
    /\ MaxRequests \in Nat \ {0} /\ MaxAttempts \in Nat \ {0}
    /\ RateLimit \in Nat \ {0} /\ MaxEdits \in Nat

VARIABLES sources,    \* the Map, in insertion order
          limiter,    \* source -> requests in its interval, 0 when none is counted
          fresh,      \* sources with a cache entry that has not expired
          collects,   \* collection -> its state, or NoCollect
          edits       \* addSource and removeSource calls so far

collectorVars == <<sources, limiter, fresh, collects, edits>>

(***************************************************************************)
(* cursor is the position the loop asks the Map for next, held the source  *)
(* for which it awaits a slot, tasks the requests under way.  steady is    *)
(* history: the sources that stayed in the Map since the loop began.       *)
(***************************************************************************)
Task == [source: Source, number: 1..MaxEdits, attempt: 1..MaxAttempts]

CollectState ==
    [stage: {"looping", "awaiting"}, cursor: 1..(MaxEdits + 1), held: Source \cup {NoSource},
     tasks: SUBSET Task, started: 0..MaxEdits,
     dataPoints: [Source -> Nat], failed: [Source -> Nat], steady: SUBSET Source]

CollectorInit ==
    /\ sources = <<>> /\ limiter = [s \in Source |-> 0] /\ fresh = {}
    /\ collects = [c \in Collection |-> NoCollect] /\ edits = 0

Edited == edits < MaxEdits /\ edits' = edits + 1

\* Set again, a source keeps its place; with a limit of its own it counts anew.
AddSource(s, limited) ==
    /\ Edited
    /\ sources' = IF s \in ToSet(sources) THEN sources ELSE Append(sources, s)
    /\ limiter' = IF limited THEN [limiter EXCEPT ![s] = 0] ELSE limiter
    /\ UNCHANGED <<fresh, collects>>

\* An iterator past the entry moves with it.
RemoveSource(s) ==
    /\ Edited /\ limiter' = [limiter EXCEPT ![s] = 0]
    /\ \/ /\ s \notin ToSet(sources) /\ UNCHANGED <<sources, collects>>
       \/ \E i \in DOMAIN sources :
             /\ sources[i] = s /\ sources' = RemoveAt(sources, i)
             /\ collects' = [c \in Collection |->
                   IF collects[c] = NoCollect \/ collects[c].stage = "awaiting" THEN collects[c]
                   ELSE [collects[c] EXCEPT !.steady = @ \ {s},
                                            !.cursor = IF i < @ THEN @ - 1 ELSE @]]
    /\ UNCHANGED fresh
-----------------------------------------------------------------------------
(***************************************************************************)
(* The loop.  acc is the collection with the limiter; over are the sources *)
(* whose interval is over when it asks.                                    *)
(***************************************************************************)
WithinRate(count, s, over) == s \in over \/ count[s] < RateLimit

Counted(count, s, over) ==
    [count EXCEPT ![s] = IF s \in over THEN 1 ELSE @ + 1]

\* A request for s, if its rate limit allows one.
Fetch(acc, s, over) ==
    IF WithinRate(acc.limiter, s, over)
    THEN [limiter |-> Counted(acc.limiter, s, over),
          call |-> [acc.call EXCEPT !.started = @ + 1,
              !.tasks = @ \cup {[source |-> s, number |-> acc.call.started + 1, attempt |-> 1]}]]
    ELSE [acc EXCEPT !.call.failed[s] = @ + 1]

\* Mutation: a source that is in the cache is asked as well.
VisitCachedToo(acc, s, over) ==
    IF acc.call.held # NoSource THEN acc
    ELSE LET at == [acc EXCEPT !.call.cursor = @ + 1,
                       !.call.dataPoints[s] = IF s \in fresh THEN @ + 1 ELSE @]
         IN  IF Cardinality(at.call.tasks) >= MaxRequests
             THEN [at EXCEPT !.call.held = s]
             ELSE Fetch(at, s, over)

\* One turn, unless an earlier one awaits a slot.
Visit(acc, s, over) ==
    IF acc.call.held # NoSource THEN acc
    ELSE LET at == [acc EXCEPT !.call.cursor = @ + 1]
         IN  IF s \in fresh THEN [at EXCEPT !.call.dataPoints[s] = @ + 1]
             ELSE IF Cardinality(at.call.tasks) >= MaxRequests
             THEN [at EXCEPT !.call.held = s]
             ELSE Fetch(at, s, over)

\* The turns from cursor on, up to one that must wait or the end of the Map.
Proceed(c, acc, over) ==
    LET after[i \in 0..Len(sources)] ==
            IF i < acc.call.cursor THEN acc ELSE Visit(after[i - 1], sources[i], over)
        end == after[Len(sources)]
        stage == IF end.call.held = NoSource THEN "awaiting" ELSE "looping"
    IN  /\ collects' = [collects EXCEPT ![c] = [end.call EXCEPT !.stage = stage]]
        /\ limiter' = end.limiter
        /\ UNCHANGED <<sources, fresh, edits>>

CollectData(c, over) ==
    /\ collects[c] = NoCollect
    /\ Proceed(c, [limiter |-> limiter,
           call |-> [stage |-> "looping", cursor |-> 1, held |-> NoSource,
                     tasks |-> {}, started |-> 0, steady |-> ToSet(sources),
                     dataPoints |-> [s \in Source |-> 0], failed |-> [s \in Source |-> 0]]],
               over)

\* A slot is free: the source that was held is asked, removed or not.
SlotFree(c, over) ==
    /\ collects[c] # NoCollect /\ collects[c].held # NoSource
    /\ Cardinality(collects[c].tasks) < MaxRequests
    /\ Proceed(c, Fetch([limiter |-> limiter, call |-> [collects[c] EXCEPT !.held = NoSource]],
                        collects[c].held, over), over)

Ends(c, t) == [collects[c] EXCEPT !.tasks = @ \ {t}]

FetchSucceeds(c, t) ==
    /\ collects' = [collects EXCEPT ![c] = [Ends(c, t) EXCEPT !.dataPoints[t.source] = @ + 1]]
    /\ fresh' = fresh \cup {t.source}
    /\ UNCHANGED <<sources, limiter, edits>>

\* An error or a timeout.  Retries are not counted by the limiter.
FetchFails(c, t) ==
    /\ collects' = [collects EXCEPT ![c] =
           IF t.attempt < MaxAttempts
           THEN [Ends(c, t) EXCEPT !.tasks = @ \cup {[t EXCEPT !.attempt = @ + 1]}]
           ELSE [Ends(c, t) EXCEPT !.failed[t.source] = @ + 1]]
    /\ UNCHANGED <<sources, limiter, fresh, edits>>

CollectionDone(c) ==
    collects[c] # NoCollect /\ collects[c].stage = "awaiting" /\ collects[c].tasks = {}

CollectReturns(c) ==
    /\ CollectionDone(c) /\ collects' = [collects EXCEPT ![c] = NoCollect]
    /\ UNCHANGED <<sources, limiter, fresh, edits>>

\* An entry expires; cleanCache or a look at it removes it.
CacheExpires(s) ==
    /\ s \in fresh /\ fresh' = fresh \ {s}
    /\ UNCHANGED <<sources, limiter, collects, edits>>

CollectorNext ==
    \/ \E s \in Source : \/ \E limited \in BOOLEAN : AddSource(s, limited)
                         \/ RemoveSource(s) \/ CacheExpires(s)
    \/ \E c \in Collection :
         \/ \E over \in SUBSET Source : CollectData(c, over) \/ SlotFree(c, over)
         \/ CollectReturns(c)
         \/ collects[c] # NoCollect
            /\ \E t \in collects[c].tasks : FetchSucceeds(c, t) \/ FetchFails(c, t)

CollectorSpec == CollectorInit /\ [][CollectorNext]_collectorVars
-----------------------------------------------------------------------------
CollectorTypeOK ==
    /\ sources \in Seq(Source) /\ limiter \in [Source -> 0..RateLimit]
    /\ fresh \in SUBSET Source /\ edits \in 0..MaxEdits
    /\ collects \in [Collection -> CollectState \cup {NoCollect}]

Answers(c, s) == collects[c].dataPoints[s] + collects[c].failed[s]

\* A source that stays in the Map while a collection runs appears in its result
\* exactly once, as a data point or as a failure, however the collection is held
\* up, sources come and go around it, and others fill the cache and use up the
\* rates.
SteadySourcesCountedOnce ==
    \A c \in Collection : collects[c] # NoCollect =>
        \A s \in collects[c].steady :
            /\ Answers(c, s) <= 1
            /\ CollectionDone(c) => Answers(c, s) = 1
=============================================================================
