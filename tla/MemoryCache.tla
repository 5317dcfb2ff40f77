---------------------------- MODULE MemoryCache ----------------------------
(***************************************************************************)
(* MemoryCache of packages/core/src/cache: entries with sizes, eviction of *)
(* a fifth of them when the cache is full, expiry on access.               *)
(*                                                                         *)
(* set awaits evictIfNeeded, which looks at the sizes before it returns:   *)
(* the entry is inserted one microtask later.  Microtasks run in the order *)
(* in which they were queued, so the set calls that wait form a sequence,  *)
(* and mset is several of them begun at once.  All else is synchronous.    *)
(***************************************************************************)
EXTENDS Integers, Sequences, FiniteSets, Sums

CONSTANTS CacheKey,
          EntrySize,        \* what calculateSize may answer
          MaxEntries,       \* config.maxSize
          MaxMemory,        \* config.maxMemory, compared with memoryUsage
          MaxSets           \* bound: set calls that wait at a time

ASSUME CacheAssumption ==
    /\ IsFiniteSet(CacheKey) /\ EntrySize \subseteq Nat \ {0}
    /\ MaxEntries \in Nat \ {0} /\ MaxMemory \in Nat \ {0} /\ MaxSets \in Nat

VARIABLES entries,    \* key -> size of its entry, or 0
          usage,      \* memoryUsage
          awaiting,   \* set calls past evictIfNeeded, the oldest first
          leftover    \* history: what close() left in memoryUsage

cacheVars == <<entries, usage, awaiting, leftover>>

SetCall == [key: CacheKey, size: EntrySize]

Cached == {k \in CacheKey : entries[k] # 0}

CacheInit ==
    /\ entries = [k \in CacheKey |-> 0] /\ usage = 0
    /\ awaiting = <<>> /\ leftover = 0

SizeOf(K) == Total(entries, K)

Removed(K) == [k \in CacheKey |-> IF k \in K THEN 0 ELSE entries[k]]

\* A fifth of them, rounded up.
EvictCount(n) == (n + 4) \div 5

\* Which entries score lowest depends on ages and hits: any of them may.
Evicted(K) == K \subseteq Cached /\ Cardinality(K) = EvictCount(Cardinality(Cached))

\* Mutation: the cache may be one entry over its limit before it evicts.
FullLate == Cardinality(Cached) > MaxEntries \/ usage >= MaxMemory

Full == Cardinality(Cached) >= MaxEntries \/ usage >= MaxMemory

\* set, up to its await.
BeginSet(k, n) ==
    /\ Len(awaiting) < MaxSets
    /\ awaiting' = Append(awaiting, [key |-> k, size |-> n])
    /\ IF Full
       THEN \E K \in SUBSET Cached :
                Evicted(K) /\ entries' = Removed(K) /\ usage' = usage - SizeOf(K)
       ELSE UNCHANGED <<entries, usage>>
    /\ UNCHANGED leftover

\* Mutation: the entry that is replaced stays in the accounts.
EndSetUnaccounted ==
    /\ awaiting # <<>>
    /\ entries' = [entries EXCEPT ![Head(awaiting).key] = Head(awaiting).size]
    /\ usage' = usage + Head(awaiting).size
    /\ awaiting' = Tail(awaiting)
    /\ UNCHANGED leftover

\* ... and after it.
EndSet ==
    /\ awaiting # <<>>
    /\ entries' = [entries EXCEPT ![Head(awaiting).key] = Head(awaiting).size]
    /\ usage' = usage - entries[Head(awaiting).key] + Head(awaiting).size
    /\ awaiting' = Tail(awaiting)
    /\ UNCHANGED leftover

\* delete, or get of an entry that has expired.
Delete(k) ==
    /\ entries[k] # 0
    /\ entries' = Removed({k}) /\ usage' = usage - entries[k]
    /\ UNCHANGED <<awaiting, leftover>>

\* clear and init.
Clear ==
    /\ entries' = Removed(CacheKey) /\ usage' = 0 /\ leftover' = 0
    /\ UNCHANGED awaiting

\* It leaves memoryUsage as it is.  Bound: once between two clears.
CloseCache ==
    /\ leftover = 0
    /\ entries' = Removed(CacheKey) /\ leftover' = usage
    /\ UNCHANGED <<usage, awaiting>>

CacheNext ==
    \/ \E k \in CacheKey : Delete(k) \/ \E n \in EntrySize : BeginSet(k, n)
    \/ EndSet \/ Clear \/ CloseCache

CacheSpec == CacheInit /\ [][CacheNext]_cacheVars
-----------------------------------------------------------------------------
CacheTypeOK ==
    /\ entries \in [CacheKey -> EntrySize \cup {0}]
    /\ usage \in Nat /\ leftover \in Nat
    /\ awaiting \in Seq(SetCall)

\* Every set that waits may still insert one entry, and all of them looked at
\* the number of entries before: the cache outgrows maxSize by the sets that run
\* at a time, less one, and by no more, however they meet deletions and evictions.
\* (Nothing of the kind holds of maxMemory: sets one after another, each of which
\* evicts small entries and inserts a large one, outgrow it further and further.)
\* And
\* memoryUsage, by which evictIfNeeded decides, is the size of what is cached,
\* whatever was replaced, evicted or deleted between the two halves of a set; a
\* close leaves its share in it until clear or init.
CacheWithinLimit ==
    /\ Cardinality(Cached) + Len(awaiting) <= MaxEntries - 1 + MaxSets
    /\ usage = SizeOf(Cached) + leftover
=============================================================================
