----------------------------- MODULE MCServices -----------------------------
(***************************************************************************)
(* Managers that stand alone, each with callers, timers and requests of    *)
(* its own.  They share nothing: a behaviour is one of a single manager    *)
(* (part), and the others stay in their initial states.                    *)
(***************************************************************************)
EXTENDS MCMultisigRules, CronScheduler, MemoryPool, MemoryCache, NonceTracker,
        StreamProcessor, DataCollector, PluginRegistry, ResourceLimiter, TLC

CONSTANTS p1, p2, p3

VARIABLE part

\* p2 needs p1.
Dependencies == (p1 :> {}) @@ (p2 :> {p1}) @@ (p3 :> {})

servicesVars == <<part, mcVars, cronVars, memory, cacheVars, nonceVars, streamVars,
                  collectorVars, registryVars, limiterVars>>

ServicesInit ==
    /\ part \in {"rules", "cron", "memory", "cache", "nonce", "stream", "collector",
                 "registry", "limiter"}
    /\ MCInit /\ CronInit /\ MemoryInit /\ CacheInit /\ NonceInit /\ StreamInit
    /\ CollectorInit /\ RegistryInit /\ LimiterInit
    /\ part # "nonce" => chain = 0
    /\ part # "stream" => errorHeard
    /\ part # "registry" => options = Option
    /\ part # "limiter" => \A l \in Limits : l <= maxUsage

ServicesNext ==
    \/ /\ part = "rules" /\ MCNext
       /\ UNCHANGED <<part, cronVars, memory, cacheVars, nonceVars, streamVars,
                      collectorVars, registryVars, limiterVars>>
    \/ /\ part = "cron" /\ CronNext
       /\ UNCHANGED <<part, mcVars, memory, cacheVars, nonceVars, streamVars,
                      collectorVars, registryVars, limiterVars>>
    \/ /\ part = "memory" /\ MemoryNext
       /\ UNCHANGED <<part, mcVars, cronVars, cacheVars, nonceVars, streamVars,
                      collectorVars, registryVars, limiterVars>>
    \/ /\ part = "cache" /\ CacheNext
       /\ UNCHANGED <<part, mcVars, cronVars, memory, nonceVars, streamVars,
                      collectorVars, registryVars, limiterVars>>
    \/ /\ part = "nonce" /\ NonceNext
       /\ UNCHANGED <<part, mcVars, cronVars, memory, cacheVars, streamVars,
                      collectorVars, registryVars, limiterVars>>
    \/ /\ part = "stream" /\ StreamNext
       /\ UNCHANGED <<part, mcVars, cronVars, memory, cacheVars, nonceVars,
                      collectorVars, registryVars, limiterVars>>
    \/ /\ part = "collector" /\ CollectorNext
       /\ UNCHANGED <<part, mcVars, cronVars, memory, cacheVars, nonceVars, streamVars,
                      registryVars, limiterVars>>
    \/ /\ part = "registry" /\ RegistryNext
       /\ UNCHANGED <<part, mcVars, cronVars, memory, cacheVars, nonceVars, streamVars,
                      collectorVars, limiterVars>>
    \/ /\ part = "limiter" /\ LimiterNext
       /\ UNCHANGED <<part, mcVars, cronVars, memory, cacheVars, nonceVars, streamVars,
                      collectorVars, registryVars>>

ServicesSpec == ServicesInit /\ [][ServicesNext]_servicesVars /\ CronFairness

\* Each manager keeps states of its types.
ServicesTypeOK ==
    /\ RulesTypeOK /\ CronTypeOK /\ MemoryTypeOK /\ CacheTypeOK /\ NonceTypeOK
    /\ StreamTypeOK /\ CollectorTypeOK /\ RegistryTypeOK /\ LimiterTypeOK

\* How far limits that are looked at before an await, or not at all when a batch
\* is put back, are overrun: by what is under way at a time and never further.
\* The limits are the number of entries of MemoryCache (maxSize, not maxMemory),
\* the number of plugins of PluginRegistry, maxQueueSize of StreamProcessor, and
\* the highest limit, or measurement, of a resource of ResourceLimiter.
LimitsOverrunOnlyByConcurrency ==
    CacheWithinLimit /\ PluginsWithinLimit /\ UsageWithinLimit /\ QueueWithinLimit
=============================================================================
