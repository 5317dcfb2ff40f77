--------------------------- MODULE ResourceLimiter ---------------------------
(***************************************************************************)
(* ResourceLimiter of packages/core/src/resource, for one resource type:   *)
(* the Maps have an entry per type and nothing relates them.               *)
(*                                                                         *)
(* allocate looks at the usage, or measures it anew when the last look is  *)
(* old, compares it with the limit of that moment and adds its amount, with *)
(* an await between each two of these.  Time is left out: a look may be     *)
(* old at any moment.                                                      *)
(***************************************************************************)
EXTENDS Integers, FiniteSets, Sums

CONSTANTS Allocator,     \* allocate calls that run at a time
          Amount,        \* amounts that are asked for
          Measured,      \* what a measurement may answer; 0 for disk and network
          Limits         \* limits the configuration may set

ASSUME LimiterAssumption ==
    /\ IsFiniteSet(Allocator) /\ Amount \subseteq Nat \ {0}
    /\ Measured \subseteq Nat /\ Measured # {} /\ Limits \subseteq Nat

VARIABLES resourceUsage,
          maxUsage,        \* the limit in config
          allocations,     \* call -> what it awaits, the amount and the usage it saw
          monitoring,      \* does the monitor await a measurement?
          highest          \* history: the highest limit so far

limiterVars == <<resourceUsage, maxUsage, allocations, monitoring, highest>>

Allocation(stage, n, used) == [stage |-> stage, amount |-> n, used |-> used]

NoAllocation == Allocation("none", 0, 0)

LimiterInit ==
    /\ resourceUsage = 0 /\ monitoring = FALSE
    /\ maxUsage \in Limits /\ highest = maxUsage
    /\ allocations = [c \in Allocator |-> NoAllocation]

\* Mutation: the amount itself is not counted.
FitsOnItsOwn(used, n) == used <= maxUsage

FitsLimit(used, n) == used + n <= maxUsage

\* allocate, up to its first await: the usage it remembers, or a measurement.
AllocateResource(c, n) ==
    /\ allocations[c].stage = "none"
    /\ \E next \in {Allocation("looked", n, resourceUsage), Allocation("measuring", n, 0)} :
           allocations' = [allocations EXCEPT ![c] = next]
    /\ UNCHANGED <<resourceUsage, maxUsage, monitoring, highest>>

\* The measurement replaces what was allocated meanwhile.
MeasurementEnds(c, m) ==
    /\ allocations[c].stage = "measuring"
    /\ resourceUsage' = m
    /\ allocations' = [allocations EXCEPT ![c] = Allocation("looked", @.amount, m)]
    /\ UNCHANGED <<maxUsage, monitoring, highest>>

\* checkLimit after its await; a refused call ends.
CheckLimit(c) ==
    /\ allocations[c].stage = "looked"
    /\ allocations' = [allocations EXCEPT ![c] =
           IF FitsLimit(@.used, @.amount) THEN Allocation("granted", @.amount, 0)
           ELSE NoAllocation]
    /\ UNCHANGED <<resourceUsage, maxUsage, monitoring, highest>>

Commit(c) ==
    /\ allocations[c].stage = "granted"
    /\ resourceUsage' = resourceUsage + allocations[c].amount
    /\ allocations' = [allocations EXCEPT ![c] = NoAllocation]
    /\ UNCHANGED <<maxUsage, monitoring, highest>>

\* Mutation: more may be released than is used.
ReleaseBelowZero(n) ==
    /\ resourceUsage' = resourceUsage - n
    /\ UNCHANGED <<maxUsage, allocations, monitoring, highest>>

Release(n) ==
    /\ resourceUsage' = IF resourceUsage < n THEN 0 ELSE resourceUsage - n
    /\ UNCHANGED <<maxUsage, allocations, monitoring, highest>>

\* The limit may fall below what is allocated, which stays.
UpdateConfig(l) ==
    /\ maxUsage' = l /\ highest' = IF l > highest THEN l ELSE highest
    /\ UNCHANGED <<resourceUsage, allocations, monitoring>>

\* The monitor's timer, which measures when the last look is old.
MonitorTick ==
    /\ ~monitoring /\ monitoring' = TRUE
    /\ UNCHANGED <<resourceUsage, maxUsage, allocations, highest>>

MonitorMeasures(m) ==
    /\ monitoring /\ monitoring' = FALSE
    /\ resourceUsage' = m /\ UNCHANGED <<maxUsage, allocations, highest>>

CloseLimiter ==
    resourceUsage' = 0 /\ UNCHANGED <<maxUsage, allocations, monitoring, highest>>

LimiterNext ==
    \/ \E c \in Allocator : \/ \E n \in Amount : AllocateResource(c, n)
                            \/ \E m \in Measured : MeasurementEnds(c, m)
                            \/ CheckLimit(c) \/ Commit(c)
    \/ \E n \in Amount : Release(n)
    \/ \E l \in Limits : UpdateConfig(l)
    \/ MonitorTick \/ (\E m \in Measured : MonitorMeasures(m)) \/ CloseLimiter

LimiterSpec == LimiterInit /\ [][LimiterNext]_limiterVars
-----------------------------------------------------------------------------
LimiterTypeOK ==
    /\ resourceUsage \in Nat /\ monitoring \in BOOLEAN
    /\ maxUsage \in Limits /\ highest \in Limits
    /\ allocations \in [Allocator ->
           [stage: {"none", "measuring", "looked", "granted"}, amount: Amount \cup {0}, used: Nat]]

Granted == {c \in Allocator : allocations[c].stage = "granted"}

\* The limits in force so far, and what an allocation makes of a measurement.
Bounds == {highest} \cup {m + n : m \in Measured, n \in Amount}

\* What is used and what has been granted but not yet added exceed the highest
\* limit so far, or a higher measurement and one amount, by the amounts of the
\* calls that run at a time, less one, and by no more: however calls that saw an
\* old usage, or are checked against a limit changed meanwhile, meet commits,
\* measurements and releases.  (A limit that is lowered takes nothing back.)
UsageWithinLimit ==
    \A most \in Amount, bound \in Bounds :
        (\A n \in Amount : n <= most) /\ (\A b \in Bounds : b <= bound) =>
            resourceUsage + Total([c \in Allocator |-> allocations[c].amount], Granted)
                <= bound + (Cardinality(Allocator) - 1) * most
=============================================================================
