------------------------ MODULE DependencyResolver ------------------------
(***************************************************************************)
(* DependencyResolver of packages/plugin-loader: the descriptors it has    *)
(* been given and two graphs over plugin ids, who depends on whom and the  *)
(* reverse.  The three Maps are written only by addPlugin and removePlugin *)
(* and both are synchronous.                                               *)
(*                                                                         *)
(* addPlugin adds edges to those an id already has: an id whose            *)
(* registration failed keeps the edges of every attempt.                   *)
(***************************************************************************)
EXTENDS FiniteSets

CONSTANT Plugin   \* plugin ids

ASSUME ResolverAssumption == IsFiniteSet(Plugin)

VARIABLES known,    \* the ids it has a descriptor of
          graph,    \* plugin -> the ids it depends on
          reverse   \* plugin -> the ids that depend on it

resolverVars == <<known, graph, reverse>>

ResolverTypeOK ==
    /\ known \in SUBSET Plugin
    /\ graph \in [Plugin -> SUBSET Plugin]
    /\ reverse \in [Plugin -> SUBSET Plugin]

ResolverInit ==
    /\ known = {}
    /\ graph = [p \in Plugin |-> {}]
    /\ reverse = [p \in Plugin |-> {}]

ReverseWith(p, D) ==
    [d \in Plugin |-> IF d \in D THEN reverse[d] \cup {p} ELSE reverse[d]]

GraphWith(p, D) == [graph EXCEPT ![p] = @ \cup D]

AddPlugin(p, D) ==
    /\ known' = known \cup {p}
    /\ graph' = GraphWith(p, D)
    /\ reverse' = ReverseWith(p, D)

\* Mutation: the dependents of the removed plugin keep their edge to it.
GraphWithoutOwn(p) == [graph EXCEPT ![p] = {}]

\* The edges of p and those its recorded dependents have to it go away.
GraphWithout(p) ==
    [q \in Plugin |-> IF q = p THEN {}
                      ELSE IF q \in reverse[p] THEN graph[q] \ {p} ELSE graph[q]]

ReverseWithout(p) ==
    [d \in Plugin |-> IF d = p THEN {}
                      ELSE IF d \in graph[p] THEN reverse[d] \ {p} ELSE reverse[d]]

RemovePlugin(p) ==
    /\ known' = known \ {p}
    /\ graph' = GraphWithout(p)
    /\ reverse' = ReverseWithout(p)
-----------------------------------------------------------------------------
(***************************************************************************)
(* What the traversals answer (the traversals themselves are in            *)
(* DependencyTraversals).                                                  *)
(***************************************************************************)
Closed(g, S) == \A q \in S : g[q] \subseteq S

\* Everything p reaches, p included: the smallest closed set around it.
Reach(g, p) ==
    {q \in Plugin : \A S \in SUBSET Plugin : p \in S /\ Closed(g, S) => q \in S}

\* Every group of S has a member that depends on none of the group.
Acyclic(g, S) ==
    \A T \in SUBSET S : T # {} => \E q \in T : g[q] \cap T = {}

HasCyclicDependencies(g, p) == ~Acyclic(g, Reach(g, p))

\* Mutation: a cycle is accepted.
ValidThoughCyclic(p, D) ==
    D \subseteq known \cup {p}

\* validateDependencies right after addPlugin(p), but for the version check:
\* every declared dependency has a descriptor, and p is on or above no cycle.
Valid(p, D) ==
    /\ D \subseteq known \cup {p}
    /\ ~HasCyclicDependencies(GraphWith(p, D), p)
-----------------------------------------------------------------------------
\* The two graphs mirror each other, whatever is added twice, removed while it
\* has dependents, or depends on itself.
GraphsMirror == \A p, d \in Plugin : d \in graph[p] <=> p \in reverse[d]
=============================================================================
