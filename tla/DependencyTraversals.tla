------------------------ MODULE DependencyTraversals ------------------------
(***************************************************************************)
(* The depth-first traversals of DependencyResolver, call by call, in      *)
(* every graph that addPlugin and removePlugin reach.  A frame is a call   *)
(* on the stack of the language: the id it was made for, and those that    *)
(* its loop has still to visit.  A Set is iterated in any order.           *)
(*                                                                         *)
(* Everything is synchronous, so the graph does not change under a         *)
(* traversal.  An answer is forgotten when the graph changes.              *)
(***************************************************************************)
EXTENDS DependencyResolver, Integers, Selections, SequencesExt

VARIABLE traversal

traversalVars == <<known, graph, reverse, traversal>>

Frame == [node: Plugin, left: SUBSET Plugin]

Traversal ==
    [of: {"none", "cycles", "order", "impact"},
     asked: SUBSET Plugin,            \* the ids the outermost call or loop is for
     roots: SUBSET Plugin,            \* those it has still to visit
     frames: Seq(Frame),
     visited: SUBSET Plugin,
     recursionStack: SUBSET Plugin,   \* hasCyclicDependencies
     cyclic: BOOLEAN,                 \* its answer
     order: Seq(Plugin),              \* getLoadOrder
     allDependents: SUBSET Plugin]    \* getImpactAnalysis

TraversalTypeOK == ResolverTypeOK /\ traversal \in Traversal

Beginning(kind, ids) ==
    [of |-> kind, asked |-> ids, roots |-> ids, frames |-> <<>>, visited |-> {},
     recursionStack |-> {}, cyclic |-> FALSE, order |-> <<>>, allDependents |-> {}]

TraversalInit == ResolverInit /\ traversal = Beginning("none", {})

Ended(t) == t.roots = {} /\ t.frames = <<>>

\* The graph a traversal follows.
Followed(t) == IF t.of = "impact" THEN reverse ELSE graph

Top(t) == t.frames[Len(t.frames)]
-----------------------------------------------------------------------------
(***************************************************************************)
(* dfs, visit and findAllDependents                                        *)
(***************************************************************************)
\* Mutation: a node that another path leads to is still on the recursion stack.
LeftOnStack(t, p) == t

\* recursionStack.delete, before dfs returns false.
Left(t, p) == [t EXCEPT !.recursionStack = @ \ {p}]

\* Mutation: a node is listed before what it depends on.
ListedFirst(t, p) == [t EXCEPT !.order = <<p>> \o @]

\* order.push, before visit returns.
Listed(t, p) == [t EXCEPT !.order = Append(@, p)]

\* Mutation: a dependent that was visited before is not counted.
CountedUnvisited(t, d) ==
    IF d \in t.visited THEN t ELSE [t EXCEPT !.allDependents = @ \cup {d}]

\* allDependents.add, before findAllDependents is called.
Counted(t, d) == [t EXCEPT !.allDependents = @ \cup {d}]

\* dfs has come back to a call that is not over: every call returns true.
CycleFound(t) == [t EXCEPT !.cyclic = TRUE, !.roots = {}, !.frames = <<>>]

Entered(t, p) ==
    [t EXCEPT !.visited = @ \cup {p},
              !.recursionStack = IF t.of = "cycles" THEN @ \cup {p} ELSE @,
              !.frames = Append(@, [node |-> p, left |-> Followed(t)[p]])]

\* A call for p, up to its loop or its early return.
Called(t, p) ==
    IF t.of = "cycles" /\ p \in t.recursionStack THEN CycleFound(t)
    ELSE IF p \in t.visited THEN t
    ELSE Entered(t, p)

\* The innermost call is over.
Returned(t) ==
    LET p == Top(t).node
        s == [t EXCEPT !.frames = Front(@)]
    IN  CASE t.of = "cycles" -> Left(s, p)
          [] t.of = "order" -> Listed(s, p)
          [] OTHER -> s
-----------------------------------------------------------------------------
AddPluginEdges(p, D) ==
    /\ Ended(traversal) /\ AddPlugin(p, D)
    /\ traversal' = Beginning("none", {})

RemovePluginEdges(p) ==
    /\ Ended(traversal) /\ RemovePlugin(p)
    /\ traversal' = Beginning("none", {})

Start(kind, ids) ==
    /\ Ended(traversal) /\ traversal' = Beginning(kind, ids)
    /\ UNCHANGED resolverVars

HasCyclicDependenciesOf(p) == Start("cycles", {p})

GetLoadOrder == Start("order", known)

GetImpactAnalysis(p) == Start("impact", {p})

CallRoot(p) ==
    /\ traversal.frames = <<>> /\ p \in traversal.roots
    /\ traversal' = Called([traversal EXCEPT !.roots = @ \ {p}], p)
    /\ UNCHANGED resolverVars

\* The loop of the innermost call reaches d.
CallNext(d) ==
    LET t == traversal
        s == [t EXCEPT !.frames[Len(t.frames)].left = @ \ {d}]
    IN  /\ t.frames # <<>> /\ d \in Top(t).left
        /\ traversal' = Called(IF t.of = "impact" THEN Counted(s, d) ELSE s, d)
        /\ UNCHANGED resolverVars

CallEnds ==
    /\ traversal.frames # <<>> /\ Top(traversal).left = {}
    /\ traversal' = Returned(traversal)
    /\ UNCHANGED resolverVars

TraversalStep == CallEnds \/ \E p \in Plugin : CallRoot(p) \/ CallNext(p)

TraversalNext ==
    \/ \E p \in Plugin : \/ \E D \in SUBSET Plugin : AddPluginEdges(p, D)
                         \/ RemovePluginEdges(p)
                         \/ HasCyclicDependenciesOf(p)
                         \/ GetImpactAnalysis(p)
    \/ GetLoadOrder
    \/ TraversalStep

TraversalSpec == TraversalInit /\ [][TraversalNext]_traversalVars
-----------------------------------------------------------------------------
(***************************************************************************)
(* Properties                                                              *)
(***************************************************************************)
Answered(kind) == traversal.of = kind /\ Ended(traversal)

ReachedFrom(g, S) == UNION {Reach(g, p) : p \in S}

\* hasCyclicDependencies answers true exactly when the plugin is on a cycle or
\* depends, however indirectly, on one that is; diamonds are no cycles.
CyclesFound ==
    Answered("cycles") =>
        (traversal.cyclic <=> \E p \in traversal.asked : HasCyclicDependencies(graph, p))

\* The load order lists every known plugin, and what those lead to, once and,
\* cycles elsewhere in the graph or not, after all its dependencies unless it
\* leads to a cycle; the unload order is its reverse.
LoadOrderSound ==
    Answered("order") =>
        LET order == traversal.order IN
        /\ IsInjective(order) /\ Elements(order) = ReachedFrom(graph, known)
        /\ \A i, j \in DOMAIN order :
            order[j] \in graph[order[i]] /\ ~HasCyclicDependencies(graph, order[i]) => j < i

\* The impact of a plugin, found over the reverse graph, is every plugin whose
\* dependencies lead to it in the forward graph.
ImpactComplete ==
    Answered("impact") =>
        \A p \in traversal.asked :
            traversal.allDependents = {q \in Plugin : \E d \in graph[q] : p \in Reach(graph, d)}

\* The steps that are left at most: edges and roots not taken yet, and returns.
Untaken(t) ==
    {e \in Plugin \X Plugin :
        /\ e[2] \in Followed(t)[e[1]]
        /\ \/ e[1] \notin t.visited
           \/ \E i \in DOMAIN t.frames : t.frames[i].node = e[1] /\ e[2] \in t.frames[i].left}

Remaining(t) == 2 * Cardinality(Untaken(t)) + 2 * Cardinality(t.roots) + Len(t.frames)

\* Every step of a traversal brings it closer to its end, also around a cycle.
TraversalsAdvance == [][TraversalStep => Remaining(traversal)' < Remaining(traversal)]_traversalVars
=============================================================================
