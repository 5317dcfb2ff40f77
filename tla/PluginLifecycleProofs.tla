----------------------- MODULE PluginLifecycleProofs -----------------------
(***************************************************************************)
(* For any number of plugins and concurrent callers: IInv is inductive.    *)
(* Its parts need each other: GraphInitialized needs the mirrored graphs   *)
(* (a removed plugin disappears from every edge to it) and the attached    *)
(* calls; GraphAcyclic needs only that a registration is refused when the  *)
(* new plugin reaches a cycle.  What holds of the graph holds of what the  *)
(* descriptors declare where these have their edges (EdgesOfDeclared), and *)
(* an edge is lost only in a race: an unload begins with no edge to its    *)
(* plugin, so who declares it then has lost it before (OrphanedByRace).    *)
(*                                                                         *)
(* For any graph, TraversalInv is inductive: it says what the calls on the *)
(* stack and those that are over have visited, listed and counted.         *)
(***************************************************************************)
EXTENDS PluginLifecycle, DependencyTraversals, DataLemmas

\* A subset of an acyclic set is acyclic, also in a graph with fewer edges.
LEMMA AcyclicShrinks ==
    ASSUME NEW g, NEW h, NEW S, NEW R, R \subseteq S, Acyclic(g, S),
           \A q \in R : h[q] \subseteq g[q]
    PROVE  Acyclic(h, R)
BY DEF Acyclic

\* What p reaches contains p and, with every member, what that depends on.
LEMMA ReachClosed ==
    ASSUME NEW g \in [Plugin -> SUBSET Plugin], NEW p \in Plugin
    PROVE  p \in Reach(g, p) /\ Closed(g, Reach(g, p)) /\ Reach(g, p) \subseteq Plugin
<1>1. p \in Reach(g, p) /\ Reach(g, p) \subseteq Plugin
    BY DEF Reach
<1>2. ASSUME NEW q \in Reach(g, p), NEW d \in g[q] PROVE d \in Reach(g, p)
    BY <1>1, <1>2 DEF Reach, Closed
<1> QED
    BY <1>1, <1>2 DEF Closed

\* A plugin that reaches no cycle can be added to an acyclic set.
LEMMA AcyclicGrows ==
    ASSUME NEW g \in [Plugin -> SUBSET Plugin], NEW p \in Plugin,
           NEW S \in SUBSET Plugin, Acyclic(g, S), Acyclic(g, Reach(g, p))
    PROVE  Acyclic(g, S \cup {p})
<1> SUFFICES ASSUME NEW T \in SUBSET (S \cup {p}), T # {}
             PROVE  \E q \in T : g[q] \cap T = {}
    BY DEF Acyclic
<1>1. CASE p \notin T
    BY <1>1 DEF Acyclic
<1>2. CASE p \in T
    <2> DEFINE U == T \cap Reach(g, p)
    <2>1. U # {} /\ U \in SUBSET Reach(g, p)
        BY <1>2, ReachClosed
    <2>2. PICK q \in U : g[q] \cap U = {}
        BY <2>1 DEF Acyclic
    <2>3. g[q] \subseteq Reach(g, p)
        BY <2>2, ReachClosed DEF Closed
    <2> QED
        BY <2>2, <2>3
<1> QED
    BY <1>1, <1>2
-----------------------------------------------------------------------------
(***************************************************************************)
(* The resolver                                                            *)
(***************************************************************************)
LEMMA AddPluginMirrors ==
    ASSUME ResolverTypeOK, GraphsMirror, NEW p \in Plugin, NEW D \in SUBSET Plugin,
           AddPlugin(p, D)
    PROVE  ResolverTypeOK' /\ GraphsMirror'
BY DEF ResolverTypeOK, GraphsMirror, AddPlugin, GraphWith, ReverseWith

LEMMA RemovePluginMirrors ==
    ASSUME ResolverTypeOK, GraphsMirror, NEW p \in Plugin, RemovePlugin(p)
    PROVE  /\ ResolverTypeOK' /\ GraphsMirror'
           /\ \A q \in Plugin : graph'[q] \subseteq graph[q] \ {p}
           /\ \A q \in Plugin \ {p} : graph'[q] = graph[q] \ {p}
           /\ graph'[p] = {}
<1>1. ResolverTypeOK'
    BY DEF ResolverTypeOK, RemovePlugin, GraphWithout, ReverseWithout
<1>2. /\ \A q \in Plugin : graph'[q] \subseteq graph[q] \ {p}
      /\ \A q \in Plugin \ {p} : graph'[q] = graph[q] \ {p}
    BY DEF ResolverTypeOK, GraphsMirror, RemovePlugin, GraphWithout
<1>3. graph'[p] = {}
    BY DEF RemovePlugin, GraphWithout
<1>4. ASSUME NEW q \in Plugin, NEW d \in Plugin
      PROVE  d \in graph'[q] <=> q \in reverse'[d]
    BY DEF ResolverTypeOK, GraphsMirror, RemovePlugin, GraphWithout, ReverseWithout
<1> QED
    BY <1>1, <1>2, <1>3, <1>4 DEF GraphsMirror
-----------------------------------------------------------------------------
(***************************************************************************)
(* Steps before an await                                                   *)
(***************************************************************************)
LEMMA RegisterPreserves ==
    ASSUME IInv, NEW p \in Plugin, NEW D \in SUBSET Plugin, RegisterPlugin(p, D)
    PROVE  IInv'
<1>1. TypeOK' /\ GraphsMirror'
    <2>1. ResolverTypeOK' /\ GraphsMirror'
        BY AddPluginMirrors DEF IInv, TypeOK, RegisterPlugin
    <2> QED
        BY <2>1 DEF IInv, TypeOK, RegisterPlugin, SetState, State, PluginState
<1>2. Registered' = Registered \cup {p} /\ p \notin Registered
    BY DEF IInv, TypeOK, RegisterPlugin, SetState, Registered, State, PluginState
<1>3. ResolverKnowsRegistered'
    BY <1>2 DEF IInv, ResolverKnowsRegistered, RegisterPlugin, AddPlugin
<1>4. GraphAcyclic'
    <2>1. graph' = GraphWith(p, D) /\ Acyclic(graph', Reach(graph', p))
        BY DEF RegisterPlugin, AddPlugin, Valid, HasCyclicDependencies
    <2>2. \A q \in Registered : graph'[q] = graph[q]
        BY <1>2, <2>1 DEF IInv, TypeOK, ResolverTypeOK, GraphWith, Registered
    <2>3. Acyclic(graph', Registered)
        BY <2>2, AcyclicShrinks DEF IInv, GraphAcyclic
    <2> QED
        BY <1>1, <1>2, <2>1, <2>3, AcyclicGrows DEF GraphAcyclic, TypeOK, ResolverTypeOK, Registered
<1>5. AttachedRegistered'
    BY <1>2 DEF IInv, AttachedRegistered, RegisterPlugin
<1>6. GraphInitialized'
    <2> SUFFICES ASSUME NEW q \in Plugin, Advancing(q)', NEW d \in graph'[q] PROVE Settled(d)'
        BY DEF GraphInitialized
    <2>1. q # p
        BY <1>2 DEF IInv, TypeOK, AttachedRegistered, RegisterPlugin, SetState,
                    Advancing, AwaitsHook
    <2>2. Advancing(q)
        BY <2>1 DEF IInv, TypeOK, RegisterPlugin, SetState, Advancing, AwaitsHook
    <2>3. d \in graph[q] /\ d \in Plugin
        BY <2>1 DEF IInv, TypeOK, ResolverTypeOK, RegisterPlugin, AddPlugin, GraphWith
    <2>4. Settled(d)
        BY <2>2, <2>3 DEF IInv, GraphInitialized
    <2> QED
        BY <2>3, <2>4, <1>2 DEF IInv, TypeOK, Settled, Registered, RegisterPlugin, SetState
<1>7. ActiveIsRunning'
    BY DEF IInv, TypeOK, ActiveIsRunning, RegisterPlugin, SetState
<1>8. /\ declares' = [declares EXCEPT ![p] = D] /\ orphaned' = orphaned /\ calls' = calls
      /\ racing' = [racing EXCEPT ![p] = {d \in D : BeingUnloaded(d)}]
      /\ graph' = GraphWith(p, D)
    BY DEF RegisterPlugin, AddPlugin
<1>9. orphaned[p] = {}
    BY <1>2 DEF IInv, UnregisteredDeclareNothing
<1>10. EdgesOfDeclared'
    BY <1>8 DEF IInv, TypeOK, ResolverTypeOK, EdgesOfDeclared, GraphWith
<1>11. OrphanedByRace'
    BY <1>8, <1>9 DEF IInv, TypeOK, OrphanedByRace, BeingUnloaded, UnloadedBy
<1>12. UnregisteredDeclareNothing'
    BY <1>2, <1>8 DEF IInv, TypeOK, UnregisteredDeclareNothing
<1> QED
    BY <1>1, <1>3, <1>4, <1>5, <1>6, <1>7, <1>10, <1>11, <1>12 DEF IInv

LEMMA FailRegisterPreserves ==
    ASSUME IInv, NEW p \in Plugin, NEW D \in SUBSET Plugin, FailRegister(p, D)
    PROVE  IInv'
<1>1. TypeOK' /\ GraphsMirror'
    BY AddPluginMirrors DEF IInv, TypeOK, FailRegister, descriptorVars
<1>2. Registered' = Registered /\ p \notin Registered
    BY DEF FailRegister, Registered
<1>3. \A q \in Plugin \ {p} : graph'[q] = graph[q]
    BY DEF IInv, TypeOK, ResolverTypeOK, FailRegister, AddPlugin, GraphWith
<1>4. ResolverKnowsRegistered'
    BY <1>2 DEF IInv, ResolverKnowsRegistered, FailRegister, AddPlugin
<1>5. GraphAcyclic'
    BY <1>2, <1>3, AcyclicShrinks DEF IInv, GraphAcyclic, Registered
<1>6. AttachedRegistered' /\ ActiveIsRunning'
    BY <1>2 DEF IInv, AttachedRegistered, ActiveIsRunning, FailRegister
<1>7. GraphInitialized'
    <2>1. ~Advancing(p)
        BY <1>2 DEF IInv, AttachedRegistered, Advancing, AwaitsHook, Registered
    <2> QED
        BY <1>3, <2>1 DEF IInv, GraphInitialized, Advancing, AwaitsHook, Settled,
                          FailRegister
<1>8. EdgesOfDeclared'
    BY <1>3 DEF IInv, TypeOK, ResolverTypeOK, EdgesOfDeclared, FailRegister, AddPlugin,
                GraphWith, descriptorVars
<1>9. OrphanedByRace' /\ UnregisteredDeclareNothing'
    BY <1>2 DEF IInv, OrphanedByRace, UnregisteredDeclareNothing, BeingUnloaded, UnloadedBy,
                FailRegister, descriptorVars
<1> QED
    BY <1>1, <1>4, <1>5, <1>6, <1>7, <1>8, <1>9 DEF IInv

\* A refused operation makes a registered plugin neither advance nor settle less.
LEMMA RefusePreserves ==
    ASSUME IInv, NEW p \in Registered, Refuse(p)
    PROVE  IInv'
<1>1. p \in Plugin /\ plugins' = [plugins EXCEPT ![p] = "error"]
    BY DEF Registered, Refuse, SetState
<1> USE DEF resolverVars, descriptorVars
<1>2. TypeOK' /\ Registered' = Registered
    BY <1>1 DEF IInv, TypeOK, ResolverTypeOK, Refuse, Registered, State, PluginState
<1>3. GraphInitialized' /\ ActiveIsRunning'
    BY <1>1 DEF IInv, TypeOK, ResolverTypeOK, GraphInitialized, ActiveIsRunning,
                Advancing, AwaitsHook, Settled, Refuse
<1>4. EdgesOfDeclared' /\ OrphanedByRace' /\ UnregisteredDeclareNothing'
    BY <1>2 DEF IInv, EdgesOfDeclared, OrphanedByRace, UnregisteredDeclareNothing,
                BeingUnloaded, UnloadedBy, Refuse
<1> QED
    BY <1>2, <1>3, <1>4 DEF IInv, GraphsMirror, ResolverKnowsRegistered, GraphAcyclic,
                            AttachedRegistered, Refuse

LEMMA AwaitPreserves ==
    ASSUME IInv, NEW p \in Registered, NEW c \in Caller, NEW op \in Operation,
           Await(c, op, p),
           op = "initialize" => DependenciesReady(p),
           op = "start" => plugins[p] = "initialized",
           op \in {"unloadStop", "uninstall"} => reverse[p] = {}
    PROVE  IInv'
<1> USE DEF resolverVars, descriptorVars
<1>1. p \in Plugin /\ [op |-> op, plugin |-> p, attached |-> TRUE] \in Call
    BY DEF Registered, Call
<1>2. TypeOK' /\ Registered' = Registered
    BY <1>1 DEF IInv, TypeOK, ResolverTypeOK, Await, Registered
<1>3. AttachedRegistered'
    BY <1>1, <1>2 DEF IInv, TypeOK, AttachedRegistered, Await
<1>4. GraphInitialized'
    <2> SUFFICES ASSUME NEW q \in Plugin, Advancing(q)', NEW d \in graph[q]
                 PROVE  Settled(d)
        BY DEF GraphInitialized, Settled, Await
    <2>1. Advancing(q) \/ (q = p /\ op \in {"initialize", "start"})
        BY <1>1 DEF IInv, TypeOK, Advancing, AwaitsHook, Await
    <2>2. CASE Advancing(q)
        BY <2>2 DEF IInv, GraphInitialized
    <2>3. CASE q = p /\ op = "initialize"
        BY <2>3 DEF DependenciesReady, Settled
    <2>4. CASE q = p /\ op = "start"
        BY <2>4 DEF IInv, GraphInitialized, Advancing
    <2> QED
        BY <2>1, <2>2, <2>3, <2>4
<1>5. EdgesOfDeclared' /\ UnregisteredDeclareNothing'
    BY <1>2 DEF IInv, EdgesOfDeclared, UnregisteredDeclareNothing, Await
<1>6. OrphanedByRace'
    <2> SUFFICES ASSUME NEW q \in Plugin, NEW d \in declares[q], BeingUnloaded(d)'
                 PROVE  d \in racing[q]
        BY DEF IInv, OrphanedByRace, Await
    <2>1. BeingUnloaded(d) \/ (d = p /\ op \in {"unloadStop", "uninstall"})
        BY <1>1 DEF IInv, TypeOK, BeingUnloaded, UnloadedBy, Await
    <2>2. CASE BeingUnloaded(d)
        BY <2>2 DEF IInv, OrphanedByRace
    <2>3. CASE d = p /\ reverse[p] = {}
        <3>1. p \notin graph[q]
            BY <1>1, <2>3 DEF IInv, GraphsMirror
        <3> QED
            BY <2>3, <3>1 DEF IInv, EdgesOfDeclared, OrphanedByRace
    <2> QED
        BY <2>1, <2>2, <2>3
<1> QED
    BY <1>2, <1>3, <1>4, <1>5, <1>6 DEF IInv, GraphsMirror, ResolverKnowsRegistered,
                                        GraphAcyclic, ActiveIsRunning, Await
-----------------------------------------------------------------------------
(***************************************************************************)
(* Continuations                                                           *)
(***************************************************************************)
\* The plugin is stopped, or not, and uninstall is called next.
GoesOn(c) == calls[c].op = "unloadStop" /\ Uninstalling(c)

\* A call goes away or goes on to uninstall; the others are as before.
CallsProceed ==
    /\ calls' \in [Caller -> Call \cup {NoCall}]
    /\ \A e \in Caller : calls'[e] # NoCall =>
        /\ calls[e] # NoCall
        /\ calls'[e].plugin = calls[e].plugin
        /\ calls'[e].attached = calls[e].attached
        /\ \/ calls'[e].op = calls[e].op
           \/ calls[e].op = "unloadStop" /\ calls'[e].op = "uninstall"

LEMMA ReturnProceeds ==
    ASSUME TypeOK, NEW c \in Caller, calls[c] # NoCall, Return(c) \/ GoesOn(c)
    PROVE  CallsProceed
<1>1. calls[c] \in Call
    BY DEF TypeOK
<1>2. CASE Return(c)
    BY <1>2 DEF TypeOK, Return, CallsProceed
<1>3. CASE GoesOn(c)
    <2> DEFINE r == [calls[c] EXCEPT !.op = "uninstall"]
    <2>1. /\ r \in Call /\ r.plugin = calls[c].plugin
          /\ r.attached = calls[c].attached /\ r.op = "uninstall"
        BY <1>1 DEF Call, Operation
    <2>2. calls' = [calls EXCEPT ![c] = r]
        BY <1>3 DEF GoesOn, Uninstalling
    <2> HIDE DEF r
    <2> QED
        BY <1>3, <2>1, <2>2 DEF TypeOK, CallsProceed, GoesOn
<1> QED
    BY <1>2, <1>3

\* A continuation that sets a registered plugin to a settled state, to an
\* advancing one only if it was advancing, and keeps active plugins running.
LEMMA ProceedPreserves ==
    ASSUME IInv, CallsProceed, UNCHANGED <<resolverVars, declares, orphaned>>,
           racing' = racing \/ RaceEnds(calls'),
           NEW p \in Plugin, NEW s \in PluginState \ {"registered"},
           plugins' = plugins \/ (p \in Registered /\ plugins' = [plugins EXCEPT ![p] = s]),
           s \in {"initialized", "active"} => plugins' = plugins \/ Advancing(p),
           up' \in [Plugin -> BOOLEAN], ActiveIsRunning'
    PROVE  IInv'
<1>0. /\ racing' \in [Plugin -> SUBSET Plugin]
      /\ \A q \in Plugin : racing'[q] \subseteq racing[q]
      /\ \A q \in Plugin, d \in Plugin :
            d \in racing[q] /\ (d \in orphaned[q] \/ BeingUnloaded(d)') => d \in racing'[q]
    BY DEF IInv, TypeOK, RaceEnds, BeingUnloaded
<1>1. TypeOK' /\ Registered' = Registered
    BY <1>0 DEF IInv, TypeOK, ResolverTypeOK, resolverVars, CallsProceed, Registered, State, PluginState
<1>2. AttachedRegistered'
    BY <1>1 DEF IInv, AttachedRegistered, CallsProceed
<1>3. \A d \in Plugin : Settled(d) => Settled(d)'
    BY DEF IInv, TypeOK, Settled, PluginState
<1>4. \A q \in Plugin : Advancing(q)' => Advancing(q)
    BY DEF IInv, TypeOK, Advancing, AwaitsHook, CallsProceed, PluginState
<1>5. GraphInitialized'
    BY <1>3, <1>4 DEF IInv, TypeOK, ResolverTypeOK, GraphInitialized, resolverVars
<1>6. EdgesOfDeclared' /\ UnregisteredDeclareNothing'
    BY <1>0, <1>1 DEF IInv, EdgesOfDeclared, UnregisteredDeclareNothing, resolverVars
<1>7. OrphanedByRace'
    <2>1. \A d : BeingUnloaded(d)' => BeingUnloaded(d)
        BY DEF BeingUnloaded, UnloadedBy, CallsProceed
    <2> QED
        BY <1>0, <2>1 DEF IInv, TypeOK, OrphanedByRace
<1> QED
    BY <1>1, <1>2, <1>5, <1>6, <1>7 DEF IInv, GraphsMirror, ResolverKnowsRegistered,
                                        GraphAcyclic, resolverVars

\* Where a hook was awaited, what the catch block writes is always "error".
LEMMA FailurePreserves ==
    ASSUME IInv, NEW c \in Caller, calls[c] # NoCall, Return(c) \/ GoesOn(c),
           plugins' = Failed(c), UNCHANGED <<resolverVars, declares, orphaned, up>>,
           racing' = racing \/ RaceEnds(calls')
    PROVE  IInv'
<1>1. CallsProceed /\ calls[c].plugin \in Plugin
    BY ReturnProceeds DEF IInv, TypeOK, Call
<1>2. /\ ActiveIsRunning' /\ up' \in [Plugin -> BOOLEAN]
      /\ \/ plugins' = plugins
         \/ calls[c].plugin \in Registered /\ plugins' = [plugins EXCEPT ![calls[c].plugin] = "error"]
    BY <1>1 DEF IInv, TypeOK, ActiveIsRunning, Failed
<1> QED
    BY <1>1, <1>2, ProceedPreserves DEF resolverVars, PluginState

\* A result is written to an attached descriptor, which is in the Map.
LEMMA WritePreserves ==
    ASSUME IInv, NEW c \in Caller, calls[c] # NoCall, Return(c) \/ GoesOn(c),
           NEW s \in PluginState \ {"registered"}, plugins' = Written(c, s),
           s \in {"initialized", "active"} => AwaitsHook(c, {"initialize", "start"}),
           up' = up \/ (s \in {"active", "inactive"} /\ up' = Switched(c, s = "active")),
           s = "active" => up' = Switched(c, TRUE),
           UNCHANGED <<resolverVars, descriptorVars>>
    PROVE  IInv'
<1>1. CallsProceed /\ calls[c].plugin \in Plugin
    BY ReturnProceeds DEF IInv, TypeOK, Call
<1>2. \/ plugins' = plugins
      \/ calls[c].plugin \in Registered /\ plugins' = [plugins EXCEPT ![calls[c].plugin] = s]
    BY DEF IInv, AttachedRegistered, Written
<1>3. s \in {"initialized", "active"} => plugins' = plugins \/ Advancing(calls[c].plugin)
    BY DEF Written, Advancing
<1>4. up' \in [Plugin -> BOOLEAN]
    BY <1>1 DEF IInv, TypeOK, Switched
<1>5. ActiveIsRunning'
    BY <1>1 DEF IInv, TypeOK, ActiveIsRunning, Written, Switched
<1> QED
    BY <1>1, <1>2, <1>3, <1>4, <1>5, ProceedPreserves DEF descriptorVars

\* Unloading: no edge to the plugin is left, and no call holds its descriptor.
LEMMA UninstalledPreserves ==
    ASSUME IInv, NEW c \in Caller, Uninstalled(c)
    PROVE  IInv'
<1> DEFINE p == calls[c].plugin
           S == [calls EXCEPT ![c] = NoCall]
<1>1. calls[c] \in Call /\ calls[c] # NoCall /\ p \in Plugin
    BY DEF IInv, TypeOK, Call, Uninstalled, AwaitsHook
<1>2. /\ calls' = Detached(S, p) /\ RemovePlugin(p)
      /\ plugins' = [plugins EXCEPT ![p] = "unregistered"]
      /\ up' = [up EXCEPT ![p] = FALSE]
    BY DEF Uninstalled, SetState
<1>2a. /\ declares' = [declares EXCEPT ![p] = {}] /\ racing' = [racing EXCEPT ![p] = {}]
       /\ orphaned' = [q \in Plugin |->
             IF q = p THEN {}
             ELSE IF p \in declares[q] THEN orphaned[q] \cup {p} ELSE orphaned[q]]
       /\ BeingUnloaded(p)
    BY DEF Uninstalled, BeingUnloaded, UnloadedBy, AwaitsHook
<1>3. /\ S \in [Caller -> Call \cup {NoCall}]
      /\ \A e \in Caller : S[e] # NoCall => S[e] = calls[e]
    BY DEF IInv, TypeOK
<1>4. /\ calls' \in [Caller -> Call \cup {NoCall}]
      /\ \A e \in Caller : calls'[e] # NoCall /\ calls'[e].attached =>
            calls'[e] = calls[e] /\ calls[e].plugin # p
      /\ \A e \in Caller : calls'[e] # NoCall =>
            /\ calls[e] # NoCall
            /\ calls'[e].plugin = calls[e].plugin /\ calls'[e].op = calls[e].op
    <2>1. ASSUME NEW e \in Caller
          PROVE  /\ calls'[e] \in Call \cup {NoCall}
                 /\ calls'[e] # NoCall /\ calls'[e].attached =>
                        calls'[e] = calls[e] /\ calls[e].plugin # p
                 /\ calls'[e] # NoCall =>
                        /\ calls[e] # NoCall
                        /\ calls'[e].plugin = calls[e].plugin /\ calls'[e].op = calls[e].op
        <3> DEFINE r == [S[e] EXCEPT !.attached = FALSE]
        <3>1. CASE S[e] # NoCall /\ S[e].plugin = p
            <4>1. /\ r \in Call /\ r.attached = FALSE
                  /\ r.plugin = S[e].plugin /\ r.op = S[e].op /\ S[e] = calls[e]
                BY <1>3, <3>1 DEF Call
            <4>2. calls'[e] = r
                BY <1>2, <3>1 DEF Detached
            <4> HIDE DEF r
            <4> QED
                BY <3>1, <4>1, <4>2
        <3>2. CASE ~(S[e] # NoCall /\ S[e].plugin = p)
            <4>1. calls'[e] = S[e]
                BY <1>2, <3>2 DEF Detached
            <4> QED
                BY <4>1, <1>3, <3>2
        <3> QED
            BY <3>1, <3>2
    <2>2. calls' = [e \in Caller |-> calls'[e]]
        BY <1>2 DEF Detached
    <2> QED
        BY <2>1, <2>2
<1> HIDE DEF p, S
<1>5. /\ ResolverTypeOK' /\ GraphsMirror'
      /\ \A q \in Plugin : graph'[q] \subseteq graph[q] \ {p}
      /\ \A q \in Plugin \ {p} : graph'[q] = graph[q] \ {p}
    BY <1>1, <1>2, RemovePluginMirrors DEF IInv, TypeOK
<1>6. TypeOK'
    BY <1>1, <1>2, <1>4, <1>5, <1>2a DEF IInv, TypeOK, State
<1>7. Registered' = Registered \ {p} /\ Registered' \subseteq Plugin
    BY <1>1, <1>2 DEF IInv, TypeOK, Registered
<1>8. ResolverKnowsRegistered'
    BY <1>2, <1>7 DEF IInv, ResolverKnowsRegistered, RemovePlugin
<1>9. GraphAcyclic'
    BY <1>5, <1>7, AcyclicShrinks DEF IInv, GraphAcyclic
<1>10. AttachedRegistered'
    BY <1>4, <1>7 DEF IInv, AttachedRegistered
<1>11. ActiveIsRunning'
    BY <1>1, <1>2 DEF IInv, TypeOK, ActiveIsRunning
<1>12. GraphInitialized'
    <2> SUFFICES ASSUME NEW q \in Plugin, Advancing(q)', NEW d \in graph'[q] PROVE Settled(d)'
        BY DEF GraphInitialized
    <2>1. q # p /\ Advancing(q)
        BY <1>1, <1>2, <1>4 DEF IInv, TypeOK, Advancing, AwaitsHook
    <2>2. d \in graph[q] /\ d # p /\ d \in Plugin
        BY <1>5 DEF IInv, TypeOK, ResolverTypeOK
    <2> QED
        BY <1>1, <1>2, <2>1, <2>2 DEF IInv, TypeOK, GraphInitialized, Settled
<1>13. EdgesOfDeclared'
    BY <1>1, <1>5, <1>2a DEF IInv, TypeOK, EdgesOfDeclared
<1>14. OrphanedByRace'
    <2>1. \A d : BeingUnloaded(d)' => BeingUnloaded(d)
        BY <1>4 DEF BeingUnloaded, UnloadedBy
    <2> QED
        BY <1>1, <1>2a, <2>1 DEF IInv, TypeOK, OrphanedByRace
<1>15. UnregisteredDeclareNothing'
    BY <1>1, <1>7, <1>2a DEF IInv, TypeOK, UnregisteredDeclareNothing
<1> QED
    BY <1>5, <1>6, <1>8, <1>9, <1>10, <1>11, <1>12, <1>13, <1>14, <1>15 DEF IInv
-----------------------------------------------------------------------------
(***************************************************************************)
(* The specification                                                       *)
(***************************************************************************)
LEMMA InitInv == Init => IInv
<1> SUFFICES ASSUME Init PROVE IInv
    OBVIOUS
<1> USE DEF Init, ResolverInit
<1>1. TypeOK
    BY DEF TypeOK, ResolverTypeOK, State
<1>2. Registered = {} /\ GraphsMirror /\ AttachedRegistered
    BY DEF Registered, GraphsMirror, AttachedRegistered
<1>3. ResolverKnowsRegistered /\ GraphAcyclic
    BY <1>2 DEF ResolverKnowsRegistered, GraphAcyclic, Acyclic
<1>4. GraphInitialized /\ ActiveIsRunning
    BY DEF GraphInitialized, ActiveIsRunning
<1>5. EdgesOfDeclared /\ OrphanedByRace /\ UnregisteredDeclareNothing
    BY DEF EdgesOfDeclared, OrphanedByRace, UnregisteredDeclareNothing
<1> QED
    BY <1>1, <1>2, <1>3, <1>4, <1>5 DEF IInv

LEMMA BeginPreserves ==
    ASSUME IInv, NEW p \in Plugin, NEW c \in Caller, Begin(c, p)
    PROVE  IInv'
<1> USE DEF Operation
<1>1. CASE InitializePlugin(c, p)
    BY <1>1, AwaitPreserves DEF InitializePlugin
<1>2. CASE StartPlugin(c, p)
    BY <1>2, AwaitPreserves DEF StartPlugin, Registered
<1>3. CASE StopPlugin(c, p)
    BY <1>3, AwaitPreserves DEF StopPlugin
<1>4. CASE UnloadPlugin(c, p)
    <2> DEFINE op == IF plugins[p] = "active" THEN "unloadStop" ELSE "uninstall"
    <2>1. op \in Operation /\ op # "initialize" /\ op # "start"
        OBVIOUS
    <2>2. p \in Registered /\ reverse[p] = {} /\ Await(c, op, p)
        BY <1>4 DEF UnloadPlugin
    <2> HIDE DEF op
    <2> QED
        BY <2>1, <2>2, AwaitPreserves
<1> QED
    BY <1>1, <1>2, <1>3, <1>4 DEF Begin

LEMMA ContinuePreserves ==
    ASSUME IInv, NEW c \in Caller, Continue(c)
    PROVE  IInv'
<1> USE DEF AwaitsHook, PluginState, resolverVars, GoesOn
<1>1. CASE Initialized(c)
    BY <1>1, WritePreserves DEF Initialized
<1>2. CASE Started(c)
    BY <1>2, WritePreserves DEF Started
<1>3. CASE Stopped(c)
    BY <1>3, WritePreserves DEF Stopped
<1>4. CASE StoppedForUnload(c)
    BY <1>4, WritePreserves DEF StoppedForUnload
<1>5. CASE HookFails(c)
    BY <1>5, FailurePreserves DEF HookFails, descriptorVars
<1>6. CASE StopFailsInUnload(c)
    BY <1>6, FailurePreserves DEF StopFailsInUnload
<1>7. CASE Uninstalled(c)
    BY <1>7, UninstalledPreserves
<1>8. CASE UninstallFails(c)
    <2>1. CallsProceed
        BY <1>8, ReturnProceeds DEF UninstallFails, IInv
    <2>2. calls[c].plugin \in Plugin
        BY <1>8 DEF UninstallFails, IInv, TypeOK, Call
    <2>3. ActiveIsRunning' /\ up' \in [Plugin -> BOOLEAN]
        BY <1>8 DEF UninstallFails, IInv, TypeOK, ActiveIsRunning
    <2> QED
        BY <1>8, <2>1, <2>2, <2>3, ProceedPreserves DEF UninstallFails
<1> QED
    BY <1>1, <1>2, <1>3, <1>4, <1>5, <1>6, <1>7, <1>8 DEF Continue

LEMMA StutterPreserves ==
    ASSUME IInv, UNCHANGED vars
    PROVE  IInv'
BY DEF IInv, vars, TypeOK, ResolverTypeOK, GraphsMirror, ResolverKnowsRegistered,
       GraphAcyclic, GraphInitialized, EdgesOfDeclared, OrphanedByRace, AttachedRegistered,
       UnregisteredDeclareNothing, ActiveIsRunning, BeingUnloaded, UnloadedBy, Registered, Acyclic,
       Advancing, AwaitsHook, Settled

LEMMA StepInv == IInv /\ [Next]_vars => IInv'
<1> SUFFICES ASSUME IInv, [Next]_vars PROVE IInv'
    OBVIOUS
<1>1. CASE UNCHANGED vars
    BY <1>1, StutterPreserves
<1>2. CASE Next
    <2>1. ASSUME NEW p \in Plugin, NEW D \in Declared[p],
                 RegisterPlugin(p, D) \/ FailRegister(p, D)
          PROVE  IInv'
        <3>1. D \in SUBSET Plugin
            BY LifecycleAssumption
        <3> QED
            BY <2>1, <3>1, RegisterPreserves, FailRegisterPreserves
    <2>2. ASSUME NEW p \in Plugin,
                 RefuseInitialize(p) \/ RefuseStart(p) \/ RefuseStop(p)
          PROVE  IInv'
        BY <2>2, RefusePreserves DEF RefuseInitialize, RefuseStart, RefuseStop
    <2>3. ASSUME NEW p \in Plugin, NEW c \in Caller, Begin(c, p)
          PROVE  IInv'
        BY <2>3, BeginPreserves
    <2>4. ASSUME NEW c \in Caller, Continue(c)
          PROVE  IInv'
        BY <2>4, ContinuePreserves
    <2> QED
        BY <1>2, <2>1, <2>2, <2>3, <2>4 DEF Next
<1> QED
    BY <1>1, <1>2

THEOREM Inductive == Spec => []IInv
BY InitInv, StepInv, PTL DEF Spec

\* Every reachable state is well typed.
THEOREM TypeCorrect == Spec => []TypeOK
<1>1. IInv => TypeOK
    BY DEF IInv
<1> QED
    BY <1>1, Inductive, PTL

\* Whatever is registered, refused, unloaded and registered again, the two
\* graphs of the resolver mirror each other.
THEOREM MirrorCorrect == Spec => []GraphsMirror
<1>1. IInv => GraphsMirror
    BY DEF IInv
<1> QED
    BY <1>1, Inductive, PTL

\* What a descriptor declares, but for the dependencies it has lost to a racing
\* unload, it has edges to.
LEMMA DependenciesHaveEdges ==
    ASSUME IInv
    PROVE  \A p \in Plugin : Dependencies[p] \subseteq graph[p]
<1>1. \A p \in Plugin : Dependencies[p] = declares[p] \ orphaned[p]
    BY DEF IInv, OrphanedByRace, Dependencies
<1> QED
    BY <1>1 DEF IInv, EdgesOfDeclared

\* The declarations of registered plugins never form a cycle, save through a
\* dependency that was being unloaded when its dependent registered, and was.
THEOREM AcyclicCorrect == Spec => []RegisteredAcyclic
<1>1. ASSUME IInv PROVE RegisteredAcyclic
    <2>1. \A q \in Registered : Dependencies[q] \subseteq graph[q]
        BY <1>1, DependenciesHaveEdges DEF Registered
    <2>2. Acyclic(graph, Registered)
        BY <1>1 DEF IInv, GraphAcyclic
    <2> QED
        BY <2>1, <2>2, AcyclicShrinks DEF RegisteredAcyclic
<1> QED
    BY <1>1, Inductive, PTL

\* A plugin that is initialised, started, or being so, declares only dependencies
\* that have been initialised, with the same exception.
THEOREM DependenciesCorrect == Spec => []DependenciesInitialized
<1>1. IInv => DependenciesInitialized
    BY DependenciesHaveEdges DEF IInv, GraphInitialized, DependenciesInitialized
<1> QED
    BY <1>1, Inductive, PTL

\* A plugin the manager calls active runs.
THEOREM ActiveCorrect == Spec => []ActiveIsRunning
<1>1. IInv => ActiveIsRunning
    BY DEF IInv
<1> QED
    BY <1>1, Inductive, PTL
-----------------------------------------------------------------------------
(***************************************************************************)
(* DependencyTraversals: what is reached, and cycles                       *)
(***************************************************************************)
\* What a reached plugin reaches is reached.
LEMMA ReachTransitive ==
    ASSUME NEW g \in [Plugin -> SUBSET Plugin], NEW p \in Plugin, NEW q \in Reach(g, p)
    PROVE  Reach(g, q) \subseteq Reach(g, p)
<1>1. q \in Reach(g, p) /\ Closed(g, Reach(g, p)) /\ Reach(g, p) \in SUBSET Plugin
  BY ReachClosed
<1>. QED  BY <1>1 DEF Reach

\* What leads to a plugin on or above a cycle is above a cycle.
LEMMA CyclicAbove ==
    ASSUME NEW g \in [Plugin -> SUBSET Plugin], NEW p \in Plugin, NEW q \in Reach(g, p),
           HasCyclicDependencies(g, q)
    PROVE  HasCyclicDependencies(g, p)
<1>1. Reach(g, q) \subseteq Reach(g, p)
  BY ReachTransitive
<1>. QED  BY <1>1, AcyclicShrinks DEF HasCyclicDependencies

\* One graph leads from p to q when the other leads from q to p.
LEMMA ReachMirrored ==
    ASSUME NEW g \in [Plugin -> SUBSET Plugin], NEW h \in [Plugin -> SUBSET Plugin],
           \A p, q \in Plugin : q \in g[p] <=> p \in h[q],
           NEW p \in Plugin, NEW q \in Plugin, q \in Reach(g, p)
    PROVE  p \in Reach(h, q)
<1>1. SUFFICES ASSUME NEW S \in SUBSET Plugin, q \in S, Closed(h, S), p \notin S
               PROVE  FALSE
  BY DEF Reach
<1>2. Closed(g, Plugin \ S) /\ p \in Plugin \ S /\ (Plugin \ S) \in SUBSET Plugin
  BY <1>1 DEF Closed
<1>. QED  BY <1>1, <1>2 DEF Reach

\* A group that each of its members leads back into, reached from p.
LEMMA CycleReached ==
    ASSUME NEW g \in [Plugin -> SUBSET Plugin], NEW p \in Plugin,
           NEW T \in SUBSET Reach(g, p), T # {}, \A q \in T : g[q] \cap T # {}
    PROVE  HasCyclicDependencies(g, p)
BY DEF HasCyclicDependencies, Acyclic

Path(g, f) == \A i \in 1..(Len(f) - 1) : f[i + 1].node \in g[f[i].node]

\* The innermost call leads back to one that is not over.
LEMMA CycleOnStack ==
    ASSUME NEW g \in [Plugin -> SUBSET Plugin], NEW f \in Seq(Frame), Path(g, f),
           NEW k \in DOMAIN f, f[k].node \in g[f[Len(f)].node]
    PROVE  HasCyclicDependencies(g, f[Len(f)].node)
<1>. DEFINE n == Len(f)
            p == f[n].node
            R == Reach(g, p)
            T == {f[i].node : i \in k..n}
<1>1. /\ n \in Nat /\ DOMAIN f = 1..n /\ k \in 1..n /\ n \in k..n
      /\ \A i \in 1..n : f[i].node \in Plugin
  <2>1. n \in Nat /\ DOMAIN f = 1..n /\ \A i \in 1..n : f[i] \in Frame
    OBVIOUS
  <2>2. k \in 1..n /\ n \in k..n
    BY <2>1
  <2>. HIDE DEF n
  <2>. QED  BY <2>1, <2>2 DEF Frame
<1>2. p \in R /\ Closed(g, R) /\ R \subseteq Plugin
  BY <1>1, ReachClosed
<1>3. f[k].node \in R
  BY <1>2 DEF Closed
<1>. HIDE DEF R
<1>4. \A i \in k..n : f[i].node \in R
  <2>. DEFINE I == {i \in k..n : f[i].node \notin R}
  <2>1. SUFFICES ASSUME I # {}  PROVE FALSE
    OBVIOUS
  <2>2. PICK m \in I : \A i \in I : m <= i
    <3>1. I \in SUBSET (1..n)
      BY <1>1
    <3>. HIDE DEF I
    <3>. QED  BY <1>1, <2>1, <3>1, LeastElement
  <2>3. m \in k..n /\ m # k /\ f[m].node \notin R
    BY <1>3, <2>2
  <2>4. m - 1 \in k..n /\ m - 1 \in 1..(n - 1) /\ (m - 1) + 1 = m /\ ~(m <= m - 1)
    BY <1>1, <2>3
  <2>5. f[m - 1].node \in R
    BY <2>2, <2>4
  <2>6. f[m].node \in g[f[m - 1].node]
    BY <2>4 DEF Path
  <2>. QED  BY <1>2, <2>3, <2>5, <2>6 DEF Closed
<1>5. T \subseteq R /\ T # {}
  BY <1>1, <1>4
<1>6. ASSUME NEW i \in k..n  PROVE g[f[i].node] \cap T # {}
  <2>1. CASE i = n
    <3>1. f[k].node \in T
      BY <1>1
    <3>. QED  BY <2>1, <3>1
  <2>2. CASE i # n
    <3>1. i \in 1..(n - 1) /\ i + 1 \in k..n
      <4>. HIDE DEF n
      <4>. QED  BY <1>1, <2>2
    <3>2. f[i + 1].node \in g[f[i].node] /\ f[i + 1].node \in T
      BY <3>1 DEF Path
    <3>. QED  BY <3>2
  <2>. QED  BY <2>1, <2>2
<1>7. \A q \in T : g[q] \cap T # {}
  BY <1>6
<1>. HIDE DEF T
<1>. QED  BY <1>1, <1>5, <1>7, CycleReached DEF R
-----------------------------------------------------------------------------
(***************************************************************************)
(* DependencyTraversals: the invariant                                     *)
(***************************************************************************)
OnStack(t) == {t.frames[i].node : i \in DOMAIN t.frames}

\* The ids whose calls are over.
Done(t) == t.visited \ OnStack(t)

\* What the loop of the i-th call has reached, and what of it the next call is for.
Seen(t, g, i) == g[t.frames[i].node] \ t.frames[i].left

NextOn(t, i, d) == i < Len(t.frames) /\ d = t.frames[i + 1].node

\* The calls on the stack follow a path, and with D, the id a call is about to be
\* made for, everything their loops have reached was visited.
Walk(t, g, D) ==
    /\ \A i, j \in DOMAIN t.frames : t.frames[i].node = t.frames[j].node => i = j
    /\ OnStack(t) \subseteq t.visited
    /\ \A i \in DOMAIN t.frames : /\ t.frames[i].left \subseteq g[t.frames[i].node]
                                  /\ Seen(t, g, i) \subseteq t.visited \cup D
    /\ \A i \in 1..(Len(t.frames) - 1) : t.frames[i + 1].node \in Seen(t, g, i)
    /\ \A q \in Done(t) : g[q] \subseteq t.visited
    /\ t.roots \subseteq t.asked /\ t.asked \ t.roots \subseteq t.visited \cup D
    /\ t.visited \cup D \subseteq ReachedFrom(g, t.asked)
    /\ t.frames # <<>> => D \subseteq Seen(t, g, Len(t.frames))

\* The i-th loop has reached d: the call for it is over, on the stack or to come.
Accounted(t, i, d, D) ==
    d \in Done(t) \/ NextOn(t, i, d) \/ (i = Len(t.frames) /\ d \in D)

\* No cycle among the ids whose calls are over, and nothing leads out of them.
CyclesWalk(t, g, D) ==
    /\ t.recursionStack = OnStack(t)
    /\ \A i \in DOMAIN t.frames : \A d \in Seen(t, g, i) : Accounted(t, i, d, D)
    /\ \A q \in Done(t) : g[q] \subseteq Done(t)
    /\ Acyclic(g, Done(t))

\* Each id of the list stands after what it depends on, unless it leads to a cycle.
ListedAfter(g, o) ==
    \A i \in DOMAIN o : \A d \in g[o[i]] :
        HasCyclicDependencies(g, o[i]) \/ \E j \in 1..(i - 1) : o[j] = d

OrderWalk(t, g, D) ==
    /\ IsInjective(t.order) /\ Elements(t.order) = Done(t)
    /\ \A i \in DOMAIN t.frames : \A d \in Seen(t, g, i) :
          Accounted(t, i, d, D) \/ HasCyclicDependencies(g, t.frames[i].node)
    /\ ListedAfter(g, t.order)

\* Everything the loops have reached is counted.
ImpactWalk(t, g) ==
    /\ \A p, q \in t.asked : p = q
    /\ t.allDependents = {d \in Plugin : \/ \E q \in Done(t) : d \in g[q]
                                         \/ \E i \in DOMAIN t.frames : d \in Seen(t, g, i)}

WalkFine(t, g, D) ==
    /\ Walk(t, g, D)
    /\ t.of = "cycles" => CyclesWalk(t, g, D)
    /\ t.of = "order" => OrderWalk(t, g, D)
    /\ t.of = "impact" => ImpactWalk(t, g)

TraversalFine(t, g) ==
    /\ t \in Traversal
    /\ t.cyclic => /\ t.of = "cycles" /\ Ended(t)
                   /\ \E p \in t.asked : HasCyclicDependencies(g, p)
    /\ ~t.cyclic => WalkFine(t, g, {})

TraversalInv ==
    /\ ResolverTypeOK /\ GraphsMirror
    /\ TraversalFine(traversal, Followed(traversal))
    /\ traversal.of = "order" => traversal.asked = known

Graph == [Plugin -> SUBSET Plugin]

\* The fields of a traversal.
LEMMA TraversalFields ==
    ASSUME NEW t \in Traversal
    PROVE  /\ t.of \in {"none", "cycles", "order", "impact"} /\ t.asked \in SUBSET Plugin
           /\ t.roots \in SUBSET Plugin /\ t.frames \in Seq(Frame)
           /\ t.visited \in SUBSET Plugin /\ t.recursionStack \in SUBSET Plugin
           /\ t.cyclic \in BOOLEAN /\ t.order \in Seq(Plugin)
           /\ t.allDependents \in SUBSET Plugin
BY DEF Traversal

\* The frames of a stack.
LEMMA FramesAt ==
    ASSUME NEW f \in Seq(Frame)
    PROVE  /\ Len(f) \in Nat /\ DOMAIN f = 1..Len(f) /\ (f # <<>> <=> Len(f) # 0)
           /\ \A i \in DOMAIN f : f[i] \in Frame /\ f[i].node \in Plugin /\ f[i].left \in SUBSET Plugin
<1>1. /\ Len(f) \in Nat /\ DOMAIN f = 1..Len(f) /\ (f # <<>> <=> Len(f) # 0)
      /\ \A i \in DOMAIN f : f[i] \in Frame
  OBVIOUS
<1>. QED  BY <1>1 DEF Frame

\* A call adds a frame.
LEMMA FramePushed ==
    ASSUME NEW f \in Seq(Frame), NEW x \in Frame
    PROVE  /\ Append(f, x) \in Seq(Frame) /\ Len(Append(f, x)) = Len(f) + 1
           /\ DOMAIN Append(f, x) = 1..(Len(f) + 1)
           /\ \A i \in 1..Len(f) : Append(f, x)[i] = f[i]
           /\ Append(f, x)[Len(f) + 1] = x
OBVIOUS

\* The end of a call drops the last frame.
LEMMA FramePopped ==
    ASSUME NEW f \in Seq(Frame), f # <<>>
    PROVE  /\ Front(f) \in Seq(Frame) /\ Len(Front(f)) = Len(f) - 1
           /\ DOMAIN Front(f) = 1..(Len(f) - 1)
           /\ \A i \in 1..(Len(f) - 1) : Front(f)[i] = f[i]
<1>. DEFINE n == Len(f)
<1>1. n \in Nat /\ n # 0 /\ DOMAIN f = 1..n /\ \A i \in 1..n : f[i] \in Frame
  BY FramesAt
<1>. HIDE DEF n
<1>2. n - 1 \in 0..n /\ \A i \in 1..(n - 1) : i \in 1..n /\ (1 + i) - 1 = i
  BY <1>1
<1>3. Front(f) = [i \in 1..(n - 1) |-> f[(1 + i) - 1]]
  BY <1>1, <1>2 DEF Front, SubSeq, n
<1>4. \A i \in 1..(n - 1) : Front(f)[i] = f[i] /\ Front(f)[i] \in Frame
  BY <1>1, <1>2, <1>3
<1>5. DOMAIN Front(f) = 1..(n - 1) /\ n - 1 \in Nat
  BY <1>1, <1>3
<1>6. Front(f) \in [1..(n - 1) -> Frame]
  BY <1>3, <1>4
<1>7. Front(f) \in Seq(Frame)
  BY <1>5, <1>6
<1>. QED  BY <1>4, <1>5, <1>7, LenProperties DEF n

\* The innermost loop has one id less to visit.
Narrowed(f, d) == [f EXCEPT ![Len(f)].left = @ \ {d}]

LEMMA FrameNarrowed ==
    ASSUME NEW f \in Seq(Frame), f # <<>>, NEW d
    PROVE  LET k == Narrowed(f, d) IN
           /\ k \in Seq(Frame) /\ Len(k) = Len(f) /\ DOMAIN k = 1..Len(f)
           /\ \A i \in 1..Len(f) : k[i].node = f[i].node
           /\ \A i \in 1..(Len(f) - 1) : k[i] = f[i]
           /\ k[Len(f)].left = f[Len(f)].left \ {d}
<1>. DEFINE n == Len(f)
            x == [f[n] EXCEPT !.left = @ \ {d}]
            h == [f EXCEPT ![n] = x]
<1>1. n \in Nat /\ n \in 1..n /\ DOMAIN f = 1..n /\ \A i \in 1..n : f[i] \in Frame
  BY FramesAt
<1>2. x \in Frame /\ x.node = f[n].node /\ x.left = f[n].left \ {d}
  BY <1>1 DEF Frame
<1>. HIDE DEF x, n
<1>3. h \in Seq(Frame) /\ Len(h) = n /\ DOMAIN h = 1..n
      /\ (\A i \in 1..n : i # n => h[i] = f[i]) /\ h[n] = x
  BY <1>1, <1>2
<1>. HIDE DEF h
<1>4. h = Narrowed(f, d)
  BY DEF h, x, n, Narrowed
<1>5. \A i \in 1..(n - 1) : i \in 1..n /\ i # n
  BY <1>1
<1>6. \A i \in 1..n : h[i].node = f[i].node
  BY <1>2, <1>3
<1>. QED  BY <1>2, <1>3, <1>4, <1>5, <1>6 DEF n
-----------------------------------------------------------------------------
\* A loop takes its next element.
LEMMA NextTaken ==
    ASSUME NEW g \in Graph, NEW t \in Traversal, NEW u \in Traversal,
           WalkFine(t, g, {}), t.frames # <<>>, NEW d \in Top(t).left,
           u.of = t.of, u.asked = t.asked, u.roots = t.roots, u.visited = t.visited,
           u.recursionStack = t.recursionStack, u.order = t.order,
           u.frames = Narrowed(t.frames, d),
           u.allDependents = IF t.of = "impact" THEN t.allDependents \cup {d}
                             ELSE t.allDependents
    PROVE  WalkFine(u, g, {d})
<1>. DEFINE f == t.frames
            n == Len(f)
            h == u.frames
<1>1. /\ n \in Nat /\ n # 0 /\ n \in 1..n /\ DOMAIN f = 1..n /\ f \in Seq(Frame)
      /\ \A i \in 1..n : f[i].node \in Plugin /\ f[i].left \in SUBSET Plugin
  BY TraversalFields, FramesAt
<1>2. /\ h \in Seq(Frame) /\ Len(h) = n /\ DOMAIN h = 1..n
      /\ \A i \in 1..n : h[i].node = f[i].node
      /\ \A i \in 1..(n - 1) : h[i] = f[i]
      /\ h[n].left = f[n].left \ {d}
  <2>1. h = Narrowed(f, d)
    OBVIOUS
  <2>. HIDE DEF f, h
  <2>2. f \in Seq(Frame) /\ f # <<>>
    BY <1>1 DEF f
  <2>. QED  BY <2>1, <2>2, FrameNarrowed DEF n
<1>3. /\ Walk(t, g, {})
      /\ d \in f[n].left /\ d \in g[f[n].node] /\ d \in Plugin
  BY <1>1 DEF WalkFine, Walk, Top
<1>4. OnStack(u) = OnStack(t) /\ Done(u) = Done(t)
  BY <1>1, <1>2 DEF OnStack, Done
<1>5. /\ \A i \in 1..(n - 1) : Seen(u, g, i) = Seen(t, g, i)
      /\ Seen(u, g, n) = Seen(t, g, n) \cup {d}
  BY <1>1, <1>2, <1>3 DEF Seen
<1>6. \A i \in 1..n : \A e : NextOn(u, i, e) <=> NextOn(t, i, e)
  <2>1. \A i \in 1..n : i < n => i + 1 \in 1..n
    BY <1>1
  <2>. QED  BY <1>1, <1>2, <2>1 DEF NextOn
<1>7. \A i \in 1..n : i \in 1..(n - 1) \/ i = n
  BY <1>1
<1>. HIDE DEF f, n, h
<1>8. t.visited \cup {d} \subseteq ReachedFrom(g, t.asked)
  <2>1. f[n].node \in t.visited
    BY <1>1, <1>3 DEF Walk, OnStack, f
  <2>2. PICK p \in t.asked : f[n].node \in Reach(g, p)
    BY <1>3, <2>1 DEF Walk, ReachedFrom
  <2>3. p \in Plugin
    BY TraversalFields
  <2>4. d \in Reach(g, p)
    BY <1>3, <2>2, <2>3, ReachClosed DEF Closed, Graph
  <2>. QED  BY <1>3, <2>2, <2>4 DEF Walk, ReachedFrom
<1>9. Walk(u, g, {d})
  <2>1. \A i, j \in DOMAIN h : h[i].node = h[j].node => i = j
    BY <1>1, <1>2, <1>3 DEF Walk, f
  <2>2. OnStack(u) \subseteq u.visited
    BY <1>3, <1>4 DEF Walk
  <2>3. \A i \in DOMAIN h : /\ h[i].left \subseteq g[h[i].node]
                           /\ Seen(u, g, i) \subseteq u.visited \cup {d}
    BY <1>1, <1>2, <1>3, <1>5, <1>7 DEF Walk, f
  <2>4. \A i \in 1..(n - 1) : h[i + 1].node \in Seen(u, g, i)
    <3>1. \A i \in 1..(n - 1) : i + 1 \in 1..n
      BY <1>1
    <3>2. \A i \in 1..(n - 1) : f[i + 1].node \in Seen(t, g, i)
      BY <1>3 DEF Walk, f, n
    <3>. QED  BY <1>2, <1>5, <3>1, <3>2
  <2>5. /\ \A q \in Done(u) : g[q] \subseteq u.visited
        /\ u.roots \subseteq u.asked /\ u.asked \ u.roots \subseteq u.visited \cup {d}
    BY <1>3, <1>4 DEF Walk
  <2>6. {d} \subseteq Seen(u, g, n)
    BY <1>5
  <2>. QED  BY <1>2, <1>8, <2>1, <2>2, <2>3, <2>4, <2>5, <2>6 DEF Walk, h
<1>10. \A i \in 1..n : \A e : Accounted(t, i, e, {}) => Accounted(u, i, e, {d})
  BY <1>2, <1>4, <1>6 DEF Accounted, h
<1>11. Accounted(u, n, d, {d})
  BY <1>2 DEF Accounted, h
<1>12. ASSUME t.of = "cycles"  PROVE CyclesWalk(u, g, {d})
  <2>1. CyclesWalk(t, g, {})
    BY <1>12 DEF WalkFine
  <2>2. \A i \in 1..n : \A e \in Seen(u, g, i) : Accounted(u, i, e, {d})
    BY <1>1, <1>5, <1>7, <1>10, <1>11, <2>1 DEF CyclesWalk, f
  <2>. QED  BY <1>2, <1>4, <2>1, <2>2 DEF CyclesWalk, h
<1>13. ASSUME t.of = "order"  PROVE OrderWalk(u, g, {d})
  <2>1. OrderWalk(t, g, {})
    BY <1>13 DEF WalkFine
  <2>2. \A i \in 1..n : \A e \in Seen(t, g, i) :
           Accounted(t, i, e, {}) \/ HasCyclicDependencies(g, f[i].node)
    BY <1>1, <2>1 DEF OrderWalk, f
  <2>3. ASSUME NEW i \in 1..n, NEW e \in Seen(u, g, i)
        PROVE  Accounted(u, i, e, {d}) \/ HasCyclicDependencies(g, h[i].node)
    <3>1. e \in Seen(t, g, i) \/ (i = n /\ e = d)
      BY <1>5, <1>7
    <3>2. h[i].node = f[i].node
      BY <1>2
    <3>. QED  BY <1>10, <1>11, <2>2, <3>1, <3>2
  <2>4. \A i \in DOMAIN u.frames : \A e \in Seen(u, g, i) :
           Accounted(u, i, e, {d}) \/ HasCyclicDependencies(g, u.frames[i].node)
    BY <1>2, <2>3 DEF h
  <2>5. IsInjective(u.order) /\ Elements(u.order) = Done(u) /\ ListedAfter(g, u.order)
    BY <1>4, <2>1 DEF OrderWalk
  <2>. QED  BY <2>4, <2>5 DEF OrderWalk
<1>14. ASSUME t.of = "impact"  PROVE ImpactWalk(u, g)
  <2>1. ImpactWalk(t, g) /\ u.allDependents = t.allDependents \cup {d}
    BY <1>14 DEF WalkFine
  <2>2. ASSUME NEW e \in Plugin
        PROVE  (\E i \in 1..n : e \in Seen(u, g, i))
                 <=> (\E i \in 1..n : e \in Seen(t, g, i)) \/ e = d
    BY <1>1, <1>5, <1>7
  <2>3. t.allDependents = {e \in Plugin : \/ \E q \in Done(t) : e \in g[q]
                                          \/ \E i \in 1..n : e \in Seen(t, g, i)}
    BY <1>1, <2>1 DEF ImpactWalk, f
  <2>4. u.allDependents = {e \in Plugin : \/ \E q \in Done(u) : e \in g[q]
                                          \/ \E i \in 1..n : e \in Seen(u, g, i)}
    BY <1>3, <1>4, <2>1, <2>2, <2>3
  <2>. QED  BY <1>2, <2>1, <2>4 DEF ImpactWalk, h
<1>. QED  BY <1>9, <1>12, <1>13, <1>14 DEF WalkFine

\* The outermost loop takes its next id.
LEMMA RootTaken ==
    ASSUME NEW g \in Graph, NEW t \in Traversal, NEW u \in Traversal,
           WalkFine(t, g, {}), t.frames = <<>>, NEW p \in t.roots,
           u.of = t.of, u.asked = t.asked, u.roots = t.roots \ {p}, u.visited = t.visited,
           u.recursionStack = t.recursionStack, u.order = t.order, u.frames = <<>>,
           u.allDependents = t.allDependents
    PROVE  WalkFine(u, g, {p})
<1>1. /\ DOMAIN t.frames = {} /\ DOMAIN u.frames = {} /\ Len(u.frames) = 0
      /\ 1..(Len(u.frames) - 1) = {}
  OBVIOUS
<1>2. OnStack(u) = {} /\ OnStack(t) = {} /\ Done(u) = Done(t)
  BY <1>1 DEF OnStack, Done
<1>3. Walk(t, g, {}) /\ p \in t.asked /\ p \in Plugin
  BY TraversalFields DEF WalkFine, Walk
<1>4. p \in Reach(g, p)
  BY <1>3, ReachClosed DEF Graph
<1>5. t.visited \cup {p} \subseteq ReachedFrom(g, t.asked)
  BY <1>3, <1>4 DEF Walk, ReachedFrom
<1>6. Walk(u, g, {p})
  <2>1. u.asked \ u.roots \subseteq u.visited \cup {p} /\ u.roots \subseteq u.asked
    BY <1>3 DEF Walk
  <2>2. \A q \in Done(u) : g[q] \subseteq u.visited
    BY <1>2, <1>3 DEF Walk
  <2>. QED  BY <1>1, <1>2, <1>5, <2>1, <2>2 DEF Walk
<1>7. t.of = "cycles" => CyclesWalk(u, g, {p})
  BY <1>1, <1>2 DEF WalkFine, CyclesWalk
<1>8. t.of = "order" => OrderWalk(u, g, {p})
  BY <1>1, <1>2 DEF WalkFine, OrderWalk
<1>9. t.of = "impact" => ImpactWalk(u, g)
  BY <1>1, <1>2 DEF WalkFine, ImpactWalk
<1>. QED  BY <1>6, <1>7, <1>8, <1>9 DEF WalkFine

\* The calls on the stack follow the edges.
LEMMA WalkPath ==
    ASSUME NEW g \in Graph, NEW t \in Traversal, NEW D, Walk(t, g, D)
    PROVE  Path(g, t.frames)
BY DEF Walk, Path, Seen

\* A call that is about to be made, from the innermost one, for an id on the stack.
LEMMA CalledOnStack ==
    ASSUME NEW g \in Graph, NEW t \in Traversal, NEW d \in OnStack(t), Walk(t, g, {d})
    PROVE  /\ t.frames # <<>>
           /\ HasCyclicDependencies(g, t.frames[Len(t.frames)].node)
           /\ \E p \in t.asked : HasCyclicDependencies(g, p)
<1>. DEFINE f == t.frames
            n == Len(f)
<1>1. PICK k \in DOMAIN f : f[k].node = d
  BY DEF OnStack
<1>2. /\ f \in Seq(Frame) /\ n \in Nat /\ n # 0 /\ n \in DOMAIN f /\ f # <<>>
  BY <1>1, TraversalFields, FramesAt
<1>3. d \in g[f[n].node]
  BY <1>2 DEF Walk, Seen
<1>4. Path(g, f)
  BY WalkPath
<1>. HIDE DEF f
<1>5. HasCyclicDependencies(g, f[n].node)
  BY <1>1, <1>2, <1>3, <1>4, CycleOnStack DEF Graph
<1>6. f[n].node \in t.visited
  BY <1>2 DEF Walk, OnStack, f
<1>7. PICK p \in t.asked : f[n].node \in Reach(g, p)
  BY <1>6 DEF Walk, ReachedFrom
<1>8. p \in Plugin
  BY TraversalFields
<1>9. HasCyclicDependencies(g, p)
  BY <1>5, <1>7, <1>8, CyclicAbove DEF Graph
<1>. QED  BY <1>2, <1>5, <1>9 DEF f

\* A call that returns at once.
LEMMA CallSkipped ==
    ASSUME NEW g \in Graph, NEW t \in Traversal, NEW d \in t.visited, WalkFine(t, g, {d}),
           t.of = "cycles" => d \notin t.recursionStack
    PROVE  WalkFine(t, g, {})
<1>1. Walk(t, g, {d})
  BY DEF WalkFine
<1>2. Walk(t, g, {})
  BY <1>1 DEF Walk
<1>3. \A i, e : Accounted(t, i, e, {d}) => Accounted(t, i, e, {}) \/ (i = Len(t.frames) /\ e = d)
  BY DEF Accounted
<1>4. d \in OnStack(t) \/ \A i : Accounted(t, i, d, {})
  BY DEF Accounted, Done
<1>5. ASSUME t.of = "cycles"  PROVE CyclesWalk(t, g, {})
  <2>1. CyclesWalk(t, g, {d})
    BY <1>5 DEF WalkFine
  <2>2. d \notin OnStack(t)
    BY <1>5, <2>1 DEF CyclesWalk
  <2>3. \A i \in DOMAIN t.frames : \A e \in Seen(t, g, i) : Accounted(t, i, e, {})
    BY <1>3, <1>4, <2>1, <2>2 DEF CyclesWalk
  <2>. QED  BY <2>1, <2>3 DEF CyclesWalk
<1>6. ASSUME t.of = "order"  PROVE OrderWalk(t, g, {})
  <2>1. OrderWalk(t, g, {d})
    BY <1>6 DEF WalkFine
  <2>2. d \in OnStack(t) => HasCyclicDependencies(g, t.frames[Len(t.frames)].node)
    BY <1>1, CalledOnStack
  <2>3. \A i \in DOMAIN t.frames : \A e \in Seen(t, g, i) :
           Accounted(t, i, e, {d}) \/ HasCyclicDependencies(g, t.frames[i].node)
    BY <2>1 DEF OrderWalk
  <2>4. \A i \in DOMAIN t.frames : \A e \in Seen(t, g, i) :
           Accounted(t, i, e, {}) \/ HasCyclicDependencies(g, t.frames[i].node)
    BY <1>3, <1>4, <2>2, <2>3
  <2>. QED  BY <2>1, <2>4 DEF OrderWalk
<1>. QED  BY <1>2, <1>5, <1>6 DEF WalkFine

\* A call that reaches its loop.
LEMMA CallEntered ==
    ASSUME NEW g \in Graph, NEW t \in Traversal, NEW u \in Traversal,
           NEW d \in Plugin, d \notin t.visited, WalkFine(t, g, {d}),
           u.of = t.of, u.asked = t.asked, u.roots = t.roots, u.visited = t.visited \cup {d},
           u.recursionStack = IF t.of = "cycles" THEN t.recursionStack \cup {d}
                              ELSE t.recursionStack,
           u.order = t.order, u.allDependents = t.allDependents,
           u.frames = Append(t.frames, [node |-> d, left |-> g[d]])
    PROVE  WalkFine(u, g, {})
<1>. DEFINE f == t.frames
            n == Len(f)
            h == u.frames
            x == [node |-> d, left |-> g[d]]
<1>1. /\ n \in Nat /\ DOMAIN f = 1..n /\ f \in Seq(Frame) /\ (f # <<>> <=> n # 0)
      /\ \A i \in 1..n : f[i].node \in Plugin /\ f[i].left \in SUBSET Plugin
  BY TraversalFields, FramesAt
<1>2. x \in Frame /\ x.node = d /\ x.left = g[d]
  BY DEF Frame, Graph
<1>. HIDE DEF x
<1>3. /\ h \in Seq(Frame) /\ Len(h) = n + 1 /\ DOMAIN h = 1..(n + 1)
      /\ (\A i \in 1..n : h[i] = f[i]) /\ h[n + 1] = x /\ h # <<>>
  <2>1. h = Append(f, x)
    BY DEF x
  <2>. HIDE DEF f, h
  <2>. QED  BY <1>1, <1>2, <2>1, FramePushed DEF n
<1>4. Walk(t, g, {d})
  BY DEF WalkFine
<1>5. \A i \in 1..(n + 1) : i \in 1..n \/ i = n + 1
  BY <1>1
<1>6. n + 1 \in 1..(n + 1) /\ \A i \in 1..n : i \in 1..(n + 1) /\ i # n + 1
  BY <1>1
<1>. HIDE DEF f, n, h
<1>7. OnStack(t) = {f[i].node : i \in 1..n} /\ OnStack(u) = {h[i].node : i \in 1..(n + 1)}
  BY <1>1, <1>3 DEF OnStack, f, h
<1>8. OnStack(u) = OnStack(t) \cup {d}
  BY <1>2, <1>3, <1>5, <1>6, <1>7
<1>9. Done(u) = Done(t) /\ d \notin OnStack(t)
  BY <1>4, <1>8 DEF Done, Walk
<1>10. /\ \A i \in 1..n : Seen(u, g, i) = Seen(t, g, i)
       /\ Seen(u, g, n + 1) = {}
  BY <1>2, <1>3 DEF Seen, f, h
<1>11. \A i \in 1..n : \A e : Accounted(t, i, e, {d}) => Accounted(u, i, e, {})
  <2>1. ASSUME NEW i \in 1..n, NEW e, NextOn(t, i, e)  PROVE NextOn(u, i, e)
    <3>1. i \in Int /\ i < n /\ e = f[i + 1].node
      BY <2>1 DEF NextOn, f, n
    <3>2. i + 1 \in 1..n /\ i < n + 1
      BY <1>1, <3>1
    <3>. QED  BY <1>3, <3>1, <3>2 DEF NextOn, h
  <2>2. NextOn(u, n, d)
    <3>1. n < n + 1
      BY <1>1
    <3>. QED  BY <1>2, <1>3, <3>1 DEF NextOn, h
  <2>. QED  BY <1>9, <2>1, <2>2 DEF Accounted, f, n
<1>12. Walk(u, g, {})
  <2>1. \A i, j \in DOMAIN h : h[i].node = h[j].node => i = j
    <3>1. \A i, j \in 1..n : h[i].node = h[j].node => i = j
      BY <1>1, <1>3, <1>4 DEF Walk, f
    <3>2. \A i \in 1..n : h[i].node # h[n + 1].node
      BY <1>2, <1>3, <1>7, <1>9
    <3>. QED  BY <1>3, <1>5, <3>1, <3>2
  <2>2. OnStack(u) \subseteq u.visited
    BY <1>4, <1>8 DEF Walk
  <2>3. \A i \in DOMAIN h : /\ h[i].left \subseteq g[h[i].node]
                           /\ Seen(u, g, i) \subseteq u.visited
    <3>1. \A i \in 1..n : /\ f[i].left \subseteq g[f[i].node]
                         /\ Seen(t, g, i) \subseteq u.visited
      BY <1>1, <1>4 DEF Walk, f
    <3>. QED  BY <1>2, <1>3, <1>5, <1>10, <3>1
  <2>4. \A i \in 1..n : h[i + 1].node \in Seen(u, g, i)
    <3>1. ASSUME NEW i \in 1..n, i # n  PROVE h[i + 1].node \in Seen(u, g, i)
      <4>1. i \in 1..(n - 1) /\ i + 1 \in 1..n
        BY <1>1, <3>1
      <4>2. f[i + 1].node \in Seen(t, g, i)
        BY <1>4, <4>1 DEF Walk, f, n
      <4>. QED  BY <1>3, <1>10, <4>1, <4>2
    <3>2. ASSUME n \in 1..n  PROVE h[n + 1].node \in Seen(u, g, n)
      <4>1. n # 0
        BY <1>1, <3>2
      <4>2. d \in Seen(t, g, n)
        BY <1>1, <1>4, <4>1 DEF Walk, f, n
      <4>. QED  BY <1>2, <1>3, <1>10, <3>2, <4>2
    <3>. QED  BY <3>1, <3>2
  <2>5. /\ \A q \in Done(u) : g[q] \subseteq u.visited
        /\ u.roots \subseteq u.asked /\ u.asked \ u.roots \subseteq u.visited
        /\ u.visited \subseteq ReachedFrom(g, u.asked)
    BY <1>4, <1>9 DEF Walk
  <2>6. Len(h) - 1 = n
    BY <1>1, <1>3
  <2>. QED  BY <2>1, <2>2, <2>3, <2>4, <2>5, <2>6 DEF Walk, h
<1>13. ASSUME t.of = "cycles"  PROVE CyclesWalk(u, g, {})
  <2>1. CyclesWalk(t, g, {d})
    BY <1>13 DEF WalkFine
  <2>2. \A i \in DOMAIN h : \A e \in Seen(u, g, i) : Accounted(u, i, e, {})
    BY <1>1, <1>3, <1>5, <1>10, <1>11, <2>1 DEF CyclesWalk, f
  <2>3. u.recursionStack = OnStack(u)
    BY <1>8, <1>13, <2>1 DEF CyclesWalk
  <2>. QED  BY <1>9, <2>1, <2>2, <2>3 DEF CyclesWalk, h
<1>14. ASSUME t.of = "order"  PROVE OrderWalk(u, g, {})
  <2>1. OrderWalk(t, g, {d})
    BY <1>14 DEF WalkFine
  <2>2. \A i \in 1..n : \A e \in Seen(t, g, i) :
           Accounted(t, i, e, {d}) \/ HasCyclicDependencies(g, f[i].node)
    BY <1>1, <2>1 DEF OrderWalk, f
  <2>3. \A i \in DOMAIN u.frames : \A e \in Seen(u, g, i) :
           Accounted(u, i, e, {}) \/ HasCyclicDependencies(g, u.frames[i].node)
    BY <1>3, <1>5, <1>10, <1>11, <2>2 DEF h
  <2>4. IsInjective(u.order) /\ Elements(u.order) = Done(u) /\ ListedAfter(g, u.order)
    BY <1>9, <2>1 DEF OrderWalk
  <2>. QED  BY <2>3, <2>4 DEF OrderWalk
<1>15. ASSUME t.of = "impact"  PROVE ImpactWalk(u, g)
  <2>1. ImpactWalk(t, g)
    BY <1>15 DEF WalkFine
  <2>2. ASSUME NEW e
        PROVE  (\E i \in 1..(n + 1) : e \in Seen(u, g, i)) <=> (\E i \in 1..n : e \in Seen(t, g, i))
    BY <1>5, <1>6, <1>10
  <2>3. t.allDependents = {e \in Plugin : \/ \E q \in Done(t) : e \in g[q]
                                          \/ \E i \in 1..n : e \in Seen(t, g, i)}
    BY <1>1, <2>1 DEF ImpactWalk, f
  <2>4. u.allDependents = {e \in Plugin : \/ \E q \in Done(u) : e \in g[q]
                                          \/ \E i \in 1..(n + 1) : e \in Seen(u, g, i)}
    BY <1>9, <2>2, <2>3
  <2>. QED  BY <1>3, <2>1, <2>4 DEF ImpactWalk, h
<1>. QED  BY <1>12, <1>13, <1>14, <1>15 DEF WalkFine

\* What push does to the list.
LEMMA OrderPushed ==
    ASSUME NEW o \in Seq(Plugin), NEW p \in Plugin
    PROVE  /\ Append(o, p) \in Seq(Plugin) /\ Len(o) \in Nat /\ DOMAIN o = 1..Len(o)
           /\ DOMAIN Append(o, p) = 1..(Len(o) + 1)
           /\ \A i \in 1..Len(o) : Append(o, p)[i] = o[i]
           /\ Append(o, p)[Len(o) + 1] = p
           /\ \A i \in 1..(Len(o) + 1) : i \in 1..Len(o) \/ i = Len(o) + 1
           /\ Len(o) + 1 \in 1..(Len(o) + 1)
           /\ \A i \in 1..Len(o) : i \in 1..(Len(o) + 1)
           /\ (Len(o) + 1) - 1 = Len(o)
OBVIOUS

\* The innermost call is over.
LEMMA CallReturned ==
    ASSUME NEW g \in Graph, NEW t \in Traversal, NEW u \in Traversal,
           WalkFine(t, g, {}), t.frames # <<>>, Top(t).left = {},
           NEW p, p = Top(t).node,
           u.of = t.of, u.asked = t.asked, u.roots = t.roots, u.visited = t.visited,
           u.recursionStack = IF t.of = "cycles" THEN t.recursionStack \ {p}
                              ELSE t.recursionStack,
           u.order = IF t.of = "order" THEN Append(t.order, p) ELSE t.order,
           u.allDependents = t.allDependents, u.frames = Front(t.frames)
    PROVE  WalkFine(u, g, {})
<1>. DEFINE f == t.frames
            n == Len(f)
            h == u.frames
<1>1. /\ n \in Nat /\ n # 0 /\ n \in 1..n /\ DOMAIN f = 1..n /\ f \in Seq(Frame)
      /\ \A i \in 1..n : f[i].node \in Plugin /\ f[i].left \in SUBSET Plugin
  BY TraversalFields, FramesAt
<1>2. /\ h \in Seq(Frame) /\ Len(h) = n - 1 /\ DOMAIN h = 1..(n - 1)
      /\ \A i \in 1..(n - 1) : h[i] = f[i]
  <2>1. h = Front(f)
    OBVIOUS
  <2>. HIDE DEF f, h
  <2>2. f \in Seq(Frame) /\ f # <<>>
    BY <1>1 DEF f
  <2>. QED  BY <2>1, <2>2, FramePopped DEF n
<1>3. f[n].node = p /\ f[n].left = {} /\ p \in Plugin
  BY <1>1 DEF Top
<1>4. Walk(t, g, {})
  BY DEF WalkFine
<1>5. /\ \A i \in 1..n : i \in 1..(n - 1) \/ i = n
      /\ \A i \in 1..(n - 1) : i \in 1..n /\ i # n /\ i + 1 \in 1..n
  BY <1>1
<1>. HIDE DEF f, n, h
<1>6. /\ \A i, j \in 1..n : f[i].node = f[j].node => i = j
      /\ OnStack(t) \subseteq t.visited
      /\ \A i \in 1..n : /\ f[i].left \subseteq g[f[i].node]
                         /\ Seen(t, g, i) \subseteq t.visited
  BY <1>1, <1>4 DEF Walk, f
<1>7. OnStack(t) = {f[i].node : i \in 1..n} /\ OnStack(u) = {h[i].node : i \in 1..(n - 1)}
  BY <1>1, <1>2 DEF OnStack, f, h
<1>8. OnStack(u) = OnStack(t) \ {p} /\ p \in OnStack(t)
  <2>1. \A i \in 1..(n - 1) : f[i].node # p
    BY <1>1, <1>3, <1>5, <1>6
  <2>2. {h[i].node : i \in 1..(n - 1)} = {f[i].node : i \in 1..(n - 1)}
    BY <1>2
  <2>. QED  BY <1>1, <1>3, <1>5, <1>7, <2>1, <2>2
<1>9. Done(u) = Done(t) \cup {p} /\ p \notin Done(t)
  BY <1>6, <1>8 DEF Done
<1>10. /\ \A i \in 1..(n - 1) : Seen(u, g, i) = Seen(t, g, i)
       /\ Seen(t, g, n) = g[p]
  BY <1>2, <1>3 DEF Seen, f, h
<1>11. ASSUME NEW i \in 1..(n - 1), NEW e, Accounted(t, i, e, {})
       PROVE  Accounted(u, i, e, {})
  <2>1. CASE e \in Done(t)
    BY <1>9, <2>1 DEF Accounted
  <2>2. CASE NextOn(t, i, e)
    <3>1. e = f[i + 1].node /\ i + 1 \in 1..n
      BY <1>5, <2>2 DEF NextOn, f
    <3>2. CASE i + 1 = n
      BY <1>3, <1>9, <3>1, <3>2 DEF Accounted
    <3>3. CASE i + 1 # n
      <4>1. i + 1 \in 1..(n - 1) /\ i < n - 1
        BY <1>1, <3>1, <3>3
      <4>. QED  BY <1>2, <3>1, <4>1 DEF Accounted, NextOn, h
    <3>. QED  BY <3>2, <3>3
  <2>. QED  BY <1>11, <2>1, <2>2 DEF Accounted
<1>12. \A e : Accounted(t, n, e, {}) => e \in Done(t)
  <2>1. ~(n < n)
    BY <1>1
  <2>. QED  BY <2>1 DEF Accounted, NextOn, f, n
<1>13. Walk(u, g, {})
  <2>1. \A i, j \in 1..(n - 1) : h[i].node = h[j].node => i = j
    BY <1>2, <1>5, <1>6
  <2>2. OnStack(u) \subseteq u.visited
    BY <1>6, <1>8
  <2>3. \A i \in 1..(n - 1) : /\ h[i].left \subseteq g[h[i].node]
                              /\ Seen(u, g, i) \subseteq u.visited
    BY <1>2, <1>5, <1>6, <1>10
  <2>4. ASSUME NEW i \in 1..(n - 1 - 1)  PROVE h[i + 1].node \in Seen(u, g, i)
    <3>1. i \in 1..(n - 1) /\ i + 1 \in 1..(n - 1)
      BY <1>1, <2>4
    <3>2. f[i + 1].node \in Seen(t, g, i)
      BY <1>4, <3>1 DEF Walk, f, n
    <3>. QED  BY <1>2, <1>10, <3>1, <3>2
  <2>5. \A q \in Done(u) : g[q] \subseteq u.visited
    <3>1. \A q \in Done(t) : g[q] \subseteq u.visited
      BY <1>4 DEF Walk
    <3>2. g[p] \subseteq u.visited
      BY <1>1, <1>6, <1>10
    <3>. QED  BY <1>9, <3>1, <3>2
  <2>6. /\ u.roots \subseteq u.asked /\ u.asked \ u.roots \subseteq u.visited
        /\ u.visited \subseteq ReachedFrom(g, u.asked)
    BY <1>4 DEF Walk
  <2>. QED  BY <1>2, <2>1, <2>2, <2>3, <2>4, <2>5, <2>6 DEF Walk, h
<1>14. ASSUME t.of = "cycles"  PROVE CyclesWalk(u, g, {})
  <2>1. CyclesWalk(t, g, {})
    BY <1>14 DEF WalkFine
  <2>2. \A i \in 1..n : \A e \in Seen(t, g, i) : Accounted(t, i, e, {})
    BY <1>1, <2>1 DEF CyclesWalk, f
  <2>3. \A i \in 1..(n - 1) : \A e \in Seen(u, g, i) : Accounted(u, i, e, {})
    BY <1>5, <1>10, <1>11, <2>2
  <2>4. g[p] \subseteq Done(t)
    BY <1>1, <1>10, <1>12, <2>2
  <2>5. \A q \in Done(t) : g[q] \subseteq Done(t)
    BY <2>1 DEF CyclesWalk
  <2>6. \A q \in Done(u) : g[q] \subseteq Done(u)
    BY <1>9, <2>4, <2>5
  <2>7. Acyclic(g, Done(u))
    <3>1. SUFFICES ASSUME NEW T \in SUBSET Done(u), T # {}
                   PROVE  \E q \in T : g[q] \cap T = {}
      BY DEF Acyclic
    <3>. DEFINE S == T \ {p}
    <3>2. S \in SUBSET Done(t)
      BY <1>9
    <3>3. CASE S = {}
      <4>1. p \in T /\ T = {p}
        BY <3>1, <3>3
      <4>2. g[p] \cap T = {}
        BY <1>9, <2>4, <4>1
      <4>. QED  BY <4>1, <4>2
    <3>4. CASE S # {}
      <4>1. PICK q \in S : g[q] \cap S = {}
        BY <2>1, <3>2, <3>4 DEF CyclesWalk, Acyclic
      <4>2. p \notin g[q]
        BY <1>9, <2>5, <3>2, <4>1
      <4>. QED  BY <4>1, <4>2
    <3>. QED  BY <3>3, <3>4
  <2>8. u.recursionStack = OnStack(u)
    BY <1>8, <1>14, <2>1 DEF CyclesWalk
  <2>. QED  BY <1>2, <2>3, <2>6, <2>7, <2>8 DEF CyclesWalk, h
<1>15. ASSUME t.of = "order"  PROVE OrderWalk(u, g, {})
  <2>. DEFINE o == t.order
              m == Len(o)
              v == Append(o, p)
  <2>1. OrderWalk(t, g, {}) /\ u.order = v /\ o \in Seq(Plugin)
    BY <1>15, TraversalFields DEF WalkFine
  <2>2. /\ DOMAIN o = 1..m /\ DOMAIN v = 1..(m + 1)
        /\ (\A i \in 1..m : v[i] = o[i]) /\ v[m + 1] = p
        /\ \A i \in 1..(m + 1) : i \in 1..m \/ i = m + 1
        /\ m + 1 \in 1..(m + 1) /\ (\A i \in 1..m : i \in 1..(m + 1)) /\ (m + 1) - 1 = m
    BY <1>3, <2>1, OrderPushed
  <2>3. IsInjective(o) /\ Elements(o) = Done(t) /\ ListedAfter(g, o)
    BY <2>1 DEF OrderWalk
  <2>. HIDE DEF o, v, m
  <2>4. \A i \in 1..m : o[i] # p
    BY <1>9, <2>2, <2>3 DEF Elements
  <2>5. IsInjective(v)
    BY <2>2, <2>3, <2>4 DEF IsInjective
  <2>6. Elements(v) = Done(u)
    BY <1>9, <2>2, <2>3 DEF Elements
  <2>7. \A i \in 1..n : \A e \in Seen(t, g, i) :
           Accounted(t, i, e, {}) \/ HasCyclicDependencies(g, f[i].node)
    BY <1>1, <2>1 DEF OrderWalk, f
  <2>8. \A i \in 1..(n - 1) : \A e \in Seen(u, g, i) :
           Accounted(u, i, e, {}) \/ HasCyclicDependencies(g, h[i].node)
    BY <1>2, <1>5, <1>10, <1>11, <2>7
  <2>9. ListedAfter(g, v)
    <3>1. ASSUME NEW i \in 1..m, NEW d \in g[o[i]]
          PROVE  HasCyclicDependencies(g, o[i]) \/ \E j \in 1..(i - 1) : v[j] = d
      <4>1. HasCyclicDependencies(g, o[i]) \/ \E j \in 1..(i - 1) : o[j] = d
        BY <2>2, <2>3 DEF ListedAfter
      <4>2. \A j \in 1..(i - 1) : j \in 1..m
        <5>1. m \in Nat
          BY <2>1 DEF m, o
        <5>. QED  BY <5>1
      <4>. QED  BY <2>2, <4>1, <4>2
    <3>2. ASSUME NEW d \in g[p]
          PROVE  HasCyclicDependencies(g, p) \/ \E j \in 1..m : v[j] = d
      <4>1. d \in Done(t) \/ HasCyclicDependencies(g, p)
        BY <1>1, <1>3, <1>10, <1>12, <2>7
      <4>. QED  BY <2>2, <2>3, <4>1 DEF Elements
    <3>3. ASSUME NEW i \in 1..(m + 1), NEW d \in g[v[i]]
          PROVE  HasCyclicDependencies(g, v[i]) \/ \E j \in 1..(i - 1) : v[j] = d
      <4>1. CASE i \in 1..m
        BY <2>2, <3>1, <4>1
      <4>2. CASE i = m + 1
        <5>1. v[i] = p /\ i - 1 = m
          BY <2>2, <4>2
        <5>. QED  BY <3>2, <5>1
      <4>. QED  BY <2>2, <4>1, <4>2
    <3>. QED  BY <2>2, <3>3 DEF ListedAfter
  <2>. QED  BY <1>2, <2>1, <2>5, <2>6, <2>8, <2>9 DEF OrderWalk, h
<1>16. ASSUME t.of = "impact"  PROVE ImpactWalk(u, g)
  <2>1. ImpactWalk(t, g)
    BY <1>16 DEF WalkFine
  <2>2. t.allDependents = {e \in Plugin : \/ \E q \in Done(t) : e \in g[q]
                                          \/ \E i \in 1..n : e \in Seen(t, g, i)}
    BY <1>1, <2>1 DEF ImpactWalk, f
  <2>3. ASSUME NEW e
        PROVE  (\E i \in 1..n : e \in Seen(t, g, i))
                 <=> (\E i \in 1..(n - 1) : e \in Seen(u, g, i)) \/ e \in g[p]
    BY <1>1, <1>5, <1>10
  <2>4. u.allDependents = {e \in Plugin : \/ \E q \in Done(u) : e \in g[q]
                                          \/ \E i \in 1..(n - 1) : e \in Seen(u, g, i)}
    BY <1>9, <2>2, <2>3
  <2>. QED  BY <1>2, <2>1, <2>4 DEF ImpactWalk, h
<1>. QED  BY <1>13, <1>14, <1>15, <1>16 DEF WalkFine

-----------------------------------------------------------------------------
(***************************************************************************)
(* DependencyTraversals: the steps                                         *)
(***************************************************************************)
\* A call is made for d, which the innermost loop or the outermost one has taken.
LEMMA CalledFine ==
    ASSUME NEW g \in Graph, NEW t \in Traversal, NEW d \in Plugin,
           g = Followed(t), ~t.cyclic, WalkFine(t, g, {d})
    PROVE  /\ TraversalFine(Called(t, d), g)
           /\ Called(t, d).of = t.of /\ Called(t, d).asked = t.asked
<1>1. CASE t.of = "cycles" /\ d \in t.recursionStack
  <2>. DEFINE u == CycleFound(t)
  <2>1. /\ u \in Traversal /\ u.of = "cycles" /\ u.asked = t.asked
        /\ u.cyclic = TRUE /\ u.roots = {} /\ u.frames = <<>>
    <3>1. <<>> \in Seq(Frame)
      OBVIOUS
    <3>. QED  BY <1>1, <3>1 DEF CycleFound, Traversal
  <2>. HIDE DEF u
  <2>2. Walk(t, g, {d}) /\ d \in OnStack(t)
    BY <1>1 DEF WalkFine, CyclesWalk
  <2>3. \E p \in t.asked : HasCyclicDependencies(g, p)
    BY <2>2, CalledOnStack
  <2>4. TraversalFine(u, g)
    BY <2>1, <2>3 DEF TraversalFine, Ended
  <2>. QED  BY <1>1, <2>1, <2>4 DEF Called, u
<1>2. CASE ~(t.of = "cycles" /\ d \in t.recursionStack) /\ d \in t.visited
  <2>1. WalkFine(t, g, {})
    BY <1>2, CallSkipped
  <2>. QED  BY <1>2, <2>1 DEF Called, TraversalFine
<1>3. CASE ~(t.of = "cycles" /\ d \in t.recursionStack) /\ d \notin t.visited
  <2>. DEFINE u == Entered(t, d)
              x == [node |-> d, left |-> g[d]]
  <2>1. Append(t.frames, x) \in Seq(Frame)
    <3>1. x \in Frame /\ t.frames \in Seq(Frame)
      BY TraversalFields DEF Frame, Graph
    <3>. HIDE DEF x
    <3>. QED  BY <3>1, FramePushed
  <2>2. /\ u.of = t.of /\ u.asked = t.asked /\ u.roots = t.roots
        /\ u.visited = t.visited \cup {d}
        /\ u.recursionStack = IF t.of = "cycles" THEN t.recursionStack \cup {d}
                              ELSE t.recursionStack
        /\ u.order = t.order /\ u.allDependents = t.allDependents
        /\ u.frames = Append(t.frames, x) /\ u.cyclic = t.cyclic
    BY DEF Entered, Traversal
  <2>3. u \in Traversal
    <3>. HIDE DEF x
    <3>1. u = [t EXCEPT !.visited = @ \cup {d},
                        !.recursionStack = IF t.of = "cycles" THEN @ \cup {d} ELSE @,
                        !.frames = Append(@, x)]
      BY DEF Entered, x
    <3>. HIDE DEF u
    <3>. QED  BY <2>1, <3>1 DEF Traversal
  <2>. HIDE DEF u
  <2>4. WalkFine(u, g, {})
    BY <1>3, <2>2, <2>3, CallEntered
  <2>. QED  BY <1>3, <2>2, <2>3, <2>4 DEF Called, TraversalFine, u
<1>. QED  BY <1>1, <1>2, <1>3

\* The states in which a call is about to be made.
RootChosen(t, p) == [t EXCEPT !.roots = @ \ {p}]

NextChosen(t, d) ==
    LET s == [t EXCEPT !.frames[Len(t.frames)].left = @ \ {d}]
    IN  IF t.of = "impact" THEN Counted(s, d) ELSE s

LEMMA RootChosenFields ==
    ASSUME NEW t \in Traversal, NEW p \in Plugin
    PROVE  LET u == RootChosen(t, p) IN
           /\ u \in Traversal /\ u.of = t.of /\ u.asked = t.asked /\ u.roots = t.roots \ {p}
           /\ u.visited = t.visited /\ u.recursionStack = t.recursionStack
           /\ u.order = t.order /\ u.frames = t.frames
           /\ u.allDependents = t.allDependents /\ u.cyclic = t.cyclic
BY DEF RootChosen, Traversal

LEMMA NextChosenFields ==
    ASSUME NEW t \in Traversal, NEW d \in Plugin, t.frames # <<>>
    PROVE  LET u == NextChosen(t, d) IN
           /\ u \in Traversal /\ u.of = t.of /\ u.asked = t.asked /\ u.roots = t.roots
           /\ u.visited = t.visited /\ u.recursionStack = t.recursionStack
           /\ u.order = t.order /\ u.frames = Narrowed(t.frames, d)
           /\ u.allDependents = IF t.of = "impact" THEN t.allDependents \cup {d}
                                ELSE t.allDependents
           /\ u.cyclic = t.cyclic
<1>. DEFINE k == Narrowed(t.frames, d)
            s == [t EXCEPT !.frames = k]
            w == [s EXCEPT !.allDependents = @ \cup {d}]
<1>1. k \in Seq(Frame)
  BY TraversalFields, FrameNarrowed
<1>2. NextChosen(t, d) = IF t.of = "impact" THEN w ELSE s
  <2>1. [t EXCEPT !.frames[Len(t.frames)].left = @ \ {d}] = s
    BY DEF Narrowed
  <2>. QED  BY <2>1 DEF NextChosen, Counted
<1>. HIDE DEF k
<1>3. /\ s \in Traversal /\ s.of = t.of /\ s.asked = t.asked /\ s.roots = t.roots
      /\ s.visited = t.visited /\ s.recursionStack = t.recursionStack
      /\ s.order = t.order /\ s.frames = k
      /\ s.allDependents = t.allDependents /\ s.cyclic = t.cyclic
  BY <1>1 DEF Traversal
<1>4. /\ w \in Traversal /\ w.of = t.of /\ w.asked = t.asked /\ w.roots = t.roots
      /\ w.visited = t.visited /\ w.recursionStack = t.recursionStack
      /\ w.order = t.order /\ w.frames = k
      /\ w.allDependents = t.allDependents \cup {d} /\ w.cyclic = t.cyclic
  BY <1>1 DEF Traversal
<1>. HIDE DEF s, w
<1>. QED  BY <1>2, <1>3, <1>4 DEF k

\* What the end of a call leaves.
LEMMA ReturnedFields ==
    ASSUME NEW t \in Traversal, t.frames # <<>>
    PROVE  LET u == Returned(t)
               p == Top(t).node
           IN
           /\ u \in Traversal /\ u.of = t.of /\ u.asked = t.asked /\ u.roots = t.roots
           /\ u.visited = t.visited
           /\ u.recursionStack = IF t.of = "cycles" THEN t.recursionStack \ {p}
                                 ELSE t.recursionStack
           /\ u.order = IF t.of = "order" THEN Append(t.order, p) ELSE t.order
           /\ u.allDependents = t.allDependents /\ u.frames = Front(t.frames)
           /\ u.cyclic = t.cyclic
<1>. DEFINE p == Top(t).node
            k == Front(t.frames)
            s == [t EXCEPT !.frames = k]
            v == [s EXCEPT !.recursionStack = @ \ {p}]
            w == [s EXCEPT !.order = Append(@, p)]
<1>1. k \in Seq(Frame) /\ p \in Plugin /\ Append(t.order, p) \in Seq(Plugin)
  <2>1. p \in Plugin
    BY TraversalFields, FramesAt DEF Top
  <2>. QED  BY <2>1, TraversalFields, FramePopped, OrderPushed
<1>2. Returned(t) = IF t.of = "cycles" THEN v ELSE IF t.of = "order" THEN w ELSE s
  BY DEF Returned, Left, Listed, Traversal
<1>. HIDE DEF k, p
<1>3. /\ s \in Traversal /\ s.of = t.of /\ s.asked = t.asked /\ s.roots = t.roots
      /\ s.visited = t.visited /\ s.recursionStack = t.recursionStack
      /\ s.order = t.order /\ s.frames = k
      /\ s.allDependents = t.allDependents /\ s.cyclic = t.cyclic
  BY <1>1 DEF Traversal
<1>4. /\ v \in Traversal /\ v.of = t.of /\ v.asked = t.asked /\ v.roots = t.roots
      /\ v.visited = t.visited /\ v.recursionStack = t.recursionStack \ {p}
      /\ v.order = t.order /\ v.frames = k
      /\ v.allDependents = t.allDependents /\ v.cyclic = t.cyclic
  BY <1>1 DEF Traversal
<1>5. /\ w \in Traversal /\ w.of = t.of /\ w.asked = t.asked /\ w.roots = t.roots
      /\ w.visited = t.visited /\ w.recursionStack = t.recursionStack
      /\ w.order = Append(t.order, p) /\ w.frames = k
      /\ w.allDependents = t.allDependents /\ w.cyclic = t.cyclic
  BY <1>1 DEF Traversal
<1>. HIDE DEF s, v, w
<1>. QED  BY <1>2, <1>3, <1>4, <1>5 DEF k, p

\* No call has been made yet.
LEMMA BeginningFine ==
    ASSUME NEW g \in Graph, NEW kind \in {"none", "cycles", "order", "impact"},
           NEW ids \in SUBSET Plugin, kind = "impact" => \A p, q \in ids : p = q
    PROVE  /\ TraversalFine(Beginning(kind, ids), g)
           /\ Beginning(kind, ids).of = kind /\ Beginning(kind, ids).asked = ids
<1>. DEFINE t == Beginning(kind, ids)
<1>1. /\ t.of = kind /\ t.asked = ids /\ t.roots = ids /\ t.frames = <<>> /\ t.visited = {}
      /\ t.recursionStack = {} /\ t.cyclic = FALSE /\ t.order = <<>> /\ t.allDependents = {}
  BY DEF Beginning
<1>2. t \in Traversal
  <2>1. <<>> \in Seq(Frame) /\ <<>> \in Seq(Plugin)
    OBVIOUS
  <2>. QED  BY <2>1 DEF Beginning, Traversal
<1>. HIDE DEF t
<1>3. DOMAIN t.frames = {} /\ 1..(Len(t.frames) - 1) = {} /\ DOMAIN t.order = {}
  BY <1>1
<1>4. OnStack(t) = {} /\ Done(t) = {}
  BY <1>1, <1>3 DEF OnStack, Done
<1>5. Walk(t, g, {})
  BY <1>1, <1>3, <1>4 DEF Walk
<1>6. CyclesWalk(t, g, {})
  BY <1>1, <1>3, <1>4 DEF CyclesWalk, Acyclic
<1>7. OrderWalk(t, g, {})
  BY <1>1, <1>3, <1>4 DEF OrderWalk, ListedAfter, IsInjective, Elements
<1>8. kind = "impact" => ImpactWalk(t, g)
  BY <1>1, <1>3, <1>4 DEF ImpactWalk
<1>9. WalkFine(t, g, {})
  BY <1>1, <1>5, <1>6, <1>7, <1>8 DEF WalkFine
<1>. QED  BY <1>1, <1>2, <1>9 DEF TraversalFine, t

\* A traversal follows the same graph to its end.
LEMMA FollowedTyped ==
    ASSUME ResolverTypeOK, NEW t
    PROVE  Followed(t) \in Graph
BY DEF ResolverTypeOK, Followed, Graph

\* The resolver starts without edges and traverses nothing.
LEMMA TraversalInitInv == TraversalInit => TraversalInv
<1>1. SUFFICES ASSUME TraversalInit  PROVE TraversalInv
  OBVIOUS
<1>2. ResolverTypeOK /\ GraphsMirror
  BY <1>1 DEF TraversalInit, ResolverInit, ResolverTypeOK, GraphsMirror
<1>3. TraversalFine(traversal, Followed(traversal)) /\ traversal.of = "none"
  <2>1. traversal = Beginning("none", {})
    BY <1>1 DEF TraversalInit
  <2>2. Followed(traversal) \in Graph
    BY <1>2, FollowedTyped
  <2>. HIDE DEF Followed
  <2>. QED  BY <2>1, <2>2, BeginningFine
<1>. QED  BY <1>2, <1>3 DEF TraversalInv

\* An answer is forgotten when the graph changes.
LEMMA GraphChanged ==
    ASSUME ResolverTypeOK', GraphsMirror', traversal' = Beginning("none", {})
    PROVE  TraversalInv'
<1>1. Followed(traversal)' \in Graph
  BY DEF ResolverTypeOK, Followed, Graph
<1>2. TraversalFine(Beginning("none", {}), Followed(traversal)')
      /\ Beginning("none", {}).of = "none"
  BY <1>1, BeginningFine
<1>3. TraversalFine(traversal, Followed(traversal))' /\ traversal'.of = "none"
  <2>1. TraversalFine(traversal', Followed(traversal)') /\ traversal'.of = "none"
    BY <1>2, Zenon
  <2>. QED  BY <2>1
<1>. QED  BY <1>3 DEF TraversalInv

\* A step of a traversal leaves the graphs alone.
LEMMA TraversalStays ==
    ASSUME TraversalInv, NEW t, TraversalFine(t, Followed(t)),
           t.of = "order" => t.asked = known,
           traversal' = t, UNCHANGED resolverVars
    PROVE  TraversalInv'
<1>1. known' = known /\ graph' = graph /\ reverse' = reverse
  BY DEF resolverVars
<1>2. ResolverTypeOK' /\ GraphsMirror'
  BY <1>1 DEF TraversalInv, ResolverTypeOK, GraphsMirror
<1>3. Followed(traversal)' = Followed(t)
  BY <1>1 DEF Followed
<1>. QED  BY <1>1, <1>2, <1>3 DEF TraversalInv

\* A traversal begins.
LEMMA StartPreserves ==
    ASSUME TraversalInv, NEW kind \in {"cycles", "order", "impact"}, NEW ids \in SUBSET Plugin,
           Start(kind, ids), kind = "impact" => \A p, q \in ids : p = q,
           kind = "order" => ids = known
    PROVE  TraversalInv'
<1>. DEFINE t == Beginning(kind, ids)
<1>1. Followed(t) \in Graph
  BY FollowedTyped DEF TraversalInv
<1>2. TraversalFine(t, Followed(t)) /\ t.of = kind /\ t.asked = ids
  <2>. HIDE DEF Followed
  <2>. QED  BY <1>1, BeginningFine
<1>3. traversal' = t /\ UNCHANGED resolverVars
  BY DEF Start
<1>. HIDE DEF t
<1>. QED  BY <1>2, <1>3, TraversalStays

\* What a call leads to, made from a state whose loop has taken its element.
LEMMA CalledPreserves ==
    ASSUME TraversalInv, NEW s \in Traversal, NEW d \in Plugin,
           s.of = traversal.of, s.asked = traversal.asked, ~s.cyclic,
           WalkFine(s, Followed(traversal), {d}),
           traversal' = Called(s, d), UNCHANGED resolverVars
    PROVE  TraversalInv'
<1>1. Followed(s) = Followed(traversal) /\ Followed(s) \in Graph
  <2>1. Followed(s) = Followed(traversal)
    BY DEF Followed
  <2>. QED  BY <2>1, FollowedTyped DEF TraversalInv
<1>2. /\ TraversalFine(Called(s, d), Followed(s))
      /\ Called(s, d).of = s.of /\ Called(s, d).asked = s.asked
  BY <1>1, CalledFine
<1>3. Followed(Called(s, d)) = Followed(s)
  BY <1>2 DEF Followed
<1>. QED  BY <1>2, <1>3, TraversalStays DEF TraversalInv

\* Every step preserves the invariant.
LEMMA TraversalStepInv == TraversalInv /\ [TraversalNext]_traversalVars => TraversalInv'
<1>. DEFINE t == traversal
            g == Followed(t)
<1>1. SUFFICES ASSUME TraversalInv, [TraversalNext]_traversalVars  PROVE TraversalInv'
  OBVIOUS
<1>2. t \in Traversal /\ g \in Graph /\ TraversalFine(t, g)
  BY <1>1, FollowedTyped DEF TraversalInv, TraversalFine
<1>. HIDE DEF g
<1>3. t.frames # <<>> \/ t.roots # {} => ~t.cyclic /\ WalkFine(t, g, {})
  BY <1>2 DEF TraversalFine, Ended
<1>4. ASSUME NEW p \in Plugin, NEW D \in SUBSET Plugin, AddPluginEdges(p, D)
      PROVE  TraversalInv'
  <2>1. ResolverTypeOK' /\ GraphsMirror'
    BY <1>1, <1>4, AddPluginMirrors DEF TraversalInv, AddPluginEdges
  <2>. QED  BY <1>4, <2>1, GraphChanged DEF AddPluginEdges
<1>5. ASSUME NEW p \in Plugin, RemovePluginEdges(p)
      PROVE  TraversalInv'
  <2>1. ResolverTypeOK' /\ GraphsMirror'
    BY <1>1, <1>5, RemovePluginMirrors DEF TraversalInv, RemovePluginEdges
  <2>. QED  BY <1>5, <2>1, GraphChanged DEF RemovePluginEdges
<1>6. ASSUME NEW p \in Plugin, HasCyclicDependenciesOf(p)
      PROVE  TraversalInv'
  BY <1>1, <1>6, StartPreserves DEF HasCyclicDependenciesOf
<1>7. ASSUME NEW p \in Plugin, GetImpactAnalysis(p)
      PROVE  TraversalInv'
  BY <1>1, <1>7, StartPreserves DEF GetImpactAnalysis
<1>8. ASSUME GetLoadOrder
      PROVE  TraversalInv'
  <2>1. known \in SUBSET Plugin
    BY <1>1 DEF TraversalInv, ResolverTypeOK
  <2>. QED  BY <1>1, <1>8, <2>1, StartPreserves DEF GetLoadOrder
<1>9. ASSUME NEW p \in Plugin, CallRoot(p)
      PROVE  TraversalInv'
  <2>. DEFINE s == RootChosen(t, p)
  <2>1. /\ t.frames = <<>> /\ p \in t.roots /\ traversal' = Called(s, p)
        /\ UNCHANGED resolverVars
    BY <1>9 DEF CallRoot, RootChosen
  <2>2. /\ s \in Traversal /\ s.of = t.of /\ s.asked = t.asked /\ s.roots = t.roots \ {p}
        /\ s.visited = t.visited /\ s.recursionStack = t.recursionStack
        /\ s.order = t.order /\ s.frames = t.frames
        /\ s.allDependents = t.allDependents /\ s.cyclic = t.cyclic
    BY <1>2, RootChosenFields
  <2>. HIDE DEF s
  <2>3. WalkFine(s, g, {p})
    BY <1>2, <1>3, <2>1, <2>2, RootTaken
  <2>. QED  BY <1>1, <1>3, <2>1, <2>2, <2>3, CalledPreserves DEF g
<1>10. ASSUME NEW d \in Plugin, CallNext(d)
       PROVE  TraversalInv'
  <2>. DEFINE s == NextChosen(t, d)
  <2>1. /\ t.frames # <<>> /\ d \in Top(t).left /\ traversal' = Called(s, d)
        /\ UNCHANGED resolverVars
    BY <1>10 DEF CallNext, NextChosen
  <2>2. /\ s \in Traversal /\ s.of = t.of /\ s.asked = t.asked /\ s.roots = t.roots
        /\ s.visited = t.visited /\ s.recursionStack = t.recursionStack
        /\ s.order = t.order /\ s.frames = Narrowed(t.frames, d)
        /\ s.allDependents = IF t.of = "impact" THEN t.allDependents \cup {d}
                             ELSE t.allDependents
        /\ s.cyclic = t.cyclic
    BY <1>2, <2>1, NextChosenFields
  <2>. HIDE DEF s
  <2>3. WalkFine(s, g, {d})
    BY <1>2, <1>3, <2>1, <2>2, NextTaken
  <2>. QED  BY <1>1, <1>3, <2>1, <2>2, <2>3, CalledPreserves DEF g
<1>11. ASSUME CallEnds
       PROVE  TraversalInv'
  <2>. DEFINE u == Returned(t)
              p == Top(t).node
  <2>1. /\ t.frames # <<>> /\ Top(t).left = {} /\ traversal' = u /\ UNCHANGED resolverVars
    BY <1>11 DEF CallEnds
  <2>2. /\ u \in Traversal /\ u.of = t.of /\ u.asked = t.asked /\ u.roots = t.roots
        /\ u.visited = t.visited
        /\ u.recursionStack = IF t.of = "cycles" THEN t.recursionStack \ {p}
                              ELSE t.recursionStack
        /\ u.order = IF t.of = "order" THEN Append(t.order, p) ELSE t.order
        /\ u.allDependents = t.allDependents /\ u.frames = Front(t.frames)
        /\ u.cyclic = t.cyclic
    BY <1>2, <2>1, ReturnedFields
  <2>. HIDE DEF u
  <2>3. WalkFine(u, g, {})
    <3>1. p = Top(t).node
      OBVIOUS
    <3>. HIDE DEF p
    <3>. QED  BY <1>2, <1>3, <2>1, <2>2, <3>1, CallReturned
  <2>4. Followed(u) = g
    BY <2>2 DEF Followed, g
  <2>5. TraversalFine(u, Followed(u))
    BY <1>3, <2>1, <2>2, <2>3, <2>4 DEF TraversalFine
  <2>. QED  BY <1>1, <2>1, <2>2, <2>5, TraversalStays DEF TraversalInv
<1>12. ASSUME UNCHANGED traversalVars
       PROVE  TraversalInv'
  <2>1. UNCHANGED resolverVars /\ traversal' = traversal
    BY <1>12 DEF traversalVars, resolverVars
  <2>. QED  BY <1>1, <2>1, TraversalStays DEF TraversalInv
<1>. QED
  BY <1>1, <1>4, <1>5, <1>6, <1>7, <1>8, <1>9, <1>10, <1>11, <1>12 DEF TraversalNext, TraversalStep

\* DependencyTraversals, every call, iteration order and graph: TraversalInv holds.
THEOREM TraversalInductive == TraversalSpec => []TraversalInv
BY TraversalInitInv, TraversalStepInv, PTL DEF TraversalSpec

\* An ended traversal that found no cycle has visited what the ids it was asked for reach.
LEMMA AnsweredVisited ==
    ASSUME NEW g \in Graph, NEW t \in Traversal, TraversalFine(t, g), Ended(t), ~t.cyclic
    PROVE  /\ WalkFine(t, g, {}) /\ DOMAIN t.frames = {} /\ Done(t) = t.visited
           /\ t.asked \subseteq t.visited /\ Closed(g, t.visited)
           /\ t.visited = ReachedFrom(g, t.asked)
<1>1. WalkFine(t, g, {}) /\ Walk(t, g, {}) /\ t.frames = <<>> /\ t.roots = {}
  BY DEF TraversalFine, WalkFine, Ended
<1>2. DOMAIN t.frames = {}
  BY <1>1
<1>3. Done(t) = t.visited
  BY <1>2 DEF Done, OnStack
<1>4. t.asked \subseteq t.visited /\ Closed(g, t.visited)
  BY <1>1, <1>3 DEF Walk, Closed
<1>5. t.visited \in SUBSET Plugin
  BY TraversalFields
<1>6. ReachedFrom(g, t.asked) \subseteq t.visited
  BY <1>4, <1>5 DEF ReachedFrom, Reach
<1>7. t.visited \subseteq ReachedFrom(g, t.asked)
  BY <1>1 DEF Walk
<1>. QED  BY <1>1, <1>2, <1>3, <1>4, <1>6, <1>7

\* An answer of hasCyclicDependencies: visited is closed and acyclic, or a cycle was found.
LEMMA CyclesAnswer == TraversalInv => CyclesFound
<1>. DEFINE t == traversal
<1>1. SUFFICES ASSUME TraversalInv, t.of = "cycles", Ended(t)
               PROVE  t.cyclic <=> \E p \in t.asked : HasCyclicDependencies(graph, p)
  BY DEF CyclesFound, Answered
<1>2. t \in Traversal /\ graph \in Graph /\ TraversalFine(t, graph)
  BY <1>1 DEF TraversalInv, TraversalFine, Followed, ResolverTypeOK, Graph
<1>3. CASE t.cyclic
  BY <1>2, <1>3 DEF TraversalFine
<1>4. CASE ~t.cyclic
  <2>1. /\ WalkFine(t, graph, {}) /\ Done(t) = t.visited
        /\ t.visited = ReachedFrom(graph, t.asked)
    BY <1>1, <1>2, <1>4, AnsweredVisited
  <2>2. Acyclic(graph, t.visited)
    BY <1>1, <2>1 DEF WalkFine, CyclesWalk
  <2>3. ASSUME NEW p \in t.asked  PROVE ~HasCyclicDependencies(graph, p)
    <3>1. Reach(graph, p) \subseteq t.visited
      BY <2>1 DEF ReachedFrom
    <3>. QED  BY <2>2, <3>1, AcyclicShrinks DEF HasCyclicDependencies
  <2>. QED  BY <1>4, <2>3
<1>. QED  BY <1>3, <1>4

\* An answer of getLoadOrder: each id stands after what it depends on.
LEMMA LoadOrderAnswer == TraversalInv => LoadOrderSound
<1>. DEFINE t == traversal
            o == t.order
<1>1. SUFFICES ASSUME TraversalInv, t.of = "order", Ended(t)
               PROVE  /\ IsInjective(o) /\ Elements(o) = ReachedFrom(graph, known)
                      /\ \A i, j \in DOMAIN o :
                           o[j] \in graph[o[i]] /\ ~HasCyclicDependencies(graph, o[i]) => j < i
  BY DEF LoadOrderSound, Answered
<1>2. /\ t \in Traversal /\ graph \in Graph /\ TraversalFine(t, graph) /\ ~t.cyclic
      /\ t.asked = known
  BY <1>1 DEF TraversalInv, TraversalFine, Followed, ResolverTypeOK, Graph
<1>3. WalkFine(t, graph, {}) /\ Done(t) = t.visited /\ t.visited = ReachedFrom(graph, known)
  BY <1>1, <1>2, AnsweredVisited
<1>4. IsInjective(o) /\ Elements(o) = Done(t) /\ ListedAfter(graph, o)
  BY <1>1, <1>3 DEF WalkFine, OrderWalk
<1>5. o \in Seq(Plugin)
  BY <1>2, TraversalFields
<1>. HIDE DEF o
<1>6. ASSUME NEW i \in DOMAIN o, NEW j \in DOMAIN o,
             o[j] \in graph[o[i]], ~HasCyclicDependencies(graph, o[i])
      PROVE  j < i
  <2>1. PICK k \in 1..(i - 1) : o[k] = o[j]
    BY <1>4, <1>6 DEF ListedAfter
  <2>2. DOMAIN o = 1..Len(o) /\ Len(o) \in Nat
    BY <1>5
  <2>3. k \in DOMAIN o /\ k < i
    BY <2>2
  <2>4. k = j
    BY <1>4, <2>1, <2>3 DEF IsInjective
  <2>. QED  BY <2>3, <2>4
<1>. QED  BY <1>3, <1>4, <1>6

\* An answer of getImpactAnalysis: reached backwards is leading to, forwards.
LEMMA ImpactAnswer == TraversalInv => ImpactComplete
<1>. DEFINE t == traversal
<1>1. SUFFICES ASSUME TraversalInv, t.of = "impact", Ended(t), NEW p \in t.asked
               PROVE  t.allDependents = {q \in Plugin : \E d \in graph[q] : p \in Reach(graph, d)}
  BY DEF ImpactComplete, Answered
<1>2. /\ t \in Traversal /\ reverse \in Graph /\ graph \in Graph
      /\ TraversalFine(t, reverse) /\ ~t.cyclic /\ p \in Plugin
  BY <1>1, TraversalFields DEF TraversalInv, TraversalFine, Followed, ResolverTypeOK, Graph
<1>3. /\ WalkFine(t, reverse, {}) /\ DOMAIN t.frames = {} /\ Done(t) = t.visited
      /\ t.visited = ReachedFrom(reverse, t.asked)
  BY <1>1, <1>2, AnsweredVisited
<1>4. /\ \A q \in t.asked : q = p
      /\ t.allDependents = {d \in Plugin : \E q \in t.visited : d \in reverse[q]}
  BY <1>1, <1>3 DEF WalkFine, ImpactWalk
<1>5. t.visited = Reach(reverse, p)
  BY <1>1, <1>3, <1>4 DEF ReachedFrom
<1>6. \A a, b \in Plugin : b \in graph[a] <=> a \in reverse[b]
  BY <1>1 DEF TraversalInv, GraphsMirror
<1>7. \A q \in Plugin : q \in Reach(reverse, p) <=> p \in Reach(graph, q)
  <2>1. ASSUME NEW q \in Plugin, q \in Reach(reverse, p)  PROVE p \in Reach(graph, q)
    <3>1. \A a, b \in Plugin : b \in reverse[a] <=> a \in graph[b]
      BY <1>6
    <3>. QED  BY <1>2, <2>1, <3>1, ReachMirrored DEF Graph
  <2>2. ASSUME NEW q \in Plugin, p \in Reach(graph, q)  PROVE q \in Reach(reverse, p)
    BY <1>2, <1>6, <2>2, ReachMirrored DEF Graph
  <2>. QED  BY <2>1, <2>2
<1>8. ASSUME NEW e \in Plugin
      PROVE  (\E q \in t.visited : e \in reverse[q]) <=> \E d \in graph[e] : p \in Reach(graph, d)
  <2>1. t.visited \subseteq Plugin /\ graph[e] \subseteq Plugin
    BY <1>2, TraversalFields DEF Graph
  <2>. QED  BY <1>5, <1>6, <1>7, <2>1
<1>. QED  BY <1>4, <1>8

\* A traversal's state is well-typed whatever order its Sets are iterated in.
THEOREM TraversalTypeCorrect == TraversalSpec => []TraversalTypeOK
<1>1. TraversalInv => TraversalTypeOK
  BY DEF TraversalInv, TraversalFine, TraversalTypeOK
<1>. QED  BY <1>1, TraversalInductive, PTL

\* addPlugin and removePlugin, in any order and for any ids, keep the two graphs
\* mirrored: the traversals of either answer about the other.
THEOREM TraversalMirrorCorrect == TraversalSpec => []GraphsMirror
<1>1. TraversalInv => GraphsMirror
  BY DEF TraversalInv
<1>. QED  BY <1>1, TraversalInductive, PTL

\* hasCyclicDependencies answers true exactly when the plugin is on a cycle or leads
\* to one, in every graph: a node that two paths lead to is not taken for a cycle.
THEOREM CyclesCorrect == TraversalSpec => []CyclesFound
BY TraversalInductive, CyclesAnswer, PTL

\* getLoadOrder lists each known plugin and all it leads to once, and after what it
\* depends on unless it leads to a cycle, whatever cycles the rest of the graph has.
THEOREM LoadOrderCorrect == TraversalSpec => []LoadOrderSound
BY TraversalInductive, LoadOrderAnswer, PTL

\* getImpactAnalysis finds exactly the plugins that lead to the one it is asked about.
THEOREM ImpactCorrect == TraversalSpec => []ImpactComplete
BY TraversalInductive, ImpactAnswer, PTL

-----------------------------------------------------------------------------
(***************************************************************************)
(* DependencyTraversals: every traversal comes to an end                   *)
(***************************************************************************)
\* Fewer edges, roots and frames.
LEMMA FewerLeft ==
    ASSUME NEW A \in SUBSET (Plugin \X Plugin), NEW B \in SUBSET A,
           NEW R \in SUBSET Plugin, NEW S \in SUBSET R
    PROVE  /\ Cardinality(A) \in Nat /\ Cardinality(B) \in Nat /\ Cardinality(B) <= Cardinality(A)
           /\ Cardinality(R) \in Nat /\ Cardinality(S) \in Nat /\ Cardinality(S) <= Cardinality(R)
           /\ A # B => Cardinality(B) < Cardinality(A)
           /\ R # S => Cardinality(S) < Cardinality(R)
<1>1. IsFiniteSet(Plugin \X Plugin) /\ IsFiniteSet(Plugin)
  BY ResolverAssumption, FS_Product
<1>2. IsFiniteSet(A) /\ IsFiniteSet(R)
  BY <1>1, FS_Subset
<1>3. /\ IsFiniteSet(B) /\ Cardinality(B) <= Cardinality(A)
      /\ Cardinality(A) = Cardinality(B) => A = B
  BY <1>2, FS_Subset
<1>4. /\ IsFiniteSet(S) /\ Cardinality(S) <= Cardinality(R)
      /\ Cardinality(R) = Cardinality(S) => R = S
  BY <1>2, FS_Subset
<1>5. /\ Cardinality(A) \in Nat /\ Cardinality(B) \in Nat
      /\ Cardinality(R) \in Nat /\ Cardinality(S) \in Nat
  BY <1>2, <1>3, <1>4, FS_CardinalityType
<1>. QED  BY <1>3, <1>4, <1>5

\* The edges a traversal may still take.
LEMMA UntakenEdges ==
    ASSUME NEW t \in Traversal, NEW a, NEW b
    PROVE  /\ Untaken(t) \in SUBSET (Plugin \X Plugin)
           /\ <<a, b>> \in Untaken(t) <=>
                /\ a \in Plugin /\ b \in Plugin /\ b \in Followed(t)[a]
                /\ a \notin t.visited
                   \/ \E i \in DOMAIN t.frames : t.frames[i].node = a /\ b \in t.frames[i].left
BY DEF Untaken

\* A call takes no edge and adds at most one frame.
LEMMA CallTakesNothing ==
    ASSUME ResolverTypeOK, NEW t \in Traversal, NEW d \in Plugin, Called(t, d) \in Traversal
    PROVE  /\ Untaken(Called(t, d)) \subseteq Untaken(t)
           /\ Called(t, d).roots \subseteq t.roots
           /\ Len(Called(t, d).frames) \in Nat /\ Len(Called(t, d).frames) <= Len(t.frames) + 1
<1>. DEFINE u == Called(t, d)
            f == t.frames
            n == Len(f)
<1>1. n \in Nat /\ DOMAIN f = 1..n /\ f \in Seq(Frame)
  BY TraversalFields, FramesAt
<1>2. CASE t.of = "cycles" /\ d \in t.recursionStack
  <2>1. /\ u = CycleFound(t) /\ u.of = t.of /\ u.roots = {} /\ u.frames = <<>>
        /\ u.visited = t.visited
    BY <1>2 DEF Called, CycleFound, Traversal
  <2>. HIDE DEF u
  <2>2. DOMAIN u.frames = {} /\ Len(u.frames) = 0
    BY <2>1
  <2>3. Untaken(u) \subseteq Untaken(t)
    BY <2>1, <2>2 DEF Untaken, Followed
  <2>. QED  BY <1>1, <2>1, <2>2, <2>3 DEF u
<1>3. CASE ~(t.of = "cycles" /\ d \in t.recursionStack) /\ d \in t.visited
  BY <1>1, <1>3 DEF Called
<1>4. CASE ~(t.of = "cycles" /\ d \in t.recursionStack) /\ d \notin t.visited
  <2>. DEFINE x == [node |-> d, left |-> Followed(t)[d]]
  <2>1. /\ u = Entered(t, d) /\ u.of = t.of /\ u.roots = t.roots
        /\ u.visited = t.visited \cup {d} /\ u.frames = Append(f, x)
    BY <1>4 DEF Called, Entered, Traversal
  <2>2. x \in Frame /\ x.node = d /\ x.left = Followed(t)[d]
    <3>1. Followed(t) \in Graph
      BY FollowedTyped
    <3>. HIDE DEF Followed
    <3>. QED  BY <3>1 DEF Frame, Graph
  <2>. HIDE DEF x
  <2>3. /\ Len(u.frames) = n + 1 /\ DOMAIN u.frames = 1..(n + 1)
        /\ (\A i \in 1..n : u.frames[i] = f[i]) /\ u.frames[n + 1] = x
    BY <1>1, <2>1, <2>2, FramePushed
  <2>4. \A i \in 1..(n + 1) : i \in 1..n \/ i = n + 1
    BY <1>1
  <2>. HIDE DEF u, f, n
  <2>5. Followed(u) = Followed(t)
    BY <2>1 DEF Followed
  <2>6. ASSUME NEW a, NEW b, <<a, b>> \in Untaken(u)  PROVE <<a, b>> \in Untaken(t)
    <3>1. /\ a \in Plugin /\ b \in Plugin /\ b \in Followed(t)[a]
          /\ a \notin u.visited
             \/ \E i \in DOMAIN u.frames : u.frames[i].node = a /\ b \in u.frames[i].left
      BY <2>5, <2>6, UntakenEdges DEF u
    <3>2. CASE a \notin u.visited
      BY <2>1, <3>1, <3>2, UntakenEdges
    <3>3. ASSUME NEW i \in 1..(n + 1), u.frames[i].node = a, b \in u.frames[i].left
          PROVE  <<a, b>> \in Untaken(t)
      <4>1. CASE i \in 1..n
        <5>1. i \in DOMAIN t.frames /\ t.frames[i].node = a /\ b \in t.frames[i].left
          BY <1>1, <2>3, <3>3, <4>1 DEF f
        <5>. QED  BY <3>1, <5>1, UntakenEdges
      <4>2. CASE i = n + 1
        BY <1>4, <2>2, <2>3, <3>1, <3>3, <4>2, UntakenEdges
      <4>. QED  BY <2>4, <4>1, <4>2
    <3>. QED  BY <2>3, <3>1, <3>2, <3>3
  <2>7. Untaken(u) \subseteq Untaken(t)
    <3>1. Untaken(u) \subseteq Plugin \X Plugin
      BY DEF Untaken
    <3>. QED  BY <2>6, <3>1
  <2>8. Len(u.frames) \in Nat /\ Len(u.frames) <= n + 1
    BY <1>1, <2>3
  <2>. QED  BY <2>1, <2>7, <2>8 DEF u, f, n
<1>. QED  BY <1>2, <1>3, <1>4

\* The edge that the innermost loop takes is gone.
LEMMA NextTakesEdge ==
    ASSUME ResolverTypeOK, NEW t \in Traversal, NEW u \in Traversal,
           Walk(t, Followed(t), {}), t.frames # <<>>, NEW d \in Top(t).left,
           u.of = t.of, u.visited = t.visited, u.frames = Narrowed(t.frames, d)
    PROVE  Untaken(u) \subseteq Untaken(t) /\ Untaken(u) # Untaken(t)
<1>. DEFINE f == t.frames
            n == Len(f)
            h == u.frames
            p == f[n].node
<1>1. /\ n \in Nat /\ n # 0 /\ n \in 1..n /\ DOMAIN f = 1..n /\ f \in Seq(Frame) /\ f # <<>>
      /\ \A i \in 1..n : f[i].node \in Plugin /\ f[i].left \in SUBSET Plugin
  BY TraversalFields, FramesAt
<1>. HIDE DEF f, h
<1>2. /\ Len(h) = n /\ DOMAIN h = 1..n
      /\ \A i \in 1..n : h[i].node = f[i].node
      /\ \A i \in 1..(n - 1) : h[i] = f[i]
      /\ h[n].left = f[n].left \ {d}
  <2>1. h = Narrowed(f, d)
    BY DEF f, h
  <2>. QED  BY <1>1, <2>1, FrameNarrowed
<1>. HIDE DEF n
<1>3. \A i \in 1..n : i \in 1..(n - 1) \/ i = n
  BY <1>1
<1>4. /\ d \in f[n].left /\ d \in Plugin /\ p \in Plugin
      /\ d \in Followed(t)[p] /\ p \in t.visited
      /\ \A i \in 1..n : f[i].node = p => i = n
  <2>1. d \in f[n].left /\ d \in Plugin /\ p \in Plugin
    BY <1>1 DEF Top, f, n
  <2>. HIDE DEF Followed
  <2>. QED  BY <1>1, <2>1 DEF Walk, OnStack, f, n
<1>5. Followed(u) = Followed(t)
  BY DEF Followed
<1>. HIDE DEF p
<1>6. \A i \in 1..n : h[i].left \subseteq f[i].left
  BY <1>2, <1>3
<1>7. ASSUME NEW a, NEW b, <<a, b>> \in Untaken(u)  PROVE <<a, b>> \in Untaken(t)
  <2>1. /\ a \in Plugin /\ b \in Plugin /\ b \in Followed(t)[a]
        /\ a \notin t.visited \/ \E i \in 1..n : h[i].node = a /\ b \in h[i].left
    BY <1>2, <1>5, <1>7, UntakenEdges DEF h
  <2>2. a \notin t.visited \/ \E i \in 1..n : f[i].node = a /\ b \in f[i].left
    BY <1>2, <1>6, <2>1
  <2>. QED  BY <1>1, <2>1, <2>2, UntakenEdges DEF f
<1>8. <<p, d>> \in Untaken(t)
  BY <1>1, <1>4, UntakenEdges DEF f, p
<1>9. <<p, d>> \notin Untaken(u)
  <2>1. ASSUME NEW i \in 1..n, h[i].node = p, d \in h[i].left  PROVE FALSE
    BY <1>2, <1>4, <2>1
  <2>. QED  BY <1>2, <1>4, <2>1, UntakenEdges DEF h
<1>10. Untaken(u) \subseteq Plugin \X Plugin
  BY DEF Untaken
<1>. QED  BY <1>7, <1>8, <1>9, <1>10

\* The end of a call takes nothing and drops a frame.
LEMMA ReturnTakesNothing ==
    ASSUME NEW t \in Traversal, NEW u \in Traversal, t.frames # <<>>,
           u.of = t.of, u.visited = t.visited, u.frames = Front(t.frames)
    PROVE  /\ Untaken(u) \subseteq Untaken(t)
           /\ Len(u.frames) \in Nat /\ Len(u.frames) = Len(t.frames) - 1
<1>. DEFINE f == t.frames
            n == Len(f)
            h == u.frames
<1>1. n \in Nat /\ n # 0 /\ DOMAIN f = 1..n /\ f \in Seq(Frame) /\ f # <<>>
  BY TraversalFields, FramesAt
<1>. HIDE DEF f, h
<1>2. Len(h) = n - 1 /\ DOMAIN h = 1..(n - 1) /\ \A i \in 1..(n - 1) : h[i] = f[i]
  <2>1. h = Front(f)
    BY DEF f, h
  <2>. QED  BY <1>1, <2>1, FramePopped
<1>3. n - 1 \in Nat /\ \A i \in 1..(n - 1) : i \in 1..n
  BY <1>1
<1>. HIDE DEF n
<1>4. Followed(u) = Followed(t)
  BY DEF Followed
<1>5. \A i \in DOMAIN u.frames : i \in DOMAIN t.frames /\ u.frames[i] = t.frames[i]
  BY <1>1, <1>2, <1>3 DEF f, h
<1>6. Untaken(u) \subseteq Untaken(t)
  BY <1>4, <1>5 DEF Untaken
<1>. QED  BY <1>2, <1>3, <1>6 DEF f, h, n

\* Every step leaves fewer.
LEMMA StepAdvances ==
    TraversalInv /\ TraversalStep => Remaining(traversal)' < Remaining(traversal)
<1>. DEFINE t == traversal
            g == Followed(t)
<1>1. SUFFICES ASSUME TraversalInv, TraversalStep
               PROVE  Remaining(traversal)' < Remaining(traversal)
  OBVIOUS
<1>2. t \in Traversal /\ ResolverTypeOK /\ g \in Graph /\ TraversalFine(t, g)
  BY <1>1, FollowedTyped DEF TraversalInv, TraversalFine
<1>. HIDE DEF g
<1>3. t.frames # <<>> \/ t.roots # {} => ~t.cyclic /\ WalkFine(t, g, {}) /\ Walk(t, g, {})
  BY <1>2 DEF TraversalFine, Ended, WalkFine
<1>4. Len(t.frames) \in Nat /\ t.roots \in SUBSET Plugin
      /\ Untaken(t) \in SUBSET (Plugin \X Plugin)
  BY <1>2, TraversalFields, FramesAt DEF Untaken
<1>5. UNCHANGED resolverVars
  BY <1>1 DEF TraversalStep, CallEnds, CallRoot, CallNext
<1>6. Remaining(traversal)' = Remaining(traversal')
  BY <1>5 DEF Remaining, Untaken, Followed, resolverVars
<1>7. ASSUME NEW p \in Plugin, CallRoot(p)
      PROVE  Remaining(traversal') < Remaining(t)
  <2>. DEFINE s == RootChosen(t, p)
              u == Called(s, p)
  <2>1. t.frames = <<>> /\ p \in t.roots /\ traversal' = u
    BY <1>7 DEF CallRoot, RootChosen
  <2>2. /\ s \in Traversal /\ s.of = t.of /\ s.asked = t.asked /\ s.roots = t.roots \ {p}
        /\ s.visited = t.visited /\ s.recursionStack = t.recursionStack
        /\ s.order = t.order /\ s.frames = t.frames
        /\ s.allDependents = t.allDependents /\ s.cyclic = t.cyclic
    BY <1>2, RootChosenFields
  <2>. HIDE DEF s
  <2>3. WalkFine(s, g, {p})
    BY <1>2, <1>3, <2>1, <2>2, RootTaken
  <2>4. u \in Traversal
    <3>1. g = Followed(s)
      BY <2>2 DEF Followed, g
    <3>. QED  BY <1>2, <1>3, <2>1, <2>2, <2>3, <3>1, CalledFine DEF TraversalFine
  <2>5. /\ Untaken(u) \subseteq Untaken(s) /\ u.roots \subseteq s.roots
        /\ Len(u.frames) \in Nat /\ Len(u.frames) <= Len(s.frames) + 1
    BY <1>2, <2>2, <2>4, CallTakesNothing
  <2>. HIDE DEF u
  <2>6. Untaken(s) = Untaken(t)
    BY <2>2 DEF Untaken, Followed
  <2>7. u.roots \subseteq t.roots /\ u.roots # t.roots
    BY <2>1, <2>2, <2>5
  <2>8. /\ Cardinality(Untaken(t)) \in Nat /\ Cardinality(Untaken(u)) \in Nat
        /\ Cardinality(Untaken(u)) <= Cardinality(Untaken(t))
        /\ Cardinality(t.roots) \in Nat /\ Cardinality(u.roots) \in Nat
        /\ Cardinality(u.roots) < Cardinality(t.roots)
    BY <1>4, <2>5, <2>6, <2>7, FewerLeft
  <2>. QED  BY <1>4, <2>1, <2>2, <2>5, <2>8 DEF Remaining
<1>8. ASSUME NEW d \in Plugin, CallNext(d)
      PROVE  Remaining(traversal') < Remaining(t)
  <2>. DEFINE s == NextChosen(t, d)
              u == Called(s, d)
  <2>1. t.frames # <<>> /\ d \in Top(t).left /\ traversal' = u
    BY <1>8 DEF CallNext, NextChosen
  <2>2. /\ s \in Traversal /\ s.of = t.of /\ s.asked = t.asked /\ s.roots = t.roots
        /\ s.visited = t.visited /\ s.recursionStack = t.recursionStack
        /\ s.order = t.order /\ s.frames = Narrowed(t.frames, d)
        /\ s.allDependents = IF t.of = "impact" THEN t.allDependents \cup {d}
                             ELSE t.allDependents
        /\ s.cyclic = t.cyclic
    BY <1>2, <2>1, NextChosenFields
  <2>. HIDE DEF s
  <2>3. WalkFine(s, g, {d})
    BY <1>2, <1>3, <2>1, <2>2, NextTaken
  <2>4. u \in Traversal
    <3>1. g = Followed(s)
      BY <2>2 DEF Followed, g
    <3>. QED  BY <1>2, <1>3, <2>1, <2>2, <2>3, <3>1, CalledFine DEF TraversalFine
  <2>5. /\ Untaken(u) \subseteq Untaken(s) /\ u.roots \subseteq s.roots
        /\ Len(u.frames) \in Nat /\ Len(u.frames) <= Len(s.frames) + 1
    BY <1>2, <2>2, <2>4, CallTakesNothing
  <2>. HIDE DEF u
  <2>6. Untaken(s) \subseteq Untaken(t) /\ Untaken(s) # Untaken(t)
    BY <1>2, <1>3, <2>1, <2>2, NextTakesEdge DEF g
  <2>7. Len(s.frames) = Len(t.frames)
    BY <2>1, <2>2, <1>2, TraversalFields, FrameNarrowed
  <2>8. Untaken(u) \subseteq Untaken(t) /\ Untaken(u) # Untaken(t) /\ u.roots \subseteq t.roots
    BY <2>2, <2>5, <2>6
  <2>9. /\ Cardinality(Untaken(t)) \in Nat /\ Cardinality(Untaken(u)) \in Nat
        /\ Cardinality(Untaken(u)) < Cardinality(Untaken(t))
        /\ Cardinality(t.roots) \in Nat /\ Cardinality(u.roots) \in Nat
        /\ Cardinality(u.roots) <= Cardinality(t.roots)
    BY <1>4, <2>8, FewerLeft
  <2>10. Len(u.frames) \in Nat /\ Len(u.frames) <= Len(t.frames) + 1
    BY <2>5, <2>7
  <2>11. Remaining(u) < Remaining(t)
    <3>. DEFINE a == Cardinality(Untaken(t))
                b == Cardinality(Untaken(u))
                x == Len(t.frames)
                y == Len(u.frames)
    <3>1. a \in Nat /\ b \in Nat /\ x \in Nat /\ y \in Nat /\ b < a /\ y <= x + 1
      BY <1>4, <2>9, <2>10
    <3>. HIDE DEF a, b, x, y
    <3>2. 2 * b + 2 * Cardinality(u.roots) + y < 2 * a + 2 * Cardinality(t.roots) + x
      BY <2>9, <3>1
    <3>. QED  BY <3>2 DEF Remaining, a, b, x, y
  <2>. QED  BY <2>1, <2>11
<1>9. ASSUME CallEnds
      PROVE  Remaining(traversal') < Remaining(t)
  <2>. DEFINE u == Returned(t)
  <2>1. t.frames # <<>> /\ traversal' = u
    BY <1>9 DEF CallEnds
  <2>2. /\ u \in Traversal /\ u.of = t.of /\ u.roots = t.roots
        /\ u.visited = t.visited /\ u.frames = Front(t.frames)
    BY <1>2, <2>1, ReturnedFields
  <2>. HIDE DEF u
  <2>3. /\ Untaken(u) \subseteq Untaken(t)
        /\ Len(u.frames) \in Nat /\ Len(u.frames) = Len(t.frames) - 1
    BY <1>2, <2>1, <2>2, ReturnTakesNothing
  <2>4. /\ Cardinality(Untaken(t)) \in Nat /\ Cardinality(Untaken(u)) \in Nat
        /\ Cardinality(Untaken(u)) <= Cardinality(Untaken(t))
        /\ Cardinality(t.roots) \in Nat
    BY <1>4, <2>3, FewerLeft
  <2>. QED  BY <1>4, <2>1, <2>2, <2>3, <2>4 DEF Remaining
<1>. QED  BY <1>1, <1>6, <1>7, <1>8, <1>9 DEF TraversalStep

\* Every call, return or answer of a traversal is one of finitely many: around a
\* cycle too, hasCyclicDependencies, getLoadOrder and getImpactAnalysis come to an end.
THEOREM AdvanceCorrect == TraversalSpec => TraversalsAdvance
<1>1. TraversalInv /\ [TraversalNext]_traversalVars
        => [TraversalStep => Remaining(traversal)' < Remaining(traversal)]_traversalVars
  BY StepAdvances
<1>. QED  BY <1>1, TraversalInductive, PTL DEF TraversalSpec, TraversalsAdvance
=============================================================================
