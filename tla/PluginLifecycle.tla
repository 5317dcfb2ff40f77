-------------------------- MODULE PluginLifecycle --------------------------
(***************************************************************************)
(* PluginLifecycleManager of packages/plugin-loader: plugins are           *)
(* registered, initialised, started, stopped and unloaded by concurrent    *)
(* callers.  Each operation except registration checks, awaits a hook of   *)
(* the plugin, and then writes the descriptor it looked up before the      *)
(* await.  By then the plugin may have been unloaded and registered again: *)
(* such a call is detached, its descriptor is no longer in the Map.  The   *)
(* catch blocks look the id up anew and find the new descriptor.           *)
(*                                                                         *)
(* A plugin without a hook is one whose hook answers at once.              *)
(*                                                                         *)
(* The dependencies a plugin declares stay in its descriptor; the edges in *)
(* the resolver's graph, which the checks read, go when the dependency is  *)
(* unloaded.  The two differ for a plugin that registered while an unload  *)
(* of its dependency awaited its hooks: racing and orphaned record that.   *)
(***************************************************************************)
EXTENDS DependencyResolver

CONSTANTS Declared,       \* plugin -> the dependency sets its descriptors may name
          Caller,         \* concurrent asynchronous calls
          ErrorListener,  \* has the manager a listener for 'error' events?
          NoCall

Operation == {"initialize", "start", "stop", "unloadStop", "uninstall"}
Call == [op: Operation, plugin: Plugin, attached: BOOLEAN]

ASSUME LifecycleAssumption ==
    /\ Declared \in [Plugin -> SUBSET SUBSET Plugin]
    /\ IsFiniteSet(Caller) /\ ErrorListener \in BOOLEAN /\ NoCall \notin Call

VARIABLES plugins,   \* the Map: plugin -> PluginState, or "unregistered"
          declares,  \* plugin -> the dependencies of its descriptor in the Map
          up,        \* plugin -> does the instance run (its own state)?
          calls,     \* caller -> the hook it awaits
          racing,    \* history: plugin -> its dependencies that were being
                     \* unloaded when it registered, and still are or were
                     \* unloaded in the end
          orphaned   \* history: plugin -> those unloaded since it registered

vars == <<known, graph, reverse, plugins, declares, up, calls, racing, orphaned>>
descriptorVars == <<declares, racing, orphaned>>

PluginState == {"registered", "initialized", "active", "inactive", "error"}
State == PluginState \cup {"unregistered"}

Registered == {p \in Plugin : plugins[p] # "unregistered"}

Init ==
    /\ ResolverInit
    /\ plugins = [p \in Plugin |-> "unregistered"]
    /\ declares = [p \in Plugin |-> {}]
    /\ up = [p \in Plugin |-> FALSE]
    /\ calls = [c \in Caller |-> NoCall]
    /\ racing = [p \in Plugin |-> {}] /\ orphaned = [p \in Plugin |-> {}]

SetState(p, s) == plugins' = [plugins EXCEPT ![p] = s]

\* Mutation: the continuation does not know which descriptor it holds.
AwaitById(c, op, p) ==
    /\ calls[c] = NoCall
    /\ calls' = [calls EXCEPT ![c] = [op |-> op, plugin |-> p]]
    /\ UNCHANGED <<resolverVars, descriptorVars, plugins, up>>

\* The operation reaches its await.
Await(c, op, p) ==
    /\ calls[c] = NoCall
    /\ calls' = [calls EXCEPT ![c] = [op |-> op, plugin |-> p, attached |-> TRUE]]
    /\ UNCHANGED <<resolverVars, descriptorVars, plugins, up>>

\* A check throws before the await: the catch block marks the plugin.
Refuse(p) == SetState(p, "error") /\ UNCHANGED <<resolverVars, descriptorVars, up, calls>>
-----------------------------------------------------------------------------
\* A call has checked that d has no dependents and has not removed it yet.
UnloadedBy(S, d) ==
    \E c \in Caller : /\ S[c] # NoCall /\ S[c].plugin = d
                     /\ S[c].op \in {"unloadStop", "uninstall"}

BeingUnloaded(d) == UnloadedBy(calls, d)

RegisterPlugin(p, D) ==
    /\ plugins[p] = "unregistered"
    /\ Valid(p, D)
    /\ AddPlugin(p, D)
    /\ SetState(p, "registered")
    /\ declares' = [declares EXCEPT ![p] = D]
    /\ racing' = [racing EXCEPT ![p] = {d \in D : BeingUnloaded(d)}]
    /\ UNCHANGED <<up, calls, orphaned>>

\* A dependency is missing, cyclic, or of another version: the registration
\* fails, but the resolver has the descriptor and its edges already.
FailRegister(p, D) ==
    /\ plugins[p] = "unregistered"
    /\ ~Valid(p, D) \/ D # {}
    /\ AddPlugin(p, D)
    /\ UNCHANGED <<descriptorVars, plugins, up, calls>>

\* Mutation: the state of the dependencies is not checked.
ReadyAlways(p) == TRUE

DependenciesReady(p) == \A d \in graph[p] : plugins[d] = "initialized"

InitializePlugin(c, p) ==
    /\ p \in Registered /\ DependenciesReady(p)
    /\ Await(c, "initialize", p)

RefuseInitialize(p) == p \in Registered /\ ~DependenciesReady(p) /\ Refuse(p)

StartPlugin(c, p) == plugins[p] = "initialized" /\ Await(c, "start", p)

\* Starting a plugin that is not initialized, a running one too, is an error.
RefuseStart(p) == p \in Registered /\ plugins[p] # "initialized" /\ Refuse(p)

\* A dependent that is active, or in the graph but not registered, throws.
DependentsAllowStop(p) ==
    \A q \in reverse[p] : plugins[q] \notin {"active", "unregistered"}

StopPlugin(c, p) ==
    /\ p \in Registered /\ DependentsAllowStop(p)
    /\ Await(c, "stop", p)

RefuseStop(p) == p \in Registered /\ ~DependentsAllowStop(p) /\ Refuse(p)

\* Mutation: nobody asks for the dependents.
UnloadWithDependents(c, p) ==
    /\ p \in Registered
    /\ Await(c, IF plugins[p] = "active" THEN "unloadStop" ELSE "uninstall", p)

\* Without dependents an active plugin is stopped first, by stopPlugin.
UnloadPlugin(c, p) ==
    /\ p \in Registered /\ reverse[p] = {}
    /\ Await(c, IF plugins[p] = "active" THEN "unloadStop" ELSE "uninstall", p)
-----------------------------------------------------------------------------
(***************************************************************************)
(* The continuations                                                       *)
(***************************************************************************)
AwaitsHook(c, ops) == calls[c] # NoCall /\ calls[c].op \in ops

Return(c) == calls' = [calls EXCEPT ![c] = NoCall]

\* Mutation: the id is looked up again after the await, whoever owns it now.
WrittenById(c, s) ==
    IF calls[c].plugin \in Registered THEN [plugins EXCEPT ![calls[c].plugin] = s]
                                      ELSE plugins

\* The result is written to the descriptor looked up before the await.
Written(c, s) ==
    IF calls[c].attached THEN [plugins EXCEPT ![calls[c].plugin] = s] ELSE plugins

\* The plugin itself: start and stop hooks of the registered instance.
Switched(c, on) ==
    IF calls[c].attached THEN [up EXCEPT ![calls[c].plugin] = on] ELSE up

Initialized(c) ==
    /\ AwaitsHook(c, {"initialize"}) /\ Return(c)
    /\ plugins' = Written(c, "initialized")
    /\ UNCHANGED <<resolverVars, descriptorVars, up>>

Started(c) ==
    /\ AwaitsHook(c, {"start"}) /\ Return(c)
    /\ plugins' = Written(c, "active")
    /\ up' = Switched(c, TRUE)
    /\ UNCHANGED <<resolverVars, descriptorVars>>

Stopped(c) ==
    /\ AwaitsHook(c, {"stop"}) /\ Return(c)
    /\ plugins' = Written(c, "inactive")
    /\ up' = Switched(c, FALSE)
    /\ UNCHANGED <<resolverVars, descriptorVars>>

Uninstalling(c) == calls' = [calls EXCEPT ![c].op = "uninstall"]

\* Stopped on the way to unloading: uninstall is called next.
StoppedForUnload(c) ==
    /\ AwaitsHook(c, {"unloadStop"}) /\ Uninstalling(c)
    /\ plugins' = Written(c, "inactive")
    /\ up' = Switched(c, FALSE)
    /\ UNCHANGED <<resolverVars, descriptorVars>>

\* The catch blocks: the id is looked up again; when it is gone that throws.
Failed(c) ==
    IF calls[c].plugin \in Registered
    THEN [plugins EXCEPT ![calls[c].plugin] = "error"] ELSE plugins

HookFails(c) ==
    /\ AwaitsHook(c, {"initialize", "start", "stop"}) /\ Return(c)
    /\ plugins' = Failed(c)
    /\ UNCHANGED <<resolverVars, descriptorVars, up>>

\* An unload that fails, leaving S of the calls, ends its races.
RaceEnds(S) ==
    racing' = [q \in Plugin |-> {d \in racing[q] : d \in orphaned[q] \/ UnloadedBy(S, d)}]

\* stopPlugin returns its failure as a result, which unloadPlugin ignores.
\* It throws instead, and the unloading fails, when the id is gone or when
\* nobody listens to the 'error' event it emits.
StopFailsInUnload(c) ==
    /\ AwaitsHook(c, {"unloadStop"})
    /\ IF ErrorListener /\ calls[c].plugin \in Registered
       THEN Uninstalling(c) ELSE Return(c)
    /\ RaceEnds(calls')
    /\ plugins' = Failed(c)
    /\ UNCHANGED <<resolverVars, declares, orphaned, up>>

\* The descriptors that calls in flight hold are in the Map no more.
Detached(S, p) ==
    [c \in Caller |-> IF S[c] # NoCall /\ S[c].plugin = p
                      THEN [S[c] EXCEPT !.attached = FALSE] ELSE S[c]]

\* The id is removed, even if it has been registered anew in the meantime or
\* has dependents by now.
Uninstalled(c) ==
    /\ AwaitsHook(c, {"uninstall"})
    /\ LET p == calls[c].plugin IN
       /\ calls' = Detached([calls EXCEPT ![c] = NoCall], p)
       /\ RemovePlugin(p)
       /\ SetState(p, "unregistered")
       /\ declares' = [declares EXCEPT ![p] = {}]
       /\ up' = [up EXCEPT ![p] = FALSE]
       /\ racing' = [racing EXCEPT ![p] = {}]
       /\ orphaned' = [q \in Plugin |->
             IF q = p THEN {}
             ELSE IF p \in declares[q] THEN orphaned[q] \cup {p} ELSE orphaned[q]]

UninstallFails(c) ==
    /\ AwaitsHook(c, {"uninstall"}) /\ Return(c)
    /\ RaceEnds(calls')
    /\ UNCHANGED <<resolverVars, declares, orphaned, plugins, up>>
-----------------------------------------------------------------------------
Begin(c, p) ==
    \/ InitializePlugin(c, p) \/ StartPlugin(c, p)
    \/ StopPlugin(c, p) \/ UnloadPlugin(c, p)

Continue(c) ==
    \/ Initialized(c) \/ Started(c) \/ Stopped(c) \/ StoppedForUnload(c)
    \/ HookFails(c) \/ StopFailsInUnload(c) \/ Uninstalled(c) \/ UninstallFails(c)

Next ==
    \/ \E p \in Plugin :
        \/ \E D \in Declared[p] : RegisterPlugin(p, D) \/ FailRegister(p, D)
        \/ RefuseInitialize(p) \/ RefuseStart(p) \/ RefuseStop(p)
        \/ \E c \in Caller : Begin(c, p)
    \/ \E c \in Caller : Continue(c)

Spec == Init /\ [][Next]_vars
-----------------------------------------------------------------------------
(***************************************************************************)
(* Properties                                                              *)
(***************************************************************************)
TypeOK ==
    /\ ResolverTypeOK
    /\ plugins \in [Plugin -> State]
    /\ declares \in [Plugin -> SUBSET Plugin]
    /\ up \in [Plugin -> BOOLEAN]
    /\ calls \in [Caller -> Call \cup {NoCall}]
    /\ racing \in [Plugin -> SUBSET Plugin] /\ orphaned \in [Plugin -> SUBSET Plugin]

\* The dependencies a plugin declares, without those whose unloading raced with
\* its registration and has taken them away since: the manager has forgotten
\* these (see UnloadLeavesNoDependents).
Dependencies ==
    [p \in Plugin |-> declares[p] \ (racing[p] \cap orphaned[p])]

\* What the registered plugins declare never forms a cycle, although failed
\* registrations leave edges and cycles in the graph that the check reads and
\* unloading takes edges out of it; save for dependencies lost to an unload
\* that was under way when their dependent registered.
RegisteredAcyclic == Acyclic(Dependencies, Registered)

\* A plugin that is initialised or active, or about to be, has only declared
\* dependencies that have been initialised themselves, and were not unloaded
\* and registered anew behind its back; with the same exception.
Settled(d) == plugins[d] \notin {"unregistered", "registered"}

Advancing(p) ==
    \/ plugins[p] \in {"initialized", "active"}
    \/ \E c \in Caller : /\ AwaitsHook(c, {"initialize", "start"})
                         /\ calls[c].attached /\ calls[c].plugin = p

DependenciesInitialized ==
    \A p \in Plugin : Advancing(p) => \A d \in Dependencies[p] : Settled(d)

\* A plugin the manager calls active has been started and runs: late answers
\* of other operations, failures and re-registrations never make it claim so
\* of one that does not.
ActiveIsRunning == \A p \in Plugin : plugins[p] = "active" => up[p]

\* What the proofs add to make these inductive.  The manager and its resolver
\* agree: a registered plugin has a descriptor there.  (Not the converse: failed
\* registrations stay.)
ResolverKnowsRegistered == Registered \subseteq known

\* The two properties hold of the edges in the graph, without exception.
GraphAcyclic == Acyclic(graph, Registered)

GraphInitialized ==
    \A p \in Plugin : Advancing(p) => \A d \in graph[p] : Settled(d)

\* A declared dependency has its edge unless it was unloaded since, which needs
\* an unload that was under way at the registration: later ones are refused.
EdgesOfDeclared == \A p \in Plugin : declares[p] \ orphaned[p] \subseteq graph[p]

OrphanedByRace ==
    \A p \in Plugin :
        /\ orphaned[p] \subseteq racing[p]
        /\ \A d \in declares[p] : BeingUnloaded(d) => d \in racing[p]

\* A call that holds a descriptor of the Map is about a registered plugin, and
\* only registered plugins declare anything.
AttachedRegistered ==
    \A c \in Caller :
        calls[c] # NoCall /\ calls[c].attached => calls[c].plugin \in Registered

UnregisteredDeclareNothing ==
    \A p \in Plugin \ Registered :
        declares[p] = {} /\ racing[p] = {} /\ orphaned[p] = {}

IInv ==
    /\ TypeOK
    /\ GraphsMirror
    /\ ResolverKnowsRegistered
    /\ GraphAcyclic
    /\ GraphInitialized
    /\ EdgesOfDeclared
    /\ OrphanedByRace
    /\ AttachedRegistered
    /\ UnregisteredDeclareNothing
    /\ ActiveIsRunning

\* "if the plugin is still running, stop it first" (manager.ts:302): no
\* running plugin is unloaded.
UnloadStopsFirst ==
    [][\A p \in Registered : plugins'[p] = "unregistered" => ~up[p]]_vars

\* "Cannot unload plugin ...: has dependent plugins" (manager.ts:298): no plugin
\* is unloaded while a registered one declares it as its dependency.
UnloadLeavesNoDependents ==
    [][\A p \in Registered : plugins'[p] = "unregistered" =>
          \A q \in Registered \ {p} : p \notin declares[q]]_vars
=============================================================================
