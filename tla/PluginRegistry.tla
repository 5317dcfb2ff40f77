--------------------------- MODULE PluginRegistry ---------------------------
(***************************************************************************)
(* PluginRegistry of packages/core/src/plugin: registration with limit,    *)
(* hot reload and dependencies, start and stop of plugins.                 *)
(*                                                                         *)
(* Every operation is a call that suspends at the plugin's hook, or for a  *)
(* microtask at the internal operation it awaits.  Nothing stops several   *)
(* calls for one id from overlapping.  Statistics and alerts are left out; *)
(* plugins of one id are not told apart.                                   *)
(***************************************************************************)
EXTENDS Integers, FiniteSets

CONSTANTS PluginId, RegistryCaller,
          PluginDeps,      \* plugin -> plugins it depends on
          MaxPlugins,
          NoPlugin

ASSUME RegistryAssumption ==
    /\ IsFiniteSet(PluginId) /\ IsFiniteSet(RegistryCaller) /\ NoPlugin \notin PluginId
    /\ PluginDeps \in [PluginId -> SUBSET PluginId]
    /\ MaxPlugins \in Nat \ {0}

VARIABLES plugins,         \* ids in the Map
          activePlugins,
          registryCalls,   \* caller -> its call: operation, id and await
          options          \* those of config that are switched on, for good

registryVars == <<plugins, activePlugins, registryCalls, options>>

Option == {"allowHotReload", "autoStart", "validateDependencies"}

Operation == {"none", "register", "unregister", "start", "stop"}
Await == {"none", "stopHook", "stopped", "removed", "validated", "startHook"}

Suspends(c, op, id, await) ==
    registryCalls' = [registryCalls EXCEPT ![c] = [op |-> op, id |-> id, await |-> await]]

Returns(c) == Suspends(c, "none", NoPlugin, "none")

Awaits(c, await) == registryCalls[c].await = await

RegistryInit ==
    /\ plugins = {} /\ activePlugins = {}
    /\ registryCalls = [c \in RegistryCaller |->
                           [op |-> "none", id |-> NoPlugin, await |-> "none"]]
    /\ options \in SUBSET Option

\* unregisterPlugin removes the id; a registration that called it goes on later.
RemoveId(c, op, id) ==
    /\ plugins' = plugins \ {id}
    /\ IF op = "register" THEN Suspends(c, op, id, "removed") ELSE Returns(c)

\* unregisterPlugin, up to its await, or all of it.
BeginRemoval(c, op, id) ==
    IF id \in activePlugins THEN Suspends(c, op, id, "stopHook") /\ UNCHANGED plugins
    ELSE RemoveId(c, op, id)

\* registerPlugin after its checks; startPlugin follows at once.
Insert(c, id) ==
    /\ plugins' = plugins \cup {id}
    /\ IF "autoStart" \in options /\ id \notin activePlugins THEN Suspends(c, "register", id, "startHook")
       ELSE Returns(c)

\* validateDependencies, whose answer is awaited; version ranges may refuse, too.
ValidateAndInsert(c, id) ==
    \/ "validateDependencies" \notin options /\ Insert(c, id)
    \/ /\ "validateDependencies" \in options /\ UNCHANGED plugins
       /\ \/ PluginDeps[id] \subseteq plugins /\ Suspends(c, "register", id, "validated")
          \/ PluginDeps[id] # {} /\ Returns(c)

\* Mutation: the limit admits one plugin too many.
HasRoomForOneMore == Cardinality(plugins) <= MaxPlugins

HasRoom == Cardinality(plugins) < MaxPlugins

\* A full registry refuses to reload a plugin, too.
RegisterPlugin(c, id) ==
    /\ Awaits(c, "none") /\ HasRoom
    /\ IF id \in plugins THEN "allowHotReload" \in options /\ BeginRemoval(c, "register", id)
       ELSE ValidateAndInsert(c, id)
    /\ UNCHANGED activePlugins

UnregisterPlugin(c, id) ==
    /\ Awaits(c, "none") /\ id \in plugins /\ BeginRemoval(c, "unregister", id)
    /\ UNCHANGED activePlugins

\* Up to its hooks, initialize and start.
StartPlugin(c, id) ==
    /\ Awaits(c, "none") /\ id \in plugins \ activePlugins
    /\ Suspends(c, "start", id, "startHook") /\ UNCHANGED <<plugins, activePlugins>>

StopPlugin(c, id) ==
    /\ Awaits(c, "none") /\ id \in plugins \cap activePlugins
    /\ Suspends(c, "stop", id, "stopHook") /\ UNCHANGED <<plugins, activePlugins>>

\* The hook answers; one that fails leaves the id active.
StopHookEnds(c, ok) ==
    /\ Awaits(c, "stopHook")
    /\ activePlugins' = IF ok THEN activePlugins \ {registryCalls[c].id} ELSE activePlugins
    /\ IF registryCalls[c].op = "stop" THEN Returns(c)
       ELSE Suspends(c, registryCalls[c].op, registryCalls[c].id, "stopped")
    /\ UNCHANGED plugins

\* unregisterPlugin goes on, whether the plugin could be stopped or not.
AfterStop(c) ==
    /\ Awaits(c, "stopped")
    /\ RemoveId(c, registryCalls[c].op, registryCalls[c].id)
    /\ UNCHANGED activePlugins

\* registerPlugin goes on with the id removed.
AfterRemoval(c) ==
    /\ Awaits(c, "removed")
    /\ ValidateAndInsert(c, registryCalls[c].id)
    /\ UNCHANGED activePlugins

AfterValidation(c) ==
    /\ Awaits(c, "validated") /\ Insert(c, registryCalls[c].id)
    /\ UNCHANGED activePlugins

StartHooksEnd(c, ok) ==
    /\ Awaits(c, "startHook")
    /\ activePlugins' = IF ok THEN activePlugins \cup {registryCalls[c].id} ELSE activePlugins
    /\ Returns(c) /\ UNCHANGED plugins

RegistryNext ==
    /\ UNCHANGED options
    /\ \E c \in RegistryCaller :
        \/ \E id \in PluginId : \/ RegisterPlugin(c, id) \/ UnregisterPlugin(c, id)
                                \/ StartPlugin(c, id) \/ StopPlugin(c, id)
        \/ \E ok \in BOOLEAN : StopHookEnds(c, ok) \/ StartHooksEnd(c, ok)
        \/ AfterStop(c) \/ AfterRemoval(c) \/ AfterValidation(c)

RegistrySpec == RegistryInit /\ [][RegistryNext]_registryVars
-----------------------------------------------------------------------------
RegistryTypeOK ==
    /\ plugins \in SUBSET PluginId /\ activePlugins \in SUBSET PluginId
    /\ options \in SUBSET Option
    /\ registryCalls \in [RegistryCaller ->
           [op: Operation, id: PluginId \cup {NoPlugin}, await: Await]]

Registering == {c \in RegistryCaller :
    registryCalls[c].op = "register" /\ registryCalls[c].await # "startHook"}

\* The limit is checked before the awaits of a registration: the registry
\* outgrows it by the registrations that run at a time, less one, and no more.
PluginsWithinLimit ==
    Cardinality(plugins) + Cardinality(Registering)
        <= MaxPlugins - 1 + Cardinality(RegistryCaller)
=============================================================================
