----------------------------- MODULE MCPlugins -----------------------------
(***************************************************************************)
(* The lifecycle manager, and the traversals of its resolver, over one     *)
(* dependency graph.  The traversals are synchronous: while one runs the   *)
(* manager does nothing, and what the manager asks of them it gets at once *)
(* (HasCyclicDependencies).  A behaviour is one of the manager, or one of  *)
(* a resolver alone, which reaches more graphs.                            *)
(***************************************************************************)
EXTENDS MCPluginLifecycle, DependencyTraversals

VARIABLE part

pluginsVars == <<part, vars, traversal>>

PluginsInit == part \in {"lifecycle", "traversals"} /\ Init /\ TraversalInit

PluginsNext ==
    \/ part = "lifecycle" /\ Next /\ UNCHANGED <<part, traversal>>
    \/ /\ part = "traversals" /\ TraversalNext
       /\ UNCHANGED <<part, plugins, up, calls, descriptorVars>>

PluginsSpec == PluginsInit /\ [][PluginsNext]_pluginsVars
=============================================================================
