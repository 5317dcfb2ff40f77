------------------------- MODULE MCPluginLifecycle -------------------------
(* Instances of PluginLifecycle for TLC. *)
EXTENDS PluginLifecycle, TLC

CONSTANTS p1, p2, p3

\* p1 stands alone or needs p2, p2 likewise: a cycle when both do.
Mutual == (p1 :> {{}, {p2}}) @@ (p2 :> {{}, {p1}})
\* A ring of three that can also be registered
\* without its closing edge.
Ring == (p1 :> {{p2}}) @@ (p2 :> {{p3}}) @@ (p3 :> {{}, {p1}})

\* The callers are interchangeable.
CallersAlike == Permutations(Caller)
=============================================================================
