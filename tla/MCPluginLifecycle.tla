------------------------- MODULE MCPluginLifecycle --------------------------
(* PluginLifecycle with two bundles of one version of a built-in plugin.   *)
EXTENDS PluginLifecycle

CONSTANTS t1, t2, r1, r2, v

MCTokens    == {t1, t2}
MCVersionOf == [t \in MCTokens |-> v]
MCReqs      == {r1, r2}
MCRevoked   == {t1}
=============================================================================
