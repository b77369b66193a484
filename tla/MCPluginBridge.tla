---------------------------- MODULE MCPluginBridge --------------------------
(* PluginBridge with two connections of one plugin.  The first opens an     *)
(* event stream or a command and may release it or open a file stream; the  *)
(* second connection opens a command.                                       *)
EXTENDS PluginBridge, TLC

CONSTANTS k1, k2, h1

MCConns    == {k1, k2}
MCCalls    == {<<k1, 1>>, <<k1, 2>>, <<k2, 1>>}
MCHandlers == {h1}
MCKinds    == {"events", "fs", "exec"}
MCAsks     == (<<k1, 1>> :> {"events", "exec"}) @@ (<<k1, 2>> :> {"fs"}) @@ (<<k2, 1>> :> {"exec"})
MCStallers == {k1}
=============================================================================
