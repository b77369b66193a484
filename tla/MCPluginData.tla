---------------------------- MODULE MCPluginData ----------------------------
(* PluginData with two plugins, in the mixes of calls that can interfere.  *)
EXTENDS PluginData, TLC

CONSTANTS p1, p2, k1, k2, k3, x1, x2, r1, r2

MCPlugins   == {p1, p2}
MCKeys      == {k1, k2, k3}
MCProcs     == {x1, x2}
MCRotators  == {r1, r2}
MCSymmetry  == Permutations(MCProcs) \cup Permutations(MCRotators)

Scenario(calls, plugins, keys, goroutines) ==
    [calls |-> calls, plugins |-> plugins, keys |-> keys, goroutines |-> goroutines]
MCScenarios == {
    Scenario({"set", "rotate", "crash"}, {p1, p2}, {k1, k2}, {x1, r1}),
    Scenario({"set", "rotate", "crash"}, {p1}, {k1, k2}, {x1, x2, r1}),
    Scenario({"set", "get", "rotate"}, {p1}, {k1, k2}, {x1, x2, r1}),
    Scenario({"set", "uninstall"}, {p1}, {k1, k2}, {x1, x2}),
    Scenario({"set", "rotate", "uninstall"}, {p1}, {k1, k2}, {x1, r1}),
    Scenario({"set", "del", "wizard", "rotate"}, {p1}, {k1, k2}, {x1, r1, r2}),
    Scenario({"kvset", "kvdel", "uninstall"}, {p1}, {k1, k2, k3}, {x1, x2}),
    Scenario({"form", "ensure"}, {p1}, {k1, k2}, {x1, x2}),
    Scenario({"form", "uninstall"}, {p1}, {k1, k2}, {x1}),
    Scenario({"form", "ensure", "crash"}, {p1}, {k1, k2}, {x1})
    }
=============================================================================
