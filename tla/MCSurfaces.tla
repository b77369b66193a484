------------------------------ MODULE MCSurfaces ------------------------------
EXTENDS Surfaces, TLC

\* ---------------------------------------------------- what the behaviours do
MCMuxScenarios == {
    {"request", "note", "garbage"},
    {"cancel", "stall"},
    {"stall", "shutdown"},
    {"request", "oversize", "exit"},
    {"request", "nested", "shutdown"}
    }

MCLexical == [v \in Versions |-> 10 - v]      \* "1.9.0", "1.10.0"
Shop(backend, requests, deeds) == [backend |-> backend, requests |-> requests, deeds |-> deeds]
Get == {<<"install", 0>>, <<"install", 2>>}
MCMarketScenarios == {
    Shop("remote", Get, {"publish", "sync", "fault"}),
    Shop("remote", Get, {"mistake", "lapse"}),
    Shop("remote", {<<"install", 1>>}, {"revoke", "reupload", "expire"}),
    Shop("remote", {<<"list", 0>>, <<"poll", 0>>, <<"install", 0>>}, {"publish", "refresh"}),
    Shop("local", Get \union {<<"path", 0>>, <<"https", 0>>}, {"allow", "revoke", "fault"}),
    Shop("local", {<<"path", 0>>}, {"mistake", "lapse"})
    }

Account(cap, names, does) == [cap |-> cap, names |-> names, does |-> does]
MCAccountScenarios == {
    Account(2, {1}, {"start", "complete", "kill", "fault"}),
    Account(1, {1, 2}, {"start", "complete", "restart", "delete", "token"}),
    Account(1, {1}, {"create", "import", "update", "toggle", "delete", "token"})
    }

\* What users of Telegram do; what is not named in a budget may not happen.
MCInputs == {<<"c1", "text", None>>, <<"c2", "unlink", None>>, <<"c1", "toggle", "s1">>,
             <<"c1", "submit", "s1">>, <<"c1", "button", "s1">>, <<"c2", "link", "s1">>,
             <<"c2", "key", None>>, <<"c2", "send", "s2">>}
Happenings == {"text", "key", "link", "unlink", "toggle", "submit", "button", "send",
               "line", "exit", "idle", "long", "time", "config", "restart", "fault"}
Budget(some) == [e \in Happenings |-> IF e \in DOMAIN some THEN some[e] ELSE 0]
Chat(chats, l1, l2, up, some) ==
    [chats |-> chats, link |-> "c1" :> l1 @@ "c2" :> l2, running |-> up, budget |-> Budget(some)]
MCBridgeScenarios == {
    Chat({"c1"}, "s1", None, {"s1"}, "line" :> 1 @@ "idle" :> 1 @@ "toggle" :> 1 @@ "submit" :> 2 @@ "exit" :> 1),
    Chat({"c2"}, None, "s2", {"s2"}, "line" :> 2 @@ "idle" :> 2 @@ "send" :> 1),
    Chat({"c1"}, "s2", "s2", {"s2"}, "line" :> 2 @@ "idle" :> 2 @@ "time" :> 1 @@ "fault" :> 1),
    Chat({"c2"}, None, "s2", {"s2"}, "line" :> 2 @@ "idle" :> 2 @@ "exit" :> 2),
    Chat({"c1"}, "s1", None, {"s1", "s2"}, "line" :> 1 @@ "idle" :> 2 @@ "text" :> 1 @@ "time" :> 1),
    Chat({"c2"}, "s1", "s2", {"s1", "s2"}, "line" :> 1 @@ "link" :> 1 @@ "unlink" :> 1 @@ "key" :> 1),
    Chat({"c1"}, "s1", None, {"s1"}, "line" :> 1 @@ "idle" :> 1 @@ "config" :> 1 @@ "fault" :> 1 @@ "restart" :> 1 @@ "submit" :> 1),
    Chat({"c1"}, "s1", None, {"s1"}, "line" :> 1 @@ "idle" :> 1 @@ "long" :> 1 @@ "fault" :> 1 @@ "button" :> 1)
    }

Symmetry == Permutations(Calls) \union Permutations(Threads) \union Permutations(Flows)
===============================================================================
