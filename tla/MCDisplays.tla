------------------------------ MODULE MCDisplays ------------------------------
EXTENDS Displays, TLC

\* ---------------------------------------------------- what the behaviours do
Task(does, forges, repos) == [does |-> does, forges |-> forges, repos |-> repos]
MCPanelScenarios == {
    Task({"create", "delete"}, {"g1", "g2"}, {"r1"}),
    Task({"create", "update", "delete", "fault"}, {"g1"}, {"r1"}),
    Task({"create", "delete", "add", "crash"}, {"g1"}, {"r1"}),
    Task({"create", "add", "remove", "bump", "fault"}, {"g1"}, {"r1"}),
    Task({"mark", "unmark", "repos", "fault"}, {"g1"}, {"r1", "r2"}),
    Task({"snapshot", "forget", "diff"}, {"g1"}, {"r1"})
    }

Show(deeds, plugins) == [deeds |-> deeds, plugins |-> plugins]
MCBenchScenarios == {
    Show({"install", "uninstall", "leave"}, {"p"}),
    Show({"install", "uninstall", "provider"}, {"p", "q"}),
    Show({"install", "message", "leave"}, {"p"}),
    Show({"install", "sidecar", "fail", "uninstall"}, {"p", "q"}),
    Show({"install", "revoke"}, {"p"}),
    Show({"message", "sidecar", "leave"}, {"p"}),
    Show({"install", "invoke"}, {"p"})
    }

Course(deeds, where) == [deeds |-> deeds, file |-> where]
MCInstallScenarios == {
    Course({"interactive", "boot", "fail"}, "inside"),
    Course({"interactive", "boot", "crash", "ui"}, "inside"),
    Course({"scripted", "boot", "fail", "crash"}, "inside"),
    Course({"interactive", "root", "boot", "fail"}, "inside"),
    Course({"scripted", "boot", "uninstall", "service"}, "inside"),
    Course({"scripted", "boot", "uninstall", "ui"}, "outside"),
    Course({"interactive", "boot", "env"}, "inside")
    }

Symmetry == Permutations(Writers)
===============================================================================
