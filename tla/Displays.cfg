SPECIFICATION Spec
CONSTANTS
    Lanes = {"Stream", "Notice", "Viewer", "Panel", "Bench", "Install"}
    None = None
    Terminals = {"c1"}  Capacity = 3  ChannelSize = 2  MaxChunk = 4  MaxOutput = 7
    Threshold = 2  MaxOutputs = 3  Hook = Hook  Client = Client  Detector = Detector
    MaxLog = 5  MaxCuts = 1  Backlog = 2  ReadSize = 2  Ahead = 2
    Procs = {"p1", "p2"}  Forges = {"g1", "g2"}  Repos = {"r1", "r2"}  Deep = {"r2"}
    Sessions = {"s1"}  MaxHead = 2  MaxEdits = 1  PanelScenarios <- MCPanelScenarios
    Plugins = {"p", "q"}  Clients = {c}  Writers = {w1, w2}  BenchScenarios <- MCBenchScenarios
    SubBufferSize = 1  MaxSubs = 2  MaxJobs = 3  MaxAsks = 2
    InstallScenarios <- MCInstallScenarios
    MaxPasswords = 3  MaxAdmins = 3  MaxSecrets = 2  MaxRuns = 2  MaxBoots = 2
SYMMETRY Symmetry
CHECK_DEADLOCK FALSE
INVARIANTS OutputShown LogShown PanelExact ClientsFresh ClusterOpens AppliedHolds
PROPERTIES ClientNeverRepeats
