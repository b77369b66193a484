SPECIFICATION Spec
CONSTANTS
    Lanes = {"Mux", "Catalog", "Login"}
    None = None
    Calls = {k1, k2, k3}  Requests = {"r1"}  MuxScenarios <- MCMuxScenarios
    StdinRoom = 2  StdoutRoom = 1  NotifyRoom = 1  MaxNotes = 2
    Buyers = {"q1", "q2"}  Versions = {1, 2}  Lexical <- MCLexical  MaxBase = 2  MaxUploads = 2
    MarketScenarios <- MCMarketScenarios
    Threads = {t1, t2}  Flows = {f1, f2}  Names = {1, 2}  MaxTokens = 2
    AccountScenarios <- MCAccountScenarios
    Sessions = {"s1", "s2"}  Claude = {"s1"}  Chats = {"c1", "c2"}  Notify = "c1"  Asking = {1}
    Inputs <- MCInputs  BridgeScenarios <- MCBridgeScenarios
    MaxLines = 2  MaxUpdates = 3  MaxSent = 3  MaxBots = 3
SYMMETRY Symmetry
CHECK_DEADLOCK FALSE
INVARIANTS SidecarAnswers InstallsStaged SignInsClean
