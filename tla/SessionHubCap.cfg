CONSTANTS
    s1 = s1
    s2 = s2
    c1 = c1
    c2 = c2
    a1 = a1
    a2 = a2
    Sessions <- MCSessions
    Callers <- MCCallers
    Accounts <- MCAccounts
    Pids <- MCPids
    Main = Main
    Resumable = {}
    Injected = {}
    MaxConcurrent = 1
    MaxRequests = 3
    MaxCrashes = 0
    None = None
    Contended = Contended
SYMMETRY Symmetry
SPECIFICATION Spec
INVARIANTS StopRequestedOnlyRegistered CapacityOvershoot UndisturbedRequests
PROPERTIES SwitchRunsNewAccount
CHECK_DEADLOCK FALSE
