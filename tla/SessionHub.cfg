CONSTANTS
    s1 = s1
    s2 = s2
    c1 = c1
    c2 = c2
    a1 = a1
    a2 = a2
    Sessions = {s1}
    Callers <- MCCallers
    Accounts = {a1}
    Pids <- MCPids
    Main = Main
    Resumable = {s1}
    Injected = {s1}
    MaxConcurrent = 2
    MaxRequests = 2
    MaxCrashes = 1
    None = None
    Contended = Contended
SPECIFICATION Spec
PROPERTIES EverythingEnds ImplementsSlots
CHECK_DEADLOCK FALSE
