CONSTANTS
    c1 = c1
    c2 = c2
    r1 = r1
    r2 = r2
    u1 = u1
    out = out
    err = err
    Callers <- MCCallers
    Runs <- MCRuns
    Subs <- MCSubs
    Pumps <- MCPumps
    Chunks = {1, 2}
    ChanCap = 1
    MaxConcurrent = 1
    None = None
SPECIFICATION Spec
INVARIANTS ActiveExact SubscriberServed
PROPERTIES StopEnds
CHECK_DEADLOCK FALSE
