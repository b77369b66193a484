CONSTANTS
    k1 = k1
    k2 = k2
    h1 = h1
    Conns <- MCConns
    Calls <- MCCalls
    Stallers <- MCStallers
    Handlers <- MCHandlers
    Kinds <- MCKinds
    Asks <- MCAsks
    MaxChanges = 1
    MaxSpawns = 1
    None = None
SPECIFICATION Spec
INVARIANTS EndedStreamsStayEnded SlotsExact FeedsCanEnd ChangesNeverWait
CHECK_DEADLOCK FALSE
