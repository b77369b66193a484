CONSTANTS
    t1 = t1
    t2 = t2
    r1 = r1
    r2 = r2
    v = v
    Tokens <- MCTokens
    VersionOf <- MCVersionOf
    Reqs <- MCReqs
    Builtin = TRUE
    Required = FALSE
    Revoked <- MCRevoked
    MaxRequests = 3
    MaxFaults = 1
    MaxCrashes = 1
    None = None
SPECIFICATION Spec
INVARIANTS AcknowledgedHolds StagingAccounted GrantMatches
CHECK_DEADLOCK FALSE
