CONSTANTS
    p1 = p1
    p2 = p2
    k1 = k1
    k2 = k2
    k3 = k3
    x1 = x1
    x2 = x2
    r1 = r1
    r2 = r2
    Plugins <- MCPlugins
    Keys <- MCKeys
    Procs <- MCProcs
    Rotators <- MCRotators
    Scenarios <- MCScenarios
    Quota = 2
    MaxHashes = 3
    MaxDeks = 2
    MaxForms = 3
    MaxCrashes = 1
    MaxRemovals = 1
    None = None
SYMMETRY MCSymmetry
SPECIFICATION Spec
INVARIANTS SecretsReadable RotationGoesThrough SidecarCurrent QuotaOvershoot
CHECK_DEADLOCK FALSE
