CONSTANTS
    p1 = p1
    c1 = c1
    c2 = c2
    s1 = s1
    s2 = s2
    s3 = s3
    Plugins <- MCPlugins
    Callers <- MCCallers
    Cars <- MCCars
    None = None
SPECIFICATION Spec
INVARIANTS EverySidecarHeld NothingListedAfterStop
PROPERTIES EverybodyReturns
CHECK_DEADLOCK FALSE
