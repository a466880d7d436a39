SPECIFICATION FairSpec
CONSTANTS
    Tickets = {p1, p2}
    None = None
    Volumes = {3}
    MaxFaults = 1
    MaxCrashes = 1
INVARIANTS
    
    ClosedRowIsClosed
    EveryHalvingExcused
PROPERTIES
    KnownTargetKept
    
    HalvedEventually
CHECK_DEADLOCK FALSE
