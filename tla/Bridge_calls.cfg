SPECIFICATION FairSpec
CONSTANTS
  m1 = m1
  m2 = m2
  Callers <- MCCallers
  Holder = m2
  Wants <- MCWants
  MaxCalls = 2
  MaxTrouble = 2
  None = None
INVARIANTS ListShowsOrders StopIsKept PartialNeverCloses
PROPERTIES ImplementsRemoteCall KillSwitchHolds AcceptedIsWorkedOff
CHECK_DEADLOCK FALSE
