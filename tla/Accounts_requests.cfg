SPECIFICATION Spec
CONSTANTS
  old = old
  settled = settled
  new = new
  m1 = m1
  m2 = m2
  Users <- MCUsers
  Settled <- MCSettled
  Legacy <- MCLegacy
  Models <- MCModels
  FirstModels <- MCFirstModels
  Wanted <- MCWanted
  MaxRequests = 3
  MaxFaults = 1
  None = None
INVARIANTS GapsAreTold BackfillHeals PauseHoldsUnlessDoubled AnswersAreTrue
CHECK_DEADLOCK FALSE
