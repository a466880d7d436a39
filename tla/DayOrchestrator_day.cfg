SPECIFICATION DaySpec
CONSTANTS
  Market <- MCMarket
  DayBars = 12
  ClosingIdx = 11
  SessionStartIdx = 5
  SessionEndIdx = 8
  MssWindowBars = 3
  Open = Open
  NoTrade = NoTrade
  Null = Null
INVARIANTS GoldenEventsJournaled 
PROPERTIES ImplementsGoldenMaster
CHECK_DEADLOCK FALSE
