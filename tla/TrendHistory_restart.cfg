SPECIFICATION Spec
CONSTANTS
  Ranges <- MCRanges
  History <- MCHistory
  MaxDays = 12
  MaxStarts = 2
  MaxLost = 1
INVARIANTS SwingsHeal  GateRestsOnJournal
CHECK_DEADLOCK FALSE
