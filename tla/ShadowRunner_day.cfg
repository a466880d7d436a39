SPECIFICATION FairSpec
CONSTANTS
    Users = {u1, u2}
    Close = 6
    SessionBars = 4
    DecisionBar = 3
    MinBars = 2
    FetchCount = 3
    Setups = {2, 4}
    Span = 1
    Fills = {4}
    MaxFaults = 1
    MaxCrashes = 1
INVARIANTS RowsRestOnJournal WinnersRecorded WorkingOrdersHeld NothingTwice
PROPERTY DayIsClosed
