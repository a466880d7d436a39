SPECIFICATION FairSpec
CONSTANTS
    Candidates = {c1, c2, c3}
    None = None
    MaxFaults = 2
INVARIANTS
    NoForgottenOrder
    ExposureAccounted
    OnlyWinnerTracked
PROPERTIES
    ImplementsRealOutcome
    FillIsSettled
    CloseIsRecorded
CHECK_DEADLOCK FALSE
