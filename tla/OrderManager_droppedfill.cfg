SPECIFICATION Spec
CONSTANTS
    Candidates = {c1, c2}
    None = None
    MaxFaults = 0
PROPERTIES
    FilledIsNotDropped
CHECK_DEADLOCK FALSE
