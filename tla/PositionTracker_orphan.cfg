SPECIFICATION OrphanSpec
CONSTANTS
    Tickets = {p1}
    None = None
    Volumes = {4}
    MaxFaults = 0
    MaxCrashes = 0
PROPERTIES
    OrphanIsRecorded
CHECK_DEADLOCK FALSE
