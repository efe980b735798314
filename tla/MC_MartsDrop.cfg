SPECIFICATION Spec
CONSTANTS
    TopN = 1
    Late = 1
    Ahead = 0
    MaxRows = 2
    MaxClock = 2
    MaxRuns = 2
    MaxKills = 0
    MaxFaults = 0
    Edited <- MCEdited
PROPERTIES
    NothingIsDropped
CHECK_DEADLOCK FALSE
