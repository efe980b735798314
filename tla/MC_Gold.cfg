SPECIFICATION FairSpec
CONSTANTS
    TopN = 1
    Late = 1
    Ahead = 0
    MaxRows = 2
    MaxClock = 2
    MaxRuns = 2
    MaxKills = 1
    MaxFaults = 1
    Edited <- MCEdited
INVARIANTS
    MinuteNeverOvercounts
    RanksContiguous
PROPERTIES
    BuildRedMeansStraggler
    NewestBucketExact
    MaintenanceDoesTheRest
    EveryRunAccountedFor
CHECK_DEADLOCK FALSE
