SPECIFICATION FairSpec
CONSTANTS
    Ids = {"e1"}
    Absent = Absent
    Garbage = Garbage
    Floor = 0
    Tolerance = 1
    QueueMax = 2
    Bounded = TRUE
    MaxFeed = 3
    MaxReconnects = 1
    MaxRuns = 2
    Partitions <- MCPartitions
    Domains <- MCDomains
    Hash <- MCHash
    Frame <- OneFrame
INVARIANTS
    InFlightIsTrue
    NothingVanishes
    ExitZeroMeansDelivered
    WikiOrder
PROPERTIES
    FeedsTheTopic
    StopEnds
CHECK_DEADLOCK FALSE
