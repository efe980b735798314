SPECIFICATION LakehouseSpec
CONSTANTS
    Ids = {"e1"}
    Absent = Absent
    Garbage = Garbage
    Floor = 0
    Tolerance = 0
    MaxLog = 2
    MaxExpired = 0
    MaxClock = 1
    TicksPerDay = 1
    Drivers = {"d1"}
    BronzeDrivers = {"b1"}
    Writers = {"d1", "rebuild"}
    MAX_OFFSETS_PER_TRIGGER = 1
    MaxCrashes = 0
    MaxLosses = 0
    BronzeCrashes = 0
    BronzeLosses = 1
    MaxRebuilds = 2
    Partitions <- MCPartitions
    Domains <- MCDomains
    Hash <- MCHash
    Frame <- MCFrames
INVARIANTS
    RebuildKeepsKeys
    RebuildLeavesNoGap
    RebuildTwiceChangesNothing
CHECK_DEADLOCK FALSE
