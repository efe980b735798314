SPECIFICATION LakehouseSpec
CONSTANTS
    Ids = {"e1"}
    Absent = Absent
    Garbage = Garbage
    Floor = 0
    Tolerance = 0
    MaxLog = 2
    MaxExpired = 0
    MaxClock = 1
    TicksPerDay = 1
    Drivers = {"d1"}
    BronzeDrivers = {"b1"}
    Writers = {"d1", "rebuild"}
    MAX_OFFSETS_PER_TRIGGER = 2
    MaxCrashes = 0
    MaxLosses = 0
    BronzeCrashes = 0
    BronzeLosses = 0
    MaxRebuilds = 1
    Partitions <- MCPartitions
    Domains <- MCDomains
    Hash <- MCHash
    Frame <- MCFrames
INVARIANTS
    ExactlyOneTable
CHECK_DEADLOCK FALSE
