SPECIFICATION FairSpec
CONSTANTS
    Ids = {"e1"}
    Absent = Absent
    Garbage = Garbage
    Floor = 0
    Tolerance = 1
    MaxLog = 4
    MaxExpired = 2
    MaxClock = 0
    Drivers = {"d1"}
    MAX_OFFSETS_PER_TRIGGER = 2
    MaxCrashes = 2
    MaxLosses = 1
    Partitions <- OnePartition
    Domains <- MCDomains
    Hash <- MCHash
    Frame <- MCFrames
INVARIANTS
    HoldsWhatKafkaHas
    NoHole
    ContiguityVerdict
PROPERTIES
    EventuallyInBronze
CHECK_DEADLOCK FALSE
