SPECIFICATION GateSpec
CONSTANTS
    allow_empty = FALSE
    Ids = {"e1", "e2"}
    Absent = Absent
    Garbage = Garbage
    Floor = 0
    Tolerance = 0
    FRESHNESS_WARN_SECONDS = 0
    QUARANTINE_LOOKBACK_HOURS = 0
    QUARANTINE_WARN_RATE = 400
    MaxLog = 2
    MaxExpired = 1
    MaxClock = 1
    Drivers = {"d1", "d2"}
    Writers = {"d1", "d2"}
    MAX_OFFSETS_PER_TRIGGER = 2
    MaxCrashes = 1
    MaxLosses = 0
    Partitions <- OnePartition
    Domains <- MCDomains
    Hash <- OneHash
    Frame <- TwoFrames
INVARIANTS
    NothingSkipped
    FreshMeansRunning
    OffsetsAtMostOneAhead
PROPERTIES
    GateIsExact
    EventuallyAccounted
CHECK_DEADLOCK FALSE
