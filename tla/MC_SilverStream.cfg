SPECIFICATION Spec
CONSTANTS
    Ids = {"e1", "e2"}
    Absent = Absent
    Garbage = Garbage
    Floor = 0
    Tolerance = 1
    FRESHNESS_WARN_SECONDS = 0
    QUARANTINE_LOOKBACK_HOURS = 0
    QUARANTINE_WARN_RATE = 400
    MaxLog = 2
    MaxExpired = 1
    MaxClock = 1
    Drivers = {"d1"}
    Writers = {"d1"}
    MAX_OFFSETS_PER_TRIGGER = 2
    MaxCrashes = 2
    MaxLosses = 1
    Partitions <- MCPartitions
    Domains <- MCDomains
    Hash <- MCHash
    Frame <- MCFrames
INVARIANTS
    QuarantineChecksHold
    QuarantineUnique
    ExactlyOneTable
    EditsUnique
    FirstArrivalWins
PROPERTIES
    MeetsContract
CHECK_DEADLOCK FALSE
