SPECIFICATION MaintenanceSpec
CONSTANTS
    Ids = {"e1"}
    Absent = Absent
    Garbage = Garbage
    Floor = 0
    Tolerance = 1
    MaxLog = 3
    MaxExpired = 1
    MaxClock = 1
    Drivers = {"d1"}
    MAX_OFFSETS_PER_TRIGGER = 1
    MaxCrashes = 1
    MaxLosses = 0
    RETAIN_LAST_SNAPSHOTS = 5
    MIN_INPUT_FILES = 2
    SnapshotAge = 0
    OrphanAge = 0
    CommitTime = 0
    MaxUpkeeps = 2
    Partitions <- MCPartitions
    Domains <- MCDomains
    Hash <- MCHash
    Frame <- MCFrames
INVARIANTS
    AppendedOnce
    LiveFilesExist
    ContentsKept
PROPERTIES
    VersionsTellGrowth
CHECK_DEADLOCK FALSE
