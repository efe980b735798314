SPECIFICATION Spec
CONSTANTS
    Sources <- BothSources
    ConnectTimeout = 1
    ReadTimeout = 3
    BackoffInitial = 1
    BackoffMax = 3
    StatsInterval = 1
    HeartbeatTimeout = 9
    FlushTimeout = 2
    MaxExponent = 2
    MaxFeed = 2
    MaxAttempts = 4
    MaxSigns = 2
INVARIANTS
    FramesAreOfTheFeed
    NoFrameLost
    HealthyThroughOneFault
    NotHammered
    EndsOnlyOnPurpose
    StopNoticed
CHECK_DEADLOCK FALSE
