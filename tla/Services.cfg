SPECIFICATION MCSpec
CONSTANTS
    Threads = {t1, t2}
    SizeBits = 6
    MinBlock = 1
    BaseSize = 4
    Requests = {1, 7}
    AllowGrowth = TRUE
    MaxRegions = 2
    InitialSizes = {2, 3}
    CpuRequests = {1, 2, 3, 5}
    MaxGrowth = 2
    MaxPower = 8
    Systems = {"A", "B"}
    Types <- eventTypes
    Scopes = {1, 2}
    Publishers = {1, 2}
    MaxId = 14
    Heard = {"GraphStarted"}
    MaxHandlers = 3
    Home = "A"
    Tasks = {"t", "u"}
    MaxRuns = 2
    PolicyTasks = {1, 2}
    Priorities = {0, 1}
    MaxRetries = 5
    InitialDelay = 1
    MaxDelay = 5
    JitterPercent = 50
    Randoms = {0, 50, 99}
    LongBits = 5
    Wrappers = {1, 2, 3}
    Addresses = {"a", "b", "c"}
INVARIANTS ServiceTypesOK Tiled NoHiddenSpace CpuConserved GuardsHold LateCallsBounded
    ProfileMatchesRun DeviceFits BackoffBounded OwnersMatch
CHECK_DEADLOCK FALSE
