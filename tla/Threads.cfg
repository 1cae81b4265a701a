SPECIFICATION MCSpec
CONSTANTS
    Workers = {w1, w2}
    Waiter = main
    MaxSubmits = 3
    Devices = {"cpu", "gpu"}
    SlotLimit <- MCSlots
    Guards = {1, 2, 3}
    MemoryLimit = 3
    Requests = {1, 2, 7}
    MaxGrants = 3
    SizeBits = 3
    TotalLimit = 1
    Adders = {1, 2}
    Preds = {1, 2}
    MaxListed = 3
    Waiters = {1, 2}
    MaxReports = 2
    Streams = {s1, s2}
    Clients = {1, 2, 3}
    Makers = {1, 2}
    Builds = {"cuda", "cpu"}
    MaxEvents = 2
    Readers = {1, 2}
    Values = {"v1", "v2"}
    MaxSets = 3
INVARIANTS ThreadTypesOK NoLostWakeup ActiveCovers ShutdownDrains StatsTrue NoIdlePermit
    EarlyOnlyByDuplicates ResourcesExact
PROPERTIES EngineLive BarrierOpens FutureKept
CHECK_DEADLOCK FALSE
