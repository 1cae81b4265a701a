SPECIFICATION Spec
CONSTANTS
    Tasks = {1, 2, 3}
    Ids = {1, 2, 3}
    CpuThreads = 2
    GpuStreams = 1
    Outcomes = {"ok", "other"}
    Graphs <- OneWaits
    Devices <- OnCpu
    Rank <- SameRank
    CallbackThrows = FALSE
    Cancellable = {}
    MaxRuns = 2
INVARIANT Drained
CHECK_DEADLOCK FALSE
