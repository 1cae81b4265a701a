SPECIFICATION Spec
CONSTANTS
    Tasks = {1, 2}
    Ids = {1, 2}
    CpuThreads = 1
    GpuStreams = 1
    Outcomes = {"ok", "other"}
    Graphs <- AllGraphs
    Devices <- OnCpu
    Rank <- SameRank
    CallbackThrows = FALSE
    Cancellable = {1, 2}
    MaxRuns = 1
INVARIANT QuietAlways
