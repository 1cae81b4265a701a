SPECIFICATION LifeSpec
CONSTANTS
    Tasks = {1, 2}
    Ids = {1, 2}
    CpuThreads = 1
    GpuStreams = 1
    Outcomes = {"ok"}
    Graphs <- Chain
    Devices <- OnCpu
    Rank <- SameRank
    CallbackThrows = FALSE
    Cancellable = {}
    MaxRuns = 1
INVARIANT GracefulShutdown
CHECK_DEADLOCK FALSE
