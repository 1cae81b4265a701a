SPECIFICATION FairSpec
CONSTANTS
    Tasks = {1, 2, 3}
    Ids = {1, 2, 3}
    CpuThreads = 2
    GpuStreams = 1
    Outcomes = {"ok", "std", "other"}
    Graphs <- TwoWait
    Devices <- OnCpu
    Rank <- LaterFirst
    CallbackThrows = FALSE
    Cancellable = {2}
    MaxRuns = 2
INVARIANTS QuietBetweenRuns StatesAgree
PROPERTIES RunEnds ImplementsDag
CHECK_DEADLOCK FALSE
