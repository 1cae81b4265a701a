SPECIFICATION Spec
CONSTANTS
    Tasks = {1, 2, 3}
    Ids = {1, 2, 3}
    CpuThreads = 1
    GpuStreams = 1
    Outcomes = {"ok", "std", "other"}
    Graphs <- AllGraphs
    Devices <- Mixed
    Rank <- LaterFirst
    CallbackThrows = TRUE
    Cancellable = {1, 2, 3}
    MaxRuns = 1
INVARIANTS ActiveExact StartsInOrder DependencyOrder OncePerRun VerdictsFromJobs DrainedUnlessCancelled
