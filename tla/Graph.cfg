SPECIFICATION MCSpec
CONSTANTS
    MaxTasks = 4
    GroupTasks = 3
    GraphClients = {1}
    Nodes = {1, 2, 3, 4}
    Vertices = {1, 2, 3, 4}
    Ids = {1, 2, 3, 4}
INVARIANTS Acyclic MapsAgree SortCorrect SearchCorrect GroupsKeepOrder
    PendingExact FailureClosure BlockedHasCause NoStall
CHECK_DEADLOCK FALSE
