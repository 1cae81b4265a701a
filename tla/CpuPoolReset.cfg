SPECIFICATION CpuPoolSpec
CONSTANTS
    InitialSizes = {2}
    CpuRequests = {1, 2, 3, 5}
    MaxGrowth = 2
    MaxPower = 8
INVARIANT CpuRequestServed
CHECK_DEADLOCK FALSE
