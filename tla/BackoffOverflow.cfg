SPECIFICATION RetrySpec
CONSTANTS
    MaxRetries = 5
    InitialDelay = 1
    MaxDelay = 5
    JitterPercent = 50
    Randoms = {0, 50, 99}
    LongBits = 5
INVARIANT StillCapped
CHECK_DEADLOCK FALSE
