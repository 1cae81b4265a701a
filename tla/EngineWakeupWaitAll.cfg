SPECIFICATION WakeSpec
CONSTANTS
    Workers = {w1, w2}
    Waiter = main
    MaxSubmits = 2
PROPERTY WaitAllReturns
