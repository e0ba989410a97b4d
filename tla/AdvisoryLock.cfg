SPECIFICATION FairSpec
CONSTANTS
    P1 = P1
    P2 = P2
    T1 = T1
    T2 = T2
    T3 = T3
    T4 = T4
    NoTask = NoTask
    Process = {P1, P2}
    Task = {T1, T2, T3, T4}
    ProcessOf <- MCProcessOf
    Cleaners = {T1}
    LockingSupported = TRUE
PROPERTIES CallsReturn ImplementsProcessLock
CHECK_DEADLOCK FALSE
