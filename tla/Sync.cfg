SPECIFICATION MCSpec
CONSTANTS
    d1 = d1
    d2 = d2
    u1 = u1
    b1 = b1
    NULL = NULL
    Downers <- MCDowners
    Uppers <- MCUppers
    InitCount = 1
    MaxCount = 2
    EXCEPTIONS_NUM = 2
    THREAD_MAX = 3
    Handlers = {"h1"}
    MaxFaults = 3
    SigExcps = 3
    Mapped = {0, 1}
    Fns = {"f1", "f2"}
    SigCores = {"c1", "c2"}
    Sleepers = {"t1", "t2"}
INVARIANTS
    WakeupBalance
    HandoffSound
    
PROPERTIES
    ImplementsAbs
    TokenWakesSleepers
    ExceptionHandled
    WakeupEndsSleep
