CONSTANTS
    Portal = FALSE
    PORT_NR = 2
    COMM_MAX = 2
    BUFFERS_MAX = 3
    AUX_MAX = 1
    Threads = {t1, t2}
    Sources <- None
    Targets <- RemoteZero
    Filters <- None
    Buffers = {u1}
    MaxMsgs = 3
    HwErrors = FALSE
    OneUser = TRUE
    Patient = TRUE
    Room = TRUE
    NULL = NULL
SPECIFICATION FairSpec
 
PROPERTY WriteSent
