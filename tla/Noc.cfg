CONSTANTS
    Portal = TRUE
    PORT_NR = 2
    COMM_MAX = 2
    BUFFERS_MAX = 3
    AUX_MAX = 1
    Threads = {t1, t2}
    Sources <- RemoteZero
    Targets <- LocalZero
    Filters <- ToBoth
    Buffers = {u1}
    MaxMsgs = 2
    HwErrors = TRUE
    OneUser = TRUE
    Patient = TRUE
    Room = FALSE
    Master = master
    ReleaseFails = FALSE
    NULL = NULL
SPECIFICATION MCSpec
SYMMETRY Symmetry
INVARIANTS
    OperationsSound
    EntriesExact
PROPERTY
    ReferenceStable
\* Messages run out.
CHECK_DEADLOCK FALSE
