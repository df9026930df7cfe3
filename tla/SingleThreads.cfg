SPECIFICATION Spec
CONSTANTS
    CORES_NUM = 4
    THREAD_CREATE_NTRIALS = 2
    MaxTid = 4
    KTHREAD_EXIT_VALUE_NUM = 2
CHECK_DEADLOCK FALSE
INVARIANT CoreOwnsSlot
INVARIANT JoinSound
