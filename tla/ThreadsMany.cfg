SPECIFICATION Spec
CONSTANTS
    CORES_NUM = 3
    THREAD_MAX = 2
    MaxTid = 5
    MaxSem = 1
    KTHREAD_EXIT_VALUE_NUM = 2
CHECK_DEADLOCK FALSE
INVARIANT QueueSound
INVARIANT JoinSound
