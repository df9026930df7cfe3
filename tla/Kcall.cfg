SPECIFICATION FairSpec
CONSTANTS
    CORES_NUM = 3
    Handled = {"write", "create"}
    Silent = {"stats"}
    Unknown = {}
    Invalid = {"bad"}
    Handler <- MCHandler
    ENOSYS = ENOSYS
    EINVAL = EINVAL
    None = None
INVARIANTS
    ServesPending
PROPERTIES
    ImplementsAbs
    CallsReturn
