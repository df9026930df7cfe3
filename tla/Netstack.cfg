SPECIFICATION MCSpec
CONSTANTS
    MEM_SIZE = 14
    SIZEOF_STRUCT_MEM = 1
    MIN_SIZE = 2
    Sizes = {1, 2, 3, 4, 5}
\* Arrivals run out.
CHECK_DEADLOCK FALSE
INVARIANTS
    
    ChainsSound
    
    PcbsSound
    EndpointsSound

    
