SPECIFICATION Spec
CONSTANTS
    Workers = {w1}
    Master = m
    NUM_UFRAMES = 2
    NUM_KPAGES = 2
    Tabs = {t1, t2}
    Slots = {s1, s2}
    Shootdown = FALSE
    MaxStacks = 1
    NULL = NULL
SYMMETRY Symmetry
INVARIANTS
    MemoryAccounted
    
