SPECIFICATION MCSpec
\* Senders and packets run out.
CHECK_DEADLOCK FALSE
INVARIANTS
    ReassemblySound
    ArpSound
    TimeoutsSound
PROPERTIES
    ReassemblyEnds
    
    CyclicTimersRun
