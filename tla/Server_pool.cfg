SPECIFICATION Spec
CONSTANTS
    Conns = {f1, f2, f3}
    NumWorkers = 1
    BackLog = 2
    MaxFds = 2
    MaxInterrupts = 1
CHECK_DEADLOCK FALSE
INVARIANTS
    TypeOK
    AcceptedAreServed
PROPERTIES
    AcceptedAreClosed
    BacklogIsAccepted
    InterruptHeeded
