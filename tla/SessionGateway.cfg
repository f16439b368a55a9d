SPECIFICATION Spec
CONSTANTS
    Session = {s1}
    Endpoint = {a, b}
    Home = a
    Operation = {o1, o2}
    Fault = {"close", "timeout", "upstream"}
    None = None
    MaxBuffer = 2
    MaxInput = 4
    MaxEpoch = 3
INVARIANTS
    TypeOK
    AckedIsKept
    PlaysInOrder
    ReplayFits
    SwapNeverConflicts
CHECK_DEADLOCK FALSE
