SPECIFICATION Spec
CONSTANTS
    Session = {s1}
    Endpoint = {a, b}
    Home = a
    Operation = {o1, o2}
    Fault = {}
    None = None
    MaxBuffer = 2
    MaxInput = 2
    MaxEpoch = 3
INVARIANTS
    AckedIsPlayed
CHECK_DEADLOCK FALSE
