SPECIFICATION Spec
CONSTANTS
    None = None
    Fault = {"refused", "lost", "late", "session", "timer", "exit", "restart", "slow"}
    MaxHandoff = 2
    MaxSave = 1
INVARIANTS TypeOK PreservedIsServed CompletedIsReplaced
PROPERTIES ServingPodIsKept CutoverLandsOnActive
CHECK_DEADLOCK FALSE
