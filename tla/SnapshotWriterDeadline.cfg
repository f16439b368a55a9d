\* Redis may never settle a command; the deadline timer of the process fires.
SPECIFICATION TimerFairSpec
CONSTANTS
    Caller = {c1, c2}
    FailureThreshold = 2
    MaxVersion = 1
PROPERTY
    CallersReleasedAtDeadline
CHECK_DEADLOCK FALSE
