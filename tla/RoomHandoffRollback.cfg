SPECIFICATION Spec
CONSTANTS
    None = None
    Fault = {"session"}
    MaxHandoff = 1
    MaxSave = 0
INVARIANTS FailedVerificationIsRolledBack
CHECK_DEADLOCK FALSE
