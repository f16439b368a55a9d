SPECIFICATION Spec
CONSTANTS
    MaxRooms = 2
    DefaultRooms = {0}
    Fault = {}
    MaxFaults = 0
    MaxRequests = 3
    None = None
PROPERTIES
    RemovedAfterPod
CHECK_DEADLOCK FALSE
