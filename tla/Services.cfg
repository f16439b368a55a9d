SPECIFICATION Services
CONSTANTS
    None = None
    Operation = {1, 2}
    Page = 1
    MaxEvents = 3
    MaxFailures = 2
    MaxRestarts = 1
    Revision = {v1, v2}
    RolloutRoom = {1, 2}
    ReleaseFault = {"refused", "lost", "late_patch", "retag", "leak",
                    "mutation", "restart"}
    MaxReleaseFaults = 1
    MaxPolls = 1
    MaxRooms = 2
    DefaultRooms = {0}
    RegistryFault = {"save", "patch", "register", "external", "gateway",
                     "restart"}
    MaxRegistryFaults = 1
    MaxRegistryRequests = 3
    GameRoom = {r1, r2}
    MaxFindRequests = 2
    MaxPerSecond = 1
    Second = 2
    CacheTtl = 1
    RoomsTimeout = 1
    SummaryTimeout = 1
    MaxTime = 4
    MaxChanges = 1
    MaxFailedCalls = 1
    Scenario = {"bot-surge", "malicious-input", "admission-storm",
                "process-crash"}
    LabFault = {"refused", "lost", "job", "cleanup", "call"}
    MaxLabFaults = 1
    MaxLabRequests = 3
    MaxSurge = 2
    MaxSamples = 1
INVARIANTS
    TypesOK
    NothingStranded
    EventsAreInOrder
    OneRelease
    LiveIsValidated
    RegistryIsTrue
    PassedFitCapacity
PROPERTIES
    AuthorityIsALog
    SnapshotsFollowRooms
    ListIsRecent
    LoadIsKnown
    WorkIsDone
CHECK_DEADLOCK FALSE
