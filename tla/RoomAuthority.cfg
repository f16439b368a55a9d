SPECIFICATION Spec
CONSTANTS
    Process = {p1, p2}
    ConfiguredRole <- Roles
    RoomEpoch = 1
    Input = {}
    Fault = {"crash", "stall", "large_delta"}
    None = None
    Pinned = None
    MaxEpoch = 2
    MaxTerm = 3
    MaxTick = 2
    MaxJournal = 2
SYMMETRY Symmetry
INVARIANTS
    TypeOK
    AuthorityIsLeased
    ReleasedIsStored
PROPERTIES
    StoreIsFenced
CHECK_DEADLOCK FALSE
