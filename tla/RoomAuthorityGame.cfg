SPECIFICATION FairSpec
CONSTANTS
    Process = {p1, p2}
    ConfiguredRole <- Roles
    RoomEpoch = 1
    Input = {i1}
    Fault = {"crash", "late_seed", "lost_reply", "slow_write"}
    None = None
    Pinned = p1
    MaxEpoch = 3
    MaxTerm = 2
    MaxTick = 1
    MaxJournal = 2
INVARIANTS
    ActiveRuns
PROPERTIES
    ConnectedGameGrows
    ResetDiscardsGame
    AbandonedLeaseIsTaken
CHECK_DEADLOCK FALSE
