SPECIFICATION FairSpec
CONSTANTS
    Session = {s1, s2}
    Endpoint = {a, b}
    Home = a
    Operation = {o1, o2}
    Fault = {"close", "timeout", "upstream"}
    None = None
    MaxBuffer = 1
    MaxInput = 0
    MaxEpoch = 3
INVARIANTS
    SessionsFollowRoute
PROPERTIES
    RouteIsFenced
    FrozenResumes
CHECK_DEADLOCK FALSE
