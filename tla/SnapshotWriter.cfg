\* Three callers: one write in flight, a pending checkpoint shared by two.
\* Two failures in a row open the circuit; three versions of the game.
SPECIFICATION FairSpec
CONSTANTS
    Caller = {c1, c2, c3}
    FailureThreshold = 2
    MaxVersion = 2
INVARIANTS
    TypeOK
    SavedIsDurable
    PendingHasRunner
PROPERTIES
    StoredNeverRegresses
    NoWriteWhileCooling
    HandoffResumesOnStoredChecksum
    EveryCallerAnswered
