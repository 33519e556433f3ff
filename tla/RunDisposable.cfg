CONSTANTS
    Runs = {r1, r2}
    Volumes = {v1, v2}
    Persistent = FALSE
    NoState = NoState
SPECIFICATION FairSpec
INVARIANTS
    NoLostOwnership
    JournalLag
    SeededWhileServing
PROPERTIES
    RemoveAlwaysRecovers
    UpRecovers
