CONSTANTS
    Runs = {r1, r2}
    Volumes = {v1, v2}
    Persistent = TRUE
    NoState = NoState
SPECIFICATION FairSpec
INVARIANTS
    IInv
    SeededWhileServing
    CommandPromise
PROPERTIES
    PersistentDataSafe
    RemoveRecovers
    UpRecovers
