CONSTANTS
    Runs = {r1}
    Volumes = {v1, v2}
    Persistent = TRUE
    NoState = NoState
SPECIFICATION FairSpec
PROPERTY RemoveAlwaysRecovers
