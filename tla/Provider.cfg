CONSTANTS
    p1 = p1  p2 = p2  r1 = r1  r2 = r2  r3 = r3  e1 = e1  e2 = e2
    Processes <- TheProcesses
    Releases <- TheReleases
    Environments <- TheEnvironments
    Compose <- TheCompose
    Allow <- TheAllow
    Repeats <- TheRepeats
    NoRelease = NoRelease
    MaxKills = 1
SPECIFICATION Spec
PROPERTIES
    SyncDelivers
    FailedSyncKeeps
    ReadersUndisturbed
    RunsOnlyReviewed
    ResponseCloses
    FetchReturns
