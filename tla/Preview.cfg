CONSTANTS
    shell = shell
    library = library
    here = here
    there = there
    Callers = {shell, library}
    Runtimes = {here, there}
    Owner <- Owners
    MaxDepth = 2
    Nobody = Nobody
    Users = {shell}
    Runs = {r1, r2}
    Ids = {i1, i2}
    NoToken = NoToken
SPECIFICATION Spec
INVARIANTS
    MutualExclusion
PROPERTIES
    OnlyReviewedGoes
    OnlyReviewedImagesGo
    RefusedByOperation
    PollingEnds
