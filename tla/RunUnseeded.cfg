CONSTANTS
    Runs = {r1}
    Volumes = {v1, v2}
    Persistent = FALSE
    NoState = NoState
SPECIFICATION Spec
INVARIANT NeverServesBlank
