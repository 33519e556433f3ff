CONSTANTS
    Runs = {r1, r2}
    Recovery = {"run", "clean"}
    NoJournal = NoJournal
SPECIFICATION FairSpec
INVARIANTS
    Accounted
    OnePortOwner
    RollbackBase
PROPERTIES
    OnlyRolesRestarted
    CleanupStartsNothing
    EndsComplete
    ImplementsReplacement
    CleanupResolves
    ExecutionResolves
