CONSTANTS
    Runs = {r1, r2}
    Recovery = {"run"}
    NoJournal = NoJournal
SPECIFICATION FairSpec
PROPERTY ExecutionAlwaysResolves
