CONSTANTS
    MaxOutput = 2
    MaxWritten = 4
SPECIFICATION Spec
INVARIANTS
    TypeOK
    ReturnMeansDone
    OutputWhole
    NoSurvivors
PROPERTY RunReturns
CHECK_DEADLOCK FALSE
