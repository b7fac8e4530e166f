CONSTANTS
    First = First
    Second = Second
    MaxRuns = 4
    MaxTries = 2
SPECIFICATION Spec
INVARIANTS
    TypeOK
    NoLockout
    KeptKeysWork
    OkMeansDone
PROPERTIES
    NeverOverwritten
    CommandsEnd
