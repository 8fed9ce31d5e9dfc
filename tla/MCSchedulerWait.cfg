\* A task waits only for its own children; fairness for the liveness properties.
SPECIFICATION ParentWaitsSpec
CONSTANTS
    MaxTaskId = 4
    ExitCodes = {0}
    NoCode = NoCode
INVARIANTS
    WaitSound
PROPERTIES
    TasksGoOn
    WaitReturns
