\* Any task may wait for any pid.
SPECIFICATION Spec
CONSTANTS
    MaxTaskId = 4
    ExitCodes = {0, 122}
    NoCode = NoCode
INVARIANTS
    TypeOK
    OneHome
    NoPanic
    ProcessTree
    NoUseAfterFree
