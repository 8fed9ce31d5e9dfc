\* Any task may wait for any pid: sys_wait's documented promise.
SPECIFICATION FairSpec
CONSTANTS
    MaxTaskId = 3
    ExitCodes = {0}
    NoCode = NoCode
PROPERTIES
    WaitReturns
