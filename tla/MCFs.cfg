SPECIFICATION MCSpec
CONSTANTS
    InitramfsDirs <- XDir
    InitramfsFiles <- XFile
    TaskNames = {"7"}
    Devices = {"x", "tty"}
    Paths <- SomePaths
    MaxFiles = 8
    MaxNames = 3
    MaxSteps = 5
    t1 = t1
    t2 = t2
    NoCache = NoCache
    DeviceLen = 3
    Lens = {1, 2}
    MaxOffset = 4
INVARIANTS
    PathsLeadThere
    ReadsExact
    
CHECK_DEADLOCK FALSE
