\* Fewer descriptors than FirstSocket: the two kinds of numbers stay apart.
SPECIFICATION MCSpec
CONSTANTS
    sh = sh
    a = a
    b = b
    dev = dev
    broken = broken
    prog = prog
    text = text
    new = new
    Tasks = {sh, a, b}
    Shell = sh
    Devices = {dev, broken}
    OpenErr = {broken}
    Mounted = {prog}
    Programs = {prog}
    Fresh = {new}
    FirstSocket = 8
    MaxFd = 7
    MaxSocket = 9
    MaxBytes = 2
    ReadLens = {1}
INVARIANTS
    DropNeverPanics
    FilesOwned
    PipesExact
PROPERTY PipeReadsEnd
CHECK_DEADLOCK FALSE
