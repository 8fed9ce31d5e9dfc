\* Descriptor numbers have reached the socket ids.
SPECIFICATION AllSpec
CONSTANTS
    sh = sh
    a = a
    b = b
    dev = dev
    broken = broken
    prog = prog
    text = text
    new = new
    Tasks = {sh, a}
    Shell = sh
    Devices = {dev, broken}
    OpenErr = {broken}
    Mounted = {prog}
    Programs = {prog}
    Fresh = {new}
    FirstSocket = 5
    MaxFd = 7
    MaxSocket = 6
    MaxBytes = 1
    ReadLens = {1}

INVARIANT DropNeverPanics
CHECK_DEADLOCK FALSE
