\* Some files sys_exec is given are not programs.
SPECIFICATION AllSpec
CONSTANTS
    sh = sh
    a = a
    b = b
    dev = dev
    broken = broken
    prog = prog
    text = text
    new = new
    Tasks = {sh, a}
    Shell = sh
    Devices = {dev}
    OpenErr = {}
    Mounted = {prog, text}
    Programs = {prog}
    Fresh = {new}
    FirstSocket = 8
    MaxFd = 7
    MaxSocket = 9
    MaxBytes = 1
    ReadLens = {1}

INVARIANT AllFilesClosed
CHECK_DEADLOCK FALSE
