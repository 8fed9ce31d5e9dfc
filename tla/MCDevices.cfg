SPECIFICATION MCSpec
CONSTANTS
    IO_BUF_LEN = 3
    STDIN_LINE_BUF_SIZE = 3
    MaxTyped = 5
    r1 = r1
    r2 = r2
    graphics = graphics
    mouse = mouse
    keyboard = keyboard
    uart = uart
    net = net
    DriverTasks = {graphics, mouse, keyboard, uart, net}
    CountWrap = 8
    priority <- priorities
    t1 = t1
    Tasks = {t1, t2}
    Mutexes = {a, b}
    Handler = Handler
    NoMutex = NoMutex
    MaxDepth = 3
    CpuTasks = {t1, t2}
    Junk = 9
    program = program
INVARIANTS
    TerminalInput
    TasksInTurn
    HolderRuns
    RegistersKept
    ScreenCurrent
    WindowsSound
    ConsoleSound
PROPERTIES
    LineReturns
CHECK_DEADLOCK FALSE
