SPECIFICATION MCSpec
CONSTANTS
    BITMAP_SIZE = 3
    PAGE_SIZE = 3
    MemMaps <- Maps
    Lens = {0, 1, 2, 3, 4}
    Top = 15
    Sizes = {1, 3, 4}
    Aligns = {1, 2, 4}
    FANOUT = 3
    LEVELS = 3
    NFrames = 18
    Tasks = {t1, t2}
    SbrkLens = {1, 2}
    ELF_PAGE_SIZE = 32
    Files = {3, 6}
    Entries = {0, 33}
    MALLOC_PAGE_SIZE = 8
    ALIGN = 2
    HEADER = 2
    MallocLens = {0, 1, 4, 7}
    MaxSbrk = 2
    MaxLive = 2
    WINDOW_WIDTH = 28
    WINDOW_PADDING = 1
    CHAR_WIDTH = 4
    CHAR_HEIGHT_WITH_PADDING = 5
INVARIANTS
    FramesDisjoint
    NothingLost
    AllocatorsSound
    SpacesApart
    ProgramInPlace
    
    
CHECK_DEADLOCK FALSE
