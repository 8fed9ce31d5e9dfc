SPECIFICATION MCSpec
CONSTANTS
    Ps2Keys = {"LShift", "A", "CursorUp"}
    HidKeys = {"LShift", "A", "B"}
    MaxStrokes = 5
    SIZE = 5
    Values = {0, 1}
    Default = 0
    MaxPackets = 2
    MaxPolls = 2
    NUM_TRBS = 6
    MaxPortEvents = 1
INVARIANTS
    KeysTyped
    
    RingsSound
PROPERTIES
    DevicesPolled
    IsQueue
CHECK_DEADLOCK FALSE
