SPECIFICATION Spec
CONSTANTS
    NSeg = 2
    NSlot = 3
    SeqMod = 4
    Keys = {k1, k2}
    Vals = {v1, v2}
    None = None
    Windows = {}
INVARIANTS
    TypeOK
    RoomForWrite
    BitmapExact
    SetTakesEffect
PROPERTIES
    RefinesStore
