\* Four calls on two keys of one slot, those on k1 one at a time.
CONSTANTS
    o1 = o1
    o2 = o2
    o3 = o3
    o4 = o4
    Ops = {o1, o2, o3, o4}
    Keys = {"k1", "k2"}
    Slots = {0, 1}
    SlotOf <- OneSlot
    TTLs <- K1Expires
    MaxTime = 3
    Serial = {"k1"}
    MayLose = TRUE
    None = None
SYMMETRY CallSymmetry
SPECIFICATION Spec
INVARIANT TieredTypeOK
INVARIANT RightKey
INVARIANT NeverExpired
INVARIANT FreshWhenSerial
PROPERTY DelSparesOthers
\* The system stops when every call is made and the clock is at its bound.
CHECK_DEADLOCK FALSE
