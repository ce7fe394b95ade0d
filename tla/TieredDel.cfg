\* Calls on one key that overlap.
CONSTANTS
    o1 = o1
    o2 = o2
    o3 = o3
    o4 = o4
    Ops = {o1, o2, o3, o4}
    Keys = {"k1"}
    Slots = {0, 1}
    SlotOf <- OneSlot
    TTLs <- NoneExpires
    MaxTime = 1
    Serial = {}
    MayLose = FALSE
    None = None
SYMMETRY CallSymmetry
SPECIFICATION Spec
INVARIANT DeletedStaysDeleted
\* The system stops when every call is made and the clock is at its bound.
CHECK_DEADLOCK FALSE
