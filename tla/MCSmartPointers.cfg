\* Three objects, two sp and two wp variables.
SPECIFICATION Spec
CONSTANTS
    Obj = {a, b, c}
    Root = {r1, r2}
    WRoot = {w1, w2}
    NULL = NULL
    MaxByHand = 1
SYMMETRY Renaming
INVARIANTS
    SlotCounts
    NoDangling
    LeaksOnlyCycles
