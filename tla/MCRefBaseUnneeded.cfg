\* Two promote() calls on an object that only ever had weak references.
SPECIFICATION Spec
CONSTANTS
    Sp = {p1, p2}
    Wp = {w1}
    NoPtr = NoPtr
    INITIAL_STRONG_VALUE = 4
    Publications = {"wp"}
    ForceSetEarly = FALSE
INVARIANTS
    UnneededReferenceExists
CHECK_DEADLOCK FALSE
