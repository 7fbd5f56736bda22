\* Three buffers, files of up to four pictures, calls that may fail.
SPECIFICATION Spec
CONSTANTS
    Buffers = {b1, b2, b3}
    MaxPictures = 4
    Faults = TRUE
INVARIANTS
    LockedIsOwned
    AllRendered
PROPERTIES
    ImplementsScreen
    Ends
