\* Files of up to three blocks, buffers of two, calls that may fail.
SPECIFICATION Spec
CONSTANTS
    MaxBlocks = 3
    Chunk = 2
    Faults = TRUE
    Builds = {"callback", "loop"}
INVARIANTS
    CallbackHasFile
    RecordedInOrder
    PlayedInOrder
PROPERTY Ends
