\* Three clients, a server of up to three threads that may die.
SPECIFICATION Spec
CONSTANTS
    Clients = {c1, c2, c3}
    Threads = {"main", "pool", "spawned"}
    Faults = TRUE
INVARIANTS
    ToldTheTruth
    MemoryThere
PROPERTIES
    ClientsEnd
    ImplementsService
