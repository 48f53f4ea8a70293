\* Uploads of two chunks, both heavy; a loop gives up after two failures.
CONSTANTS
    Chunks = 2
    HeavyChunks = 2
    GiveUp = 2
    MaxFaults = 2
    MaxRemounts = 1
SPECIFICATION Spec
PROPERTIES
    UserGetsThrough
    LoopsStop
CHECK_DEADLOCK FALSE
