\* The same screens: an import whose loop gave up.
CONSTANTS
    Chunks = 1
    HeavyChunks = 1
    GiveUp = 2
    MaxFaults = 2
    MaxRemounts = 0
SPECIFICATION Spec
PROPERTIES
    ImportResumes
CHECK_DEADLOCK FALSE
