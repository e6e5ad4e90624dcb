SPECIFICATION SetupFairSpec
CONSTANTS
    Bodies <- MCBodies
    MaxEvents = 3
    Chunk = 3
    PerRequest = 2
    Tries = 2
    Faults = {}
INVARIANTS ProgressComplete SetupSound
PROPERTIES SetupEnds
CHECK_DEADLOCK FALSE
