CONSTANTS
    Modes <- OnlyWs
    Capacity = 1
    MaxBatch = 1
SPECIFICATION Spec
INVARIANTS
    HttpTakesOver
