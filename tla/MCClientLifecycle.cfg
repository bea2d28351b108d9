CONSTANTS
    Modes <- AllModes
    Capacity = 2
    MaxBatch = 3
SPECIFICATION ThreadSpec
INVARIANTS
    TypeOK
    PushNeverRefused
    WriterOutlivesProducers
    ResourcesOutliveThreads
    JoinsOnlyStarted
PROPERTIES
    ShutdownHeldUpOnlyByPeers
    BackpressureRelieved
