CONSTANTS
    Files <- SomeFiles
    Environments <- SomeEnvironments
    UInt32Values = 65536
SPECIFICATION Spec
INVARIANT ApiKeyAppended
