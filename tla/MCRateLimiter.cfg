CONSTANTS
    c1 = c1
    c2 = c2
    Callers <- TwoCallers
    Rps = 2
    TicksPerSecond = 12
    MinSleep = 2
    MaxSleep = 4
SPECIFICATION FairSpec
INVARIANTS
    TypeOK
    BurstBounded
    NoOversleep
PROPERTIES
    WaitEnds
