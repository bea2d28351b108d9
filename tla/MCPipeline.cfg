CONSTANTS
    PumpfunProgram = "pump"
    RaydiumProgram = "ray"
    PumpfunTable = "pumpfun_trades"
    RaydiumTable = "raydium_swaps"
    Capacity = 1
    Limit = 2
    MaxFailures = 1
    MaxKills = 1
    NoEvent = NoEvent
    Logs <- AllLogs
SPECIFICATION FairSpec
INVARIANTS
    TypeOK
    NothingSkipped
    NothingVanishes
PROPERTIES
    ImplementsEventStore
    EverythingPolled
    AcceptedSettles
