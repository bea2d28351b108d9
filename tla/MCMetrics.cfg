CONSTANTS
    Updaters = {"u1", "u2"}
    Reports <- TwoReports
    Unset = 9
    MaxRequests <- TwoAndOne
    MaxEvents = 1
SPECIFICATION FairSpec
INVARIANTS
    TypeOK
    NoLostExtreme
    LineMakesSense
PROPERTIES
    ReportsEnd
CHECK_DEADLOCK FALSE
