CONSTANTS
    BackoffMin = 32771
    BackoffMax = 33000
    UIntValues = 65536
SPECIFICATION FairSpec
INVARIANTS
    TypeOK
    FlagsFollowLinks
    OneConnection
    SubscribedOnce
PROPERTIES
    Reconnects
    GetsSubscribed
