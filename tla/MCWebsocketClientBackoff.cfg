CONSTANTS
    BackoffMin = 1
    BackoffMax = 1000
    UIntValues = 65536
SPECIFICATION FairSpec
PROPERTIES
    BacksOffBetweenAttempts
