CONSTANTS
    p1 = p1
    p2 = p2
    c1 = c1
    c2 = c2
    e1 = e1
    e2 = e2
    NoEvent = NoEvent
    Producers <- TwoProducers
    Consumers <- TwoConsumers
    Events <- TwoEvents
    Capacity = 2
SPECIFICATION FairSpec
INVARIANTS
    TypeOK
    RingConsistent
    EveryEventHasAwakeConsumer
    EverySlotHasAwakeProducer
    NobodySleepsInClosedQueue
PROPERTIES
    ImplementsFifo
    PopReturns
    PushReturns
    CloseReleases
