SPECIFICATION Spec
CONSTANTS
    opportunity = opportunity
    testPush = testPush
    t1 = t1
    t2 = t2
    Events = {opportunity, testPush}
    Dests = {t1}
    Workers = {n1, n2}
    Audience <- TestToOne
    MaxAge <- AgeThree
    BatchSize = 2
    Lease = 1
    Delays = {1}
    LastWrite = 0
    LastFault = 1
    MaxFaults = 1
    MaxTime = 3
    NoDelivery = NoDelivery
SYMMETRY Interchangeable
INVARIANTS
    TypeOK
    NoConcurrentSend
    DeliveredWasAccepted
    OwedHaveRows
PROPERTIES
    FinalIsFinal
    NoResendAfterDelivered
