SPECIFICATION Spec
CONSTANTS
    opportunity = opportunity
    testPush = testPush
    t1 = t1
    t2 = t2
    Events = {opportunity, testPush}
    Dests = {t1}
    Workers = {n1, n2}
    Audience <- TestToOne
    MaxAge <- AgeTwo
    BatchSize = 1
    Lease = 1
    Delays = {1}
    LastWrite = 0
    LastFault = 0
    MaxFaults = 0
    MaxTime = 1
    NoDelivery = NoDelivery
INVARIANTS
    GoneHasNothingPending
