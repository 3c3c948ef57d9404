SPECIFICATION SmallSpec
CONSTANTS
    Events = {elsewhere, test1, test2, test3}
    Tests = {test1, test2, test3}
    Dests = {t1}
    Workers = {n1}
    Requests = {r1, r2}
    Audience <- TestsHere
    MaxAge <- AgeOne
    BatchSize = 1
    Lease = 1
    Delays = {1}
    LastWrite = 1
    LastFault = 0
    MaxFaults = 1
    MaxTime = 1
    TestCooldown = 1
    MaxSubs = 2
    NoDelivery = NoDelivery
    NoRequest = NoRequest
SYMMETRY Interchangeable
INVARIANTS
    DestTypeOK
    EnrolledIsActive
    TestBurstBounded
