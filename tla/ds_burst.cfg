SPECIFICATION DestSpec
CONSTANTS
    Events = {elsewhere, test1, test2}
    Tests = {test1, test2}
    Dests = {t1}
    Workers = {n1}
    Requests = {r1, r2}
    Audience <- TestsHere
    MaxAge <- AgeOne
    BatchSize = 1
    Lease = 1
    Delays = {1}
    LastWrite = 1
    LastFault = 0
    MaxFaults = 0
    MaxTime = 2
    TestCooldown = 2
    MaxSubs = 1
    NoDelivery = NoDelivery
    NoRequest = NoRequest
INVARIANTS
    OneTestPerWindow
