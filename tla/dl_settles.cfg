SPECIFICATION FairSpec
CONSTANTS
    opportunity = opportunity
    testPush = testPush
    t1 = t1
    t2 = t2
    Events = {opportunity}
    Dests = {t1, t2}
    Workers = {n1, n2}
    Audience <- ToEveryone
    MaxAge <- AgeTwo
    BatchSize = 2
    Lease = 1
    Delays = {1}
    LastWrite = 0
    LastFault = 1
    MaxFaults = 1
    MaxTime = 3
    NoDelivery = NoDelivery
PROPERTIES
    EventuallySettled
