SPECIFICATION LiveSpec
CONSTANTS
    Watches = {w1, w2}
    Procs = {p1, p2}
    Refreshers = {p1, p2}
    Creators = {p2}
    Cancellers = {}
    MaxFaults = 1
PROPERTIES
    TransactionsEnd
    FillableEventuallyFires
