SPECIFICATION Spec
CONSTANTS
    Watches = {w1, w2}
    Procs = {p1, p2}
    Refreshers = {p1, p2}
    Creators = {p1, p2}
    Cancellers = {p1, p2}
    MaxFaults = 1
SYMMETRY Interchangeable
INVARIANTS
    TypeOK
    AnnouncedExactlyOnce
    FiredLeavesActive
    TriggeredHasOpportunity
PROPERTIES
    EvaluationComplete
    LapsedAtReadingNeverFires
    ImplementsContract
