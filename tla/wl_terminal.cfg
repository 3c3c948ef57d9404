SPECIFICATION Spec
CONSTANTS
    Watches = {w1}
    Procs = {p1, p2}
    Refreshers = {p1}
    Creators = {p1}
    Cancellers = {p2}
    MaxFaults = 0
PROPERTIES
    ExitsAreTerminal
