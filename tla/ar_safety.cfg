SPECIFICATION Spec
CONSTANTS
  Workers = {w1, w2}
  Callers = {c1}
  Sports = {nhl}
  Intervals = {1}
  DefaultInterval = 1
  Floors <- FloorOfTwo
  Plan = 3
  Cost = 2
  FloorPercent = 50
  MaxTime = 1
  MaxPuts = 1
  MaxManual = 1
  MaxFaults = 1
INVARIANTS TypeOK RefusedOnce
PROPERTIES AutomaticPullsSpaced WarnedOnCrossing
SYMMETRY Interchangeable
