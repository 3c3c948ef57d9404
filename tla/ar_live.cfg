SPECIFICATION FairSpec
CONSTANTS
  Workers = {w1}
  Callers = {}
  Sports = {nhl, mlb}
  Intervals = {1}
  DefaultInterval = 1
  Floors <- DerivedFloor
  Plan = 1
  Cost = 1
  FloorPercent = 50
  MaxTime = 2
  MaxPuts = 1
  MaxManual = 0
  MaxFaults = 1
INVARIANTS RefusedOnce
PROPERTIES WatchedIsRefreshed PauseEnds
