SPECIFICATION Spec
CONSTANTS
  Workers = {w1}
  Callers = {}
  Sports = {nhl}
  Intervals = {1}
  DefaultInterval = 1
  Floors <- DerivedFloor
  Plan = 1
  Cost = 1
  FloorPercent = 50
  MaxTime = 2
  MaxPuts = 2
  MaxManual = 0
  MaxFaults = 0
INVARIANTS SwitchAsLastSet
