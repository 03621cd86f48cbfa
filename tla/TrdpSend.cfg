CONSTANTS
  a = a
  b = b
  Pubs = {a, b}
  CntMod = 3
  Data = {0}
  Hosts = {"h"}
  Interval <- Cycle2
  FirstSteps <- Steps1
  Group = {a}
  Grid = 2
  SendPoll = 4
  MaxAhead = 2
SPECIFICATION Spec
INVARIANTS CycleKept OnGrid
PROPERTIES NoBurst KeepsPromise
