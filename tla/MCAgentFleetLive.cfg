SPECIFICATION LiveSpec

CONSTANTS
  Job = {j1, j2}
  Agent = {a1}
  LocalMain = LocalMain
  None = None
  LeaseTicks = 2
  Capacities = {0, 1}
  StaleTicks = 2
  MaxFaults = 1

PROPERTY EveryJobEnds
