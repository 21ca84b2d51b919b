SPECIFICATION FleetSpec

CONSTANTS
  Job = {j1, j2}
  Agent = {a1, a2}
  LocalMain = LocalMain
  None = None
  LeaseTicks = 2
  Capacities = {0, 1, 2}
  StaleTicks = 2
  MaxFaults = 2

SYMMETRY Symmetry

INVARIANT CountersAgree
INVARIANT UndisturbedFleetAgrees
INVARIANT HeldWorkIsCovered
INVARIANT RedundantRunsAreBounded
