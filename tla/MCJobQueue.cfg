SPECIFICATION Spec

CONSTANTS
  Job = {j1, j2, j3, j4}
  Agent = {a1, a2}
  LocalMain = LocalMain
  None = None
  LeaseTicks = 2
  Capacities = {0, 1, 2}

SYMMETRY Symmetry

INVARIANT TypeOK
INVARIANT ExactlyOneOwner
INVARIANT WorkerIsOwner
INVARIANT DetailFollowsStatus
INVARIANT NoLostWakeup

PROPERTY TerminalIsFinal
PROPERTY LeaseDecides
PROPERTY FirstComeFirstServed
PROPERTY LifecycleSpec

