SPECIFICATION LiveSpec

CONSTANTS
  Slot = {s1, s2}
  None = None
  InitialBackoff = 2
  MaxBackoff = 3
  StableTicks = 2
  WatchdogTicks = 2
  ShutdownTicks = 1
  MaxRestarts = 2

\* close() ends the parent process.
CHECK_DEADLOCK FALSE

INVARIANT TypeOK
INVARIANT OneProcessPerSlot
INVARIANT NoSlotForgotten
INVARIANT NoOrphans

PROPERTY SlotsComeBack
PROPERTY CloseFinishes
