SPECIFICATION Spec
CONSTANTS
  Agent = Agent
  Local = Local
  Later = Later
  Absent = Absent
  MaxFlawed = 1
INVARIANT OnlyVouchedBytesLeave
INVARIANT LocalCandidateRetrievable
CHECK_DEADLOCK FALSE
