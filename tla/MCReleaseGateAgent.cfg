SPECIFICATION Spec
CONSTANTS
  Agent = Agent
  Local = Local
  Later = Later
  Absent = Absent
  MaxFlawed = 1
INVARIANT AgentCandidateRetrievable
CHECK_DEADLOCK FALSE
