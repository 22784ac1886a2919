\* An AgentCredential, created and observed.
SPECIFICATION FairSpec
CONSTANTS
  Kinds = {"AgentCredential"}
  MaxKey = 2
  Others = {}
  PageSize = 1
  MaxChanges = 1
  MaxFaults = 0
CHECK_DEADLOCK FALSE
PROPERTIES
  CreateOnlyKept
