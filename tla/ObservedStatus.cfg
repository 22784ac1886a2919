\* Every kind; up to four objects in a list with pages of two.
SPECIFICATION FairSpec
CONSTANTS
  Kinds = {"Project", "Database", "Replica", "CustomDomain", "CacheRule",
           "SpendLimit", "AgentCredential", "PolicyProfile", "WebhookEndpoint",
           "SelfHostEnrollment", "Honeytoken", "AnomalyRule", "ApprovalRule",
           "QueryTemplate"}
  MaxKey = 7
  Others = {1, 3, 5}
  PageSize = 2
  MaxChanges = 3
  MaxFaults = 1
CHECK_DEADLOCK FALSE
INVARIANTS
  TypeOK
  PublishedIsManaged
  AbsentIsAbsent
PROPERTIES
  StatusCatchesUp
  VerificationConverges
