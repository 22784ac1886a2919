----------------------------- MODULE StatusRules -----------------------------
(***************************************************************************)
(* What status.atProvider of each kind can hold (the AtProvider types) and *)
(* what Observe and Create put into it (the *Observation functions, or the *)
(* handlers themselves).  An optional value that the answer lacks counts   *)
(* as filled.                                                              *)
(***************************************************************************)

Common == {"id", "createdAt", "updatedAt"}

-----------------------------------------------------------------------------
(* Declared.                                                               *)

ProjectAtProvider ==
  Common \cup {"proxyHost", "queriesPerSecond", "burstSize", "maxConnections",
               "databaseCount", "activeConnections", "primaryDatabaseID"}

DatabaseAtProvider == Common \cup {"connectionString"}

ReplicaAtProvider == Common

CustomDomainAtProvider ==
  Common \cup {"verified", "verifiedAt", "tlsCertExpiry",
               "dnsVerificationToken", "dnsInstructions"}

CacheRuleAtProvider ==
  {"id", "queryHash", "normalizedSQL", "queryType", "callCount",
   "avgLatencyMs", "p95LatencyMs", "avgResponseBytes", "stabilityRate",
   "recommendation", "firstSeenAt", "lastSeenAt"}

SpendLimitAtProvider ==
  Common \cup {"orgID", "plan", "billingProvider", "subscriptionStatus",
               "currentPeriodEnd", "enabled", "customPricing", "spendCapped",
               "spendCappedAt", "limits"}

AgentCredentialAtProvider ==
  Common \cup {"pgUsername", "authMethod", "lastUsedAt", "mcpURL"}

PolicyProfileAtProvider   == Common
WebhookEndpointAtProvider == Common

SelfHostEnrollmentAtProvider ==
  {"id", "createdBy", "createdAt", "lastSeenAt", "revokedAt"}

HoneytokenAtProvider    == Common
AnomalyRuleAtProvider   == Common
ApprovalRuleAtProvider  == Common
QueryTemplateAtProvider == Common \cup {"statementKind"}

AtProvider ==
  [Project |-> ProjectAtProvider, Database |-> DatabaseAtProvider,
   Replica |-> ReplicaAtProvider, CustomDomain |-> CustomDomainAtProvider,
   CacheRule |-> CacheRuleAtProvider, SpendLimit |-> SpendLimitAtProvider,
   AgentCredential |-> AgentCredentialAtProvider,
   PolicyProfile |-> PolicyProfileAtProvider,
   WebhookEndpoint |-> WebhookEndpointAtProvider,
   SelfHostEnrollment |-> SelfHostEnrollmentAtProvider,
   Honeytoken |-> HoneytokenAtProvider, AnomalyRule |-> AnomalyRuleAtProvider,
   ApprovalRule |-> ApprovalRuleAtProvider,
   QueryTemplate |-> QueryTemplateAtProvider]

-----------------------------------------------------------------------------
(* Filled by every Observe, and by Create.                                 *)

ProjectObservation ==
  Common \cup {"proxyHost", "queriesPerSecond", "burstSize", "maxConnections",
               "databaseCount", "activeConnections"}

DatabaseObservation     == Common \cup {"connectionString"}
ReplicaObservation      == Common
CustomDomainObservation == Common \cup {"verifiedAt", "tlsCertExpiry"}

CacheRuleObservation ==
  {"queryHash", "normalizedSQL", "queryType", "callCount", "avgLatencyMs",
   "p95LatencyMs", "avgResponseBytes", "stabilityRate", "recommendation",
   "firstSeenAt", "lastSeenAt"}

SpendLimitObservation ==
  {"orgID", "plan", "billingProvider", "subscriptionStatus",
   "currentPeriodEnd", "enabled", "customPricing", "spendCapped",
   "spendCappedAt", "limits", "createdAt", "updatedAt"}

AgentCredentialObservation ==
  Common \cup {"pgUsername", "authMethod", "lastUsedAt"}

PolicyProfileObservation   == Common
WebhookEndpointObservation == Common

SelfHostEnrollmentObservation ==
  {"id", "createdBy", "createdAt", "lastSeenAt", "revokedAt"}

HoneytokenObservation    == Common
AnomalyRuleObservation   == Common
ApprovalRuleObservation  == Common
QueryTemplateObservation == Common \cup {"statementKind"}

Filled ==
  [Project |-> ProjectObservation, Database |-> DatabaseObservation,
   Replica |-> ReplicaObservation, CustomDomain |-> CustomDomainObservation,
   CacheRule |-> CacheRuleObservation, SpendLimit |-> SpendLimitObservation,
   AgentCredential |-> AgentCredentialObservation,
   PolicyProfile |-> PolicyProfileObservation,
   WebhookEndpoint |-> WebhookEndpointObservation,
   SelfHostEnrollment |-> SelfHostEnrollmentObservation,
   Honeytoken |-> HoneytokenObservation, AnomalyRule |-> AnomalyRuleObservation,
   ApprovalRule |-> ApprovalRuleObservation,
   QueryTemplate |-> QueryTemplateObservation]

(* What only the answer of Create holds.                                   *)
CreateOnly(kind) ==
  CASE kind = "Project"         -> {"primaryDatabaseID"}
    [] kind = "AgentCredential" -> {"mcpURL"}
    [] OTHER                    -> {}
=============================================================================
