----------------------------- MODULE FieldRules -----------------------------
(***************************************************************************)
(* Which mutable field of which kind is compared, sent and created how, as *)
(* the is*UpToDate, Update and Create functions of internal/controller do. *)
(* The first tables group the fields a kind's up-to-date check compares by *)
(* how it treats a field the manifest omits:                               *)
(*   equal    required, compared as it is                                  *)
(*   absent   omitted means the answer has no value                        *)
(*   default  omitted means the answer has no value or the default         *)
(*   plain    the same; the answer always has a value                      *)
(*   list     the same; an empty list and no list are equal                *)
(*   whenSet  compared only when the manifest sets it                      *)
(*   whenSetList  the same, of a list                                      *)
(***************************************************************************)

ProjectRules ==
  [equal       |-> {"name"},
   whenSetList |-> {"tags", "allowedCidrs"},
   whenSet     |-> {"description", "defaultPolicyProfileID", "residency",
                    "agentsDisabled", "status"}]

DatabaseRules ==
  [equal   |-> {"host", "port", "name", "username"},
   whenSet |-> {"sslMode", "role", "poolRegion", "queryTimeoutMs",
                "autoReadRouting", "cacheConfig", "poolConfig"}]

AgentCredentialRules == [whenSet |-> {"status"}]

(* Mutant: an omitted field is never drift.                                *)
HoneytokenRulesLenient ==
  [equal |-> {"relationName", "action"}, whenSet |-> {"schemaName"}]

HoneytokenRules ==
  [equal  |-> {"relationName", "action"},
   absent |-> {"schemaName"}]

AnomalyRuleRules ==
  [equal  |-> {"metric"},
   absent |-> {"credentialID", "sigmaThreshold", "floor"},
   plain  |-> {"enabled"}]

ApprovalRuleRules ==
  [equal  |-> {"name"},
   absent |-> {"schemaName", "relationName", "minAffectedRows"},
   list   |-> {"statementKinds"},
   plain  |-> {"enabled"}]

QueryTemplateRules ==
  [equal |-> {"name", "sql"},
   list  |-> {"params"},
   plain |-> {"description", "includeSQL", "enabled"}]

WebhookEndpointRules ==
  [equal   |-> {"url"},
   default |-> {"description"},
   list    |-> {"eventTypes"},
   plain   |-> {"format", "enabled"}]

PolicyProfileRules ==
  [equal   |-> {"name"},
   absent  |-> {"statementRules"},
   plain   |-> {"accessMode", "queryMode"},
   list    |-> {"tableAllowlist", "tableDenylist", "maskingRules",
                "rowFilters", "functionDenylist"},
   default |-> {"budgetQueriesPerHour", "budgetQueriesPerDay", "maxRows",
                "statementTimeoutMs", "writeMode", "approvalMode",
                "approvalAutoMaxRows", "approvalTimeoutSeconds",
                "migrationSafety", "egressBytesPerDay", "maxAffectedRows",
                "contentScanMode", "contentScanMaxBytes"}]

CacheRuleRules ==
  [equal  |-> {"cacheEnabled"},
   absent |-> {"cacheTTLSeconds", "cacheSWRSeconds"}]

SpendLimitRules == [absent |-> {"spendLimit"}]

Rules ==
  [Project |-> ProjectRules, Database |-> DatabaseRules,
   AgentCredential |-> AgentCredentialRules, Honeytoken |-> HoneytokenRules,
   AnomalyRule |-> AnomalyRuleRules, ApprovalRule |-> ApprovalRuleRules,
   QueryTemplate |-> QueryTemplateRules,
   WebhookEndpoint |-> WebhookEndpointRules,
   PolicyProfile |-> PolicyProfileRules, CacheRule |-> CacheRuleRules,
   SpendLimit |-> SpendLimitRules]

-----------------------------------------------------------------------------
(* What Create sends in its POST, and what it leaves to a second call.     *)

ProjectPost == {"name", "description", "tags"}

(* Mutant: the second call forgets a field the POST cannot carry.          *)
ProjectSecondForgetful ==
  {"allowedCidrs", "defaultPolicyProfileID", "residency", "agentsDisabled"}

ProjectSecond ==
  {"allowedCidrs", "defaultPolicyProfileID", "residency", "agentsDisabled",
   "status"}

DatabasePost ==
  {"host", "port", "name", "username", "sslMode", "role", "poolRegion",
   "queryTimeoutMs", "autoReadRouting", "cacheConfig", "poolConfig"}

AgentCredentialSecond == {"status"}

HoneytokenPost == {"schemaName", "relationName", "action"}

AnomalyRulePost ==
  {"credentialID", "metric", "sigmaThreshold", "floor", "enabled"}

ApprovalRulePost ==
  {"name", "statementKinds", "schemaName", "relationName", "minAffectedRows",
   "enabled"}

QueryTemplatePost ==
  {"name", "description", "sql", "params", "includeSQL", "enabled"}

WebhookEndpointPost == {"url", "format", "eventTypes", "enabled", "description"}

PolicyProfilePost ==
  {"name", "accessMode", "tableAllowlist", "tableDenylist", "maskingRules",
   "budgetQueriesPerHour", "budgetQueriesPerDay", "maxRows",
   "statementTimeoutMs", "rowFilters", "writeMode", "approvalMode",
   "approvalAutoMaxRows", "approvalTimeoutSeconds", "migrationSafety",
   "egressBytesPerDay", "maxAffectedRows", "contentScanMode",
   "contentScanMaxBytes", "queryMode", "functionDenylist", "statementRules"}

CacheRulePut  == {"cacheEnabled", "cacheTTLSeconds", "cacheSWRSeconds"}
SpendLimitPut == {"spendLimit"}

Post ==
  [Project |-> ProjectPost, Database |-> DatabasePost,
   AgentCredential |-> {}, Honeytoken |-> HoneytokenPost,
   AnomalyRule |-> AnomalyRulePost, ApprovalRule |-> ApprovalRulePost,
   QueryTemplate |-> QueryTemplatePost, WebhookEndpoint |-> WebhookEndpointPost,
   PolicyProfile |-> PolicyProfilePost, CacheRule |-> CacheRulePut,
   SpendLimit |-> SpendLimitPut]

SecondCall(kind) ==
  CASE kind = "Project"         -> ProjectSecond
    [] kind = "AgentCredential" -> AgentCredentialSecond
    [] OTHER                    -> {}

-----------------------------------------------------------------------------
(* What Update sends.  A PATCH carries the fields that differ from the     *)
(* answer it has just read (onDrift) and those the manifest sets (ifSet).  *)

ProjectPatch ==
  [onDrift |-> {"name", "description", "defaultPolicyProfileID", "residency",
                "agentsDisabled", "status"},
   ifSet   |-> {"tags", "allowedCidrs"}]

DatabasePatch ==
  [onDrift |-> {"host", "port", "name", "username", "sslMode", "role",
                "poolRegion", "queryTimeoutMs", "autoReadRouting"},
   ifSet   |-> {"cacheConfig", "poolConfig"}]

AgentCredentialPatch == [onDrift |-> {"status"}, ifSet |-> {}]

Patch == [Project |-> ProjectPatch, Database |-> DatabasePatch,
          AgentCredential |-> AgentCredentialPatch]

(* A PUT replaces the object by the fields the manifest sets.              *)

HoneytokenPut      == {"schemaName", "relationName", "action"}
AnomalyRulePut     == {"credentialID", "metric", "sigmaThreshold", "floor",
                       "enabled"}
ApprovalRulePut    == {"name", "statementKinds", "schemaName", "relationName",
                       "minAffectedRows", "enabled"}
QueryTemplatePut   == {"name", "description", "sql", "params", "includeSQL",
                       "enabled"}
WebhookEndpointPut == {"url", "format", "eventTypes", "enabled", "description"}

(* Update builds the request Create does.                                  *)
PolicyProfilePut == PolicyProfilePost

Put ==
  [Honeytoken |-> HoneytokenPut, AnomalyRule |-> AnomalyRulePut,
   ApprovalRule |-> ApprovalRulePut, QueryTemplate |-> QueryTemplatePut,
   WebhookEndpoint |-> WebhookEndpointPut, PolicyProfile |-> PolicyProfilePut,
   CacheRule |-> CacheRulePut, SpendLimit |-> SpendLimitPut]

(* CacheRule and SpendLimit write without reading first; Database and      *)
(* WebhookEndpoint write whatever they read, to carry a secret along.      *)
ReadsFirst(kind)   == kind \notin {"CacheRule", "SpendLimit"}
AlwaysWrites(kind) == kind \in {"Database", "WebhookEndpoint"}

(* Kinds whose Create reads a password or a signing secret first.  Update  *)
(* reads it too where it always writes; a project's is sent once only.     *)
CreateReadsSecret(kind) == kind \in {"Project", "Database", "WebhookEndpoint"}

-----------------------------------------------------------------------------
(* Fields the CRD gives a default: the manifest never omits them.          *)

ProjectDefaults  == {"residency"}

DatabaseDefaults == {"role", "queryTimeoutMs", "autoReadRouting"}

PolicyProfileDefaults ==
  {"budgetQueriesPerHour", "budgetQueriesPerDay", "maxRows",
   "statementTimeoutMs", "writeMode", "approvalMode", "approvalAutoMaxRows",
   "approvalTimeoutSeconds", "migrationSafety", "egressBytesPerDay",
   "maxAffectedRows", "contentScanMode", "contentScanMaxBytes", "queryMode"}

Defaulted(kind) ==
  CASE kind = "Project"       -> ProjectDefaults
    [] kind = "Database"      -> DatabaseDefaults
    [] kind = "PolicyProfile" -> PolicyProfileDefaults
    [] OTHER                  -> {}

(* The fields of the kind that the rule `class' compares.                  *)
Class(kind, class) ==
  IF class \in DOMAIN Rules[kind] THEN Rules[kind][class] ELSE {}

Fields(kind) == UNION {Rules[kind][class] : class \in DOMAIN Rules[kind]}

(* Fields that the API refuses to set, at times: a function denylist while  *)
(* an old data plane is enrolled, the templates mode without a template.   *)
Refusable(kind) ==
  IF kind = "PolicyProfile" THEN {"functionDenylist", "queryMode"} ELSE {}

(* A PUT keeps functionDenylist and queryMode when they are omitted.       *)
KeptOnPut(kind) ==
  IF kind = "PolicyProfile" THEN {"functionDenylist", "queryMode"} ELSE {}
=============================================================================
