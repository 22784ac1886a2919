------------------------------ MODULE SpecEdits ------------------------------
(***************************************************************************)
(* Every field of every kind's manifest, and what becomes of an edit to    *)
(* it.  A field is one of three things: immutable, because a rule of the   *)
(* CRD rejects edits; compared, so that the provider carries an edit out;  *)
(* or a secret.  Three sources have to agree on that, the fields of        *)
(* *ForProvider, the rules of *Spec and the up-to-date checks (FieldRules),*)
(* and a fourth, the handlers, on the fields an object is addressed by.    *)
(*                                                                         *)
(* One field is looked at, chosen initially with its kind.                 *)
(***************************************************************************)
EXTENDS FieldRules, Naturals

CONSTANTS
  Values,          \* of a field
  Omitted,         \* the manifest does not set it
  Absent,          \* no object there
  Here,            \* the place of an object that the field does not address
  MaxEdits         \* bound: what users do

ASSUME SpecEditsAssumption ==
  /\ Values # {}
  /\ {Omitted, Absent, Here} \cap Values = {}
  /\ Omitted # Absent
  /\ MaxEdits \in Nat

-----------------------------------------------------------------------------
(* The fields of the manifests.                                            *)

ProjectSpecFields ==
  {"orgID", "name", "description", "tags", "cloud", "selfHosted",
   "allowedCidrs", "defaultPolicyProfileID", "residency", "agentsDisabled",
   "status", "database"}

DatabaseSpecFields ==
  {"projectID", "host", "port", "name", "username", "sslMode", "role",
   "poolRegion", "queryTimeoutMs", "autoReadRouting", "cacheConfig",
   "poolConfig", "passwordSecretRef"}

ReplicaSpecFields == {"databaseID", "host", "port", "sslMode"}

CustomDomainSpecFields == {"projectID", "domain"}

CacheRuleSpecFields ==
  {"queryHash", "databaseID", "projectID", "cacheEnabled", "cacheTTLSeconds",
   "cacheSWRSeconds"}

SpendLimitSpecFields == {"orgID", "spendLimit"}

AgentCredentialSpecFields ==
  {"projectID", "policyProfileID", "name", "status", "principalType",
   "expiresAt"}

PolicyProfileSpecFields ==
  {"projectID", "name", "accessMode", "statementRules", "tableAllowlist",
   "tableDenylist", "maskingRules", "budgetQueriesPerHour",
   "budgetQueriesPerDay", "maxRows", "statementTimeoutMs", "rowFilters",
   "writeMode", "approvalMode", "approvalAutoMaxRows",
   "approvalTimeoutSeconds", "migrationSafety", "egressBytesPerDay",
   "maxAffectedRows", "contentScanMode", "contentScanMaxBytes", "queryMode",
   "functionDenylist"}

WebhookEndpointSpecFields ==
  {"projectID", "url", "format", "eventTypes", "enabled", "description",
   "secretSecretRef"}

SelfHostEnrollmentSpecFields ==
  {"orgID", "regionLabel", "description", "expiresAt"}

HoneytokenSpecFields == {"projectID", "schemaName", "relationName", "action"}

AnomalyRuleSpecFields ==
  {"projectID", "credentialID", "metric", "sigmaThreshold", "floor", "enabled"}

ApprovalRuleSpecFields ==
  {"projectID", "name", "statementKinds", "schemaName", "relationName",
   "minAffectedRows", "enabled"}

QueryTemplateSpecFields ==
  {"projectID", "name", "description", "sql", "params", "includeSQL",
   "enabled"}

SpecFields ==
  [Project |-> ProjectSpecFields, Database |-> DatabaseSpecFields,
   Replica |-> ReplicaSpecFields, CustomDomain |-> CustomDomainSpecFields,
   CacheRule |-> CacheRuleSpecFields, SpendLimit |-> SpendLimitSpecFields,
   AgentCredential |-> AgentCredentialSpecFields,
   PolicyProfile |-> PolicyProfileSpecFields,
   WebhookEndpoint |-> WebhookEndpointSpecFields,
   SelfHostEnrollment |-> SelfHostEnrollmentSpecFields,
   Honeytoken |-> HoneytokenSpecFields, AnomalyRule |-> AnomalyRuleSpecFields,
   ApprovalRule |-> ApprovalRuleSpecFields,
   QueryTemplate |-> QueryTemplateSpecFields]

AllKinds == DOMAIN SpecFields

SecretFields == {"passwordSecretRef", "secretSecretRef"}

-----------------------------------------------------------------------------
(* The fields with a rule: required ones have to stay equal, optional ones *)
(* have to stay unset or equal.                                            *)

InProject == [required |-> {"projectID"}, optional |-> {}]

ProjectFixed ==
  [required |-> {"orgID", "database"}, optional |-> {"cloud", "selfHosted"}]

(* Mutant: an optional field has no rule.                                  *)
ReplicaFixedPartly ==
  [required |-> {"databaseID", "host", "port"}, optional |-> {}]

ReplicaFixed ==
  [required |-> {"databaseID", "host", "port"}, optional |-> {"sslMode"}]

CustomDomainFixed == [required |-> {"projectID", "domain"}, optional |-> {}]

CacheRuleFixed ==
  [required |-> {"queryHash", "databaseID", "projectID"}, optional |-> {}]

SpendLimitFixed == [required |-> {"orgID"}, optional |-> {}]

AgentCredentialFixed ==
  [required |-> {"projectID", "policyProfileID", "name"},
   optional |-> {"principalType", "expiresAt"}]

(* Mutant: the field the object is found under has no rule.                *)
SelfHostEnrollmentFixedPartly ==
  [required |-> {}, optional |-> {"regionLabel", "description", "expiresAt"}]

SelfHostEnrollmentFixed ==
  [required |-> {"orgID"},
   optional |-> {"regionLabel", "description", "expiresAt"}]

Fixed(k) ==
  CASE k = "Project"            -> ProjectFixed
    [] k = "Replica"            -> ReplicaFixed
    [] k = "CustomDomain"       -> CustomDomainFixed
    [] k = "CacheRule"          -> CacheRuleFixed
    [] k = "SpendLimit"         -> SpendLimitFixed
    [] k = "AgentCredential"    -> AgentCredentialFixed
    [] k = "SelfHostEnrollment" -> SelfHostEnrollmentFixed
    [] OTHER                    -> InProject

(* The fields without a comparison that Create sends in a request's body.  *)

ProjectCreate            == {"orgID", "cloud", "selfHosted", "database"}
DatabaseCreate           == {"passwordSecretRef"}
ReplicaCreate            == {"host", "port", "sslMode"}
CustomDomainCreate       == {"domain"}
AgentCredentialCreate    == {"policyProfileID", "name", "principalType",
                             "expiresAt"}
WebhookEndpointCreate    == {"secretSecretRef"}
SelfHostEnrollmentCreate == {"regionLabel", "description", "expiresAt"}

OnlyCreated(k) ==
  CASE k = "Project"            -> ProjectCreate
    [] k = "Database"           -> DatabaseCreate
    [] k = "Replica"            -> ReplicaCreate
    [] k = "CustomDomain"       -> CustomDomainCreate
    [] k = "AgentCredential"    -> AgentCredentialCreate
    [] k = "WebhookEndpoint"    -> WebhookEndpointCreate
    [] k = "SelfHostEnrollment" -> SelfHostEnrollmentCreate
    [] OTHER                    -> {}

(* The fields of the manifest that are in the path of the calls.           *)
Address(k) ==
  CASE k = "Project"                            -> {}
    [] k = "Replica"                            -> {"databaseID"}
    [] k = "CacheRule"                          -> CacheRuleFixed.required
    [] k \in {"SpendLimit", "SelfHostEnrollment"} -> {"orgID"}
    [] OTHER                                    -> {"projectID"}

(* The fields a manifest cannot omit: required by the CRD, or filled in    *)
(* with a default before anything else sees it.                            *)
AgentCredentialDefaults == {"principalType"}

AlwaysSet(k) ==
  Address(k) \cup Fixed(k).required \cup (SpecFields[k] \cap SecretFields)
    \cup Defaulted(k)
    \cup (IF k = "AgentCredential" THEN AgentCredentialDefaults ELSE {})
    \cup (IF k \in DOMAIN Rules THEN Class(k, "equal") ELSE {})

(* What an object is created with, and what an update brings up to date:   *)
(* what is compared, for that starts it, and sent.                         *)
Created(k) ==
  Address(k) \cup OnlyCreated(k)
    \cup (IF k \in DOMAIN Rules THEN Post[k] \cup SecondCall(k) ELSE {})

Updated(k) ==
  CASE k \in DOMAIN Patch -> Fields(k) \cap (Patch[k].onDrift \cup Patch[k].ifSet)
    [] k \in DOMAIN Put   -> Fields(k) \cap Put[k]
    [] OTHER              -> {}

Settings == {"CacheRule", "SpendLimit"}

-----------------------------------------------------------------------------
VARIABLES
  kind, field,     \* what is looked at
  cr,              \* the stored resource, with the value of the field
  my,              \* the reconcile's copy of it
  pc,
  object,          \* at every place: the value of the field, or Absent
  edits

subject == <<kind, field>>
vars == <<subject, cr, my, pc, object, edits>>

Declarable ==
  Values \cup (IF field \in AlwaysSet(kind) THEN {} ELSE {Omitted})

Places == IF field \in Address(kind) THEN Values ELSE {Here}

Place(r) == IF field \in Address(kind) THEN r.value ELSE Here

(* "held": has the finalizer; "version" tells copies of what users wrote   *)
(* apart.                                                                  *)
CR == [stage : {"absent", "applied", "deleting"}, held : BOOLEAN,
       value : Declarable, version : 0..MaxEdits]

TypeOK ==
  /\ kind \in AllKinds
  /\ field \in SpecFields[kind]
  /\ {cr, my} \subseteq CR
  /\ pc \in {"idle", "act", "create"}
  /\ object \in [Places -> Values \cup {Omitted, Absent}]
  /\ edits \in 0..MaxEdits

Init ==
  /\ kind \in AllKinds
  /\ field \in SpecFields[kind]
  /\ cr \in [stage : {"applied"}, held : {FALSE}, value : Declarable,
             version : {0}]
  /\ my = cr
  /\ pc = "idle"
  /\ object = [p \in Places |-> Absent]
  /\ edits = 0

-----------------------------------------------------------------------------
(* The reconcile, each handler in one step.                                *)

Start ==
  /\ pc = "idle"
  /\ cr.stage # "absent"
  /\ my' = cr
  /\ pc' = "act"
  /\ UNCHANGED <<subject, cr, object, edits>>

Found == object[Place(my)] # Absent

(* The finalizer; a resource that was changed meanwhile is a conflict.     *)
Hold ==
  /\ pc = "act"
  /\ my.stage = "applied" /\ ~Found
  /\ cr' = IF my = cr THEN [cr EXCEPT !.held = TRUE] ELSE cr
  /\ my' = cr'
  /\ pc' = IF my = cr THEN "create" ELSE "idle"
  /\ UNCHANGED <<subject, object, edits>>

Create ==
  /\ pc = "create"
  /\ object' = [object EXCEPT
       ![Place(my)] = IF field \in Created(kind) THEN my.value ELSE Omitted]
  /\ pc' = "idle"
  /\ UNCHANGED <<subject, cr, my, edits>>

(* What is not compared, not sent or not set is left as it is (a secret    *)
(* may reach the object when another field differs; not relied on here).   *)
Update ==
  /\ pc = "act"
  /\ my.stage = "applied" /\ Found
  /\ object' = IF field \in Updated(kind) /\ my.value # Omitted
               THEN [object EXCEPT ![Place(my)] = my.value] ELSE object
  /\ pc' = "idle"
  /\ UNCHANGED <<subject, cr, my, edits>>

Delete ==
  /\ pc = "act"
  /\ my.stage = "deleting" /\ Found
  /\ object' = [object EXCEPT ![Place(my)] = Absent]
  /\ pc' = "idle"
  /\ UNCHANGED <<subject, cr, my, edits>>

Release ==
  /\ pc = "act"
  /\ my.stage = "deleting" /\ ~Found
  /\ cr' = IF my = cr THEN [cr EXCEPT !.stage = "absent", !.held = FALSE] ELSE cr
  /\ pc' = "idle"
  /\ UNCHANGED <<subject, my, object, edits>>

Reconcile == Start \/ Hold \/ Create \/ Update \/ Delete \/ Release

-----------------------------------------------------------------------------
(* Users, as far as the CRD lets them.                                     *)

(* Mutant: what is always set may be removed.                              *)
AdmittedUnset(old, new) ==
  /\ field \in Fixed(kind).required => new = old
  /\ field \in Fixed(kind).optional => (new # Omitted => new = old)

Admitted(old, new) ==
  /\ field \in AlwaysSet(kind) => new # Omitted
  /\ field \in Fixed(kind).required => new = old
  /\ field \in Fixed(kind).optional =>
       /\ (new = Omitted) = (old = Omitted)
       /\ new # Omitted => new = old

Edit == edits < MaxEdits /\ edits' = edits + 1

EditSpec ==
  /\ cr.stage # "absent"
  /\ Edit
  /\ \E v \in (Values \cup {Omitted}) \ {cr.value} :
       /\ Admitted(cr.value, v)
       /\ cr' = [cr EXCEPT !.value = v, !.version = edits']
  /\ UNCHANGED <<subject, my, pc, object>>

(* The deletion of a setting never ends (see SettingResource): not here.   *)
RequestDelete ==
  /\ kind \notin Settings
  /\ cr.stage = "applied"
  /\ Edit
  /\ cr' = [cr EXCEPT !.stage = IF cr.held THEN "deleting" ELSE "absent",
                      !.version = edits']
  /\ UNCHANGED <<subject, my, pc, object>>

(* A new resource may have any value.                                      *)
Apply ==
  /\ cr.stage = "absent"
  /\ Edit
  /\ cr' \in [stage : {"applied"}, held : {FALSE}, value : Declarable,
              version : {edits'}]
  /\ UNCHANGED <<subject, my, pc, object>>

Next == Reconcile \/ EditSpec \/ RequestDelete \/ Apply

Spec == Init /\ [][Next]_vars

(* A reconcile is started at every poll and runs on.                       *)
FairSpec == Spec /\ WF_vars(Reconcile)

-----------------------------------------------------------------------------
(* Properties.                                                             *)

(* Whatever is edited, an object is where its resource looks for it: no    *)
(* edit makes the provider create a second object and orphan the first, or *)
(* forget one.                                                             *)
NoneOrphaned ==
  \A p \in Places : object[p] # Absent => cr.stage # "absent" /\ p = Place(cr)

(* A reconcile that ends without anybody having edited the manifest leaves *)
(* an object with the value that is declared: of every field that is set   *)
(* and no secret, Create sends it, and Update does or the CRD has kept it  *)
(* as it was created.                                                      *)
EditsCarried ==
  [][/\ pc \in {"act", "create"} /\ pc' = "idle"
     /\ my = cr /\ cr' = cr
     /\ cr.stage = "applied" /\ cr.value # Omitted
     /\ field \notin SecretFields
     => object'[Place(cr)] = cr.value]_vars

(* No edit is silently ignored: it is rejected, or the object comes to     *)
(* carry it, or the resource is deleted and created with it.  Secrets,     *)
(* which cannot be compared, are the exception.                            *)
EditsTakeEffect ==
  field \notin SecretFields =>
    <>[](cr.stage = "applied" /\ cr.value # Omitted =>
           object[Place(cr)] = cr.value)
=============================================================================
