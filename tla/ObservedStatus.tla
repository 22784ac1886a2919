--------------------------- MODULE ObservedStatus ----------------------------
(***************************************************************************)
(* status.atProvider of a managed resource: Create and every Observe       *)
(* replace the whole of it by what their answer holds, and the reconciler  *)
(* stores it at the end of the reconcile.  Other resources take ids from   *)
(* it, so it matters when it changes and what stays in it.                 *)
(*                                                                         *)
(* A status is modelled by the object it was built from, the version of    *)
(* the object at that time and the set of fields that are in it.           *)
(*                                                                         *)
(* Four kinds have no GET of one object: Observe walks the pages of a list *)
(* in which other objects come and go, one call after the other, and takes *)
(* the object for absent when the pages end.  For a CustomDomain, Observe  *)
(* also asks PgBeam to check the domain's DNS record as long as the domain *)
(* is unverified.  A CacheRule or a SpendLimit configures a setting that   *)
(* is looked up by the manifest and may have been there before.            *)
(***************************************************************************)
EXTENDS ListPages, StatusRules

CONSTANTS
  Kinds,           \* the kinds of resource of an instance
  MaxKey,          \* bound: keys are 1..MaxKey
  Others,          \* keys of objects that are not this resource's
  PageSize,        \* of the API
  MaxChanges,      \* bound: changes of objects and of the DNS record
  MaxFaults        \* bound: crashes, failed calls, conflicts

ASSUME StatusAssumption ==
  /\ Kinds \subseteq DOMAIN Filled
  /\ {MaxKey, PageSize, MaxChanges, MaxFaults} \subseteq Nat
  /\ PageSize > 0 /\ MaxKey > 0
  /\ Others \subseteq 1..(MaxKey - 1)

VARIABLES
  kind,
  object,          \* the PgBeam object, or NoObject
  others,          \* the objects listed beside it
  dns,             \* the user's DNS record is in place
  cr,              \* the stored resource: external name, pending, status
  my,              \* the status of the reconcile's copy
  token,           \* the page token of the lookup
  pc,
  used, changes, faults

api == <<object, others, dns>>
counters == <<used, changes, faults>>
vars == <<kind, api, cr, my, token, pc, counters>>

-----------------------------------------------------------------------------

Keys == (1..MaxKey) \ Others

Settings == {"CacheRule", "SpendLimit"}
Listed   == {"Replica", "CustomDomain", "SelfHostEnrollment", "CacheRule"}

(* The place of a setting in the list of all of them, the last one.        *)
Setting == MaxKey

(* The key that Observe looks for; 0 is metadata.name, which no object has.*)
Sought == IF kind \in Settings THEN Setting ELSE cr.name

Observed == Filled[kind]

NoObject == [id |-> 0, version |-> 0, verified |-> FALSE]
NoStatus == [of |-> 0, at |-> 0, verified |-> FALSE, fields |-> {}]

NewObject(k) == [id |-> k, version |-> changes, verified |-> FALSE]

(* Mutant: the version is that of the next answer.                         *)
ObservationAhead(o) ==
  [of |-> o.id, at |-> o.version + 1, verified |-> o.verified,
   fields |-> Observed]

Observation(o) ==
  [of |-> o.id, at |-> o.version, verified |-> o.verified, fields |-> Observed]

Statuses ==
  [of : Keys \cup {0}, at : 0..MaxChanges, verified : BOOLEAN,
   fields : SUBSET AtProvider[kind]]

TypeOK ==
  /\ kind \in Kinds
  /\ object \in [id : Keys \cup {0}, version : 0..MaxChanges,
                 verified : BOOLEAN]
  /\ others \subseteq Others
  /\ dns \in BOOLEAN
  /\ cr \in [name : Keys \cup {0}, pending : BOOLEAN, status : Statuses]
  /\ my \in Statuses
  /\ token \in 0..MaxKey
  /\ pc \in {"idle", "observe", "verify", "markPending", "create", "record",
             "storeStatus"}
  /\ used \subseteq Keys
  /\ changes \in 0..MaxChanges
  /\ faults \in 0..MaxFaults

Init ==
  /\ kind \in Kinds
  /\ object \in (IF kind = "SpendLimit" THEN {} ELSE {NoObject}) \cup
       (IF kind \in Settings THEN {[NoObject EXCEPT !.id = Setting]} ELSE {})
  /\ others \in IF kind \in Listed THEN SUBSET Others ELSE {{}}
  /\ dns = FALSE
  /\ cr = [name |-> 0, pending |-> FALSE, status |-> NoStatus]
  /\ my = NoStatus
  /\ token = 0
  /\ pc = "idle"
  /\ used = {}
  /\ changes = 0
  /\ faults = 0

-----------------------------------------------------------------------------
(* The reconcile.                                                          *)

Start ==
  /\ pc = "idle"
  /\ ~cr.pending
  /\ my' = cr.status
  /\ token' = 0
  /\ pc' = "observe"
  /\ UNCHANGED <<kind, api, cr, counters>>

(* Mutant: an object that is there leaves the status as it was.            *)
ConcludeKeeps(found) ==
  /\ my' = my
  /\ pc' = CASE ~found -> "markPending"
             [] found /\ kind = "CustomDomain" /\ ~object.verified -> "verify"
             [] OTHER -> "storeStatus"
  /\ UNCHANGED <<kind, api, cr, token, counters>>

(* Mutant: the DNS record is never checked again.                          *)
ConcludeOnly(found) ==
  /\ my' = IF found THEN Observation(object) ELSE my
  /\ pc' = IF found THEN "storeStatus" ELSE "markPending"
  /\ UNCHANGED <<kind, api, cr, token, counters>>

(* The lookup has an answer: the object as it is now, or none.             *)
Conclude(found) ==
  /\ my' = IF found THEN Observation(object) ELSE my
  /\ pc' = CASE ~found -> "markPending"
             [] found /\ kind = "CustomDomain" /\ ~object.verified -> "verify"
             [] OTHER -> "storeStatus"
  /\ UNCHANGED <<kind, api, cr, token, counters>>

Get ==
  /\ pc = "observe"
  /\ kind \notin Listed
  /\ Conclude(Sought # 0 /\ object.id = Sought)

List == (others \cup {object.id}) \ {0}

OnPage == Sought \in Page(List, token, PageSize)
NoMore == IsLast(List, token, PageSize)

(* Mutant: only the first page is read.                                    *)
GetFirstPage ==
  /\ pc = "observe"
  /\ kind \in Listed
  /\ Conclude(OnPage)

(* Mutant: the token is not passed on.                                     *)
GetSamePage ==
  /\ pc = "observe"
  /\ kind \in Listed
  /\ IF OnPage \/ NoMore THEN Conclude(OnPage) ELSE UNCHANGED vars

(* One page: the object is on it, or the list ends, or the walk goes on.   *)
GetPage ==
  /\ pc = "observe"
  /\ kind \in Listed
  /\ IF OnPage \/ NoMore
     THEN Conclude(OnPage)
     ELSE /\ token' \in NextTokens(List, token, PageSize)
          /\ UNCHANGED <<kind, api, cr, my, pc, counters>>

(* The check may fail, and is not repeated before the next Observe.  Its   *)
(* result changes the object, but of the answer only fields that the       *)
(* status is not built from.                                               *)
Verify ==
  /\ pc = "verify"
  /\ pc' = "storeStatus"
  /\ object' = IF object.id = cr.name
               THEN [object EXCEPT !.verified = @ \/ dns] ELSE object
  /\ UNCHANGED <<kind, others, dns, cr, my, token, counters>>

VerifyFails ==
  /\ pc = "verify"
  /\ pc' = "storeStatus"
  /\ UNCHANGED <<kind, api, cr, my, token, counters>>

MarkPending ==
  /\ pc = "markPending"
  /\ cr' = [cr EXCEPT !.pending = TRUE]
  /\ pc' = "create"
  /\ UNCHANGED <<kind, api, my, token, counters>>

Created(o) ==
  [Observation(o) EXCEPT !.fields = @ \cup CreateOnly(kind)]

(* PgBeam makes an object under an unused key, or the setting: the PUT of  *)
(* one it does not have is taken to make it, as Create supposes.  One that *)
(* has come back meanwhile is answered as it is.                           *)
Makes(k) ==
  /\ k \notin used
  /\ object' = IF object.id = k THEN object ELSE NewObject(k)
  /\ used' = IF kind \in Settings THEN used ELSE used \cup {k}
  /\ UNCHANGED <<others, dns, changes, faults>>

Assignable == IF kind \in Settings THEN {Setting} ELSE Keys

(* Mutant: Create stores the status itself.                                *)
CreateStores ==
  /\ pc = "create"
  /\ \E k \in Assignable : Makes(k)
  /\ my' = Created(object')
  /\ cr' = [cr EXCEPT !.status = my']
  /\ pc' = "record"
  /\ UNCHANGED <<kind, token>>

Create ==
  /\ pc = "create"
  /\ \E k \in Assignable : Makes(k)
  /\ my' = Created(object')
  /\ pc' = "record"
  /\ UNCHANGED <<kind, cr, token>>

(* The external name is stored; what the API server answers may replace    *)
(* the status of the copy by the stored one.                               *)
Record ==
  /\ pc = "record"
  /\ cr' = [cr EXCEPT !.name = my.of, !.pending = FALSE]
  /\ my' \in {my, cr.status}
  /\ pc' = "storeStatus"
  /\ UNCHANGED <<kind, api, token, counters>>

StoreStatus ==
  /\ pc = "storeStatus"
  /\ cr' = [cr EXCEPT !.status = my]
  /\ pc' = "idle"
  /\ UNCHANGED <<kind, api, my, token, counters>>

Reconcile ==
  Start \/ Get \/ GetPage \/ Verify \/ VerifyFails \/ MarkPending \/ Create
    \/ Record \/ StoreStatus

(* A crash, a failed call (of any page) or a conflict; a failed Create is  *)
(* another matter.                                                         *)
Abort ==
  /\ pc # "idle"
  /\ faults < MaxFaults
  /\ faults' = faults + 1
  /\ pc' = "idle"
  /\ UNCHANGED <<kind, api, cr, my, token, used, changes>>

(* Create ends in an error, and with it the pending annotation goes.  The  *)
(* PUT of a setting may have taken effect.  What a POST made before its    *)
(* answer was lost is nobody's any more and not followed here: it is among *)
(* the leaked objects of ManagedResource.                                  *)
CreateFails ==
  /\ pc = "create"
  /\ faults < MaxFaults
  /\ faults' = faults + 1
  /\ object' \in {object} \cup
       (IF kind \in Settings /\ object = NoObject THEN {NewObject(Setting)}
                                                ELSE {})
  /\ cr' = [cr EXCEPT !.pending = FALSE]
  /\ pc' = "idle"
  /\ UNCHANGED <<kind, others, dns, my, token, used, changes>>

-----------------------------------------------------------------------------
(* PgBeam, its users and operators.                                        *)

Change ==
  /\ changes < MaxChanges
  /\ changes' = changes + 1
  /\ UNCHANGED <<kind, cr, my, token, pc, used, faults>>

ObjectChanges ==
  /\ object # NoObject
  /\ Change
  /\ object' = [object EXCEPT !.version = changes']
  /\ UNCHANGED <<others, dns>>

(* A cache rule goes with its query shape; an organization's plan stays.   *)
ConsoleDelete ==
  /\ object # NoObject
  /\ kind # "SpendLimit"
  /\ Change
  /\ object' = NoObject
  /\ UNCHANGED <<others, dns>>

SettingAppears ==
  /\ kind = "CacheRule"
  /\ object = NoObject
  /\ Change
  /\ object' = [NewObject(Setting) EXCEPT !.version = changes']
  /\ UNCHANGED <<others, dns>>

OthersChange ==
  /\ kind \in Listed
  /\ Change
  /\ \E k \in Others :
       others' = IF k \in others THEN others \ {k} ELSE others \cup {k}
  /\ UNCHANGED <<object, dns>>

EditDNS ==
  /\ kind = "CustomDomain"
  /\ Change
  /\ dns' = ~dns
  /\ UNCHANGED <<object, others>>

(* After a crash inside Create: name the object it made, if it did.        *)
OperatorResolve ==
  /\ cr.pending
  /\ pc = "idle"
  /\ cr' = [cr EXCEPT !.pending = FALSE,
                      !.name = IF object # NoObject THEN object.id ELSE @]
  /\ UNCHANGED <<kind, api, my, token, pc, counters>>

Next ==
  \/ Reconcile \/ Abort \/ CreateFails
  \/ ObjectChanges \/ ConsoleDelete \/ SettingAppears \/ OthersChange
  \/ EditDNS \/ OperatorResolve

Spec == Init /\ [][Next]_vars

(* A reconcile is started at every poll and runs on; of the checks that    *)
(* are asked for again and again, one is answered.                         *)
FairSpec == Spec /\ WF_vars(Reconcile) /\ SF_vars(Verify)

-----------------------------------------------------------------------------
(* Properties.                                                             *)

(* An id that is published, for other resources to refer to, is that of    *)
(* the object the resource manages or of one that is gone: never of an     *)
(* object a crash may still make it lose, through Create, its record, a    *)
(* deletion in the console and another Create.                             *)
PublishedIsManaged ==
  cr.status.of # 0 => cr.status.of = Sought \/ cr.status.of # object.id

(* What a lookup takes for absent is absent, in spite of the objects that  *)
(* came and went while it walked the list: Create never makes a second     *)
(* object beside one that was on a page all the time, nor, of a kind with  *)
(* a server-assigned identifier, beside one whose record a crash cut off.  *)
(* It may make one beside an object whose POST answered with an error or   *)
(* not at all: CreateFails leaves those out, ManagedResource bounds them.  *)
AbsentIsAbsent ==
  pc \in {"markPending", "create"} /\ kind \notin Settings => object.id = 0

(* Once faults and changes stop the status is that of the object as it is: *)
(* the pages of a list end, and a failed check of the DNS record does not  *)
(* keep the status back.                                                   *)
StatusCatchesUp ==
  <>[](~cr.pending =>
         /\ cr.status.of = object.id
         /\ cr.status.at = object.version
         /\ cr.status.verified = object.verified)

(* A domain converges toward verified as long as its record is in place,   *)
(* through reconciles that find nothing to change.                         *)
VerificationConverges ==
  <>[](kind = "CustomDomain" /\ dns /\ ~cr.pending => object.verified)

(* The MCP URL is exposed in the status: while its object lives it does    *)
(* not disappear again.                                                    *)
CreateOnlyKept ==
  [][/\ object'.id = object.id
     /\ cr.status.of = object.id
     /\ cr'.status.of = cr.status.of
     => CreateOnly(kind) \cap cr.status.fields \subseteq cr'.status.fields]_vars
=============================================================================
