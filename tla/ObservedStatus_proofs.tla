----------------------- MODULE ObservedStatus_proofs ------------------------
(***************************************************************************)
(* That a walk over the pages of a list that changes meanwhile misses no   *)
(* object, and that a published id is never that of an object which may    *)
(* still be lost: for every kind, list, page size and number of faults.    *)
(***************************************************************************)
EXTENDS ObservedStatus, FiniteSetTheorems, TLAPS

-----------------------------------------------------------------------------
(* Pages.                                                                  *)

(* What is not on a page comes after all that is on it.                    *)
LEMMA PageIsPrefix ==
  ASSUME NEW listed \in SUBSET Nat, IsFiniteSet(listed),
         NEW from \in Nat, NEW size \in Nat,
         NEW k \in After(listed, from), k \notin Page(listed, from, size),
         NEW p \in Page(listed, from, size)
  PROVE  p < k
<1> DEFINE Below(n) == {j \in After(listed, from) : j < n}
<1>1. After(listed, from) \subseteq listed /\ After(listed, from) \subseteq Nat
  BY DEF After
<1>2. p \in After(listed, from) /\ Cardinality(Below(p)) < size
  BY DEF Page
<1>3. ~(Cardinality(Below(k)) < size)
  BY DEF Page
<1>4. SUFFICES ASSUME ~(p < k) PROVE FALSE
  OBVIOUS
<1>5. k \in Nat /\ p \in Nat /\ k <= p
  BY <1>1, <1>2, <1>4
<1>6. Below(k) \subseteq Below(p)
  BY <1>1, <1>5
<1>7. IsFiniteSet(Below(p)) /\ IsFiniteSet(Below(k))
  <2>1. Below(p) \subseteq listed /\ Below(k) \subseteq listed
    BY <1>1
  <2> QED BY <2>1, FS_Subset
<1>8. Cardinality(Below(k)) <= Cardinality(Below(p))
  BY <1>6, <1>7, FS_Subset
<1>9. Cardinality(Below(k)) \in Nat /\ Cardinality(Below(p)) \in Nat
  BY <1>7, FS_CardinalityType
<1> QED BY <1>2, <1>3, <1>8, <1>9

(* The token of a page is below all that is still to come, and moves on.   *)
LEMMA TokenIsBelow ==
  ASSUME NEW listed \in SUBSET Nat, IsFiniteSet(listed),
         NEW from \in Nat, NEW size \in Nat,
         NEW k \in After(listed, from), k \notin Page(listed, from, size),
         NEW t \in NextTokens(listed, from, size)
  PROVE  t < k
  BY PageIsPrefix DEF NextTokens

-----------------------------------------------------------------------------
(* The invariant.                                                          *)

(* Whatever was made is never made again.                                  *)
Ids == IF kind \in Settings THEN {Setting} ELSE used

Known == {object.id, cr.name, cr.status.of, my.of} \subseteq Ids \cup {0}

(* The walk has not passed the object it looks for.                        *)
Ahead ==
  pc = "observe" /\ kind \in Listed /\ kind \notin Settings /\ Sought # 0
    => object.id # Sought \/ token < Sought

(* An object that the resource does not name is one that the pending       *)
(* annotation tells of, and nobody works on a resource that has it before  *)
(* an operator has looked.                                                 *)
Named == kind \notin Settings /\ ~cr.pending => object.id \in {0, cr.name}

Marked == pc # "idle" => (cr.pending <=> pc \in {"create", "record"})

Missing ==
  pc \in {"markPending", "create"} /\ kind \notin Settings => object.id = 0

(* A status is of the object the resource names, or of one that is gone.   *)
Managed(id) == id # 0 => id = Sought \/ id # object.id

(* Between Create and the record of its name.                              *)
Fresh ==
  kind \notin Settings /\ pc = "record" =>
    object.id \in {0, my.of} /\ my.of # cr.status.of

StatusManaged ==
  /\ Managed(cr.status.of)
  /\ pc \notin {"idle", "record"} => Managed(my.of)

IInv ==
  /\ TypeOK
  /\ Known
  /\ Ahead
  /\ Named
  /\ Marked
  /\ Missing
  /\ Fresh
  /\ StatusManaged

-----------------------------------------------------------------------------
(* Types.                                                                  *)

LEMMA KeysAreNumbers ==
  /\ Keys \subseteq 1..MaxKey /\ Others \subseteq 1..MaxKey
  /\ Setting \in Keys
  /\ 0 \notin Keys /\ 0 \notin Others
  BY StatusAssumption DEF Keys, Setting

LEMMA ListIsFinite ==
  TypeOK => List \subseteq 1..MaxKey /\ List \in SUBSET Nat /\ IsFiniteSet(List)
<1> SUFFICES ASSUME TypeOK
             PROVE  /\ List \subseteq 1..MaxKey /\ List \in SUBSET Nat
                    /\ IsFiniteSet(List)
  OBVIOUS
<1>1. List \subseteq 1..MaxKey
  BY KeysAreNumbers DEF TypeOK, List
<1>2. IsFiniteSet(1..MaxKey)
  BY FS_Interval, StatusAssumption
<1>3. IsFiniteSet(List)
  BY <1>1, <1>2, FS_Subset
<1>4. 1..MaxKey \subseteq Nat
  BY StatusAssumption
<1> QED BY <1>1, <1>3, <1>4

(* No handler fills a field that the type of its kind lacks.               *)
LEMMA FilledDeclared ==
  TypeOK =>
    /\ {} \in SUBSET AtProvider[kind]
    /\ Observed \in SUBSET AtProvider[kind]
    /\ Observed \cup CreateOnly(kind) \in SUBSET AtProvider[kind]
<1> SUFFICES ASSUME TypeOK
             PROVE  Filled[kind] \cup CreateOnly(kind) \subseteq AtProvider[kind]
  BY DEF Observed
<1>1. CASE kind = "Project"
  BY <1>1 DEF AtProvider, Filled, CreateOnly,
                ProjectAtProvider, ProjectObservation, Common
<1>2. CASE kind = "Database"
  BY <1>2 DEF AtProvider, Filled, CreateOnly,
                DatabaseAtProvider, DatabaseObservation, Common
<1>3. CASE kind = "Replica"
  BY <1>3 DEF AtProvider, Filled, CreateOnly,
                ReplicaAtProvider, ReplicaObservation, Common
<1>4. CASE kind = "CustomDomain"
  BY <1>4 DEF AtProvider, Filled, CreateOnly,
                CustomDomainAtProvider, CustomDomainObservation, Common
<1>5. CASE kind = "CacheRule"
  BY <1>5 DEF AtProvider, Filled, CreateOnly,
                CacheRuleAtProvider, CacheRuleObservation
<1>6. CASE kind = "SpendLimit"
  BY <1>6 DEF AtProvider, Filled, CreateOnly,
                SpendLimitAtProvider, SpendLimitObservation, Common
<1>7. CASE kind = "AgentCredential"
  BY <1>7 DEF AtProvider, Filled, CreateOnly,
                AgentCredentialAtProvider, AgentCredentialObservation, Common
<1>8. CASE kind = "PolicyProfile"
  BY <1>8 DEF AtProvider, Filled, CreateOnly,
                PolicyProfileAtProvider, PolicyProfileObservation, Common
<1>9. CASE kind = "WebhookEndpoint"
  BY <1>9 DEF AtProvider, Filled, CreateOnly,
                WebhookEndpointAtProvider, WebhookEndpointObservation, Common
<1>10. CASE kind = "SelfHostEnrollment"
  BY <1>10 DEF AtProvider, Filled, CreateOnly,
                SelfHostEnrollmentAtProvider, SelfHostEnrollmentObservation
<1>11. CASE kind = "Honeytoken"
  BY <1>11 DEF AtProvider, Filled, CreateOnly,
                HoneytokenAtProvider, HoneytokenObservation, Common
<1>12. CASE kind = "AnomalyRule"
  BY <1>12 DEF AtProvider, Filled, CreateOnly,
                AnomalyRuleAtProvider, AnomalyRuleObservation, Common
<1>13. CASE kind = "ApprovalRule"
  BY <1>13 DEF AtProvider, Filled, CreateOnly,
                ApprovalRuleAtProvider, ApprovalRuleObservation, Common
<1>14. CASE kind = "QueryTemplate"
  BY <1>14 DEF AtProvider, Filled, CreateOnly,
                QueryTemplateAtProvider, QueryTemplateObservation, Common
<1> QED BY <1>1, <1>2, <1>3, <1>4, <1>5, <1>6, <1>7, <1>8,
       <1>9, <1>10, <1>11, <1>12, <1>13, <1>14,
       StatusAssumption DEF TypeOK, Filled

LEMMA ObservationTypes == TypeOK => Observation(object) \in Statuses
  BY FilledDeclared DEF TypeOK, Observation, Statuses

LEMMA InitTypeOK == Init => TypeOK
<1> SUFFICES ASSUME Init PROVE TypeOK
  OBVIOUS
<1>1. 0 \in 0..MaxChanges /\ 0 \in 0..MaxFaults /\ 0 \in 0..MaxKey
  BY StatusAssumption
<1>2. NoStatus \in Statuses
  BY <1>1 DEF NoStatus, Statuses
<1>3. object \in [id : Keys \cup {0}, version : 0..MaxChanges, verified : BOOLEAN]
  <2>1. object = NoObject \/ object = [NoObject EXCEPT !.id = Setting]
    BY DEF Init
  <2>2. Setting \in Keys
    BY KeysAreNumbers
  <2>3. CASE object = NoObject
    BY <1>1, <2>3 DEF NoObject
  <2>4. CASE object = [NoObject EXCEPT !.id = Setting]
    BY <1>1, <2>2, <2>4 DEF NoObject
  <2> QED BY <2>1, <2>3, <2>4
<1>4. others \subseteq Others
  BY DEF Init
<1> QED BY <1>1, <1>2, <1>3, <1>4 DEF Init, TypeOK

(* A call that ends a lookup.                                              *)
LEMMA ConcludeTypes ==
  ASSUME TypeOK, NEW found \in BOOLEAN, Conclude(found)
  PROVE  TypeOK'
<1>1. my' \in Statuses
  BY ObservationTypes DEF Conclude, TypeOK
<1>2. pc' \in {"markPending", "verify", "storeStatus"}
  BY DEF Conclude
<1>3. UNCHANGED <<kind, object, others, dns, cr, token, used, changes, faults>>
  BY DEF Conclude, api, counters
<1>4. Statuses' = Statuses
  BY <1>3 DEF Statuses, Observed
<1> QED BY <1>1, <1>2, <1>3, <1>4 DEF TypeOK

(* What users and PgBeam do leaves the reconcile alone.                    *)
LEMMA ChangeTypes ==
  ASSUME TypeOK, Change,
         object' \in [id : Keys \cup {0}, version : 0..MaxChanges,
                      verified : BOOLEAN],
         others' \subseteq Others, dns' \in BOOLEAN
  PROVE  TypeOK'
<1>1. changes' \in 0..MaxChanges
  BY StatusAssumption DEF Change, TypeOK
<1>2. UNCHANGED <<kind, cr, my, token, pc, used, faults>>
  BY DEF Change
<1>3. Statuses' = Statuses
  BY <1>2 DEF Statuses, Observed
<1> QED BY <1>1, <1>2, <1>3 DEF TypeOK

LEMMA NextTypeOK == TypeOK /\ [Next]_vars => TypeOK'
<1> SUFFICES ASSUME TypeOK, [Next]_vars PROVE TypeOK'
  OBVIOUS
<1>s. UNCHANGED kind => Statuses' = Statuses
  BY DEF Statuses, Observed
<1> USE DEF api, counters
<1>1. CASE Start
  BY <1>1, <1>s, StatusAssumption DEF Start, TypeOK
<1>2. CASE Get
  <2>1. (Sought # 0 /\ object.id = Sought) \in BOOLEAN
    OBVIOUS
  <2> QED BY <1>2, <2>1, ConcludeTypes DEF Get
<1>3. CASE GetPage
  <2>1. CASE OnPage \/ NoMore
    <3>1. OnPage \in BOOLEAN
      BY DEF OnPage
    <3> QED BY <1>3, <2>1, <3>1, ConcludeTypes DEF GetPage
  <2>2. CASE ~(OnPage \/ NoMore)
    <3>1. token' \in 1..MaxKey
      BY <1>3, <2>2, ListIsFinite DEF GetPage, NextTokens, Page, After
    <3>2. token' \in 0..MaxKey
      BY <3>1, StatusAssumption
    <3> QED BY <1>3, <1>s, <2>2, <3>2 DEF GetPage, TypeOK
  <2> QED BY <2>1, <2>2
<1>4. CASE Verify
  <2>1. object' \in [id : Keys \cup {0}, version : 0..MaxChanges,
                     verified : BOOLEAN]
    BY <1>4 DEF Verify, TypeOK
  <2> QED BY <1>4, <1>s, <2>1 DEF Verify, TypeOK
<1>5. CASE VerifyFails BY <1>5, <1>s DEF VerifyFails, TypeOK
<1>6. CASE MarkPending BY <1>6, <1>s DEF MarkPending, TypeOK
<1>7. CASE Create
  <2>1. PICK k \in Assignable : Makes(k)
    BY <1>7 DEF Create
  <2>2. k \in Keys
    BY KeysAreNumbers DEF Assignable
  <2>3. object' \in [id : Keys \cup {0}, version : 0..MaxChanges,
                     verified : BOOLEAN]
    BY <2>1, <2>2 DEF Makes, NewObject, TypeOK
  <2>4. used' \subseteq Keys
    BY <2>1, <2>2 DEF Makes, TypeOK
  <2>5. my' \in Statuses
    <3>1. my' = [of |-> object'.id, at |-> object'.version,
                 verified |-> object'.verified,
                 fields |-> Observed \cup CreateOnly(kind)]
      BY <1>7 DEF Create, Created, Observation
    <3> QED BY <2>3, <3>1, FilledDeclared DEF Statuses
  <2> QED BY <1>7, <1>s, <2>1, <2>3, <2>4, <2>5 DEF Create, Makes, TypeOK
<1>8. CASE Record
  <2>1. my.of \in Keys \cup {0}
    BY DEF TypeOK, Statuses
  <2>2. my' \in Statuses
    BY <1>8 DEF Record, TypeOK
  <2>3. cr' \in [name : Keys \cup {0}, pending : BOOLEAN, status : Statuses]
    BY <1>8, <2>1 DEF Record, TypeOK
  <2> QED BY <1>8, <1>s, <2>2, <2>3 DEF Record, TypeOK
<1>9. CASE StoreStatus BY <1>9, <1>s DEF StoreStatus, TypeOK
<1>10. CASE Abort
  <2>1. faults' \in 0..MaxFaults
    BY <1>10, StatusAssumption DEF Abort, TypeOK
  <2> QED BY <1>10, <1>s, <2>1 DEF Abort, TypeOK
<1>11. CASE ObjectChanges
  <2>1. object' \in [id : Keys \cup {0}, version : 0..MaxChanges,
                     verified : BOOLEAN]
    BY <1>11, StatusAssumption DEF ObjectChanges, Change, TypeOK
  <2> QED BY <1>11, <2>1, ChangeTypes DEF ObjectChanges, TypeOK
<1>12. CASE ConsoleDelete
  <2>1. object' \in [id : Keys \cup {0}, version : 0..MaxChanges,
                     verified : BOOLEAN]
    BY <1>12, StatusAssumption DEF ConsoleDelete, NoObject
  <2> QED BY <1>12, <2>1, ChangeTypes DEF ConsoleDelete, TypeOK
<1>13. CASE SettingAppears
  <2>0. Setting \in Keys /\ changes' \in 0..MaxChanges
    BY <1>13, KeysAreNumbers, StatusAssumption
       DEF SettingAppears, Change, TypeOK
  <2>1. object' \in [id : Keys \cup {0}, version : 0..MaxChanges,
                     verified : BOOLEAN]
    BY <1>13, <2>0 DEF SettingAppears, NewObject
  <2> QED BY <1>13, <2>1, ChangeTypes DEF SettingAppears, TypeOK
<1>14. CASE OthersChange
  <2>1. others' \subseteq Others
    BY <1>14 DEF OthersChange, TypeOK
  <2> QED BY <1>14, <2>1, ChangeTypes DEF OthersChange, TypeOK
<1>15. CASE EditDNS BY <1>15, ChangeTypes DEF EditDNS, TypeOK
<1>16. CASE OperatorResolve
  <2>1. cr' \in [name : Keys \cup {0}, pending : BOOLEAN, status : Statuses]
    BY <1>16 DEF OperatorResolve, TypeOK
  <2> QED BY <1>16, <1>s, <2>1 DEF OperatorResolve, TypeOK
<1>17. CASE CreateFails
  <2>1. Setting \in Keys /\ faults' \in 0..MaxFaults
    BY <1>17, KeysAreNumbers, StatusAssumption DEF CreateFails, TypeOK
  <2>2. object' \in [id : Keys \cup {0}, version : 0..MaxChanges,
                     verified : BOOLEAN]
    <3>1. object' = object \/ object' = NewObject(Setting)
      BY <1>17 DEF CreateFails
    <3>2. NewObject(Setting) \in [id : Keys \cup {0}, version : 0..MaxChanges,
                                 verified : BOOLEAN]
      BY <2>1 DEF NewObject, TypeOK
    <3> QED BY <3>1, <3>2 DEF TypeOK
  <2> QED BY <1>17, <1>s, <2>1, <2>2 DEF CreateFails, TypeOK
<1>18. CASE UNCHANGED vars BY <1>18, <1>s DEF vars, TypeOK
<1> QED
  BY <1>1, <1>2, <1>3, <1>4, <1>5, <1>6, <1>7, <1>8, <1>9, <1>10, <1>11,
     <1>12, <1>13, <1>14, <1>15, <1>16, <1>17, <1>18 DEF Next, Reconcile

-----------------------------------------------------------------------------
(* The invariant is inductive.                                             *)

LEMMA IdTypes ==
  TypeOK =>
    /\ {object.id, cr.name, cr.status.of, my.of, Sought} \subseteq Keys \cup {0}
    /\ used \subseteq Keys
    /\ Ids \subseteq Keys
<1> SUFFICES ASSUME TypeOK
             PROVE  /\ {object.id, cr.name, cr.status.of, my.of, Sought}
                         \subseteq Keys \cup {0}
                    /\ used \subseteq Keys
                    /\ Ids \subseteq Keys
  OBVIOUS
<1>1. Setting \in Keys
  BY KeysAreNumbers
<1>2. cr.status \in Statuses /\ my \in Statuses
  BY DEF TypeOK
<1>3. cr.status.of \in Keys \cup {0} /\ my.of \in Keys \cup {0}
  BY <1>2 DEF Statuses
<1>4. object.id \in Keys \cup {0} /\ cr.name \in Keys \cup {0}
  BY DEF TypeOK
<1> QED BY <1>1, <1>3, <1>4 DEF TypeOK, Sought, Ids

LEMMA InitIInv == Init => IInv
<1> SUFFICES ASSUME Init PROVE IInv
  OBVIOUS
<1>1. TypeOK
  BY InitTypeOK
<1>2. pc = "idle" /\ cr.name = 0 /\ cr.status.of = 0 /\ my.of = 0
  BY DEF Init, NoStatus
<1>3. object.id \in Ids \cup {0}
  <2>1. CASE kind \in Settings
    BY <2>1 DEF Init, NoObject, Ids
  <2>2. CASE kind \notin Settings
    <3>1. object = NoObject
      BY <2>2 DEF Init, Settings
    <3> QED BY <3>1 DEF NoObject
  <2> QED BY <2>1, <2>2
<1>4. kind \notin Settings => object.id = 0
  BY DEF Init, NoObject, Settings
<1> QED BY <1>1, <1>2, <1>3, <1>4
       DEF IInv, Known, Ahead, Named, Marked, Missing, Fresh, StatusManaged, Managed

(* What a lookup that finds something has found is what it looked for.     *)
LEMMA FoundIsSought == TypeOK /\ OnPage => Sought # 0 /\ object.id = Sought
<1> SUFFICES ASSUME TypeOK, OnPage PROVE Sought # 0 /\ object.id = Sought
  OBVIOUS
<1>1. Sought \in List
  BY DEF OnPage, Page, After
<1>2. Sought \in Keys \cup {0}
  BY IdTypes
<1> QED BY <1>1, <1>2, KeysAreNumbers DEF List, TypeOK, Keys

(* The list of a lookup that finds nothing does not hold what it looked    *)
(* for.                                                                    *)
LEMMA NotFoundIsMissing ==
  TypeOK /\ Ahead /\ pc = "observe" /\ kind \in Listed /\ NoMore /\ ~OnPage
    => kind \in Settings \/ object.id = 0 \/ object.id # Sought
<1> SUFFICES ASSUME TypeOK, Ahead, pc = "observe", kind \in Listed, NoMore,
                    ~OnPage, kind \notin Settings, object.id # 0,
                    object.id = Sought
             PROVE  FALSE
  OBVIOUS
<1>1. token < Sought
  BY DEF Ahead
<1>2. Sought \in After(List, token)
  BY <1>1 DEF After, List
<1> QED BY <1>2 DEF NoMore, IsLast, OnPage

(* The end of a lookup keeps the invariant.                                *)
LEMMA ConcludeIInv ==
  ASSUME IInv, TypeOK', NEW found \in BOOLEAN, Conclude(found),
         found => object.id = Sought,
         ~found => kind \in Settings \/ object.id = 0 \/ object.id # cr.name,
         pc = "observe"
  PROVE  IInv'
<1>1. UNCHANGED <<kind, object, cr, used>>
  BY DEF Conclude, api, counters
<1>2. Sought' = Sought /\ Ids' = Ids
  BY <1>1 DEF Sought, Ids
<1>3. my'.of \in {my.of, object.id} /\ Managed(my.of)
      /\ (my'.of = my.of \/ object.id = Sought)
  BY DEF Conclude, Observation, IInv, StatusManaged
<1>4. pc' \in {"markPending", "verify", "storeStatus"}
      /\ (pc' = "markPending" => ~found)
  BY DEF Conclude
<1> QED BY <1>1, <1>2, <1>3, <1>4
       DEF IInv, Known, Ahead, Named, Marked, Missing, Fresh, StatusManaged, Managed

(* What PgBeam does to the object keeps it or removes it; a setting may    *)
(* come back.                                                              *)
LEMMA ChangeIInv ==
  ASSUME IInv, TypeOK', Change,
         \/ object'.id \in {object.id, 0}
         \/ kind \in Settings /\ object'.id = Setting
  PROVE  IInv'
<1>1. UNCHANGED <<kind, cr, my, token, pc, used>>
  BY DEF Change
<1>2. Sought' = Sought /\ Ids' = Ids
  BY <1>1 DEF Sought, Ids
<1>3. CASE object'.id \in {object.id, 0}
  BY <1>1, <1>2, <1>3
     DEF IInv, Known, Ahead, Named, Marked, Missing, Fresh, StatusManaged, Managed
<1>4. CASE kind \in Settings /\ object'.id = Setting
  <2>1. Sought = Setting /\ Ids = {Setting}
    BY <1>4 DEF Sought, Ids
  <2> QED BY <1>1, <1>2, <1>4, <2>1
         DEF IInv, Known, Ahead, Named, Marked, Missing, Fresh, StatusManaged, Managed
<1> QED BY <1>3, <1>4

LEMMA NextIInv == IInv /\ [Next]_vars => IInv'
<1> SUFFICES ASSUME IInv, [Next]_vars PROVE IInv'
  OBVIOUS
<1>t. TypeOK /\ TypeOK'
  BY NextTypeOK DEF IInv
<1>s. UNCHANGED <<kind, cr, used>> => Sought' = Sought /\ Ids' = Ids
  BY DEF Sought, Ids
<1>i. /\ {object.id, cr.name, cr.status.of, my.of, Sought} \subseteq Keys \cup {0}
      /\ used \subseteq Keys /\ Ids \subseteq Keys
      /\ Keys \subseteq 1..MaxKey /\ 0 \notin Keys
  BY <1>t, IdTypes, KeysAreNumbers
<1> USE DEF api, counters, Known, Ahead, Named, Marked, Missing, Fresh,
            StatusManaged, Managed
<1>1. CASE Start
  <2>1. Sought # 0 => 0 < Sought
    <3>1. Sought \in (1..MaxKey) \cup {0} /\ MaxKey \in Nat
      BY <1>i, StatusAssumption
    <3> QED BY <3>1
  <2>2. my' = cr.status /\ token' = 0 /\ pc = "idle" /\ pc' = "observe"
        /\ ~cr.pending /\ UNCHANGED <<kind, object, cr, used>>
    BY <1>1 DEF Start
  <2> QED BY <1>t, <1>s, <2>1, <2>2 DEF IInv
<1>2. CASE Get
  <2> DEFINE found == Sought # 0 /\ object.id = Sought
  <2>1. found \in BOOLEAN /\ Conclude(found) /\ pc = "observe"
    BY <1>2 DEF Get
  <2>2. ~found => kind \in Settings \/ object.id = 0 \/ object.id # cr.name
    BY DEF Sought
  <2>3. found => object.id = Sought
    OBVIOUS
  <2> HIDE DEF found
  <2> QED BY <1>t, <2>1, <2>2, <2>3, ConcludeIInv
<1>3. CASE GetPage
  <2>1. pc = "observe" /\ kind \in Listed
    BY <1>3 DEF GetPage
  <2>2. CASE OnPage \/ NoMore
    <3>1. OnPage \in BOOLEAN /\ Conclude(OnPage)
      BY <1>3, <2>2 DEF GetPage, OnPage
    <3>2. OnPage => object.id = Sought
      BY <1>t, FoundIsSought
    <3>3. ~OnPage => kind \in Settings \/ object.id = 0 \/ object.id # Sought
      BY <1>t, <2>1, <2>2, NotFoundIsMissing DEF IInv
    <3>4. kind \notin Settings => Sought = cr.name
      BY DEF Sought
    <3> QED BY <1>t, <2>1, <3>1, <3>2, <3>3, <3>4, ConcludeIInv
  <2>3. CASE ~(OnPage \/ NoMore)
    <3>1. token' \in NextTokens(List, token, PageSize)
          /\ UNCHANGED <<kind, object, cr, my, pc, used>>
      BY <1>3, <2>3 DEF GetPage
    <3>2. ASSUME kind \notin Settings, Sought # 0, object.id = Sought
          PROVE  token' < Sought
      <4>1. token < Sought
        BY <2>1, <3>2 DEF IInv
      <4>2. /\ Sought \in After(List, token)
            /\ Sought \notin Page(List, token, PageSize)
        BY <2>3, <3>2, <4>1 DEF After, List, OnPage
      <4>3. token \in Nat /\ PageSize \in Nat
        BY <1>t, StatusAssumption DEF TypeOK
      <4> QED BY <1>t, <3>1, <4>2, <4>3, ListIsFinite, TokenIsBelow
    <3> QED BY <1>t, <1>s, <2>1, <3>1, <3>2 DEF IInv
  <2> QED BY <2>2, <2>3
<1>4. CASE Verify
  <2>1. object'.id = object.id
    BY <1>4, <1>t DEF Verify, TypeOK
  <2> QED BY <1>4, <1>t, <1>s, <2>1 DEF Verify, IInv
<1>5. CASE VerifyFails BY <1>5, <1>t, <1>s DEF VerifyFails, IInv
<1>6. CASE MarkPending
  <2>1. cr'.name = cr.name /\ cr'.status = cr.status /\ cr'.pending
        /\ Sought' = Sought /\ Ids' = Ids
    BY <1>6, <1>t DEF MarkPending, TypeOK, Sought, Ids
  <2>2. /\ pc = "markPending" /\ pc' = "create"
        /\ UNCHANGED <<kind, object, my, used>>
    BY <1>6 DEF MarkPending
  <2> QED BY <1>t, <2>1, <2>2 DEF IInv
<1>7. CASE Create
  <2>1. PICK k \in Assignable : Makes(k)
    BY <1>7 DEF Create
  <2>2. /\ pc = "create" /\ pc' = "record" /\ my'.of = object'.id
        /\ UNCHANGED <<kind, cr>>
    BY <1>7 DEF Create, Created, Observation
  <2>3. object'.id = k
    BY <2>1 DEF Makes, NewObject
  <2>4. CASE kind \in Settings
    <3>1. k = Setting /\ Ids = {Setting} /\ Ids' = {Setting} /\ Sought' = Setting
      BY <2>2, <2>4 DEF Assignable, Ids, Sought
    <3> QED BY <1>t, <2>2, <2>3, <2>4, <3>1 DEF IInv
  <2>5. CASE kind \notin Settings
    <3>1. /\ k \in Keys /\ k \notin used /\ used' = used \cup {k}
          /\ Ids = used /\ Ids' = used'
      BY <2>1, <2>2, <2>5 DEF Assignable, Makes, Ids
    <3>2. cr.status.of \in used \cup {0} /\ cr.name \in used \cup {0}
      BY <3>1 DEF IInv
    <3> QED BY <1>t, <1>i, <2>2, <2>3, <2>5, <3>1, <3>2 DEF IInv
  <2> QED BY <2>4, <2>5
<1>8. CASE Record
  <2>1. /\ cr'.name = my.of /\ cr'.status = cr.status /\ ~cr'.pending
        /\ my'.of \in {my.of, cr.status.of}
        /\ pc = "record" /\ pc' = "storeStatus"
        /\ UNCHANGED <<kind, object, used>>
    BY <1>8, <1>t DEF Record, TypeOK
  <2>2. CASE kind \in Settings
    <3>1. Sought' = Setting /\ Ids' = {Setting} /\ Ids = {Setting}
      BY <2>1, <2>2 DEF Sought, Ids
    <3> QED BY <1>t, <2>1, <2>2, <3>1 DEF IInv
  <2>3. CASE kind \notin Settings
    <3>1. Sought' = my.of /\ Ids' = Ids
      BY <2>1, <2>3 DEF Sought, Ids
    <3>2. object.id \in {0, my.of} /\ my.of # cr.status.of
      BY <2>1, <2>3 DEF IInv
    <3> QED BY <1>t, <2>1, <2>3, <3>1, <3>2 DEF IInv
  <2> QED BY <2>2, <2>3
<1>9. CASE StoreStatus
  <2>1. /\ cr'.name = cr.name /\ cr'.status = my /\ cr'.pending = cr.pending
        /\ pc = "storeStatus" /\ pc' = "idle"
        /\ UNCHANGED <<kind, object, my, used>>
    BY <1>9, <1>t DEF StoreStatus, TypeOK
  <2>2. Sought' = Sought /\ Ids' = Ids
    BY <2>1 DEF Sought, Ids
  <2> QED BY <1>t, <2>1, <2>2 DEF IInv
<1>10. CASE Abort BY <1>10, <1>t, <1>s DEF Abort, IInv
<1>11. CASE ObjectChanges
  <2>1. object'.id = object.id
    BY <1>11, <1>t DEF ObjectChanges, TypeOK
  <2> QED BY <1>11, <1>t, <2>1, ChangeIInv DEF ObjectChanges
<1>12. CASE ConsoleDelete
  <2>1. object'.id = 0
    BY <1>12 DEF ConsoleDelete, NoObject
  <2> QED BY <1>12, <1>t, <2>1, ChangeIInv DEF ConsoleDelete
<1>13. CASE SettingAppears
  <2>1. kind \in Settings /\ object'.id = Setting
    BY <1>13 DEF SettingAppears, NewObject, Settings
  <2> QED BY <1>13, <1>t, <2>1, ChangeIInv DEF SettingAppears
<1>14. CASE OthersChange BY <1>14, <1>t, ChangeIInv DEF OthersChange
<1>15. CASE EditDNS BY <1>15, <1>t, ChangeIInv DEF EditDNS
<1>16. CASE OperatorResolve
  <2>1. /\ cr'.name \in {cr.name, object.id} /\ cr'.status = cr.status
        /\ pc = "idle" /\ UNCHANGED <<kind, object, my, pc, used>>
        /\ (object.id # 0 => cr'.name = object.id)
    BY <1>16, <1>t DEF OperatorResolve, TypeOK, NoObject
  <2>2. Ids' = Ids
    BY <2>1 DEF Ids
  <2>3. Sought' = IF kind \in Settings THEN Sought ELSE cr'.name
    BY <2>1 DEF Sought
  <2> QED BY <1>t, <2>1, <2>2, <2>3 DEF IInv
<1>17. CASE CreateFails
  <2>1. /\ cr'.name = cr.name /\ cr'.status = cr.status /\ ~cr'.pending
        /\ pc = "create" /\ pc' = "idle" /\ UNCHANGED <<kind, my, used>>
    BY <1>17, <1>t DEF CreateFails, TypeOK
  <2>2. Sought' = Sought /\ Ids' = Ids
    BY <2>1 DEF Sought, Ids
  <2>3. CASE object' = object
    BY <1>t, <2>1, <2>2, <2>3 DEF IInv
  <2>4. CASE object' # object
    <3>1. kind \in Settings /\ object'.id = Setting
      BY <1>17, <2>4 DEF CreateFails, NewObject
    <3> QED BY <1>t, <2>1, <2>2, <3>1 DEF IInv, Sought, Ids
  <2> QED BY <2>3, <2>4
<1>18. CASE UNCHANGED vars BY <1>18, <1>t, <1>s DEF vars, IInv
<1> QED
  BY <1>1, <1>2, <1>3, <1>4, <1>5, <1>6, <1>7, <1>8, <1>9, <1>10, <1>11,
     <1>12, <1>13, <1>14, <1>15, <1>16, <1>17, <1>18 DEF Next, Reconcile

LEMMA Inductive == Spec => []IInv
  BY InitIInv, NextIInv, PTL DEF Spec

-----------------------------------------------------------------------------
(* The theorems.                                                           *)

(* TypeOK, for every kind, list and bound.                                 *)
THEOREM StatusTypes == Spec => []TypeOK
<1>1. IInv => TypeOK
  BY DEF IInv
<1> QED BY <1>1, Inductive, PTL

(* PublishedIsManaged: Create, the record of the external name and the     *)
(* status update may be torn apart by crashes and deletions, and still the *)
(* id in the status is never that of an object the resource does not name. *)
THEOREM PublishedIdManaged == Spec => []PublishedIsManaged
<1>1. IInv => PublishedIsManaged
  BY DEF IInv, StatusManaged, Managed, PublishedIsManaged
<1> QED BY <1>1, Inductive, PTL

(* AbsentIsAbsent: the list endpoints are walked page by page while other  *)
(* objects come and go, and Create follows only if the object was in none  *)
(* of the pages; the pending annotation and the record of the external     *)
(* name leave it none to make a second one of.                             *)
THEOREM AbsentWasAbsent == Spec => []AbsentIsAbsent
<1>1. IInv => AbsentIsAbsent
  BY IdTypes DEF IInv, Missing, AbsentIsAbsent
<1> QED BY <1>1, Inductive, PTL
=============================================================================
