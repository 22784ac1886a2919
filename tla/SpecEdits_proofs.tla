-------------------------- MODULE SpecEdits_proofs --------------------------
(***************************************************************************)
(* That no edit orphans an object and none is ignored, for every kind and  *)
(* field and for any values and number of edits.                           *)
(***************************************************************************)
EXTENDS SpecEdits, TLAPS

(* Every field that an object is addressed by has a rule that keeps it     *)
(* equal: the tables of types.gen.go against those of the handlers.        *)
LEMMA AddressFixed == \A k : Address(k) \subseteq Fixed(k).required
  BY DEF Address, Fixed, InProject, ProjectFixed, ReplicaFixed,
         CustomDomainFixed, CacheRuleFixed, SpendLimitFixed,
         AgentCredentialFixed, SelfHostEnrollmentFixed

(* Create sends whatever the manifest sets but a secret, and what Update   *)
(* does not send has a rule: an edit of it is rejected.                    *)
NoneIgnored(k) ==
  \A f \in SpecFields[k] \ SecretFields :
    /\ f \in Created(k)
    /\ f \in Updated(k) \cup Fixed(k).required \cup Fixed(k).optional

LEMMA NoFieldIgnored == \A k \in AllKinds : NoneIgnored(k)
<1> USE DEF NoneIgnored, SpecFields, SecretFields, Created, Updated, Fixed,
            Address, OnlyCreated, Post, SecondCall, Rules, Fields, Patch, Put
<1>1. NoneIgnored("Project")
  BY DEF ProjectSpecFields, ProjectFixed, ProjectCreate, ProjectPost,
         ProjectSecond, ProjectPatch, ProjectRules
<1>2. NoneIgnored("Database")
  BY DEF DatabaseSpecFields, InProject, DatabaseCreate, DatabasePost,
         DatabasePatch, DatabaseRules
<1>3. NoneIgnored("Replica")
  BY DEF ReplicaSpecFields, ReplicaFixed, ReplicaCreate
<1>4. NoneIgnored("CustomDomain")
  BY DEF CustomDomainSpecFields, CustomDomainFixed, CustomDomainCreate
<1>5. NoneIgnored("CacheRule")
  BY DEF CacheRuleSpecFields, CacheRuleFixed, CacheRulePut, CacheRuleRules
<1>6. NoneIgnored("SpendLimit")
  BY DEF SpendLimitSpecFields, SpendLimitFixed, SpendLimitPut, SpendLimitRules
<1>7. NoneIgnored("AgentCredential")
  BY DEF AgentCredentialSpecFields, AgentCredentialFixed, AgentCredentialCreate,
         AgentCredentialSecond, AgentCredentialPatch, AgentCredentialRules
<1>8. NoneIgnored("PolicyProfile")
  BY DEF PolicyProfileSpecFields, InProject, PolicyProfilePost,
         PolicyProfilePut, PolicyProfileRules
<1>9. NoneIgnored("WebhookEndpoint")
  BY DEF WebhookEndpointSpecFields, InProject, WebhookEndpointCreate,
         WebhookEndpointPost, WebhookEndpointPut, WebhookEndpointRules
<1>10. NoneIgnored("SelfHostEnrollment")
  BY DEF SelfHostEnrollmentSpecFields, SelfHostEnrollmentFixed,
         SelfHostEnrollmentCreate
<1>11. NoneIgnored("Honeytoken")
  BY DEF HoneytokenSpecFields, InProject, HoneytokenPost, HoneytokenPut,
         HoneytokenRules
<1>12. NoneIgnored("AnomalyRule")
  BY DEF AnomalyRuleSpecFields, InProject, AnomalyRulePost, AnomalyRulePut,
         AnomalyRuleRules
<1>13. NoneIgnored("ApprovalRule")
  BY DEF ApprovalRuleSpecFields, InProject, ApprovalRulePost, ApprovalRulePut,
         ApprovalRuleRules
<1>14. NoneIgnored("QueryTemplate")
  BY DEF QueryTemplateSpecFields, InProject, QueryTemplatePost,
         QueryTemplatePut, QueryTemplateRules
<1>15. AllKinds = {"Project", "Database", "Replica", "CustomDomain",
                   "CacheRule", "SpendLimit", "AgentCredential",
                   "PolicyProfile", "WebhookEndpoint", "SelfHostEnrollment",
                   "Honeytoken", "AnomalyRule", "ApprovalRule",
                   "QueryTemplate"}
  BY DEF AllKinds
<1> HIDE DEF NoneIgnored
<1> QED BY <1>1, <1>2, <1>3, <1>4, <1>5, <1>6, <1>7, <1>8, <1>9, <1>10, <1>11,
          <1>12, <1>13, <1>14, <1>15

(* Hence an admitted edit leaves the place of the object alone.            *)
LEMMA AdmittedStays ==
  ASSUME NEW old, NEW new, Admitted(old, new), field \in Address(kind)
  PROVE  new = old
  BY AddressFixed DEF Admitted

Ruled == field \in Fixed(kind).required \cup Fixed(kind).optional

LEMMA AdmittedKeeps ==
  ASSUME NEW old, NEW new, Admitted(old, new), Ruled
  PROVE  new = old
  BY DEF Admitted, Ruled

LEMMA PlaceThere ==
  ASSUME NEW r \in CR
  PROVE  Place(r) \in Places
  BY DEF CR, Place, Places, Declarable, AlwaysSet

(* An object is held on to by its resource's finalizer, which must be      *)
(* there before the object is.                                             *)
HeldOn == (\E p \in Places : object[p] # Absent) => cr.held

(* While an object is being created, its place cannot move or be released. *)
CreateReserved ==
  pc = "create" => cr.held /\ cr.stage # "absent" /\ Place(my) = Place(cr)

IInv == TypeOK /\ NoneOrphaned /\ HeldOn /\ CreateReserved

-----------------------------------------------------------------------------
(* Types.                                                                  *)

LEMMA InitTypeOK == Init => TypeOK
<1> SUFFICES ASSUME Init PROVE TypeOK
  OBVIOUS
<1>1. cr \in CR
  <2>1. 0 \in 0..MaxEdits
    BY SpecEditsAssumption
  <2>2. cr \in [stage : {"applied"}, held : {FALSE}, value : Declarable,
                version : {0}]
    BY DEF Init
  <2>3. [stage : {"applied"}, held : {FALSE}, value : Declarable, version : {0}]
          \subseteq CR
    BY <2>1, Zenon DEF CR
  <2> QED BY <2>2, <2>3, Zenon
<1>2. object \in [Places -> Values \cup {Omitted, Absent}]
  BY DEF Init
<1>3. edits \in 0..MaxEdits
  BY SpecEditsAssumption DEF Init
<1> QED BY <1>1, <1>2, <1>3 DEF Init, TypeOK

LEMMA NextTypeOK == TypeOK /\ [Next]_vars => TypeOK'
<1> SUFFICES ASSUME TypeOK, [Next]_vars PROVE TypeOK'
  OBVIOUS
<1> USE DEF TypeOK, CR
<1>0. subject' = subject /\ Declarable' = Declarable /\ Places' = Places
  <2>1. subject' = subject
    BY DEF Next, Reconcile, Start, Hold, Create, Update, Delete, Release,
           EditSpec, RequestDelete, Apply, vars
  <2> QED BY <2>1 DEF subject, Declarable, Places
<1>1. CASE Start
  BY <1>0, <1>1 DEF Start, subject
<1>2. CASE Hold
  <2>1. cr \in CR
    OBVIOUS
  <2>2. cr' \in CR
    BY <1>2, <2>1 DEF Hold
  <2>3. {cr', my'} \subseteq CR' /\ object' = object /\ edits' = edits
    BY <1>0, <1>2, <2>2 DEF Hold, subject
  <2>4. pc' \in {"idle", "act", "create"}
    BY <1>2 DEF Hold
  <2> HIDE DEF CR
  <2> QED BY <1>0, <2>3, <2>4 DEF subject
<1>3. CASE Create
  <2>1. (IF field \in Created(kind) THEN my.value ELSE Omitted)
          \in Values \cup {Omitted, Absent}
    BY DEF Declarable
  <2> QED BY <1>0, <1>3, <2>1 DEF Create, subject
<1>4. CASE Update
  <2>1. my.value \in Values \cup {Omitted, Absent}
    BY DEF Declarable
  <2> QED BY <1>0, <1>4, <2>1 DEF Update, subject
<1>5. CASE Delete
  BY <1>0, <1>5 DEF Delete, subject
<1>6. CASE Release
  BY <1>0, <1>6 DEF Release, subject
<1>7. CASE EditSpec
  <2>1. edits' \in 0..MaxEdits
    BY <1>7, SpecEditsAssumption DEF EditSpec, Edit
  <2>2. PICK v \in (Values \cup {Omitted}) \ {cr.value} :
          Admitted(cr.value, v) /\ cr' = [cr EXCEPT !.value = v, !.version = edits']
    BY <1>7 DEF EditSpec
  <2>3. v \in Declarable
    BY <2>2 DEF Admitted, Declarable
  <2> QED BY <1>0, <1>7, <2>1, <2>2, <2>3 DEF EditSpec, subject
<1>8. CASE RequestDelete
  <2>1. edits' \in 0..MaxEdits
    BY <1>8, SpecEditsAssumption DEF RequestDelete, Edit
  <2> QED BY <1>0, <1>8, <2>1 DEF RequestDelete, subject
<1>9. CASE Apply
  <2>1. edits' \in 0..MaxEdits
    BY <1>9, SpecEditsAssumption DEF Apply, Edit
  <2> QED BY <1>0, <1>9, <2>1 DEF Apply, subject
<1>10. CASE UNCHANGED vars
  BY <1>0, <1>10 DEF vars, subject
<1> QED BY <1>1, <1>2, <1>3, <1>4, <1>5, <1>6, <1>7, <1>8, <1>9, <1>10
       DEF Next, Reconcile

-----------------------------------------------------------------------------
(* The invariant.                                                          *)

LEMMA InitIInv == Init => IInv
  BY InitTypeOK DEF Init, IInv, NoneOrphaned, HeldOn, CreateReserved

LEMMA NextIInv == IInv /\ [Next]_vars => IInv'
<1> SUFFICES ASSUME IInv, [Next]_vars PROVE IInv'
  OBVIOUS
<1>t. TypeOK /\ TypeOK'
  BY NextTypeOK DEF IInv
<1>r. cr \in CR /\ my \in CR
  BY <1>t DEF TypeOK
<1>0. subject' = subject /\ Places' = Places
  <2>1. subject' = subject
    BY DEF Next, Reconcile, Start, Hold, Create, Update, Delete, Release,
           EditSpec, RequestDelete, Apply, vars
  <2> QED BY <2>1 DEF subject, Places
<1>o. object \in [Places -> Values \cup {Omitted, Absent}]
  BY <1>t DEF TypeOK
<1>p. \A r : Place(r)' = IF field \in Address(kind) THEN r'.value ELSE Here
  BY <1>0 DEF Place, subject
<1> USE DEF NoneOrphaned, HeldOn, CreateReserved, IInv
<1>1. CASE Start
  BY <1>0, <1>1, <1>t DEF Start, Place, subject
<1>2. CASE Hold
  BY <1>0, <1>2, <1>r, <1>t DEF Hold, Place, CR, subject
<1>3. CASE Create
  BY <1>0, <1>3, <1>t, <1>o DEF Create, Place, subject
<1>4. CASE Update
  BY <1>0, <1>4, <1>t, <1>o DEF Update, Found, Place, subject
<1>5. CASE Delete
  BY <1>0, <1>5, <1>t, <1>o DEF Delete, Place, subject
<1>6. CASE Release
  BY <1>0, <1>6, <1>r, <1>t DEF Release, Found, Place, CR, subject
<1>7. CASE EditSpec
  <2>1. PICK v : Admitted(cr.value, v)
                  /\ cr' = [cr EXCEPT !.value = v, !.version = edits']
    BY <1>7 DEF EditSpec
  <2>2. cr'.stage = cr.stage /\ cr'.held = cr.held /\ cr'.value = v
    BY <1>r, <2>1 DEF CR
  <2>3. Place(cr)' = Place(cr)
    BY <1>0, <2>1, <2>2, AdmittedStays DEF Place, subject
  <2> QED BY <1>0, <1>7, <1>t, <2>2, <2>3 DEF EditSpec, Place, subject
<1>8. CASE RequestDelete
  BY <1>0, <1>8, <1>r, <1>t DEF RequestDelete, Place, CR, subject
<1>9. CASE Apply
  BY <1>0, <1>9, <1>t DEF Apply, Place, subject
<1>10. CASE UNCHANGED vars
  BY <1>0, <1>10, <1>t DEF vars, Place, subject
<1> QED BY <1>1, <1>2, <1>3, <1>4, <1>5, <1>6, <1>7, <1>8, <1>9, <1>10
       DEF Next, Reconcile

-----------------------------------------------------------------------------
(* What no Update sends is as it was created, and the copy that is created *)
(* from has it as it is.                                                   *)

FixedCarried ==
  field \notin SecretFields \cup Updated(kind) /\ cr.value # Omitted
    => object[Place(cr)] \in {cr.value, Absent}

CreateKnown == pc = "create" /\ Ruled => my.value = cr.value

Carried == IInv /\ FixedCarried /\ CreateKnown

LEMMA FieldSent ==
  ASSUME TypeOK, field \notin SecretFields
  PROVE  field \in Created(kind) /\ (field \in Updated(kind) \/ Ruled)
<1>1. kind \in AllKinds
  BY DEF TypeOK
<1> QED BY <1>1, NoFieldIgnored DEF TypeOK, NoneIgnored, Ruled

LEMMA InitCarried == Init => Carried
<1> SUFFICES ASSUME Init PROVE Carried
  OBVIOUS
<1>1. IInv /\ Place(cr) \in Places
  BY InitIInv, PlaceThere DEF IInv, TypeOK
<1> QED BY <1>1 DEF Init, Carried, FixedCarried, CreateKnown

LEMMA NextCarried == Carried /\ [Next]_vars => Carried'
<1> SUFFICES ASSUME Carried, [Next]_vars PROVE FixedCarried' /\ CreateKnown'
  BY NextIInv DEF Carried
<1>t. IInv /\ TypeOK /\ IInv' /\ TypeOK'
  BY NextIInv DEF Carried, IInv
<1>r. /\ cr \in CR /\ my \in CR /\ cr' \in CR
      /\ object \in [Places -> Values \cup {Omitted, Absent}]
  <2>1. CR' = CR
    BY DEF Next, Reconcile, Start, Hold, Create, Update, Delete, Release,
           EditSpec, RequestDelete, Apply, vars, subject, CR, Declarable
  <2> QED BY <1>t, <2>1 DEF TypeOK
<1>p. Place(cr) \in Places /\ Place(my) \in Places
  BY <1>r, PlaceThere
<1>0. UNCHANGED subject
  BY DEF Next, Reconcile, Start, Hold, Create, Update, Delete, Release,
         EditSpec, RequestDelete, Apply, vars
<1>s. /\ field' = field /\ kind' = kind /\ Places' = Places
      /\ (field \notin SecretFields \cup Updated(kind) => Ruled)
      /\ Ruled' = Ruled /\ Updated(kind)' = Updated(kind)
  BY <1>0, <1>t, FieldSent DEF subject, Places, Ruled
<1>q. \A r : Place(r)' = IF field \in Address(kind) THEN r'.value ELSE Here
  BY <1>s DEF Place
<1> USE DEF Carried, FixedCarried, CreateKnown
<1>1. CASE Start
  BY <1>1, <1>s, <1>q DEF Start, Place
<1>2. CASE Hold
  <2>1. cr'.value = cr.value /\ object' = object
    BY <1>2, <1>r DEF Hold, CR
  <2>2. pc' = "create" => my' = cr'
    BY <1>2 DEF Hold
  <2> QED BY <2>1, <2>2, <1>s, <1>q DEF Place
<1>3. CASE Create
  <2>1. Place(cr)' = Place(cr) /\ cr' = cr
    BY <1>3, <1>q DEF Create, Place
  <2>2. Place(my) = Place(cr)
    BY <1>3, <1>t DEF Create, IInv, CreateReserved
  <2>3. FixedCarried'
    <3> SUFFICES ASSUME field \notin SecretFields \cup Updated(kind)
                 PROVE  object'[Place(cr)] = cr.value
      BY <2>1, <1>s
    <3>1. field \in Created(kind) /\ my.value = cr.value
      BY <1>3, <1>s, <1>t, FieldSent DEF Create
    <3> QED BY <1>3, <2>2, <3>1, <1>p, <1>r DEF Create
  <2> QED BY <1>3, <2>3 DEF Create
<1>4. CASE Update
  BY <1>4, <1>s, <1>q DEF Update, Place
<1>5. CASE Delete
  <2>1. Place(cr)' = Place(cr) /\ cr' = cr /\ pc' = "idle"
    BY <1>5, <1>q DEF Delete, Place
  <2>2. object'[Place(cr)] \in {object[Place(cr)], Absent}
    BY <1>5, <1>p, <1>r DEF Delete
  <2> QED BY <2>1, <2>2, <1>s
<1>6. CASE Release
  <2>1. cr'.value = cr.value /\ object' = object /\ pc' = "idle"
    BY <1>6, <1>r DEF Release, CR
  <2> QED BY <2>1, <1>s, <1>q DEF Place
<1>7. CASE EditSpec
  <2>1. PICK v \in (Values \cup {Omitted}) \ {cr.value} :
          Admitted(cr.value, v)
    BY <1>7 DEF EditSpec
  <2>2. ~Ruled
    BY <2>1, AdmittedKeeps
  <2> QED BY <2>2, <1>s
<1>8. CASE RequestDelete
  <2>1. cr'.value = cr.value /\ UNCHANGED <<my, pc, object>>
    BY <1>8, <1>r DEF RequestDelete, CR
  <2> QED BY <2>1, <1>s, <1>q DEF Place
<1>9. CASE Apply
  <2>1. pc # "create" /\ \A p \in Places : object[p] = Absent
    BY <1>9, <1>t DEF Apply, IInv, CreateReserved, NoneOrphaned
  <2>2. Place(cr)' \in Places
    BY <1>r, <1>q, <1>s, PlaceThere DEF Place
  <2> QED BY <1>9, <2>1, <2>2 DEF Apply
<1>10. CASE UNCHANGED vars
  BY <1>10, <1>s, <1>q DEF vars, Place
<1> QED BY <1>1, <1>2, <1>3, <1>4, <1>5, <1>6, <1>7, <1>8, <1>9, <1>10
       DEF Next, Reconcile

LEMMA CarriesEdits ==
  ASSUME Carried, [Next]_vars,
         pc \in {"act", "create"}, pc' = "idle", my = cr, cr' = cr,
         cr.stage = "applied", cr.value # Omitted, field \notin SecretFields
  PROVE  object'[Place(cr)] = cr.value
<1>1. /\ cr \in CR /\ Place(cr) \in Places
      /\ object \in [Places -> Values \cup {Omitted, Absent}]
  BY PlaceThere DEF Carried, IInv, TypeOK
<1>2. field \in Created(kind) /\ (field \in Updated(kind) \/ Ruled)
  BY FieldSent DEF Carried, IInv
<1>3. CASE Create
  BY <1>1, <1>2, <1>3 DEF Create
<1>4. CASE Update
  <2>1. CASE field \in Updated(kind)
    BY <1>1, <1>4, <2>1 DEF Update
  <2>2. CASE field \notin Updated(kind)
    BY <1>4, <2>2 DEF Update, Found, Carried, FixedCarried
  <2> QED BY <2>1, <2>2
<1>5. CASE Start \/ Delete \/ EditSpec \/ RequestDelete \/ Apply \/ UNCHANGED vars
  BY <1>5 DEF Start, Delete, EditSpec, RequestDelete, Apply, vars
<1>6. CASE Hold \/ Release
  BY <1>1, <1>6 DEF Hold, Release, CR
<1> QED BY <1>3, <1>4, <1>5, <1>6 DEF Next, Reconcile

-----------------------------------------------------------------------------
(* The theorems.                                                           *)

(* TypeOK: whatever is edited, and when, the provider's copy of a resource *)
(* and the objects hold only values that a manifest can have held.         *)
THEOREM EditTypes == Spec => []TypeOK
<1>1. Spec => []IInv
  BY InitIInv, NextIInv, PTL DEF Spec
<1>2. IInv => TypeOK
  BY DEF IInv
<1> QED BY <1>1, <1>2, PTL

(* NoneOrphaned: no admitted edit, at whatever point of a reconcile, makes *)
(* the provider lose an object or create a second one (handlers addressed  *)
(* by ForProvider, CEL rules of types.gen.go).                             *)
THEOREM EditsOrphanNone == Spec => []NoneOrphaned
<1>1. Spec => []IInv
  BY InitIInv, NextIInv, PTL DEF Spec
<1>2. IInv => NoneOrphaned
  BY DEF IInv
<1> QED BY <1>1, <1>2, PTL

(* EditsCarried: for every field of every kind's manifest, whatever edits  *)
(* come in between, a reconcile of the manifest as it stays leaves the     *)
(* value that it declares in the object (Create and Update of *.gen.go,    *)
(* the fields and the CEL rules of types.gen.go).                          *)
THEOREM NoEditIgnored == Spec => EditsCarried
<1>1. Carried /\ [Next]_vars =>
        [(/\ pc \in {"act", "create"} /\ pc' = "idle"
          /\ my = cr /\ cr' = cr
          /\ cr.stage = "applied" /\ cr.value # Omitted
          /\ field \notin SecretFields)
         => object'[Place(cr)] = cr.value]_vars
  BY CarriesEdits
<1>2. Spec => []Carried
  BY InitCarried, NextCarried, PTL DEF Spec
<1> QED BY <1>1, <1>2, PTL DEF Spec, EditsCarried
=============================================================================
