-------------------------- MODULE FieldSync_proofs ---------------------------
(***************************************************************************)
(* That the check, Create and Update of every kind agree on its fields:    *)
(* for any number of fields at once and any values, one reconcile that     *)
(* nobody disturbs makes the object carry the manifest.                    *)
(***************************************************************************)
EXTENDS FieldSync, TLAPS

Classes == {"equal", "absent", "default", "plain", "list", "whenSet",
            "whenSetList"}

-----------------------------------------------------------------------------
(* The tables.                                                             *)

(* Each field is compared in one way, by Patch kinds only if it is set;    *)
(* Create sends it in one of its calls, and Update sends it.               *)
Sorted(k, f) ==
  /\ \E c \in Classes : f \in Class(k, c)
  /\ \A c, d \in Classes : f \in Class(k, c) /\ f \in Class(k, d) => c = d
  /\ f \in Post[k] \cup SecondCall(k)
  /\ IF k \in DOMAIN Patch
     THEN /\ f \in Patch[k].onDrift \cup Patch[k].ifSet
          /\ \E c \in {"equal", "whenSet", "whenSetList"} : f \in Class(k, c)
          /\ ReadsFirst(k)
     ELSE /\ f \in Put[k]
          /\ \E c \in {"equal", "absent", "default", "plain", "list"} :
               f \in Class(k, c)
          /\ SecondCall(k) = {}

LEMMA AllSorted == \A k \in DOMAIN Rules : \A f \in Fields(k) : Sorted(k, f)
  <1> USE DEF Sorted, Classes, Class, Fields, Rules, Post, SecondCall, Patch,
              Put, ReadsFirst
  <1>1. \A f \in Fields("Project") : Sorted("Project", f)
    BY DEF ProjectRules, ProjectPost, ProjectSecond, ProjectPatch
  <1>2. \A f \in Fields("Database") : Sorted("Database", f)
    BY DEF DatabaseRules, DatabasePost, DatabasePatch
  <1>3. \A f \in Fields("AgentCredential") : Sorted("AgentCredential", f)
    BY DEF AgentCredentialRules, AgentCredentialSecond, AgentCredentialPatch
  <1>4. \A f \in Fields("Honeytoken") : Sorted("Honeytoken", f)
    BY DEF HoneytokenRules, HoneytokenPost, HoneytokenPut
  <1>5. \A f \in Fields("AnomalyRule") : Sorted("AnomalyRule", f)
    BY DEF AnomalyRuleRules, AnomalyRulePost, AnomalyRulePut
  <1>6. \A f \in Fields("ApprovalRule") : Sorted("ApprovalRule", f)
    BY DEF ApprovalRuleRules, ApprovalRulePost, ApprovalRulePut
  <1>7. \A f \in Fields("QueryTemplate") : Sorted("QueryTemplate", f)
    BY DEF QueryTemplateRules, QueryTemplatePost, QueryTemplatePut
  <1>8. \A f \in Fields("WebhookEndpoint") : Sorted("WebhookEndpoint", f)
    BY DEF WebhookEndpointRules, WebhookEndpointPost, WebhookEndpointPut
  <1>9. \A f \in Fields("PolicyProfile") : Sorted("PolicyProfile", f)
    BY DEF PolicyProfileRules, PolicyProfilePost, PolicyProfilePut
  <1>10. \A f \in Fields("CacheRule") : Sorted("CacheRule", f)
    BY DEF CacheRuleRules, CacheRulePut
  <1>11. \A f \in Fields("SpendLimit") : Sorted("SpendLimit", f)
    BY DEF SpendLimitRules, SpendLimitPut
  <1>12. DOMAIN Rules = {"Project", "Database", "AgentCredential", "Honeytoken",
                         "AnomalyRule", "ApprovalRule", "QueryTemplate",
                         "WebhookEndpoint", "PolicyProfile", "CacheRule",
                         "SpendLimit"}
    OBVIOUS
  <1> HIDE DEF Sorted, Fields, Rules
  <1> QED
    BY <1>1, <1>2, <1>3, <1>4, <1>5, <1>6, <1>7, <1>8, <1>9, <1>10, <1>11, <1>12

(* The class of a field decides how it is compared and what it can hold.   *)
LEMMA ClassDecides ==
  ASSUME NEW f, Sorted(kind, f), NEW c \in Classes, Is(f, c)
  PROVE  \A d \in Classes : Is(f, d) <=> d = c
  BY DEF Sorted, Is

LEMMA AgreesByClass ==
  ASSUME NEW f, Sorted(kind, f), NEW d, NEW v
  PROVE  /\ Is(f, "equal") \/ Is(f, "absent") => (Agrees(f, d, v) <=> d = v)
         /\ Is(f, "whenSet") => (Agrees(f, d, v) <=> d \in {Unset, v})
         /\ Is(f, "whenSetList") =>
              (Agrees(f, d, v) <=> d = Unset \/ Emptied(d) = Emptied(v))
         /\ Is(f, "list") => (Agrees(f, d, v) <=> Emptied(d) = Emptied(v))
         /\ Is(f, "default") \/ Is(f, "plain") =>
              (Agrees(f, d, v) <=> d = v \/ (d = Unset /\ v = Default))
  <1> \A c \in Classes : Is(f, c) => \A e \in Classes : Is(f, e) <=> e = c
    BY ClassDecides
  <1> QED
    BY DEF Agrees, Classes

LEMMA HoldsByClass ==
  ASSUME NEW f, Sorted(kind, f)
  PROVE  /\ Is(f, "equal") => Declarable(f) = Others /\ Answerable(f) = Others
         /\ Is(f, "absent") => /\ Default \notin Declarable(f)
                               /\ Answerable(f) = Values \ {Default}
         /\ Is(f, "plain") => Answerable(f) = Values \ {Unset}
         /\ \A c \in {"default", "list", "whenSet", "whenSetList"} :
              Is(f, c) => Answerable(f) = Values
         /\ Declarable(f) \subseteq Values
         /\ Answerable(f) \subseteq Values
         /\ Declarable(f) \ {Unset} \subseteq Answerable(f)
  <1> \A c \in Classes : Is(f, c) => \A e \in Classes : Is(f, e) <=> e = c
    BY ClassDecides
  <1> \E c \in Classes : Is(f, c)
    BY DEF Sorted, Is
  <1> QED
    BY DEF Declarable, Answerable, Classes, Values

(* What the manifest sets agrees with itself, what it omits with what the  *)
(* API fills in, and a PATCHed field that it omits with anything.          *)
LEMMA WrittenAgrees ==
  ASSUME NEW f, Sorted(kind, f), NEW d \in Declarable(f)
  PROVE  /\ d # Unset => Agrees(f, d, d)
         /\ d = Unset => \A v \in Initially(f) : Agrees(f, d, v)
         /\ d = Unset /\ kind \in DOMAIN Patch => \A v : Agrees(f, d, v)
  <1> \E c \in Classes : Is(f, c)
    BY DEF Sorted, Is
  <1>1. kind \in DOMAIN Patch =>
          \E c \in {"equal", "whenSet", "whenSetList"} : Is(f, c)
    BY DEF Sorted, Is
  <1> QED
    BY <1>1, AgreesByClass, HoldsByClass, FieldSyncAssumption
    DEF Classes, Initially, Values, Emptied

(* An answer that the check accepts carries the declared value.            *)
LEMMA AgreedIsCarried ==
  ASSUME NEW f, Sorted(kind, f), NEW d \in Declarable(f), NEW v \in Values,
         Agrees(f, d, v)
  PROVE  /\ d # Unset => Emptied(v) = Emptied(d)
         /\ d = Unset => kind \in DOMAIN Patch \/ v \notin Others
  <1> \E c \in Classes : Is(f, c)
    BY DEF Sorted, Is
  <1>1. kind \notin DOMAIN Patch =>
          \E c \in {"equal", "absent", "default", "plain", "list"} : Is(f, c)
    BY DEF Sorted, Is
  <1> QED
    BY <1>1, AgreesByClass, HoldsByClass, FieldSyncAssumption
    DEF Classes, Values, Emptied

-----------------------------------------------------------------------------
(* The inductive invariant.                                                *)

(* The copy is the manifest of some moment, and there is an object as soon *)
(* as there is a call to it.                                               *)
Underway ==
  /\ pc # "idle" => my.spec \in Manifests
  /\ pc \in {"secondCall", "get", "secretToWrite", "write"} => exists
  /\ pc \in {"secretToCreate", "create"} => ~exists
  /\ pc = "secretToWrite" => AlwaysWrites(kind)

(* What is known of a secret is never newer than it is, and a write that   *)
(* is about to happen is not older than the last one.                      *)
SecretKnown ==
  /\ secret.version =< edits + 1
  /\ sent =< secret.version
  /\ my.secret =< secret.version
  /\ pc = "write" /\ AlwaysWrites(kind) => my.secret >= sent

(* Undisturbed, the reconcile works on what is really there.               *)
Undisturbed ==
  quiet /\ pc # "idle" =>
    /\ my.spec = spec
    /\ pc \in {"secretToWrite", "write"} /\ kind \in DOMAIN Patch =>
         my.answer = live
    /\ pc = "write" /\ AlwaysWrites(kind) => my.secret = secret.version
    /\ pc = "secondCall" =>
         \A f \in focus : f \notin SecondCall(kind) \/ my.spec[f] = Unset
                            => Agrees(f, my.spec[f], live[f])

IInv == TypeOK /\ Underway /\ SecretKnown /\ Undisturbed

LEMMA FocusSorted ==
  ASSUME TypeOK
  PROVE  /\ \A f \in focus : Sorted(kind, f)
         /\ kind \in DOMAIN Rules
  BY AllSorted, FocusesAssumption DEF TypeOK

LEMMA KindsApart ==
  /\ AlwaysWrites(kind) => ReadsFirst(kind)
  /\ kind \in DOMAIN Patch => ReadsFirst(kind)
  BY DEF AlwaysWrites, ReadsFirst, Patch

(* A value that the manifest sets is one that the API can answer.          *)
LEMMA ResultsTyped ==
  ASSUME TypeOK, my.spec \in Manifests, NEW v,
         \A f \in focus : \/ v[f] = my.spec[f] /\ my.spec[f] # Unset
                          \/ v[f] \in Answerable(f)
  PROVE  \A f \in focus : v[f] \in Answerable(f)
  BY FocusSorted, HoldsByClass DEF Manifests

LEMMA InitiallyTyped == \A f \in focus : Initially(f) \subseteq Answerable(f)
  BY DEF Initially

LEMMA LeftTyped ==
  ASSUME TypeOK, exists
  PROVE  \A f \in focus : Left(f) \subseteq Answerable(f)
  BY DEF TypeOK, Left

LEMMA ResetTyped ==
  ASSUME TypeOK, exists
  PROVE  \A f \in focus : Reset(f) \subseteq Answerable(f)
  BY InitiallyTyped, LeftTyped DEF Reset

(* The tables do not move.                                                 *)
LEMMA SameSubject ==
  ASSUME UNCHANGED subject
  PROVE  /\ kind' = kind /\ focus' = focus
         /\ Manifests' = Manifests
         /\ Nothing' = Nothing
         /\ NoCopy' = NoCopy
         /\ \A f : /\ Answerable(f)' = Answerable(f)
                   /\ Declarable(f)' = Declarable(f)
         /\ \A f, d, v : Agrees(f, d, v)' <=> Agrees(f, d, v)
  <1>1. kind' = kind /\ focus' = focus
    BY DEF subject
  <1>2. Nothing' = Nothing
    BY <1>1 DEF Nothing
  <1>3. \A f : /\ Answerable(f)' = Answerable(f)
               /\ Declarable(f)' = Declarable(f)
    BY <1>1 DEF Answerable, Declarable, Is, Values
  <1>4. Manifests' = Manifests
    BY <1>1, <1>3 DEF Manifests, Values
  <1>5. \A f, d, v : Agrees(f, d, v)' <=> Agrees(f, d, v)
    BY <1>1 DEF Agrees, Is, Emptied
  <1> QED
    BY <1>1, <1>2, <1>3, <1>4, <1>5 DEF NoCopy

LEMMA InitIInv == Init => IInv
  <1> SUFFICES ASSUME Init PROVE IInv
    OBVIOUS
  <1>1. TypeOK
    <2>1. Unset \in Values /\ Nothing \in [focus -> Values]
      BY DEF Values, Nothing
    <2>2. my \in [spec : Manifests \cup {Nothing}, answer : [focus -> Values],
                  secret : 0..(MaxEdits + 1)]
      BY <2>1, FieldSyncAssumption DEF Init, NoCopy
    <2>3. <<kind, focus>> \in Focuses
      BY FocusesAssumption DEF Init
    <2>4. secret \in [there : BOOLEAN, version : 1..(MaxEdits + 1)]
      BY FieldSyncAssumption DEF Init
    <2>5. /\ sent \in 0..(MaxEdits + 1)
          /\ edits \in 0..MaxEdits /\ faults \in 0..MaxFaults
      BY FieldSyncAssumption DEF Init
    <2>6. exists \in BOOLEAN /\ refusing \in BOOLEAN /\ quiet \in BOOLEAN
      BY DEF Init
    <2> QED
      BY <2>1, <2>2, <2>3, <2>4, <2>5, <2>6 DEF Init, TypeOK
  <1>2. Underway /\ SecretKnown /\ Undisturbed
    BY DEF Init, Underway, SecretKnown, Undisturbed, NoCopy
  <1> QED
    BY <1>1, <1>2 DEF IInv

Copies == [spec : Manifests \cup {Nothing}, answer : [focus -> Values],
           secret : 0..(MaxEdits + 1)]

ObjectTyped ==
  /\ exists' \in BOOLEAN
  /\ live' \in [focus -> Values]
  /\ exists' => \A f \in focus : live'[f] \in Answerable(f)
  /\ sent' \in 0..(MaxEdits + 1)

LEMMA SameObjectTyped ==
  ASSUME TypeOK, UNCHANGED object
  PROVE  ObjectTyped
  BY DEF TypeOK, object, ObjectTyped

LEMMA NoCopyTyped == NoCopy \in Copies
  BY FieldSyncAssumption DEF NoCopy, Copies, Nothing, Values

(* A step of the reconcile keeps the types if what it knows and the object *)
(* keep theirs.                                                            *)
LEMMA ReconcileTyped ==
  ASSUME TypeOK, ObjectTyped, UNCHANGED <<subject, spec, around, edits>>,
         my' \in Copies, quiet' \in BOOLEAN, faults' \in 0..MaxFaults,
         pc' \in {"idle", "observe", "secretToCreate", "create", "secondCall",
                  "get", "secretToWrite", "write"}
  PROVE  TypeOK'
  <1>1. /\ kind' = kind /\ focus' = focus /\ Manifests' = Manifests
        /\ Nothing' = Nothing /\ Values' = Values
        /\ \A f : Answerable(f)' = Answerable(f)
    BY SameSubject DEF Values
  <1>2. /\ secret' = secret /\ refusing' = refusing /\ spec' = spec
        /\ edits' = edits
    BY DEF around
  <1> QED
    BY <1>1, <1>2 DEF TypeOK, ObjectTyped, Copies

LEMMA StartKeeps == IInv /\ Start => IInv'
  <1> SUFFICES ASSUME IInv, Start PROVE IInv'
    OBVIOUS
  <1>1. /\ UNCHANGED <<subject, spec, object, around, counters>>
        /\ my' = [NoCopy EXCEPT !.spec = spec]
        /\ pc' = "observe" /\ quiet' = TRUE
    BY DEF Start
  <1>2. /\ my' \in Copies /\ my'.spec = spec /\ my'.secret = 0
        /\ spec \in Manifests
    BY <1>1, NoCopyTyped DEF IInv, TypeOK, Copies, NoCopy
  <1>3. TypeOK'
    BY <1>1, <1>2, SameObjectTyped, ReconcileTyped DEF IInv, TypeOK, counters
  <1>4. Underway'
    BY <1>1, <1>2, SameSubject DEF Underway
  <1>5. SecretKnown'
    BY <1>1, <1>2 DEF IInv, TypeOK, SecretKnown, object, around, counters
  <1>6. Undisturbed'
    BY <1>1, <1>2 DEF Undisturbed
  <1> QED
    BY <1>3, <1>4, <1>5, <1>6 DEF IInv

LEMMA ErrsKeeps == IInv /\ Errs => IInv'
  <1> SUFFICES ASSUME IInv, Errs PROVE IInv'
    OBVIOUS
  <1>1. /\ UNCHANGED <<subject, spec, object, around, counters>>
        /\ my' = NoCopy /\ pc' = "idle" /\ quiet' = FALSE
    BY DEF Errs
  <1>2. TypeOK'
    BY <1>1, NoCopyTyped, SameObjectTyped, ReconcileTyped
    DEF IInv, TypeOK, counters
  <1>3. Underway' /\ Undisturbed'
    BY <1>1 DEF Underway, Undisturbed
  <1>4. SecretKnown'
    BY <1>1 DEF IInv, TypeOK, SecretKnown, object, around, counters, NoCopy
  <1> QED
    BY <1>2, <1>3, <1>4 DEF IInv

LEMMA ObserveKeeps == IInv /\ Observe => IInv'
  <1> SUFFICES ASSUME IInv, Observe PROVE IInv'
    OBVIOUS
  <1>1. /\ UNCHANGED <<subject, spec, object, around, quiet, counters>>
        /\ pc = "observe"
        /\ \/ pc' = "idle" /\ my' = NoCopy
           \/ pc' \in {"secretToCreate", "create"} /\ ~exists /\ my' = my
           \/ pc' = "get" /\ exists /\ my' = my
           \/ pc' = "write" /\ exists /\ my' = my /\ ~ReadsFirst(kind)
    BY DEF Observe, Goes
  <1>2. my' \in Copies
    BY <1>1, NoCopyTyped DEF IInv, TypeOK, Copies
  <1>3. TypeOK'
    BY <1>1, <1>2, SameObjectTyped, ReconcileTyped DEF IInv, TypeOK, counters
  <1>4. Underway'
    BY <1>1, SameSubject DEF IInv, Underway, object
  <1>5. SecretKnown'
    BY <1>1, KindsApart, SameSubject
    DEF IInv, TypeOK, SecretKnown, object, around, counters, NoCopy,
        AlwaysWrites
  <1>6. Undisturbed'
    BY <1>1, KindsApart, SameSubject DEF IInv, Undisturbed, AlwaysWrites
  <1> QED
    BY <1>3, <1>4, <1>5, <1>6 DEF IInv

LEMMA ReadSecretKeeps == IInv /\ ReadSecret => IInv'
  <1> SUFFICES ASSUME IInv, ReadSecret PROVE IInv'
    OBVIOUS
  <1>1. CASE Errs
    BY <1>1, ErrsKeeps
  <1>2. CASE ~Errs
    <2>1. /\ UNCHANGED <<subject, spec, object, around, quiet, counters>>
          /\ my' = [my EXCEPT !.secret = secret.version]
          /\ \/ pc = "secretToCreate" /\ pc' = "create"
             \/ pc = "secretToWrite" /\ pc' = "write"
      BY <1>2 DEF ReadSecret, Goes
    <2>2. /\ my' \in Copies /\ my'.spec = my.spec /\ my'.answer = my.answer
          /\ my'.secret = secret.version
      BY <2>1 DEF IInv, TypeOK, Copies
    <2>3. TypeOK'
      BY <2>1, <2>2, SameObjectTyped, ReconcileTyped
      DEF IInv, TypeOK, counters
    <2>4. Underway'
      BY <2>1, <2>2, SameSubject DEF IInv, Underway, object, AlwaysWrites
    <2>5. SecretKnown'
      BY <2>1, <2>2 DEF IInv, TypeOK, SecretKnown, object, around, counters
    <2>6. Undisturbed'
      BY <2>1, <2>2, SameSubject DEF IInv, Undisturbed, object, around
    <2> QED
      BY <2>3, <2>4, <2>5, <2>6 DEF IInv
  <1> QED
    BY <1>1, <1>2

(* The POST leaves the fields that it fills in as the check wants them.    *)
LEMMA PostAgrees ==
  ASSUME IInv, pc = "create", live' \in Results(Post[kind], Initially),
         NEW f \in focus, f \in Post[kind] \/ my.spec[f] = Unset
  PROVE  Agrees(f, my.spec[f], live'[f])
  <1>1. Sorted(kind, f) /\ my.spec[f] \in Declarable(f)
    BY FocusSorted DEF IInv, Underway, Manifests
  <1>2. \/ my.spec[f] # Unset /\ live'[f] = my.spec[f]
        \/ my.spec[f] = Unset /\ live'[f] \in Initially(f)
    BY DEF Results
  <1> QED
    BY <1>1, <1>2, WrittenAgrees

LEMMA CreateKeeps == IInv /\ Create => IInv'
  <1> SUFFICES ASSUME IInv, Create PROVE IInv'
    OBVIOUS
  <1>1. CASE Errs
    BY <1>1, ErrsKeeps
  <1>2. CASE ~Errs
    <2>1. /\ UNCHANGED <<subject, spec, around, quiet, counters>>
          /\ pc = "create" /\ exists' = TRUE /\ sent' = my.secret
          /\ live' \in Results(Post[kind], Initially)
          /\ \/ pc' = "idle" /\ my' = NoCopy
             \/ pc' = "secondCall" /\ my' = my
      BY <1>2 DEF Create, Goes, AfterPost
    <2>2. my' \in Copies
      BY <2>1, NoCopyTyped DEF IInv, TypeOK, Copies
    <2>3. ObjectTyped
      <3>1. \A f \in focus : \/ live'[f] = my.spec[f] /\ my.spec[f] # Unset
                             \/ live'[f] \in Answerable(f)
        BY <2>1, InitiallyTyped DEF Results
      <3> QED
        BY <2>1, <3>1, ResultsTyped
        DEF IInv, TypeOK, Underway, ObjectTyped, Results
    <2>4. TypeOK'
      BY <2>1, <2>2, <2>3, ReconcileTyped DEF IInv, TypeOK, counters
    <2>5. Underway'
      BY <2>1, SameSubject DEF IInv, Underway
    <2>6. SecretKnown'
      BY <2>1 DEF IInv, TypeOK, SecretKnown, around, counters, NoCopy
    <2>7. Undisturbed'
      <3>1. CASE pc' = "secondCall"
        <4>1. \A f \in focus : f \notin SecondCall(kind) \/ my.spec[f] = Unset
                                 => Agrees(f, my.spec[f], live'[f])
          BY <2>1, PostAgrees, FocusSorted DEF IInv, Sorted
        <4> QED
          BY <2>1, <3>1, <4>1, SameSubject
          DEF IInv, Undisturbed, SecondCall
      <3> QED
        BY <2>1, <3>1 DEF Undisturbed
    <2> QED
      BY <2>4, <2>5, <2>6, <2>7 DEF IInv
  <1> QED
    BY <1>1, <1>2

LEMMA CreateSecondKeeps == IInv /\ CreateSecond => IInv'
  <1> SUFFICES ASSUME IInv, CreateSecond PROVE IInv'
    OBVIOUS
  <1>1. /\ UNCHANGED <<subject, spec, around, quiet, counters, exists, sent>>
        /\ pc = "secondCall" /\ exists /\ pc' = "idle" /\ my' = NoCopy
        /\ live' \in Results(SecondCall(kind), Left)
    BY DEF CreateSecond, Goes, IInv, Underway
  <1>2. ObjectTyped
    <2>1. \A f \in focus : \/ live'[f] = my.spec[f] /\ my.spec[f] # Unset
                           \/ live'[f] \in Answerable(f)
      BY <1>1, LeftTyped DEF Results, IInv
    <2> QED
      BY <1>1, <2>1, ResultsTyped
      DEF IInv, TypeOK, Underway, ObjectTyped, Results
  <1>3. TypeOK'
    BY <1>1, <1>2, NoCopyTyped, ReconcileTyped DEF IInv, TypeOK, counters
  <1>4. Underway' /\ Undisturbed'
    BY <1>1 DEF Underway, Undisturbed
  <1>5. SecretKnown'
    BY <1>1 DEF IInv, TypeOK, SecretKnown, around, counters, NoCopy
  <1> QED
    BY <1>3, <1>4, <1>5 DEF IInv

LEMMA GetKeeps == IInv /\ Get => IInv'
  <1> SUFFICES ASSUME IInv, Get PROVE IInv'
    OBVIOUS
  <1>1. /\ UNCHANGED <<subject, spec, object, around, quiet, counters>>
        /\ pc = "get" /\ exists
        /\ \/ pc' = "idle" /\ my' = NoCopy
           \/ /\ pc' = IF AlwaysWrites(kind) THEN "secretToWrite" ELSE "write"
              /\ my' = [my EXCEPT !.answer = live]
    BY DEF Get, Goes, IInv, Underway
  <1>2. /\ my' \in Copies
        /\ pc' # "idle" => /\ my'.spec = my.spec /\ my'.answer = live
                           /\ my'.secret = my.secret
    BY <1>1, NoCopyTyped DEF IInv, TypeOK, Copies
  <1>3. TypeOK'
    BY <1>1, <1>2, SameObjectTyped, ReconcileTyped DEF IInv, TypeOK, counters
  <1>4. Underway'
    BY <1>1, <1>2, SameSubject DEF IInv, Underway, object, AlwaysWrites
  <1>5. SecretKnown'
    BY <1>1, <1>2, SameSubject
    DEF IInv, TypeOK, SecretKnown, object, around, counters, NoCopy,
        AlwaysWrites
  <1>6. Undisturbed'
    BY <1>1, <1>2, SameSubject DEF IInv, Undisturbed, object, AlwaysWrites
  <1> QED
    BY <1>3, <1>4, <1>5, <1>6 DEF IInv

(* What Update's write does if the API does not refuse it.                 *)
LEMMA WriteDoes ==
  ASSUME IInv, Write, ~Errs
  PROVE  /\ UNCHANGED <<subject, spec, around, quiet, counters, exists>>
         /\ pc = "write" /\ exists /\ pc' = "idle" /\ my' = NoCopy
         /\ sent' = IF AlwaysWrites(kind) THEN my.secret ELSE sent
         /\ live' \in IF kind \in DOMAIN Patch
                        THEN Results(Patched(my.answer), Left)
                        ELSE Results(Put[kind], Reset)
  BY DEF Write, Writes, Goes, IInv, Underway

LEMMA WriteKeeps == IInv /\ Write => IInv'
  <1> SUFFICES ASSUME IInv, Write PROVE IInv'
    OBVIOUS
  <1>1. CASE Errs
    BY <1>1, ErrsKeeps
  <1>2. CASE ~Errs
    <2>1. ObjectTyped
      <3>1. \A f \in focus : \/ live'[f] = my.spec[f] /\ my.spec[f] # Unset
                             \/ live'[f] \in Answerable(f)
        BY <1>2, WriteDoes, LeftTyped, ResetTyped DEF Results, IInv
      <3>2. live' \in [focus -> Values]
        BY <1>2, WriteDoes DEF Results
      <3>3. sent' \in 0..(MaxEdits + 1)
        BY <1>2, WriteDoes DEF IInv, TypeOK
      <3> QED
        BY <1>2, <3>1, <3>2, <3>3, WriteDoes, ResultsTyped
        DEF IInv, TypeOK, Underway, ObjectTyped
    <2>2. TypeOK'
      BY <1>2, <2>1, WriteDoes, NoCopyTyped, ReconcileTyped
      DEF IInv, TypeOK, counters
    <2>3. Underway' /\ Undisturbed'
      BY <1>2, WriteDoes DEF Underway, Undisturbed
    <2>4. SecretKnown'
      BY <1>2, WriteDoes
      DEF IInv, TypeOK, SecretKnown, around, counters, NoCopy
    <2> QED
      BY <2>2, <2>3, <2>4 DEF IInv
  <1> QED
    BY <1>1, <1>2

LEMMA CallFailsKeeps == IInv /\ CallFails => IInv'
  <1> SUFFICES ASSUME IInv, CallFails PROVE IInv'
    OBVIOUS
  <1>1. /\ UNCHANGED <<subject, spec, around, edits>>
        /\ pc' = "idle" /\ my' = NoCopy /\ quiet' = FALSE
        /\ faults < MaxFaults /\ faults' = faults + 1
        /\ \/ UNCHANGED object
           \/ exists' = FALSE /\ live' = Nothing /\ sent' = 0
    BY DEF CallFails
  <1>2. ObjectTyped
    <2>1. CASE UNCHANGED object
      BY <2>1, SameObjectTyped DEF IInv
    <2>2. CASE exists' = FALSE /\ live' = Nothing /\ sent' = 0
      <3>1. Nothing \in [focus -> Values]
        BY DEF Nothing, Values
      <3>2. 0 \in 0..(MaxEdits + 1)
        BY FieldSyncAssumption
      <3> QED
        BY <2>2, <3>1, <3>2 DEF ObjectTyped
    <2> QED
      BY <1>1, <2>1, <2>2
  <1>3. faults' \in 0..MaxFaults
    BY <1>1, FieldSyncAssumption DEF IInv, TypeOK
  <1>4. TypeOK'
    BY <1>1, <1>2, <1>3, NoCopyTyped, ReconcileTyped DEF IInv
  <1>5. Underway' /\ Undisturbed'
    BY <1>1 DEF Underway, Undisturbed
  <1>6. SecretKnown'
    BY <1>1 DEF IInv, TypeOK, SecretKnown, object, around, NoCopy
  <1> QED
    BY <1>4, <1>5, <1>6 DEF IInv

(* An edit disturbs nothing but what it edits, and counts as one.          *)
LEMMA EditsKeep ==
  ASSUME IInv, \/ EditManifest \/ ConsoleEdit \/ EditSecret
               \/ RefusalBegins \/ Restore
  PROVE  IInv'
  <1>1. /\ UNCHANGED <<subject, my, pc, faults, exists, sent>>
        /\ edits' = edits \/ (edits < MaxEdits /\ edits' = edits + 1)
        /\ quiet' = FALSE
    <2>1. CASE Restore
      <3>1. UNCHANGED <<subject, my, pc, object, counters>> /\ quiet' = FALSE
        BY <2>1 DEF Restore
      <3> QED
        BY <3>1 DEF counters, object
    <2>2. CASE ~Restore
      BY <2>2 DEF EditManifest, ConsoleEdit, EditSecret, RefusalBegins, Edit,
                  object
    <2> QED
      BY <2>1, <2>2
  <1>2. edits' \in 0..MaxEdits
    BY <1>1, FieldSyncAssumption DEF IInv, TypeOK
  <1>3. spec' \in Manifests
    <2>1. spec \in Manifests
      BY DEF IInv, TypeOK
    <2>2. CASE EditManifest
      <3>1. PICK f \in focus : \E v \in Declarable(f) :
              spec' = [spec EXCEPT ![f] = v]
        BY <2>2 DEF EditManifest
      <3>2. Declarable(f) \subseteq Values
        BY FocusSorted, HoldsByClass DEF IInv
      <3> QED
        BY <2>1, <3>1, <3>2 DEF Manifests
    <2>3. CASE ~EditManifest
      BY <2>1, <2>3 DEF ConsoleEdit, EditSecret, RefusalBegins, Restore
    <2> QED
      BY <2>2, <2>3
  <1>4. /\ live' \in [focus -> Values]
        /\ exists => \A f \in focus : live'[f] \in Answerable(f)
    <2>1. CASE ConsoleEdit
      BY <2>1, FocusSorted, HoldsByClass DEF IInv, TypeOK, ConsoleEdit
    <2>2. CASE ~ConsoleEdit
      BY <2>2 DEF IInv, TypeOK, EditManifest, EditSecret, RefusalBegins, Restore,
                  object
    <2> QED
      BY <2>1, <2>2
  <1>5. /\ secret' \in [there : BOOLEAN, version : 1..(MaxEdits + 1)]
        /\ secret.version =< secret'.version /\ secret'.version =< edits' + 1
    <2>1. CASE EditSecret
      <3>1. /\ secret \in [there : BOOLEAN, version : 1..(MaxEdits + 1)]
            /\ secret.version =< edits + 1 /\ edits \in 0..MaxEdits
            /\ MaxEdits \in Nat
        BY FieldSyncAssumption DEF IInv, TypeOK, SecretKnown
      <3>2. CASE secret' = [secret EXCEPT !.version = @ + 1]
        <4>1. edits < MaxEdits /\ edits' = edits + 1
          BY <2>1 DEF EditSecret, Edit
        <4> QED
          BY <3>1, <3>2, <4>1
      <3>3. CASE secret' = [secret EXCEPT !.there = FALSE]
        <4>1. /\ secret' \in [there : BOOLEAN, version : 1..(MaxEdits + 1)]
              /\ secret'.version = secret.version
          BY <3>1, <3>3
        <4> QED
          BY <1>1, <3>1, <4>1
      <3> QED
        BY <2>1, <3>2, <3>3 DEF EditSecret
    <2>2. CASE ~EditSecret
      <3>1. secret' = secret \/ secret' = [secret EXCEPT !.there = TRUE]
        BY <2>2 DEF EditManifest, ConsoleEdit, RefusalBegins, Restore, around
      <3>2. /\ secret \in [there : BOOLEAN, version : 1..(MaxEdits + 1)]
            /\ secret.version =< edits + 1 /\ edits \in 0..MaxEdits
            /\ MaxEdits \in Nat
        BY FieldSyncAssumption DEF IInv, TypeOK, SecretKnown
      <3>3. /\ secret' \in [there : BOOLEAN, version : 1..(MaxEdits + 1)]
            /\ secret'.version = secret.version
        BY <3>1, <3>2
      <3> QED
        BY <1>1, <3>2, <3>3
    <2> QED
      BY <2>1, <2>2
  <1>6. refusing' \in BOOLEAN
    BY DEF IInv, TypeOK, EditManifest, ConsoleEdit, EditSecret,
           RefusalBegins, Restore, around
  <1>7. TypeOK'
    <2>1. /\ kind' = kind /\ focus' = focus /\ Manifests' = Manifests
          /\ Nothing' = Nothing /\ Values' = Values
          /\ \A f : Answerable(f)' = Answerable(f)
      BY <1>1, SameSubject DEF Values
    <2>2. quiet' \in BOOLEAN
      BY <1>1
    <2> QED
      BY <1>1, <1>2, <1>3, <1>4, <1>5, <1>6, <2>1, <2>2 DEF IInv, TypeOK
  <1>8. Underway' /\ Undisturbed'
    BY <1>1, SameSubject DEF IInv, Underway, Undisturbed, AlwaysWrites
  <1>9. SecretKnown'
    BY <1>1, <1>5, SameSubject DEF IInv, TypeOK, SecretKnown, AlwaysWrites
  <1> QED
    BY <1>7, <1>8, <1>9 DEF IInv

LEMMA StutterKeeps == IInv /\ UNCHANGED vars => IInv'
  <1> SUFFICES ASSUME IInv, UNCHANGED vars PROVE IInv'
    OBVIOUS
  <1>1. /\ UNCHANGED <<subject, spec, object, my, around, pc, quiet, counters>>
        /\ UNCHANGED <<exists, live, sent, secret, refusing, edits, faults>>
    BY DEF vars, object, around, counters
  <1>2. TypeOK'
    BY <1>1, SameObjectTyped, ReconcileTyped DEF IInv, TypeOK, Copies
  <1>3. Underway' /\ SecretKnown'
    BY <1>1, SameSubject DEF IInv, Underway, SecretKnown, AlwaysWrites
  <1>4. Undisturbed'
    BY <1>1, SameSubject DEF IInv, Undisturbed, AlwaysWrites
  <1> QED
    BY <1>2, <1>3, <1>4 DEF IInv

LEMMA Inductive == IInv /\ [Next]_vars => IInv'
  BY StartKeeps, ObserveKeeps, ReadSecretKeeps, CreateKeeps, CreateSecondKeeps,
     GetKeeps, WriteKeeps, CallFailsKeeps, EditsKeep, StutterKeeps
  DEF Next, Reconcile

(* Every state that reconciles, edits and failed calls lead to.            *)
THEOREM SpecIInv == Spec => []IInv
  BY InitIInv, Inductive, PTL DEF Spec

-----------------------------------------------------------------------------
(* The theorems.                                                           *)

(* TypeOK, for every focus and every value: reconcile.Reconcile and the    *)
(* external clients never leave the object without a field it must have.   *)
THEOREM FieldTypes == Spec => []TypeOK
  BY SpecIInv, PTL DEF IInv

LEMMA KeepsUnmanaged ==
  ASSUME IInv, [Next]_vars, exists, exists', edits' = edits,
         kind \in DOMAIN Patch, NEW f \in focus, my.spec[f] = Unset
  PROVE  live'[f] = live[f]
  <1>1. CASE CreateSecond
    BY <1>1 DEF CreateSecond, Results, Left
  <1>2. CASE Write /\ ~Errs
    <2>1. live' \in Results(Patched(my.answer), Left)
      BY <1>2, WriteDoes
    <2> QED
      BY <2>1 DEF Results, Left
  <1>3. CASE Errs \/ Start \/ Observe \/ Get \/ (ReadSecret /\ ~Errs)
    BY <1>3 DEF Errs, Start, Observe, Get, ReadSecret, object
  <1>4. CASE Create /\ ~Errs
    BY <1>4 DEF Create, IInv, Underway
  <1>5. CASE CallFails
    BY <1>5 DEF CallFails, object
  <1>6. CASE \/ EditManifest \/ ConsoleEdit \/ EditSecret \/ RefusalBegins
             \/ Restore
    BY <1>6 DEF EditManifest, ConsoleEdit, EditSecret, RefusalBegins, Edit,
                Restore, counters, object, IInv, TypeOK
  <1>7. CASE UNCHANGED vars
    BY <1>7 DEF vars, object
  <1> QED
    BY <1>1, <1>2, <1>3, <1>4, <1>5, <1>6, <1>7 DEF Next, Reconcile

(* Project, Database and AgentCredential: no Create, Update or second call *)
(* touches a field that the manifest omits, whichever fields it writes and *)
(* however old the answer is from which Update has computed its PATCH.     *)
THEOREM UnmanagedKept == Spec => UnmanagedFieldsKept
  <1>1. IInv /\ [Next]_vars =>
          [exists /\ exists' /\ edits' = edits /\ kind \in DOMAIN Patch =>
             \A f \in focus : my.spec[f] = Unset => live'[f] = live[f]]_vars
    BY KeepsUnmanaged
  <1> QED
    BY <1>1, SpecIInv, PTL DEF Spec, UnmanagedFieldsKept

LEMMA CarriesSecret ==
  ASSUME IInv, [Next]_vars
  PROVE  /\ exists /\ exists' => sent' >= sent
         /\ pc = "write" /\ pc' = "idle" /\ quiet' /\ AlwaysWrites(kind)
              => sent' = secret.version
  <1>1. /\ sent \in Nat /\ secret.version \in Nat
        /\ pc = "write" /\ AlwaysWrites(kind) => my.secret \in Nat
    BY FieldSyncAssumption DEF IInv, TypeOK
  <1>2. CASE Errs
    BY <1>1, <1>2 DEF Errs, object
  <1>3. CASE Write /\ ~Errs
    BY <1>1, <1>3, WriteDoes DEF IInv, SecretKnown, Undisturbed
  <1>4. CASE Create /\ ~Errs
    BY <1>4 DEF Create, IInv, Underway
  <1>5. CASE \/ Start \/ Observe \/ Get \/ CreateSecond
             \/ (ReadSecret /\ ~Errs)
    BY <1>1, <1>5
    DEF Start, Observe, Get, CreateSecond, ReadSecret, object
  <1>6. CASE CallFails
    BY <1>1, <1>6 DEF CallFails, object
  <1>7. CASE \/ EditManifest \/ ConsoleEdit \/ EditSecret \/ RefusalBegins
             \/ Restore
    BY <1>1, <1>7
    DEF EditManifest, ConsoleEdit, EditSecret, RefusalBegins, Edit,
        Restore, counters, object
  <1>8. CASE UNCHANGED vars
    BY <1>1, <1>8 DEF vars, object
  <1> QED
    BY <1>2, <1>3, <1>4, <1>5, <1>6, <1>7, <1>8 DEF Next, Reconcile

(* Database and WebhookEndpoint: Update reads the Secret before it writes, *)
(* so that a write never brings back an older password or signing secret.  *)
THEOREM SecretsCarried == Spec => SecretCarried
  <1>1. IInv /\ [Next]_vars =>
          [/\ exists /\ exists' => sent' >= sent
           /\ pc = "write" /\ pc' = "idle" /\ quiet' /\ AlwaysWrites(kind)
                => sent' = secret.version]_vars
    BY CarriesSecret
  <1> QED
    BY <1>1, SpecIInv, PTL DEF Spec, SecretCarried

LEMMA UpToDateCarries ==
  ASSUME TypeOK, NEW d \in Manifests, NEW v \in [focus -> Values],
         UpToDate(d, v)
  PROVE  Carries(d, v)
  <1>1. \A f \in focus : /\ Sorted(kind, f) /\ d[f] \in Declarable(f)
                         /\ v[f] \in Values /\ Agrees(f, d[f], v[f])
    BY FocusSorted DEF Manifests, UpToDate
  <1> QED
    BY <1>1, AgreedIsCarried DEF Carries

(* What Update computes from an answer without drift: nothing to write.    *)
LEMMA NothingToWrite ==
  ASSUME IInv, pc = "get", ~NeedsUpdate(live)
  PROVE  UpToDate(my.spec, live)
  <1>1. CASE kind \notin DOMAIN Patch
    BY <1>1 DEF NeedsUpdate
  <1>2. CASE kind \in DOMAIN Patch
    <2> SUFFICES ASSUME NEW f \in focus
                 PROVE  Agrees(f, my.spec[f], live[f])
      BY DEF UpToDate
    <2>1. Sorted(kind, f) /\ my.spec[f] \in Declarable(f)
      BY FocusSorted DEF IInv, Underway, Manifests
    <2>2. f \notin Patched(live)
      BY <1>2 DEF NeedsUpdate
    <2>3. CASE my.spec[f] = Unset
      BY <1>2, <2>1, <2>3, WrittenAgrees
    <2>4. CASE my.spec[f] # Unset
      BY <1>2, <2>1, <2>2, <2>4 DEF Patched, Sorted
    <2> QED
      BY <2>3, <2>4
  <1> QED
    BY <1>1, <1>2

LEMMA CreateLeavesUpToDate ==
  ASSUME IInv, Create, ~Errs, pc' = "idle"
  PROVE  exists' /\ UpToDate(my.spec, live')
  <1>1. /\ pc = "create" /\ exists' = TRUE
        /\ live' \in Results(Post[kind], Initially)
        /\ AfterPost = "idle"
    BY DEF Create, Goes
  <1>2. \A f \in focus : f \in Post[kind] \/ my.spec[f] = Unset
    BY <1>1, FocusSorted DEF IInv, AfterPost, Sorted
  <1> QED
    BY <1>1, <1>2, PostAgrees DEF UpToDate

LEMMA SecondCallLeavesUpToDate ==
  ASSUME IInv, CreateSecond, quiet
  PROVE  exists' /\ UpToDate(my.spec, live')
  <1>1. /\ pc = "secondCall" /\ exists /\ exists' = exists
        /\ live' \in Results(SecondCall(kind), Left)
    BY DEF CreateSecond, IInv, Underway
  <1> SUFFICES ASSUME NEW f \in focus
               PROVE  Agrees(f, my.spec[f], live'[f])
    BY <1>1 DEF UpToDate
  <1>2. Sorted(kind, f) /\ my.spec[f] \in Declarable(f)
    BY FocusSorted, <1>1 DEF IInv, Underway, Manifests
  <1>3. CASE f \in SecondCall(kind) /\ my.spec[f] # Unset
    BY <1>1, <1>2, <1>3, WrittenAgrees DEF Results
  <1>4. CASE f \notin SecondCall(kind) \/ my.spec[f] = Unset
    <2>1. live'[f] = live[f]
      BY <1>1, <1>4 DEF Results, Left
    <2> QED
      BY <1>1, <1>4, <2>1 DEF IInv, Undisturbed
  <1> QED
    BY <1>3, <1>4

LEMMA WriteLeavesUpToDate ==
  ASSUME IInv, Write, ~Errs, quiet, Clearable
  PROVE  exists' /\ UpToDate(my.spec, live')
  <1>1. exists' /\ pc = "write" /\ my.spec = spec
    BY WriteDoes DEF IInv, Undisturbed
  <1> SUFFICES ASSUME NEW f \in focus
               PROVE  Agrees(f, my.spec[f], live'[f])
    BY <1>1 DEF UpToDate
  <1>2. Sorted(kind, f) /\ my.spec[f] \in Declarable(f)
    BY FocusSorted, <1>1 DEF IInv, Underway, Manifests
  <1>3. CASE kind \in DOMAIN Patch
    <2>1. my.answer = live /\ live' \in Results(Patched(live), Left)
      BY <1>1, <1>3, WriteDoes DEF IInv, Undisturbed
    <2>2. CASE my.spec[f] = Unset
      BY <1>2, <1>3, <2>2, WrittenAgrees
    <2>3. CASE my.spec[f] # Unset /\ f \in Patched(live)
      BY <1>2, <2>1, <2>3, WrittenAgrees DEF Results
    <2>4. CASE my.spec[f] # Unset /\ f \notin Patched(live)
      <3>1. live'[f] = live[f]
        BY <2>1, <2>4 DEF Results, Left
      <3> QED
        BY <1>2, <1>3, <2>4, <3>1 DEF Patched, Sorted
    <2> QED
      BY <2>2, <2>3, <2>4
  <1>4. CASE kind \notin DOMAIN Patch
    <2>1. live' \in Results(Put[kind], Reset) /\ f \in Put[kind]
      BY <1>2, <1>4, WriteDoes DEF Sorted
    <2>2. CASE my.spec[f] # Unset
      BY <1>2, <2>1, <2>2, WrittenAgrees DEF Results
    <2>3. CASE my.spec[f] = Unset
      <3>1. live'[f] \in Initially(f)
        BY <1>1, <2>1, <2>3 DEF Results, Reset, Clearable
      <3> QED
        BY <1>2, <2>3, <3>1, WrittenAgrees
    <2> QED
      BY <2>2, <2>3
  <1> QED
    BY <1>3, <1>4

LEMMA Suffices ==
  ASSUME IInv, [Next]_vars, pc # "idle", pc' = "idle", quiet', Clearable
  PROVE  exists' /\ Carries(spec', live') /\ UpToDate(spec', live')
  <1>1. exists' /\ UpToDate(my.spec, live') /\ my.spec = spec /\ spec' = spec
    <2>1. CASE Observe
      BY <2>1 DEF Observe, Goes, object, IInv, Undisturbed, UpToDate
    <2>2. CASE Create /\ ~Errs
      BY <2>2, CreateLeavesUpToDate DEF Create, Goes, IInv, Undisturbed
    <2>3. CASE CreateSecond
      BY <2>3, SecondCallLeavesUpToDate
      DEF CreateSecond, Goes, IInv, Undisturbed
    <2>4. CASE Get
      BY <2>4, NothingToWrite
      DEF Get, Goes, object, IInv, Undisturbed, Underway, UpToDate
    <2>5. CASE Write /\ ~Errs
      BY <2>5, WriteLeavesUpToDate, WriteDoes DEF IInv, Undisturbed
    <2>6. CASE Errs \/ Start \/ (ReadSecret /\ ~Errs) \/ CallFails
      BY <2>6 DEF Errs, Start, ReadSecret, Goes, CallFails
    <2>7. CASE \/ EditManifest \/ ConsoleEdit \/ EditSecret \/ RefusalBegins
             \/ Restore
               \/ UNCHANGED vars
      BY <2>7 DEF EditManifest, ConsoleEdit, EditSecret, RefusalBegins, Restore,
                  Edit, vars
    <2> QED
      BY <2>1, <2>2, <2>3, <2>4, <2>5, <2>6, <2>7 DEF Next, Reconcile
  <1>2. TypeOK' /\ spec \in Manifests
    BY Inductive DEF IInv, TypeOK
  <1>3. live' \in [focus -> Values]
    <2>1. UNCHANGED subject
      BY DEF Next, Reconcile, Start, Observe, ReadSecret, Create, CreateSecond,
             Get, Write, Writes, Goes, Errs, CallFails, EditManifest,
             ConsoleEdit, EditSecret, RefusalBegins, Restore, Edit, vars
    <2> QED
      BY <1>2, <2>1 DEF TypeOK, subject, Values
  <1> QED
    BY <1>1, <1>2, <1>3, UpToDateCarries DEF IInv

(* Of every kind, whichever of its fields are looked at together and what- *)
(* ever values they hold: is*UpToDate, Create with its second call, and    *)
(* Update fit together, so that one reconcile is enough and the next one   *)
(* has nothing to do.                                                      *)
THEOREM OneReconcileIsEnough == Spec => OneReconcileSuffices
  <1>1. IInv /\ [Next]_vars =>
          [pc # "idle" /\ pc' = "idle" /\ quiet' /\ Clearable
             => exists' /\ Carries(spec', live') /\ UpToDate(spec', live')]_vars
    BY Suffices
  <1> QED
    BY <1>1, SpecIInv, PTL DEF Spec, OneReconcileSuffices
=============================================================================
