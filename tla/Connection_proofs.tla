------------------------- MODULE Connection_proofs --------------------------
(***************************************************************************)
(* That configurations and keys which come and go never make the provider  *)
(* leave an object behind, for any number of them and of edits.            *)
(***************************************************************************)
EXTENDS Connection, TLAPS

(* While there is an object, its resource is there and has the finalizer.  *)
Held == object # Nothing => cr.stage # "absent" /\ cr.held

(* What a reconcile relies on: nobody else makes or deletes the object.    *)
LookedRight == pc \in {"prepare", "create", "release"} => ~Found

Running == pc # "idle" => my.stage # "absent"

(* Copies are told apart by what users wrote last.                         *)
Versions == my.version <= edits /\ cr.version <= edits

Connected == {"getConfig", "getSecret", "observe", "prepare", "create",
              "delete", "release"}

(* The usage stays on record as long as the copy is the stored resource or *)
(* there is an object to be used for.                                      *)
Recorded ==
  pc \in Connected /\ (my = cr \/ object # Nothing \/ pc = "create")
    => usage = my.ref

Reserved == pc = "create" => cr.held /\ cr.stage # "absent"

(* An object without a reconcile keeps the usage of the one that made it.  *)
Kept == object # Nothing => usage \in Configs

IInv ==
  /\ TypeOK
  /\ Held
  /\ LookedRight
  /\ Running
  /\ Versions
  /\ Recorded
  /\ Reserved
  /\ Kept

-----------------------------------------------------------------------------
(* Types.                                                                  *)

LEMMA InitTypeOK == Init => TypeOK
<1> SUFFICES ASSUME Init PROVE TypeOK
  OBVIOUS
<1>1. 0 \in 0..MaxEdits
  BY ConnectionAssumption
<1>2. cr \in CR
  <2>1. [stage : {"absent"}, held : {FALSE}, ref : Configs, version : {0}]
          \subseteq CR
    BY <1>1, Zenon DEF CR
  <2> QED BY <2>1, Zenon DEF Init
<1>3. my \in CR
  BY <1>2 DEF Init
<1> QED BY <1>1, <1>2, <1>3 DEF Init, TypeOK

LEMMA EditCounts == TypeOK /\ Edit => edits' \in 0..MaxEdits /\ edits' = edits + 1
  BY ConnectionAssumption DEF TypeOK, Edit

(* A conditional write stores a well-formed resource.                      *)
LEMMA StoreTypes ==
  ASSUME TypeOK, NEW new \in CR, NEW next, Store(new, next),
         next \in {"create", "idle"},
         object' \in Accounts \cup {Nothing}, left' \in BOOLEAN
  PROVE  TypeOK'
<1>1. cr' \in CR /\ my' \in CR
  BY DEF Store, TypeOK
<1>2. pc' \in {"create", "idle"}
  BY DEF Store
<1> QED BY <1>1, <1>2 DEF Store, TypeOK, world, conn, CR

LEMMA NextTypeOK == TypeOK /\ [Next]_vars => TypeOK'
<1> SUFFICES ASSUME TypeOK, [Next]_vars PROVE TypeOK'
  OBVIOUS
<1>r. cr \in CR /\ my \in CR
  BY DEF TypeOK
<1> USE DEF world, conn, objects, Unname, Found
<1>1. CASE Start BY <1>1 DEF Start, TypeOK, CR
<1>2. CASE Track BY <1>2 DEF Track, TypeOK, CR
<1>3. CASE GetConfig
  <2>1. name' \in Secrets \cup {Nothing}
    BY <1>3 DEF GetConfig, TypeOK, CR
  <2> QED BY <1>3, <2>1 DEF GetConfig, TypeOK, CR
<1>4. CASE GetSecret
  <2>1. key' \in Keys \cup {Nothing}
    BY <1>4 DEF GetSecret, TypeOK
  <2> QED BY <1>4, <2>1 DEF GetSecret, TypeOK, CR
<1>5. CASE Observe BY <1>5 DEF Observe, TypeOK, CR
<1>6. CASE Prepare
  <2>1. [my EXCEPT !.held = TRUE] \in CR
    BY <1>r DEF CR
  <2>2. object' \in Accounts \cup {Nothing} /\ left' \in BOOLEAN
    BY <1>6 DEF Prepare, TypeOK
  <2> QED BY <1>6, <2>1, <2>2, StoreTypes DEF Prepare
<1>7. CASE Create
  <2>1. key \in accepted => Account(key) \in Accounts
    BY DEF TypeOK, Keys, Account
  <2>2. object' \in Accounts \cup {Nothing} /\ left' \in BOOLEAN
    BY <1>7, <2>1 DEF Create, TypeOK
  <2> QED BY <1>7, <2>2 DEF Create, TypeOK, CR
<1>8. CASE Delete BY <1>8 DEF Delete, TypeOK, CR
<1>9. CASE Release
  <2>1. [my EXCEPT !.stage = "absent", !.held = FALSE] \in CR
    BY <1>r DEF CR
  <2>2. object' \in Accounts \cup {Nothing} /\ left' \in BOOLEAN
    BY <1>9 DEF Release, TypeOK
  <2> QED BY <1>9, <2>1, <2>2, StoreTypes DEF Release
<1>10. CASE CollectUsage BY <1>10 DEF CollectUsage, TypeOK, CR
<1>11. CASE EditWorld
  <2>1. edits' \in 0..MaxEdits
    BY <1>11, EditCounts DEF EditWorld
  <2>2. /\ config' \in [Configs -> Secrets \cup {Nothing}]
        /\ secret' \in [Secrets -> Keys \cup {Nothing, Blank}]
        /\ accepted' \subseteq Keys
    BY <1>11 DEF EditWorld, TypeOK
  <2> QED BY <1>11, <2>1, <2>2 DEF EditWorld, TypeOK, CR
<1>12. CASE Apply
  <2>1. edits' \in 0..MaxEdits
    BY <1>12, EditCounts DEF Apply
  <2>2. cr' \in CR
    BY <1>12, <2>1 DEF Apply, CR
  <2> QED BY <1>12, <2>1, <2>2 DEF Apply, TypeOK, CR
<1>13. CASE EditRef
  <2>1. edits' \in 0..MaxEdits
    BY <1>13, EditCounts DEF EditRef
  <2>2. cr' \in CR
    BY <1>13, <1>r, <2>1 DEF EditRef, CR
  <2> QED BY <1>13, <2>1, <2>2 DEF EditRef, TypeOK, CR
<1>14. CASE RequestDelete
  <2>1. edits' \in 0..MaxEdits
    BY <1>14, EditCounts DEF RequestDelete
  <2>2. cr' \in CR
    BY <1>14, <1>r, <2>1 DEF RequestDelete, CR
  <2>3. object' \in Accounts \cup {Nothing} /\ left' \in BOOLEAN
    BY <1>14 DEF RequestDelete, TypeOK
  <2> QED BY <1>14, <2>1, <2>2, <2>3 DEF RequestDelete, TypeOK, CR
<1>15. CASE UNCHANGED vars BY <1>15 DEF vars, TypeOK, CR
<1> QED
  BY <1>1, <1>2, <1>3, <1>4, <1>5, <1>6, <1>7, <1>8, <1>9, <1>10, <1>11,
     <1>12, <1>13, <1>14, <1>15 DEF Next, Reconcile

-----------------------------------------------------------------------------
(* The invariant.                                                          *)

LEMMA InitIInv == Init => IInv
<1> SUFFICES ASSUME Init PROVE IInv
  OBVIOUS
<1>1. my.version = 0 /\ cr.version = 0 /\ edits = 0
  BY DEF Init
<1>2. Versions
  BY <1>1 DEF Versions
<1>3. TypeOK /\ pc = "idle" /\ object = Nothing
  BY InitTypeOK DEF Init
<1> QED BY <1>2, <1>3 DEF IInv, Held, LookedRight, Running,
       Recorded, Connected, Reserved, Kept

LEMMA NextIInv == IInv /\ [Next]_vars => IInv'
<1> SUFFICES ASSUME IInv, [Next]_vars PROVE IInv'
  OBVIOUS
<1>t. TypeOK /\ TypeOK'
  BY NextTypeOK DEF IInv
<1>r. /\ cr \in CR /\ my \in CR
      /\ edits \in Nat
      /\ cr.version \in Nat /\ my.version \in Nat
      /\ my.ref \in Configs
  BY <1>t, ConnectionAssumption DEF TypeOK, CR
<1> USE DEF Held, Found, LookedRight, Running, Versions, Recorded,
            Connected, Reserved, Kept, world, conn, objects, Unname
<1>1. CASE Start BY <1>1, <1>t DEF Start, IInv
<1>2. CASE Track BY <1>2, <1>t, <1>r DEF Track, IInv
<1>3. CASE GetConfig BY <1>3, <1>t DEF GetConfig, IInv
<1>4. CASE GetSecret BY <1>4, <1>t DEF GetSecret, IInv
<1>5. CASE Observe BY <1>5, <1>t DEF Observe, IInv
<1>6. CASE Prepare
  <2>1. CASE my = cr
    <3> DEFINE new == [my EXCEPT !.held = TRUE]
    <3>1. /\ new.held /\ new.stage = my.stage /\ new.ref = my.ref
          /\ new.version = my.version
      BY <1>r DEF CR
    <3>2. cr' = new /\ my' = new /\ pc' = "create"
      BY <1>6, <2>1 DEF Prepare, Store
    <3> HIDE DEF new
    <3> QED BY <1>6, <1>t, <2>1, <3>1, <3>2 DEF Prepare, Store, IInv
  <2>2. CASE my # cr
    BY <1>6, <1>t, <2>2 DEF Prepare, Store, IInv
  <2> QED BY <2>1, <2>2
<1>7. CASE Create BY <1>7, <1>t, <1>r DEF Create, IInv
<1>8. CASE Delete BY <1>8, <1>t DEF Delete, IInv
<1>9. CASE Release
  <2>1. CASE my = cr
    <3> DEFINE new == [my EXCEPT !.stage = "absent", !.held = FALSE]
    <3>1. new.version = my.version
      BY <1>r DEF CR
    <3>2. cr' = new /\ my' = new /\ pc' = "idle"
      BY <1>9, <2>1 DEF Release, Store
    <3> HIDE DEF new
    <3> QED BY <1>9, <1>t, <2>1, <3>1, <3>2 DEF Release, Store, IInv
  <2>2. CASE my # cr
    BY <1>9, <1>t, <2>2 DEF Release, Store, IInv
  <2> QED BY <2>1, <2>2
<1>10. CASE CollectUsage BY <1>10, <1>t DEF CollectUsage, IInv
<1>11. CASE EditWorld
  BY <1>11, <1>t, <1>r, EditCounts DEF EditWorld, IInv
<1>12. CASE Apply
  <2>1. edits' = edits + 1
    BY <1>12, <1>t, EditCounts DEF Apply
  <2>2. cr'.version = edits' /\ cr'.stage = "applied"
    BY <1>12 DEF Apply
  <2>3. my' # cr'
    BY <1>12, <1>r, <2>1, <2>2 DEF Apply, IInv
  <2> QED BY <1>12, <1>t, <1>r, <2>1, <2>2, <2>3 DEF Apply, IInv
<1>13. CASE EditRef
  <2>1. edits' = edits + 1
    BY <1>13, <1>t, EditCounts DEF EditRef
  <2>2. /\ cr'.version = edits' /\ cr'.stage = cr.stage
        /\ cr'.held = cr.held
    BY <1>13, <1>r DEF EditRef, CR
  <2>3. my' = my /\ pc' = pc /\ usage' = usage /\ object' = object
        /\ key' = key /\ admits' = admits
    BY <1>13 DEF EditRef
  <2>4. my' # cr'
    BY <1>r, <2>1, <2>2, <2>3 DEF IInv
  <2> QED BY <1>t, <1>r, <2>1, <2>2, <2>3, <2>4 DEF IInv
<1>14. CASE RequestDelete
  <2>1. edits' = edits + 1
    BY <1>14, <1>t, EditCounts DEF RequestDelete
  <2>2. /\ cr'.version = edits' /\ cr'.held = cr.held
        /\ cr.held => cr'.stage = "deleting"
    BY <1>14, <1>r DEF RequestDelete, CR
  <2>3. my' = my /\ pc' = pc /\ usage' = usage
        /\ object' \in {object, Nothing} /\ key' = key /\ admits' = admits
    BY <1>14 DEF RequestDelete
  <2>4. my' # cr'
    BY <1>r, <2>1, <2>2, <2>3 DEF IInv
  <2> QED BY <1>t, <1>r, <2>1, <2>2, <2>3, <2>4 DEF IInv
<1>15. CASE UNCHANGED vars BY <1>15, <1>t DEF vars, IInv
<1> QED
  BY <1>1, <1>2, <1>3, <1>4, <1>5, <1>6, <1>7, <1>8, <1>9, <1>10, <1>11,
     <1>12, <1>13, <1>14, <1>15 DEF Next, Reconcile

LEMMA Inductive == Spec => []IInv
  BY InitIInv, NextIInv, PTL DEF Spec

-----------------------------------------------------------------------------
(* A step as DeclaredObject sees it.                                       *)

(* The handlers run with a key that was read.                              *)
KeyRead ==
  pc \in {"observe", "prepare", "create", "delete", "release"} => key \in Keys

LEMMA NextKeyRead == KeyRead /\ [Next]_vars => KeyRead'
<1> SUFFICES ASSUME KeyRead, [Next]_vars PROVE KeyRead'
  OBVIOUS
<1> USE DEF KeyRead, conn
<1>1. CASE Start \/ Track \/ GetConfig
  BY <1>1 DEF Start, Track, GetConfig
<1>2. CASE GetSecret
  BY <1>2 DEF GetSecret
<1>3. CASE Observe
  BY <1>3 DEF Observe
<1>4. CASE Prepare \/ Release
  BY <1>4 DEF Prepare, Release, Store
<1>5. CASE Create \/ Delete
  BY <1>5 DEF Create, Delete
<1>6. CASE \/ CollectUsage \/ EditWorld \/ Apply \/ EditRef \/ RequestDelete
           \/ UNCHANGED vars
  BY <1>6 DEF CollectUsage, EditWorld, Apply, EditRef, RequestDelete, vars
<1> QED BY <1>1, <1>2, <1>3, <1>4, <1>5, <1>6 DEF Next, Reconcile

LEMMA AccountOfKey ==
  ASSUME NEW k \in Keys
  PROVE  Account(k) \in Accounts
  BY DEF Keys, Account

LEMMA NextKeepsPromise ==
  ASSUME IInv, KeyRead, [Next]_vars, ~Elsewhere
  PROVE  [Declared!Next]_(Declared!vars)
<1>t. cr \in CR /\ my \in CR /\ Nothing \notin Accounts
  BY ConnectionAssumption DEF IInv, TypeOK
<1>e. pc \in {"create", "release"} => object = Nothing
  BY DEF IInv, LookedRight, Found, Elsewhere
<1> USE DEF Declared!vars
<1>1. ASSUME UNCHANGED object, cr'.stage = cr.stage
      PROVE  [Declared!Next]_(Declared!vars)
  BY <1>1
<1>2. ASSUME UNCHANGED object, object = Nothing
      PROVE  [Declared!Next]_(Declared!vars)
  BY <1>2 DEF Declared!Next, Declared!Declare, Declared!Withdraw
<1>3. CASE \/ Start \/ Track \/ GetConfig \/ GetSecret \/ Observe
           \/ CollectUsage \/ EditWorld \/ UNCHANGED vars
  BY <1>1, <1>3 DEF Start, Track, GetConfig, GetSecret, Observe, CollectUsage,
                    EditWorld, vars, objects
<1>4. CASE Prepare
  <2>1. cr'.stage = cr.stage
    BY <1>4, <1>t DEF Prepare, Store, CR
  <2> QED BY <1>1, <1>4, <2>1 DEF Prepare, objects
<1>5. CASE Create
  <2>1. object = Nothing /\ cr.stage # "absent" /\ cr' = cr
    BY <1>5, <1>e DEF Create, IInv, Reserved
  <2>2. CASE object' = Nothing
    BY <1>1, <2>1, <2>2
  <2>3. CASE object' # Nothing
    <3>1. Account(key) \in Accounts /\ object' = Account(key)
      BY <1>5, <2>1, <2>3, AccountOfKey DEF Create, KeyRead, objects
    <3>2. Declared!Provide(Account(key))
      BY <2>1, <2>3, <3>1 DEF Declared!Provide
    <3> QED BY <3>1, <3>2 DEF Declared!Next
  <2> QED BY <2>2, <2>3
<1>6. CASE Delete
  <2>1. cr' = cr /\ object' \in {object, Nothing}
    BY <1>6 DEF Delete
  <2>2. CASE object' = object
    BY <1>1, <2>1, <2>2
  <2>3. CASE object' # object
    <3>1. Declared!Drop
      BY <2>1, <2>3 DEF Declared!Drop
    <3> QED BY <3>1 DEF Declared!Next
  <2> QED BY <2>2, <2>3
<1>7. CASE Release
  <2>1. object = Nothing /\ object' = Nothing
    BY <1>7, <1>e DEF Release, Unname, objects
  <2> QED BY <1>2, <2>1
<1>8. CASE Apply
  <2>1. object = Nothing /\ object' = object
    BY <1>8 DEF Apply, IInv, Held, objects
  <2> QED BY <1>2, <2>1
<1>9. CASE EditRef
  BY <1>1, <1>9, <1>t DEF EditRef, CR, objects
<1>10. CASE RequestDelete
  <2>1. CASE cr.held
    <3>1. cr.stage = "applied" /\ cr'.stage = "deleting" /\ object' = object
      BY <1>10, <1>t, <2>1 DEF RequestDelete, CR, Unname, objects
    <3> QED BY <3>1
  <2>2. CASE ~cr.held
    <3>1. object = Nothing /\ object' = object
      BY <1>10, <2>2 DEF RequestDelete, Unname, IInv, Held
    <3> QED BY <1>2, <3>1
  <2> QED BY <2>1, <2>2
<1> QED BY <1>3, <1>4, <1>5, <1>6, <1>7, <1>8, <1>9, <1>10
       DEF Next, Reconcile

LEMMA LeftStep ==
  ASSUME IInv, [Next]_vars, ~Elsewhere
  PROVE  left' = left
<1>1. left \in BOOLEAN /\ Held /\ LookedRight
  BY DEF IInv, TypeOK
<1>2. CASE Create
  BY <1>1, <1>2 DEF Create, LookedRight, Found, Elsewhere, objects
<1>3. CASE Release
  BY <1>1, <1>3 DEF Release, LookedRight, Found, Elsewhere, Unname, objects
<1>4. CASE RequestDelete
  BY <1>1, <1>4 DEF RequestDelete, Held, Unname, objects
<1> QED
  BY <1>2, <1>3, <1>4 DEF Next, Reconcile, Start, Track, GetConfig,
     GetSecret, Observe, Prepare, Delete, CollectUsage, EditWorld, Apply,
     EditRef, vars, objects

OneAccount == \A a, b \in Accounts : a = b

LEMMA NowhereElse ==
  ASSUME OneAccount, IInv, KeyRead
  PROVE  ~Elsewhere
<1>1. pc \in {"create", "release"} => Account(key) \in Accounts
  BY AccountOfKey DEF KeyRead
<1>2. object \in Accounts \cup {Nothing}
  BY DEF IInv, TypeOK
<1> QED BY <1>1, <1>2 DEF OneAccount, Elsewhere

-----------------------------------------------------------------------------
(* The theorems.                                                           *)

(* NeverLeftBehind: a configuration, Secret or key that is missing makes   *)
(* getClient or Observe fail, which never counts as an absent object; so   *)
(* Create makes no second one, and no resource goes before its object,     *)
(* save through a key of another account.                                  *)
THEOREM NoneLeftBehind == Spec => NeverLeftBehind
<1>1. Init => KeyRead
  BY DEF Init, KeyRead
<1>2. KeyRead /\ [Next]_vars => KeyRead'
  BY NextKeyRead
<1>3. IInv /\ KeyRead /\ [Next]_vars
        => [Elsewhere \/ (Declared!Next /\ UNCHANGED left)]_<<Declared!vars, left>>
  BY NextKeepsPromise, LeftStep
<1> QED BY <1>1, <1>2, <1>3, Inductive, PTL DEF Spec, NeverLeftBehind

(* InUse: getClient records the usage before the object can exist, and for *)
(* the configuration that the client is made from.                         *)
THEOREM UsageOnRecord == Spec => []InUse
<1>1. IInv => InUse
  BY ConnectionAssumption DEF IInv, InUse, Recorded, Connected, Kept
<1> QED BY <1>1, Inductive, PTL

(* TypeOK: what getClient and the reconciler record is always of the kind  *)
(* the code declares, for any sets of accounts, keys and Secrets.          *)
THEOREM ConnectionTypes == Spec => []TypeOK
<1>1. IInv => TypeOK
  BY DEF IInv
<1> QED BY <1>1, Inductive, PTL

(* Refines: where all keys that getSecretValue can read are of one account *)
(* the exception cannot occur, and the reconcile implements DeclaredObject.*)
THEOREM OneAccountRefines ==
  ASSUME OneAccount
  PROVE  Spec => Refines
<1>1. Init => KeyRead /\ Declared!Init
  BY DEF Init, KeyRead, Declared!Init
<1>2. KeyRead /\ [Next]_vars => KeyRead'
  BY NextKeyRead
<1>3. IInv /\ KeyRead /\ [Next]_vars => [Declared!Next]_(Declared!vars)
  BY NextKeepsPromise, NowhereElse
<1> QED BY <1>1, <1>2, <1>3, Inductive, PTL
       DEF Spec, Refines, Declared!Spec
=============================================================================
