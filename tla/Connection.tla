----------------------------- MODULE Connection ------------------------------
(***************************************************************************)
(* How a reconcile gets at the API: Connect records that the resource uses *)
(* its ProviderConfig, reads that, reads the Secret the ProviderConfig     *)
(* names, and makes a client with the key in it, anew in every reconcile.  *)
(* Nothing protects a ProviderConfig or a Secret in use: the usage is      *)
(* recorded, but no controller reads it.  So configurations and keys come  *)
(* and go at any time here, while a resource is applied, moved to another  *)
(* configuration and deleted.                                              *)
(*                                                                         *)
(* What follows Connect is reduced to the object being there or not; the   *)
(* other modules have the details.  Of an object in another account than   *)
(* the key's the API says that there is none.  Where the manifest (its     *)
(* organization) is unknown to the account, nothing can be created.        *)
(* config and secret are as the provider's cache shows them.               *)
(***************************************************************************)
EXTENDS Naturals

CONSTANTS
  Configs,         \* names of ProviderConfigs
  Secrets,         \* names of Secrets
  Accounts,        \* PgBeam accounts, each the set of its API keys; white
                   \* space around a key does not count
  Nothing,         \* no such thing, or no such entry in the Secret
  Blank,           \* an entry of nothing but white space
  MaxEdits         \* bound: what users do to configurations and resource

Keys == UNION Accounts

ASSUME ConnectionAssumption ==
  /\ Nothing \notin Configs \cup Secrets \cup Keys \cup Accounts
  /\ \A a, b \in Accounts : a \cap b # {} => a = b
  /\ Blank \notin Keys
  /\ MaxEdits \in Nat

VARIABLES
  config,          \* the Secret a ProviderConfig names, or Nothing
  secret,          \* what the Secret holds for the API key
  accepted,        \* the keys the API accepts
  admits,          \* the accounts in which the object can be created
  cr,              \* the stored resource
  usage,           \* the ProviderConfigUsage of the resource
  object,          \* the account with the resource's object, or Nothing
  left,            \* there is an object that no resource names any more
  my,              \* the reconcile's copy of cr
  pc,
  name, key,       \* the Secret and the key the reconcile has read
  edits

world == <<config, secret, accepted, admits>>
objects == <<object, left>>
conn == <<name, key>>
vars == <<world, cr, usage, objects, my, pc, conn, edits>>

Account(k) == CHOOSE a \in Accounts : k \in a

(* "held": has the finalizer; "version" tells copies of what users wrote   *)
(* apart.                                                                  *)
CR == [stage : {"absent", "applied", "deleting"}, held : BOOLEAN,
       ref : Configs, version : 0..MaxEdits]

TypeOK ==
  /\ config \in [Configs -> Secrets \cup {Nothing}]
  /\ secret \in [Secrets -> Keys \cup {Nothing, Blank}]
  /\ accepted \subseteq Keys
  /\ admits \subseteq Accounts
  /\ {cr, my} \subseteq CR
  /\ usage \in Configs \cup {Nothing}
  /\ object \in Accounts \cup {Nothing}
  /\ left \in BOOLEAN
  /\ pc \in {"idle", "track", "getConfig", "getSecret", "observe",
             "prepare", "create", "delete", "release"}
  /\ name \in Secrets \cup {Nothing}
  /\ key \in Keys \cup {Nothing}
  /\ edits \in 0..MaxEdits

Init ==
  /\ config \in [Configs -> Secrets \cup {Nothing}]
  /\ secret \in [Secrets -> Keys \cup {Nothing, Blank}]
  /\ accepted = Keys
  /\ admits \in SUBSET Accounts
  /\ cr \in [stage : {"absent"}, held : {FALSE}, ref : Configs, version : {0}]
  /\ my = cr
  /\ usage = Nothing
  /\ object = Nothing
  /\ left = FALSE
  /\ pc = "idle"
  /\ name = Nothing
  /\ key = Nothing
  /\ edits = 0

-----------------------------------------------------------------------------
(* Connect.                                                                *)

(* Mutant: a client, once made, is kept.                                   *)
StartCached ==
  /\ pc = "idle"
  /\ cr.stage # "absent"
  /\ my' = cr
  /\ pc' = IF key = Nothing THEN "track" ELSE "observe"
  /\ UNCHANGED <<world, cr, usage, objects, conn, edits>>

(* Mutant: the usage is not recorded for a new client.                     *)
StartUntracked ==
  /\ pc = "idle"
  /\ cr.stage # "absent"
  /\ my' = cr
  /\ pc' = "getConfig"
  /\ UNCHANGED <<world, cr, usage, objects, conn, edits>>

Start ==
  /\ pc = "idle"
  /\ cr.stage # "absent"
  /\ my' = cr
  /\ pc' = "track"
  /\ UNCHANGED <<world, cr, usage, objects, conn, edits>>

(* Before the ProviderConfig is known to exist.  The CRDs give every       *)
(* resource a reference, so there is always one to record.                 *)
Track ==
  /\ pc = "track"
  /\ usage' = my.ref
  /\ pc' = "getConfig"
  /\ UNCHANGED <<world, cr, objects, my, conn, edits>>

(* Mutant: the ProviderConfig is not read again.                           *)
GetConfigOnce ==
  /\ pc = "getConfig"
  /\ name' = IF name = Nothing THEN config[my.ref] ELSE name
  /\ pc' = IF name' = Nothing THEN "idle" ELSE "getSecret"
  /\ UNCHANGED <<world, cr, usage, objects, my, key, edits>>

GetConfig ==
  /\ pc = "getConfig"
  /\ name' = config[my.ref]
  /\ pc' = IF name' = Nothing THEN "idle" ELSE "getSecret"
  /\ UNCHANGED <<world, cr, usage, objects, my, key, edits>>

(* Mutant: a blank key is used.                                            *)
GetSecretUnchecked ==
  /\ pc = "getSecret"
  /\ pc' = IF secret[name] = Nothing THEN "idle" ELSE "observe"
  /\ key' = IF secret[name] = Nothing THEN key ELSE secret[name]
  /\ UNCHANGED <<world, cr, usage, objects, my, name, edits>>

GetSecret ==
  /\ pc = "getSecret"
  /\ pc' = IF secret[name] \in Keys THEN "observe" ELSE "idle"
  /\ key' = IF secret[name] \in Keys THEN secret[name] ELSE key
  /\ UNCHANGED <<world, cr, usage, objects, my, name, edits>>

-----------------------------------------------------------------------------
(* With the client.  A call with a key that is not accepted is an error,   *)
(* which is not the 404 that means absent.                                 *)

(* What a GET with the reconcile's key answers.                            *)
Found == object # Nothing /\ object = Account(key)

(* Mutant: whatever error means absent.                                    *)
ObserveAnyError ==
  /\ pc = "observe"
  /\ pc' = CASE my.stage = "deleting" ->
                  IF key \in accepted /\ Found THEN "delete" ELSE "release"
             [] my.stage # "deleting" ->
                  IF key \in accepted /\ Found THEN "idle" ELSE "prepare"
  /\ UNCHANGED <<world, cr, usage, objects, my, conn, edits>>

Observe ==
  /\ pc = "observe"
  /\ pc' = CASE key \notin accepted                       -> "idle"
             [] key \in accepted /\ my.stage = "deleting" ->
                  IF Found THEN "delete" ELSE "release"
             [] key \in accepted /\ my.stage # "deleting" ->
                  IF Found THEN "idle" ELSE "prepare"
  /\ UNCHANGED <<world, cr, usage, objects, my, conn, edits>>

(* A write to the stored resource; a stale copy makes it a conflict.       *)
Store(new, next) ==
  /\ cr' = IF my = cr THEN new ELSE cr
  /\ my' = IF my = cr THEN new ELSE my
  /\ pc' = IF my = cr THEN next ELSE "idle"
  /\ UNCHANGED <<world, usage, conn, edits>>

(* The name of the object goes with the resource.                          *)
Unname(gone) ==
  IF gone THEN object' = Nothing /\ left' = (left \/ object # Nothing)
          ELSE UNCHANGED objects

(* The finalizer and the pending annotation that precede Create.           *)
Prepare ==
  /\ pc = "prepare"
  /\ Store([my EXCEPT !.held = TRUE], "create")
  /\ UNCHANGED objects

(* The external name becomes that of the new object; if the API refuses to *)
(* make one it stays.                                                      *)
Create ==
  /\ pc = "create"
  /\ IF key \in accepted /\ Account(key) \in admits
       THEN object' = Account(key) /\ left' = (left \/ object # Nothing)
       ELSE UNCHANGED objects
  /\ pc' = "idle"
  /\ UNCHANGED <<world, cr, usage, my, conn, edits>>

(* Only the object of the key's account can be deleted.                    *)
Delete ==
  /\ pc = "delete"
  /\ object' = IF key \in accepted /\ Found THEN Nothing ELSE object
  /\ pc' = "idle"
  /\ UNCHANGED <<world, cr, usage, left, my, conn, edits>>

Release ==
  /\ pc = "release"
  /\ Store([my EXCEPT !.stage = "absent", !.held = FALSE], "idle")
  /\ Unname(my = cr)

(* The cluster collects the usage of a resource that is gone.              *)
CollectUsage ==
  /\ cr.stage = "absent"
  /\ usage # Nothing
  /\ usage' = Nothing
  /\ UNCHANGED <<world, cr, objects, my, pc, conn, edits>>

Reconcile ==
  Start \/ Track \/ GetConfig \/ GetSecret \/ Observe \/ Prepare
    \/ Create \/ Delete \/ Release

-----------------------------------------------------------------------------
(* Users.                                                                  *)

Edit == edits < MaxEdits /\ edits' = edits + 1

EditWorld ==
  /\ Edit
  /\ \/ /\ \E c \in Configs, s \in Secrets \cup {Nothing} :
             config' = [config EXCEPT ![c] = s]
        /\ UNCHANGED <<secret, accepted>>
     \/ /\ \E s \in Secrets, k \in Keys \cup {Nothing, Blank} :
             secret' = [secret EXCEPT ![s] = k]
        /\ UNCHANGED <<config, accepted>>
     \/ /\ \E k \in accepted : accepted' = accepted \ {k}
        /\ UNCHANGED <<config, secret>>
  /\ UNCHANGED <<admits, cr, usage, objects, my, pc, conn>>

Apply ==
  /\ cr.stage = "absent"
  /\ Edit
  /\ \E c \in Configs :
       cr' = [stage |-> "applied", held |-> FALSE, ref |-> c, version |-> edits']
  /\ UNCHANGED <<world, usage, objects, my, pc, conn>>

(* providerConfigRef is not immutable.                                     *)
EditRef ==
  /\ cr.stage # "absent"
  /\ Edit
  /\ \E c \in Configs \ {cr.ref} : cr' = [cr EXCEPT !.ref = c, !.version = edits']
  /\ UNCHANGED <<world, usage, objects, my, pc, conn>>

(* Without a finalizer the resource is gone at once.                       *)
RequestDelete ==
  /\ cr.stage = "applied"
  /\ Edit
  /\ cr' = [cr EXCEPT !.stage = IF cr.held THEN "deleting" ELSE "absent",
                      !.version = edits']
  /\ Unname(~cr.held)
  /\ UNCHANGED <<world, usage, my, pc, conn>>

Next ==
  Reconcile \/ CollectUsage \/ EditWorld \/ Apply \/ EditRef \/ RequestDelete

Spec == Init /\ [][Next]_vars

(* A reconcile is started at every poll and after every error.             *)
FairSpec == Spec /\ WF_vars(Reconcile)

-----------------------------------------------------------------------------
(* Properties.                                                             *)

(* The resource as DeclaredObject sees it, a left object being lost to it.  *)
Declared == INSTANCE DeclaredObject WITH
  Ids <- Accounts,
  declared <- cr.stage # "absent",
  owned <- IF object = Nothing THEN {} ELSE {object}

(* A reconcile whose key is of another account than the object's.          *)
Elsewhere ==
  pc \in {"create", "release"} /\ object # Nothing /\ Account(key) # object

(* Whatever becomes of configuration, keys and resource meanwhile, the     *)
(* provider makes a second object, or lets a resource go before its object,*)
(* only in such a reconcile: not being able to look is never taken for     *)
(* having seen nothing.  In all else it keeps what it promises of every    *)
(* managed resource.                                                       *)
NeverLeftBehind ==
  [][Elsewhere \/ (Declared!Next /\ UNCHANGED left)]_<<Declared!vars, left>>

(* Without a second account there is no such reconcile.                    *)
Refines == Declared!Spec

(* As long as there is an object, its resource has a configuration on      *)
(* record, and whenever a call is made for it, the one the client is of.   *)
InUse ==
  object # Nothing =>
    /\ usage # Nothing
    /\ pc \in {"observe", "delete"} => usage = my.ref

CurrentKey == IF config[cr.ref] = Nothing THEN Nothing ELSE secret[config[cr.ref]]

Usable == CurrentKey \in accepted

(* A resource that was stuck for want of a configuration goes on, its      *)
(* deletion too, as soon as it has one that can be used; then its object   *)
(* is in the account of that configuration, if it can be.                  *)
ResumesWhenUsable ==
  <>[]Usable =>
    <>[](/\ Usable
         /\ cr.stage # "deleting"
         /\ cr.stage = "applied" /\ Account(CurrentKey) \in admits
              => object = Account(CurrentKey))

(* After a key is replaced in its Secret, or the resource is moved to      *)
(* another configuration, the old key is used no more.                     *)
RotationTakesEffect ==
  <>[](pc = "observe" => key = CurrentKey)
=============================================================================
