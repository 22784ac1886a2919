-------------------------- MODULE ManagedResource ---------------------------
(***************************************************************************)
(* The life of one managed resource whose PgBeam object gets its           *)
(* identifier from the server: twelve of the fourteen kinds (CacheRule and *)
(* SpendLimit configure something that already exists and are modelled in  *)
(* SettingResource).                                                       *)
(*                                                                         *)
(* The provider's Observe, Create, Update and Delete are called by         *)
(* crossplane-runtime's managed.Reconciler, which is not in the            *)
(* repository; its steps are modelled as internal/controller relies on     *)
(* them.  Every API call, every write to the custom resource and every     *)
(* refresh of the informer cache is a step of its own, so that user edits, *)
(* console edits, a second provider process and crashes fall between them. *)
(*                                                                         *)
(* A resourceVersion is modelled by what it is compared for: fresh[p] says *)
(* that nothing has written the stored resource since p's copy was read.   *)
(***************************************************************************)
EXTENDS Naturals, FiniteSets

CONSTANTS
  Proc,            \* provider processes; two when --leader-election is off
  Ids,             \* identifiers the API can assign; bounds the POSTs
  Specs,           \* values of the mutable part of spec.forProvider
  PostCreate,      \* the kind's Create makes a second API call
  Updatable,       \* the kind has a mutable field
  LostResponses,   \* the answer to a POST may be lost after it took effect
  MaxFaults,       \* bound: failed calls, lost answers and crashes
  MaxEdits,        \* bound: changes by users and in the PgBeam console
  NoName,          \* no external-name annotation, no identifier
  MetaName,        \* metadata.name, the external name before Create
  Absent,          \* no such object
  Partial          \* POSTed, its second call still to come

ASSUME ConstantsAssumption ==
  /\ {PostCreate, Updatable, LostResponses} \subseteq BOOLEAN
  /\ MaxFaults \in Nat
  /\ MaxEdits \in Nat
  /\ NoName # MetaName
  /\ {NoName, MetaName} \cap Ids = {}
  /\ {Absent, Partial} \cap Specs = {}
  /\ Absent # Partial
  /\ PostCreate => Updatable

VARIABLES
  cr,              \* the custom resource stored in the cluster
  cache,           \* each process's informer copy of it
  synced,          \* cache[p] is the stored version
  pc,              \* where the reconcile of each process stands
  local,           \* the copy that reconcile works on
  fresh,           \* local[p] is the stored version
  seen,            \* what Observe reported
  newId,           \* the identifier the POST returned
  live,            \* the PgBeam objects: their value, or Absent
  used,            \* identifiers the API has assigned
  leaked,          \* objects lost with a failed Create (history)
  secret,          \* the object the connection Secret's contents belong to
  faults, edits    \* how much of the two bounds is used up

crVars    == <<cr, cache, synced>>
runVars   == <<pc, local, fresh, seen, newId>>
apiVars   == <<live, used, leaked>>
boundVars == <<faults, edits>>
vars      == <<crVars, runVars, apiVars, secret, boundVars>>

-----------------------------------------------------------------------------
Names  == Ids \cup {NoName, MetaName}
Values == Specs \cup {Absent, Partial}

(* The parts of a custom resource the reconciler reads or writes; "create" *)
(* is the latest of the three external-create annotations.                 *)
CR == [exists : BOOLEAN, deleting : BOOLEAN, finalizer : BOOLEAN,
       spec : Specs \cup {Absent}, name : Names,
       create : {"none", "pending", "succeeded", "failed"}]

NoCR == [exists |-> FALSE, deleting |-> FALSE, finalizer |-> FALSE,
         spec |-> Absent, name |-> NoName, create |-> "none"]

Applied(s) == [NoCR EXCEPT !.exists = TRUE, !.spec = s]

(* From the pending annotation until the outcome is annotated.             *)
Creating == {"post", "postCreate", "recordSuccess", "recordFailure"}
Writing  == {"initialize", "finalize", "markPending", "unfinalize"}
Steps    == Creating \cup Writing
              \cup {"idle", "connect", "observe", "conclude", "publish",
                    "updateGet", "updatePatch", "delete"}

TypeOK ==
  /\ cr \in CR
  /\ cache \in [Proc -> CR]
  /\ synced \in [Proc -> BOOLEAN]
  /\ pc \in [Proc -> Steps]
  /\ local \in [Proc -> CR]
  /\ fresh \in [Proc -> BOOLEAN]
  /\ seen \in [Proc -> {"nothing", "absent", "upToDate", "drift"}]
  /\ newId \in [Proc -> Ids \cup {NoName}]
  /\ live \in [Ids -> Values]
  /\ used \in SUBSET Ids
  /\ leaked \in SUBSET Ids
  /\ secret \in Ids \cup {NoName}
  /\ faults \in 0..MaxFaults
  /\ edits \in 0..MaxEdits

Init ==
  /\ cr = NoCR
  /\ cache = [p \in Proc |-> NoCR]
  /\ synced = [p \in Proc |-> TRUE]
  /\ pc = [p \in Proc |-> "idle"]
  /\ local = [p \in Proc |-> NoCR]
  /\ fresh = [p \in Proc |-> FALSE]
  /\ seen = [p \in Proc |-> "nothing"]
  /\ newId = [p \in Proc |-> NoName]
  /\ live = [i \in Ids |-> Absent]
  /\ used = {}
  /\ leaked = {}
  /\ secret = NoName
  /\ faults = 0
  /\ edits = 0

-----------------------------------------------------------------------------
(* Helpers.                                                                *)

Exists(n) == n \in Ids /\ live[n] # Absent

Goto(p, step) == pc' = [pc EXCEPT ![p] = step]

(* The reconcile ends; its working copy and results are dropped.           *)
Finish(p) ==
  /\ pc'    = [pc EXCEPT ![p] = "idle"]
  /\ local' = [local EXCEPT ![p] = NoCR]
  /\ fresh' = [fresh EXCEPT ![p] = FALSE]
  /\ seen'  = [seen EXCEPT ![p] = "nothing"]
  /\ newId' = [newId EXCEPT ![p] = NoName]

(* The reconcile ends with a write to the stored resource.                 *)
FinishStoring(p, new) ==
  /\ cr'     = new
  /\ pc'     = [pc EXCEPT ![p] = "idle"]
  /\ local'  = [local EXCEPT ![p] = NoCR]
  /\ fresh'  = [q \in Proc |-> FALSE]
  /\ synced' = [q \in Proc |-> FALSE]
  /\ seen'   = [seen EXCEPT ![p] = "nothing"]
  /\ newId'  = [newId EXCEPT ![p] = NoName]
  /\ UNCHANGED cache

(* A write by process p that succeeds returns the new version to p alone.  *)
Store(p, new) ==
  /\ cr'     = new
  /\ local'  = [local EXCEPT ![p] = new]
  /\ fresh'  = [q \in Proc |-> q = p]
  /\ synced' = [q \in Proc |-> FALSE]
  /\ UNCHANGED cache

(* A write by somebody else makes every copy stale.                        *)
StoredByOther(new) ==
  /\ cr'     = new
  /\ fresh'  = [q \in Proc |-> FALSE]
  /\ synced' = [q \in Proc |-> FALSE]
  /\ UNCHANGED <<cache, pc, local, seen, newId>>

Fault == faults < MaxFaults /\ faults' = faults + 1 /\ UNCHANGED edits
Edit  == edits < MaxEdits /\ edits' = edits + 1 /\ UNCHANGED faults

-----------------------------------------------------------------------------
(* The reconciler and the provider's handlers.                             *)

(* The watch delivers the stored version to p's informer cache.            *)
Watch(p) ==
  /\ ~synced[p]
  /\ cache' = [cache EXCEPT ![p] = cr]
  /\ synced' = [synced EXCEPT ![p] = TRUE]
  /\ UNCHANGED <<cr, runVars, apiVars, secret, boundVars>>

(* A reconcile starts from the cached copy.  One whose latest annotation   *)
(* is external-create-pending is refused: nobody knows what its Create did.*)
Start(p) ==
  /\ pc[p] = "idle"
  /\ cache[p].exists
  /\ cache[p].create # "pending"
  /\ local' = [local EXCEPT ![p] = cache[p]]
  /\ fresh' = [fresh EXCEPT ![p] = synced[p]]
  /\ Goto(p, IF cache[p].name = NoName THEN "initialize" ELSE "connect")
  /\ UNCHANGED <<crVars, seen, newId, apiVars, secret, boundVars>>

(* NameAsExternalName: without an external name, metadata.name is used.    *)
Initialize(p) ==
  /\ pc[p] = "initialize"
  /\ fresh[p]
  /\ Store(p, [local[p] EXCEPT !.name = MetaName])
  /\ Goto(p, "connect")
  /\ UNCHANGED <<seen, newId, apiVars, secret, boundVars>>

Connect(p) ==
  /\ pc[p] = "connect"
  /\ Goto(p, "observe")
  /\ UNCHANGED <<crVars, local, fresh, seen, newId, apiVars, secret, boundVars>>

(* Mutant: an existing object is always reported up to date.               *)
ObservationNeverDrifts(n, desired) ==
  IF Exists(n) THEN "upToDate" ELSE "absent"

(* What Observe reports of the object named by external name n.            *)
Observation(n, desired) ==
  IF ~Exists(n) THEN "absent"
  ELSE IF Updatable /\ live[n] # desired THEN "drift"
  ELSE "upToDate"

(* Mutant: drift is repaired by creating anew instead of updating.         *)
RemedyByRecreating(observed) ==
  CASE observed \in {"absent", "drift"} -> "markPending"
    [] observed = "upToDate"            -> "conclude"
    [] OTHER                            -> "idle"

(* Mutant: drift is repaired by deleting the object and creating it anew.  *)
RemedyByReplacing(observed) ==
  CASE observed = "absent"   -> "markPending"
    [] observed = "drift"    -> "delete"
    [] observed = "upToDate" -> "conclude"
    [] OTHER                 -> "idle"

(* What the reconciler does next about an observation.                     *)
Remedy(observed) ==
  CASE observed = "absent"   -> "markPending"
    [] observed = "drift"    -> "updateGet"
    [] observed = "upToDate" -> "conclude"
    [] OTHER                 -> "idle"

(* Mutant: of a resource being deleted, the object is taken to be gone.    *)
ObserveDeletedAsGone(p) ==
  /\ pc[p] = "observe"
  /\ LET me == local[p]
         observed == Observation(me.name, me.spec)
     IN /\ seen' = [seen EXCEPT ![p] = observed]
        /\ Goto(p, IF me.deleting THEN "unfinalize"
                   ELSE IF me.finalizer THEN Remedy(observed) ELSE "finalize")
  /\ UNCHANGED <<crVars, local, fresh, newId, apiVars, secret, boundVars>>

Observe(p) ==
  /\ pc[p] = "observe"
  /\ LET me == local[p]
         observed == Observation(me.name, me.spec)
     IN /\ seen' = [seen EXCEPT ![p] = observed]
        /\ Goto(p, IF me.deleting
                     THEN IF observed = "absent" THEN "unfinalize" ELSE "delete"
                     ELSE IF me.finalizer THEN Remedy(observed) ELSE "finalize")
  /\ UNCHANGED <<crVars, local, fresh, newId, apiVars, secret, boundVars>>

AddFinalizer(p) ==
  /\ pc[p] = "finalize"
  /\ fresh[p]
  /\ Store(p, [local[p] EXCEPT !.finalizer = TRUE])
  /\ Goto(p, Remedy(seen[p]))
  /\ UNCHANGED <<seen, newId, apiVars, secret, boundVars>>

Conclude(p) ==
  /\ pc[p] = "conclude"
  /\ Finish(p)
  /\ UNCHANGED <<crVars, apiVars, secret, boundVars>>

(* Mutant: the annotation is written whatever the stored version is.       *)
MarkPendingUnchecked(p) ==
  /\ pc[p] = "markPending"
  /\ Store(p, [local[p] EXCEPT !.create = "pending"])
  /\ Goto(p, "post")
  /\ UNCHANGED <<seen, newId, apiVars, secret, boundVars>>

(* external-create-pending is written with the version that was observed:  *)
(* of two reconciles that saw no object, one gets a conflict.              *)
MarkPending(p) ==
  /\ pc[p] = "markPending"
  /\ fresh[p]
  /\ Store(p, [local[p] EXCEPT !.create = "pending"])
  /\ Goto(p, "post")
  /\ UNCHANGED <<seen, newId, apiVars, secret, boundVars>>

(* Mutant: the POST is repeated inside the client.                         *)
PostTwice(p) ==
  /\ pc[p] = "post"
  /\ \E i, j \in Ids \ used :
       /\ live' = [live EXCEPT ![i] = local[p].spec, ![j] = local[p].spec]
       /\ used' = used \cup {i, j}
       /\ newId' = [newId EXCEPT ![p] = i]
  /\ Goto(p, IF PostCreate THEN "postCreate" ELSE "recordSuccess")
  /\ UNCHANGED <<crVars, local, fresh, seen, leaked, secret, boundVars>>

(* Create's POST.  What the POST cannot carry is left to a second call.    *)
Post(p) ==
  /\ pc[p] = "post"
  /\ \E i \in Ids \ used :
       /\ live' = [live EXCEPT ![i] = IF PostCreate THEN Partial
                                                    ELSE local[p].spec]
       /\ used' = used \cup {i}
       /\ newId' = [newId EXCEPT ![p] = i]
  /\ Goto(p, IF PostCreate THEN "postCreate" ELSE "recordSuccess")
  /\ UNCHANGED <<crVars, local, fresh, seen, leaked, secret, boundVars>>

(* Create's second call, an update of the new object.                      *)
PostCreateUpdate(p) ==
  /\ pc[p] = "postCreate"
  /\ Exists(newId[p])
  /\ live' = [live EXCEPT ![newId[p]] = local[p].spec]
  /\ Goto(p, "recordSuccess")
  /\ UNCHANGED <<crVars, local, fresh, seen, newId, used, leaked, secret,
                 boundVars>>

(* Mutant: Create forgets SetExternalName.                                 *)
RecordSuccessUnnamed(p) ==
  /\ pc[p] = "recordSuccess"
  /\ Store(p, [cr EXCEPT !.create = "succeeded"])
  /\ Goto(p, "publish")
  /\ UNCHANGED <<seen, newId, apiVars, secret, boundVars>>

(* Mutant: Create sets the name field of the answer instead of the id.     *)
RecordSuccessByField(p) ==
  /\ pc[p] = "recordSuccess"
  /\ Store(p, [cr EXCEPT !.name = live[newId[p]], !.create = "succeeded"])
  /\ Goto(p, "publish")
  /\ UNCHANGED <<seen, newId, apiVars, secret, boundVars>>

(* Create returned: external name and outcome go to the stored resource,   *)
(* on top of whatever its version is by now.                               *)
RecordSuccess(p) ==
  /\ pc[p] = "recordSuccess"
  /\ Store(p, [cr EXCEPT !.name = newId[p], !.create = "succeeded"])
  /\ Goto(p, "publish")
  /\ UNCHANGED <<seen, newId, apiVars, secret, boundVars>>

(* Create failed: SetExternalName was not reached, the name stays.         *)
RecordFailure(p) ==
  /\ pc[p] = "recordFailure"
  /\ FinishStoring(p, [cr EXCEPT !.create = "failed"])
  /\ UNCHANGED <<apiVars, secret, boundVars>>

(* Mutant: a Secret that is there already is left as it is.                *)
PublishOnce(p) ==
  /\ pc[p] = "publish"
  /\ secret' = IF secret = NoName THEN newId[p] ELSE secret
  /\ Finish(p)
  /\ UNCHANGED <<crVars, apiVars, boundVars>>

(* The connection details Create returned go to the connection Secret.     *)
Publish(p) ==
  /\ pc[p] = "publish"
  /\ secret' = newId[p]
  /\ Finish(p)
  /\ UNCHANGED <<crVars, apiVars, boundVars>>

(* Update reads the object again and decides on what it finds.             *)
UpdateGet(p) ==
  /\ pc[p] = "updateGet"
  /\ Exists(local[p].name)
  /\ Goto(p, IF live[local[p].name] = local[p].spec THEN "conclude"
                                                    ELSE "updatePatch")
  /\ UNCHANGED <<crVars, local, fresh, seen, newId, apiVars, secret, boundVars>>

UpdatePatch(p) ==
  /\ pc[p] = "updatePatch"
  /\ Exists(local[p].name)
  /\ live' = [live EXCEPT ![local[p].name] = local[p].spec]
  /\ Finish(p)
  /\ UNCHANGED <<crVars, used, leaked, secret, boundVars>>

(* An Update that finds its object gone returns an error.                  *)
UpdateFindsNone(p) ==
  /\ pc[p] \in {"updateGet", "updatePatch"}
  /\ ~Exists(local[p].name)
  /\ Finish(p)
  /\ UNCHANGED <<crVars, apiVars, secret, boundVars>>

(* So does Create's second call.                                           *)
PostCreateFindsNone(p) ==
  /\ pc[p] = "postCreate"
  /\ ~Exists(newId[p])
  /\ Goto(p, "recordFailure")
  /\ UNCHANGED <<crVars, local, fresh, seen, newId, apiVars, secret, boundVars>>

(* Mutant: Delete returns without removing the object.                     *)
DeleteNothing(p) ==
  /\ pc[p] = "delete"
  /\ Finish(p)
  /\ UNCHANGED <<crVars, apiVars, secret, boundVars>>

(* Delete counts an object that is already gone as deleted.                *)
Delete(p) ==
  /\ pc[p] = "delete"
  /\ live' = [i \in Ids |-> IF i = local[p].name THEN Absent ELSE live[i]]
  /\ Finish(p)
  /\ UNCHANGED <<crVars, used, leaked, secret, boundVars>>

RemoveFinalizer(p) ==
  /\ pc[p] = "unfinalize"
  /\ fresh[p]
  /\ FinishStoring(p, NoCR)
  /\ UNCHANGED <<apiVars, secret, boundVars>>

(* A write with a version that is no longer the stored one.                *)
Conflict(p) ==
  /\ pc[p] \in Writing
  /\ ~fresh[p]
  /\ Finish(p)
  /\ UNCHANGED <<crVars, apiVars, secret, boundVars>>

-----------------------------------------------------------------------------
(* Faults.                                                                 *)

(* A crash at any step; a failed call outside Create ends the same way.    *)
Abort(p) ==
  /\ pc[p] # "idle"
  /\ Fault
  /\ Finish(p)
  /\ UNCHANGED <<crVars, apiVars, secret>>

(* A call of Create fails.  After the POST the new object is lost: its     *)
(* identifier was only in the answer Create drops.                         *)
CreateFails(p) ==
  /\ pc[p] \in {"post", "postCreate"}
  /\ Fault
  /\ leaked' = leaked \cup ({newId[p]} \cap Ids)
  /\ Goto(p, "recordFailure")
  /\ UNCHANGED <<crVars, local, fresh, seen, newId, live, used, secret>>

(* The POST takes effect and its answer is lost: an error to Create.       *)
AnswerLost(p) ==
  /\ LostResponses
  /\ pc[p] = "post"
  /\ Fault
  /\ \E i \in Ids \ used :
       /\ live' = [live EXCEPT ![i] = IF PostCreate THEN Partial
                                                    ELSE local[p].spec]
       /\ used' = used \cup {i}
       /\ leaked' = leaked \cup {i}
  /\ Goto(p, "recordFailure")
  /\ UNCHANGED <<crVars, local, fresh, seen, newId, secret>>

-----------------------------------------------------------------------------
(* Users, operators and the PgBeam console.                                *)

Apply ==
  /\ ~cr.exists
  /\ Edit
  /\ \E s \in Specs : StoredByOther(Applied(s))
  /\ UNCHANGED <<apiVars, secret>>

(* Only mutable fields: the CRD rejects an edit of the others.             *)
EditSpec ==
  /\ Updatable
  /\ cr.exists
  /\ Edit
  /\ \E s \in Specs \ {cr.spec} : StoredByOther([cr EXCEPT !.spec = s])
  /\ UNCHANGED <<apiVars, secret>>

RequestDelete ==
  /\ cr.exists
  /\ ~cr.deleting
  /\ Edit
  /\ StoredByOther(IF cr.finalizer THEN [cr EXCEPT !.deleting = TRUE] ELSE NoCR)
  /\ UNCHANGED <<apiVars, secret>>

ConsoleEdit(i) ==
  /\ Updatable
  /\ live[i] # Absent
  /\ Edit
  /\ \E s \in Specs \ {live[i]} : live' = [live EXCEPT ![i] = s]
  /\ UNCHANGED <<crVars, runVars, used, leaked, secret>>

ConsoleDelete(i) ==
  /\ live[i] # Absent
  /\ Edit
  /\ live' = [live EXCEPT ![i] = Absent]
  /\ UNCHANGED <<crVars, runVars, used, leaked, secret>>

(* The objects the provider answers for: those not lost to a failed Create.*)
Owned == {i \in Ids \ leaked : live[i] # Absent}

(* After a crash inside Create the operator looks the object up, names it  *)
(* if it exists, and removes the pending annotation.                       *)
OperatorResolve ==
  /\ cr.exists
  /\ cr.create = "pending"
  /\ \A p \in Proc : pc[p] \notin Creating
  /\ \E n \in IF Owned = {} THEN {cr.name} ELSE Owned :
       StoredByOther([cr EXCEPT !.create = "none", !.name = n])
  /\ UNCHANGED <<apiVars, secret, boundVars>>

-----------------------------------------------------------------------------
Reconcile(p) ==
  \/ Start(p)          \/ Initialize(p)    \/ Connect(p)
  \/ Observe(p)        \/ AddFinalizer(p)  \/ Conclude(p)
  \/ MarkPending(p)    \/ Post(p)          \/ PostCreateUpdate(p)
  \/ RecordSuccess(p)  \/ RecordFailure(p) \/ Publish(p)
  \/ UpdateGet(p)      \/ UpdatePatch(p)
  \/ UpdateFindsNone(p) \/ PostCreateFindsNone(p)
  \/ Delete(p)         \/ RemoveFinalizer(p) \/ Conflict(p)

Faulty(p) == Abort(p) \/ CreateFails(p) \/ AnswerLost(p)

Environment ==
  \/ Apply
  \/ EditSpec
  \/ RequestDelete
  \/ \E i \in Ids : ConsoleEdit(i) \/ ConsoleDelete(i)
  \/ OperatorResolve

Next ==
  \/ \E p \in Proc : Watch(p) \/ Reconcile(p) \/ Faulty(p)
  \/ Environment

Spec == Init /\ [][Next]_vars

(* The watch delivers and a started reconcile is scheduled; nothing is     *)
(* assumed of users, the console, operators or faults.                     *)
Fairness == \A p \in Proc : WF_vars(Watch(p)) /\ WF_vars(Reconcile(p))

FairSpec == Spec /\ Fairness

-----------------------------------------------------------------------------
(* Properties.                                                             *)

(* No object the provider ever POSTed is left beside another one.  Create  *)
(* keeps this only if it is a single call whose answer arrives.            *)
NoDuplicate == \A i, j \in Ids : live[i] # Absent /\ live[j] # Absent => i = j

(* However reconciles of two processes, stale caches, crashes and operator *)
(* repairs interleave, Create never adds an object beside a live one.      *)
AtMostOneOwned == \A i, j \in Owned : i = j

(* A Create that fails costs one object at most: what is not owned any more*)
(* is accounted for by the failures there have been, whatever the order of *)
(* retries, repairs by operators and deletions.                            *)
ObjectsBounded ==
  Cardinality({i \in Ids : live[i] # Absent}) <= 1 + faults

(* An owned object can always be found again: the resource still exists,   *)
(* with the finalizer, and names the object or says its Create is pending. *)
Tracked ==
  \A i \in Owned :
    /\ cr.exists
    /\ cr.finalizer
    /\ cr.name = i \/ cr.create = "pending"

(* Two processes are never inside Create for the same resource.            *)
OneCreator ==
  \A p, q \in Proc : pc[p] \in Creating /\ pc[q] \in Creating => p = q

(* A resource disappears only when none of its objects is left: Delete's   *)
(* finalizer is held until a later Observe has seen the object gone.       *)
ReleasedWhenGone ==
  [][cr.exists /\ ~cr'.exists => Owned = {}]_vars

(* The provider removes an owned object only while its resource is being   *)
(* deleted: no copy from the cache, of this resource or of one of the same *)
(* name that went before it, makes a reconcile delete a wanted object.     *)
OnlyDeletedIsRemoved ==
  [][\A i \in Owned : live'[i] = Absent => cr.deleting \/ edits' # edits]_vars

(* The stored external name never moves away from a live object.           *)
NameNotLost ==
  [][Exists(cr.name) /\ cr'.exists => cr'.name = cr.name]_vars

(* A deletion ends, unless a crash left the resource waiting for an        *)
(* operator.                                                               *)
DeletionCompletes ==
  cr.deleting ~> (~cr.exists \/ cr.create = "pending")

Settled == cr.exists /\ ~cr.deleting /\ cr.create # "pending"

(* Once edits and faults stop, the object exists and carries the declared  *)
(* value: drift by edits on either side is found and repaired.             *)
DriftRepaired ==
  <>[](Settled => Exists(cr.name) /\ live[cr.name] = cr.spec)

(* The connection Secret of a resource at rest holds what Create returned  *)
(* for its present object, whatever objects came before: the one-time      *)
(* secrets of an AgentCredential cannot be had again.  A crash between the *)
(* record of the name and the write of the Secret does lose them.          *)
SecretPublished ==
  faults = 0 /\ (\A p \in Proc : pc[p] = "idle") /\ Settled /\ Exists(cr.name)
    => secret = cr.name

(* Every lost object is lost to a failed Create; what is left implements   *)
(* the abstract lifecycle.                                                 *)
Lifecycle == INSTANCE DeclaredObject WITH declared <- cr.exists, owned <- Owned

Refines == Lifecycle!Spec

-----------------------------------------------------------------------------
(* The inductive invariant.                                                *)

(* Equal versions mean equal contents.                                     *)
CopiesCurrent ==
  \A p \in Proc : /\ fresh[p]  => local[p] = cr
                  /\ synced[p] => cache[p] = cr

(* A name that is an identifier was assigned by the API, which never       *)
(* assigns it again: what is seen absent stays absent.                     *)
NamesUsed ==
  /\ \A i \in Ids : live[i] # Absent => i \in used
  /\ leaked \subseteq used
  /\ cr.name \in Ids => cr.name \in used
  /\ \A p \in Proc : /\ cache[p].name \in Ids => cache[p].name \in used
                     /\ local[p].name \in Ids => local[p].name \in used

(* What a running reconcile knows of its own copy.                         *)
LocalKnown ==
  \A p \in Proc :
    /\ pc[p] # "idle" => local[p].exists
    /\ pc[p] \notin Creating => local[p].create # "pending"
    /\ pc[p] \notin {"postCreate", "recordSuccess", "recordFailure", "publish"}
         => newId[p] = NoName
    /\ pc[p] = "initialize" => local[p].name = NoName
    /\ pc[p] = "markPending" => local[p].finalizer
    /\ pc[p] \in {"markPending", "unfinalize"} => seen[p] = "absent"
    /\ pc[p] \in {"finalize", "markPending", "unfinalize"} /\ seen[p] = "absent"
         => ~Exists(local[p].name)

(* While a process is inside Create the stored resource says so, and the   *)
(* only object is the one that Create has made.                            *)
CreateKnown ==
  \A p \in Proc :
    /\ pc[p] \in Creating => /\ cr.exists
                             /\ cr.finalizer
                             /\ cr.create = "pending"
    /\ pc[p] \in {"post", "recordFailure"} => Owned = {}
    /\ pc[p] \in {"postCreate", "recordSuccess"} =>
         /\ newId[p] \in used \ leaked
         /\ newId[p] # cr.name
         /\ Owned \subseteq {newId[p]}

NameNotLeaked == cr.name \notin leaked

IInv ==
  /\ TypeOK
  /\ CopiesCurrent
  /\ NamesUsed
  /\ LocalKnown
  /\ OneCreator
  /\ CreateKnown
  /\ NameNotLeaked
  /\ AtMostOneOwned
  /\ Tracked
=============================================================================
