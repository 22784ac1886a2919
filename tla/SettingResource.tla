-------------------------- MODULE SettingResource ---------------------------
(***************************************************************************)
(* A managed resource that configures something PgBeam has anyway: a       *)
(* CacheRule (the caching of one query shape) or a SpendLimit (the limit   *)
(* of one organization).  Observe finds the setting by the manifest, not   *)
(* by the external name; Create and Update are the same PUT; Delete is a   *)
(* PUT of the setting's off value, after which Observe still finds it.     *)
(*                                                                         *)
(* Nothing keeps two resources from declaring one setting.  The kind has   *)
(* one worker, which takes up one of them after the other.                 *)
(*                                                                         *)
(* The reconciler steps that do not differ between kinds are coarser than  *)
(* in ManagedResource: one provider process, a current cache, and the      *)
(* external name and the finalizer written together.                       *)
(***************************************************************************)
EXTENDS Naturals

CONSTANTS
  Resources,       \* the resources that declare the setting
  Specs,           \* values a manifest can declare
  Off,             \* disabled cache rule, no spend limit
  Absent,          \* no such setting
  MaxFaults,       \* bound: crashes and failed calls
  MaxEdits         \* bound: changes by users, in the console and by PgBeam

ASSUME SettingAssumption ==
  /\ Absent \notin Specs \cup {Off}
  /\ {MaxFaults, MaxEdits} \subseteq Nat

VARIABLES
  kind,            \* of the resources
  cr,              \* resource -> the stored custom resource
  who,             \* the resource the worker has taken up last
  my,              \* its copy of that
  pc,
  live,            \* the setting
  faults, edits

vars == <<kind, cr, who, my, pc, live, faults, edits>>

Settings == Specs \cup {Off, Absent}

(* "adopted": has an external name and the finalizer.                      *)
NoCR == [exists |-> FALSE, deleting |-> FALSE, adopted |-> FALSE,
         pending |-> FALSE, spec |-> Absent]

CR == [exists : {TRUE}, deleting : BOOLEAN, adopted : BOOLEAN,
       pending : BOOLEAN, spec : Specs]

TypeOK ==
  /\ kind \in {"CacheRule", "SpendLimit"}
  /\ cr \in [Resources -> CR \cup {NoCR}]
  /\ who \in Resources
  /\ my \in CR \cup {NoCR}
  /\ pc \in {"idle", "adopt", "observe", "markPending", "create", "record",
             "update", "delete", "release"}
  /\ live \in Settings
  /\ faults \in 0..MaxFaults
  /\ edits \in 0..MaxEdits

(* PgBeam forgets query shapes, and no organizations.                      *)
Vanishes == kind = "CacheRule"

Init ==
  /\ kind \in {"CacheRule", "SpendLimit"}
  /\ cr = [r \in Resources |-> NoCR]
  /\ who \in Resources
  /\ my = NoCR
  /\ pc = "idle"
  /\ live \in IF Vanishes THEN Settings ELSE Settings \ {Absent}
  /\ faults = 0
  /\ edits = 0

bounds == <<faults, edits>>

-----------------------------------------------------------------------------
(* The reconcile.                                                          *)

(* Mutant: a resource that is gone is reconciled.                          *)
StartUnguarded(r) ==
  /\ pc = "idle"
  /\ ~cr[r].pending
  /\ who' = r
  /\ my' = cr[r]
  /\ pc' = IF cr[r].adopted THEN "observe" ELSE "adopt"
  /\ UNCHANGED <<kind, cr, live, bounds>>

(* Mutant: the setting is written before the finalizer is there.           *)
StartUnadopted(r) ==
  /\ pc = "idle"
  /\ cr[r].exists
  /\ ~cr[r].pending
  /\ who' = r
  /\ my' = cr[r]
  /\ pc' = "observe"
  /\ UNCHANGED <<kind, cr, live, bounds>>

(* A pending annotation stops the reconcile, as for every kind.            *)
Start(r) ==
  /\ pc = "idle"
  /\ cr[r].exists
  /\ ~cr[r].pending
  /\ who' = r
  /\ my' = cr[r]
  /\ pc' = IF cr[r].adopted THEN "observe" ELSE "adopt"
  /\ UNCHANGED <<kind, cr, live, bounds>>

(* A write to the stored resource; a stale copy makes it a conflict.       *)
Store(new, next) ==
  /\ cr' = IF my = cr[who] THEN [cr EXCEPT ![who] = new] ELSE cr
  /\ my' = IF my = cr[who] THEN new ELSE my
  /\ pc' = IF my = cr[who] THEN next ELSE "idle"
  /\ UNCHANGED <<kind, who, live, bounds>>

Adopt == pc = "adopt" /\ Store([my EXCEPT !.adopted = TRUE], "observe")

Calls == UNCHANGED <<kind, cr, who, my, bounds>>

(* Mutant: whatever is found counts as up to date.                         *)
ObserveNoDrift ==
  /\ pc = "observe"
  /\ pc' = CASE live = Absent ->
                  IF my.deleting THEN "release" ELSE "markPending"
             [] live # Absent -> IF my.deleting THEN "delete" ELSE "idle"
  /\ UNCHANGED live
  /\ Calls

(* Mutant: a setting that is off counts as deleted, not as drift.          *)
ObserveOffIsFine ==
  /\ pc = "observe"
  /\ pc' = CASE live = Absent ->
                  IF my.deleting THEN "release" ELSE "markPending"
             [] live # Absent -> IF my.deleting THEN "delete"
                                 ELSE IF live \in {my.spec, Off} THEN "idle"
                                 ELSE "update"
  /\ UNCHANGED live
  /\ Calls

(* Mutant: a setting that is off counts as absent.                         *)
ObserveOffIsGone ==
  /\ pc = "observe"
  /\ pc' = CASE live \in {Off, Absent} ->
                  IF my.deleting THEN "release" ELSE "markPending"
             [] live \notin {Off, Absent} ->
                  IF my.deleting THEN "delete"
                  ELSE IF live = my.spec THEN "idle" ELSE "update"
  /\ UNCHANGED live
  /\ Calls

(* Found means existing, whatever made the setting and whether it is off.  *)
Observe ==
  /\ pc = "observe"
  /\ pc' = CASE live = Absent ->
                  IF my.deleting THEN "release" ELSE "markPending"
             [] live # Absent -> IF my.deleting THEN "delete"
                                 ELSE IF live = my.spec THEN "idle" ELSE "update"
  /\ UNCHANGED live
  /\ Calls

MarkPending ==
  pc = "markPending" /\ Store([my EXCEPT !.pending = TRUE], "create")

(* Create is called where Observe has found no setting: it supposes that   *)
(* the PUT makes one.  So assumed of the API, here and in Update; what     *)
(* Applied and Contended say of a CacheRule rests on it.                   *)
Create ==
  /\ pc = "create"
  /\ live' = my.spec
  /\ pc' = "record"
  /\ Calls

Record ==
  /\ pc = "record"
  /\ cr' = [cr EXCEPT ![who].pending = FALSE]
  /\ pc' = "idle"
  /\ UNCHANGED <<kind, who, my, live, bounds>>

Update ==
  /\ pc = "update"
  /\ live' = my.spec
  /\ pc' = "idle"
  /\ Calls

(* Mutant: Delete sends what Update does.                                  *)
DeleteAsUpdate ==
  /\ pc = "delete"
  /\ live' = my.spec
  /\ pc' = "idle"
  /\ Calls

(* Soft delete.  Of a setting that went since it was observed the handler  *)
(* takes a 404 for success: here, unlike Create, it supposes that the same *)
(* PUT does not make one.                                                  *)
Delete ==
  /\ pc = "delete"
  /\ live' = IF live = Absent THEN Absent ELSE Off
  /\ pc' = "idle"
  /\ Calls

Release == pc = "release" /\ Store(NoCR, "idle")

-----------------------------------------------------------------------------
(* Faults.                                                                 *)

Fault == faults < MaxFaults /\ faults' = faults + 1

(* A crash at any step, or a failed call outside Create.                   *)
Abort ==
  /\ pc # "idle"
  /\ Fault
  /\ pc' = "idle"
  /\ UNCHANGED <<kind, cr, who, my, live, edits>>

CreateFails ==
  /\ pc = "create"
  /\ Fault
  /\ pc' = "idle"
  /\ cr' = [cr EXCEPT ![who].pending = FALSE]
  /\ UNCHANGED <<kind, who, my, live, edits>>

-----------------------------------------------------------------------------
(* Users, operators, the console and PgBeam itself.                        *)

Edit ==
  /\ edits < MaxEdits
  /\ edits' = edits + 1
  /\ UNCHANGED <<kind, who, my, pc, faults>>

Apply ==
  /\ Edit
  /\ \E r \in Resources, s \in Specs :
       /\ ~cr[r].exists
       /\ cr' = [cr EXCEPT ![r] = [NoCR EXCEPT !.exists = TRUE, !.spec = s]]
  /\ UNCHANGED live

EditSpec ==
  /\ Edit
  /\ \E r \in Resources, s \in Specs :
       /\ cr[r].exists /\ cr[r].spec # s
       /\ cr' = [cr EXCEPT ![r].spec = s]
  /\ UNCHANGED live

RequestDelete ==
  /\ Edit
  /\ \E r \in Resources :
       /\ cr[r].exists /\ ~cr[r].deleting
       /\ cr' = [cr EXCEPT ![r] = IF @.adopted THEN [@ EXCEPT !.deleting = TRUE]
                                              ELSE NoCR]
  /\ UNCHANGED live

ConsoleEdit ==
  /\ live # Absent
  /\ Edit
  /\ live' \in Settings \ {live, Absent}
  /\ UNCHANGED cr

(* PgBeam forgets the setting, or meets it again with caching off.         *)
ComesOrGoes ==
  /\ Vanishes
  /\ Edit
  /\ live' = IF live = Absent THEN Off ELSE Absent
  /\ UNCHANGED cr

(* After a crash inside Create somebody removes the pending annotation.    *)
OperatorResolve ==
  /\ \E r \in Resources :
       /\ cr[r].pending
       /\ r = who => pc \notin {"create", "record"}
       /\ cr' = [cr EXCEPT ![r].pending = FALSE]
  /\ UNCHANGED <<kind, who, my, pc, live, bounds>>

Step ==
  Adopt \/ Observe \/ MarkPending \/ Create \/ Record \/ Update \/ Delete
    \/ Release

Environment ==
  Apply \/ EditSpec \/ RequestDelete \/ ConsoleEdit \/ ComesOrGoes
    \/ OperatorResolve

Next ==
  (\E r \in Resources : Start(r)) \/ Step \/ Abort \/ CreateFails \/ Environment

Spec == Init /\ [][Next]_vars

(* A reconcile that has begun runs on, and the queue lets each resource    *)
(* have its turn, however often the other one is in it.                    *)
FairSpec ==
  /\ Spec
  /\ WF_vars(Step)
  /\ \A r \in Resources : SF_vars(Start(r))

-----------------------------------------------------------------------------
(* Properties.                                                             *)

Declares(r) == cr[r].exists /\ ~cr[r].deleting

Stuck == \E r \in Resources : cr[r].pending

(* A deletion turns the setting off and keeps it off, even if the console  *)
(* turns it on again meanwhile, unless another resource declares it or a   *)
(* crash in Create awaits an operator: the type's comment promises a soft  *)
(* delete.                                                                 *)
DeletedStaysOff ==
  <>[](/\ \E r \in Resources : cr[r].deleting
       /\ \A r \in Resources : ~Declares(r)
       /\ ~Stuck
       => live \in {Off, Absent})

(* Once edits and faults stop, the setting is as declared, where those     *)
(* that declare it agree and none that is being deleted still turns it off.*)
Applied ==
  <>[](/\ \E r \in Resources : Declares(r)
       /\ \A r \in Resources : ~cr[r].deleting
       /\ ~Stuck
       => \E r \in Resources :
            /\ Declares(r)
            /\ (\A q \in Resources : Declares(q) => cr[q].spec = cr[r].spec)
                 => live = cr[r].spec)

(* Whatever another resource does to the setting, one that declares it is  *)
(* not given up: it applies its value again and again.                     *)
Contended ==
  \A r \in Resources :
    <>[](Declares(r) /\ ~cr[r].pending) => []<>(live = cr[r].spec)

(* A resource that is not being deleted is not about to turn the setting   *)
(* off, whatever its copy says, and none that is gone is about to write it.*)
OnlyDeletionTurnsOff ==
  /\ pc = "delete" => cr[who].deleting
  /\ pc \in {"create", "update"} => cr[who].exists

(* The same over time, as every setting promises it: what a resource may   *)
(* be applied with is what it declares and, from the finalizer until the   *)
(* reconcile's last write, what it declared when the reconcile began.      *)
Stage ==
  [r \in Resources |->
     IF ~cr[r].exists THEN "absent"
     ELSE IF cr[r].deleting THEN "withdrawn"
     ELSE IF cr[r].adopted THEN "held" ELSE "declared"]

InHand ==
  IF pc \in {"observe", "markPending", "create", "update", "delete", "release"}
    THEN {who} ELSE {}

Wanted ==
  [r \in Resources |->
     (IF cr[r].exists THEN {cr[r].spec} ELSE {})
       \cup (IF r \in InHand THEN {my.spec} ELSE {})]

Declared == INSTANCE DeclaredSetting WITH
  Values <- Specs, stage <- Stage, wanted <- Wanted, setting <- live

Refines == Declared!Spec

(* A SpendLimit that once has the finalizer never goes: the soft delete    *)
(* leaves what Observe finds, and an organization is not forgotten.        *)
FinalizerStays ==
  [][kind = "SpendLimit" =>
       \A r \in Resources :
         cr[r].adopted => cr'[r].exists /\ cr'[r].adopted]_vars

(* A resource can be deleted, to be created anew with another immutable    *)
(* field, as the CRD's messages tell the user to do.                       *)
DeletionEnds ==
  \A r \in Resources : cr[r].deleting ~> (~cr[r].exists \/ cr[r].pending)
=============================================================================
