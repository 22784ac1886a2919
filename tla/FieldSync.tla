----------------------------- MODULE FieldSync ------------------------------
(***************************************************************************)
(* One PgBeam object seen field by field: how Observe finds drift, what    *)
(* Create, the call after Create and Update write, and whether the object  *)
(* comes to carry the manifest while users edit the manifest and somebody  *)
(* edits the object in the PgBeam console between any two calls.           *)
(*                                                                         *)
(* The object is looked at through a focus, a few fields of one kind, both *)
(* chosen initially.  A field holds Unset (omitted by the manifest, null   *)
(* in the answer), Default (the documented default, the empty list) or one *)
(* of Others.  The API stores what it is sent and answers what it stores.  *)
(*                                                                         *)
(* Beside the fields there is a secret (a database's password, the signing *)
(* secret of a webhook) that no answer shows: each write reads it from its *)
(* Kubernetes Secret, which users rotate and remove.  Calls fail, and the  *)
(* API refuses a write as long as something else is in its way.            *)
(***************************************************************************)
EXTENDS FieldRules, Naturals, FiniteSets

CONSTANTS
  Focuses,         \* pairs <<kind, set of fields of that kind>>
  Unset, Default,
  Others,          \* the other values of a field
  MaxEdits,        \* bound: edits by users and in the console
  MaxFaults        \* bound: failed calls and crashes

ASSUME FocusesAssumption ==
  \A c \in Focuses :
    c = <<c[1], c[2]>> /\ c[1] \in DOMAIN Rules /\ c[2] \subseteq Fields(c[1])

ASSUME FieldSyncAssumption ==
  /\ Unset # Default
  /\ {Unset, Default} \cap Others = {}
  /\ Others # {}
  /\ {MaxEdits, MaxFaults} \subseteq Nat

VARIABLES
  kind, focus,     \* what is looked at
  spec,            \* the manifest
  exists, live,    \* the object
  secret,          \* the Secret: is it there, and which version
  sent,            \* the version that the object has, 0 for none
  refusing,        \* the API refuses the fields that it can refuse
  my,              \* the reconcile's own: its copy of the manifest, the
                   \* object as Update read it, the version of the secret
  pc,
  quiet,           \* no edit and no error since the reconcile began (history)
  edits, faults

subject == <<kind, focus>>
object == <<exists, live, sent>>
around == <<secret, refusing>>
counters == <<edits, faults>>
vars == <<subject, spec, object, my, around, pc, quiet, counters>>

Values == Others \cup {Unset, Default}

Is(f, class) == f \in Class(kind, class)

(* What a manifest and an answer can hold for field f.                     *)
Declarable(f) ==
  IF Is(f, "equal") THEN Others
  ELSE Values \ ((IF Is(f, "absent") THEN {Default} ELSE {})
                   \cup (IF f \in Defaulted(kind) THEN {Unset} ELSE {}))

Answerable(f) ==
  CASE Is(f, "equal")  -> Others
    [] Is(f, "absent") -> Values \ {Default}
    [] Is(f, "plain")  -> Values \ {Unset}
    [] OTHER           -> Values

(* What the API stores for a field that a POST or PUT omits.               *)
Initially(f) == Answerable(f) \ Others

Manifests == {v \in [focus -> Values] : \A f \in focus : v[f] \in Declarable(f)}

Nothing == [f \in focus |-> Unset]

NoCopy == [spec |-> Nothing, answer |-> Nothing, secret |-> 0]

TypeOK ==
  /\ <<kind, focus>> \in Focuses
  /\ spec \in Manifests
  /\ exists \in BOOLEAN
  /\ live \in [focus -> Values]
  /\ exists => \A f \in focus : live[f] \in Answerable(f)
  /\ secret \in [there : BOOLEAN, version : 1..(MaxEdits + 1)]
  /\ sent \in 0..(MaxEdits + 1)
  /\ refusing \in BOOLEAN
  /\ my \in [spec : Manifests \cup {Nothing}, answer : [focus -> Values],
             secret : 0..(MaxEdits + 1)]
  /\ pc \in {"idle", "observe", "secretToCreate", "create", "secondCall", "get",
             "secretToWrite", "write"}
  /\ quiet \in BOOLEAN
  /\ edits \in 0..MaxEdits
  /\ faults \in 0..MaxFaults

Init ==
  /\ \E c \in Focuses : kind = c[1] /\ focus = c[2]
  /\ spec \in Manifests
  /\ exists = FALSE
  /\ live = Nothing
  /\ secret = [there |-> TRUE, version |-> 1]
  /\ sent = 0
  /\ refusing = FALSE
  /\ my = NoCopy
  /\ pc = "idle"
  /\ quiet = TRUE
  /\ edits = 0
  /\ faults = 0

-----------------------------------------------------------------------------
(* The up-to-date check.                                                   *)

Emptied(v) == IF v = Unset THEN Default ELSE v

Agrees(f, desired, found) ==
  CASE Is(f, "whenSet")     -> desired \in {Unset, found}
    [] Is(f, "whenSetList") -> desired = Unset \/ Emptied(desired) = Emptied(found)
    [] Is(f, "list")        -> Emptied(desired) = Emptied(found)
    [] Is(f, "default") \/ Is(f, "plain") ->
         desired = found \/ (desired = Unset /\ found = Default)
    [] OTHER -> desired = found

UpToDate(desired, found) == \A f \in focus : Agrees(f, desired[f], found[f])

(* The objects a write of the fields in `sends' can leave, the others being *)
(* treated as `omitted' says.                                              *)
Results(sends, omitted(_)) ==
  {v \in [focus -> Values] :
     \A f \in focus : IF f \in sends /\ my.spec[f] # Unset
                        THEN v[f] = my.spec[f] ELSE v[f] \in omitted(f)}

Left(f) == {live[f]}

Reset(f) == IF f \in KeptOnPut(kind) THEN Left(f) ELSE Initially(f)

(* The fields a PATCH carries after reading `found'.                       *)
Patched(found) ==
  {f \in focus :
     /\ my.spec[f] # Unset
     /\ \/ f \in Patch[kind].ifSet
        \/ f \in Patch[kind].onDrift /\ ~Agrees(f, my.spec[f], found[f])}

NeedsUpdate(found) ==
  \/ AlwaysWrites(kind)
  \/ IF kind \in DOMAIN Patch THEN Patched(found) # {}
                               ELSE ~UpToDate(my.spec, found)

(* A request with a value that the API refuses now is an error as a whole. *)
Refused(manifest) ==
  refusing /\ \E f \in Refusable(kind) \cap focus : manifest[f] \in Others

-----------------------------------------------------------------------------
(* The reconcile.                                                          *)

(* It works on the manifest as it is now, whatever becomes of it.          *)
Start ==
  /\ pc = "idle"
  /\ my' = [NoCopy EXCEPT !.spec = spec]
  /\ quiet' = TRUE
  /\ pc' = "observe"
  /\ UNCHANGED <<subject, spec, object, around, counters>>

(* What the reconcile knows is gone when it is over.                       *)
Goes(next, new) ==
  /\ pc' = next
  /\ my' = IF next = "idle" THEN NoCopy ELSE new
  /\ UNCHANGED <<subject, spec, around, quiet, counters>>

(* An error ends the reconcile; the next one starts from the beginning.    *)
Errs ==
  /\ pc' = "idle"
  /\ my' = NoCopy
  /\ quiet' = FALSE
  /\ UNCHANGED <<subject, spec, object, around, counters>>

Observe ==
  /\ pc = "observe"
  /\ Goes(IF ~exists
             THEN IF CreateReadsSecret(kind) THEN "secretToCreate" ELSE "create"
           ELSE IF UpToDate(my.spec, live) THEN "idle"
           ELSE IF ReadsFirst(kind) THEN "get" ELSE "write", my)
  /\ UNCHANGED object

ReadSecret ==
  \/ /\ pc \in {"secretToCreate", "secretToWrite"}
     /\ secret.there
     /\ Goes(IF pc = "secretToCreate" THEN "create" ELSE "write",
             [my EXCEPT !.secret = secret.version])
     /\ UNCHANGED object
  \/ pc \in {"secretToCreate", "secretToWrite"} /\ ~secret.there /\ Errs

AfterPost ==
  IF \E f \in SecondCall(kind) \cap focus : my.spec[f] # Unset
    THEN "secondCall" ELSE "idle"

(* Mutant: the request goes out before its fields are filled in.           *)
CreateEmpty ==
  /\ pc = "create"
  /\ exists' = TRUE
  /\ live' = Nothing
  /\ sent' = my.secret
  /\ Goes(AfterPost, my)

(* Create's POST; a second call follows only if it has something to carry. *)
Create ==
  \/ /\ pc = "create"
     /\ ~Refused(my.spec)
     /\ exists' = TRUE
     /\ live' \in Results(Post[kind], Initially)
     /\ sent' = my.secret
     /\ Goes(AfterPost, my)
  \/ pc = "create" /\ Refused(my.spec) /\ Errs

CreateSecond ==
  /\ pc = "secondCall"
  /\ live' \in Results(SecondCall(kind), Left)
  /\ Goes("idle", my)
  /\ UNCHANGED <<exists, sent>>

(* Update reads the object again and writes only if that shows drift.      *)
Get ==
  /\ pc = "get"
  /\ Goes(IF ~NeedsUpdate(live) THEN "idle"
           ELSE IF AlwaysWrites(kind) THEN "secretToWrite" ELSE "write",
          [my EXCEPT !.answer = live])
  /\ UNCHANGED object

(* Mutant: the secret is sent at the creation only.                        *)
WritesNoSecret(results) ==
  \/ /\ pc = "write"
     /\ ~Refused(my.spec)
     /\ live' \in results
     /\ Goes("idle", my)
     /\ UNCHANGED <<exists, sent>>
  \/ pc = "write" /\ Refused(my.spec) /\ Errs

Writes(results) ==
  \/ /\ pc = "write"
     /\ ~Refused(my.spec)
     /\ live' \in results
     /\ sent' = IF AlwaysWrites(kind) THEN my.secret ELSE sent
     /\ Goes("idle", my)
     /\ UNCHANGED exists
  \/ pc = "write" /\ Refused(my.spec) /\ Errs

(* Mutant: a PATCH sends the fields the manifest omits as empty.           *)
WriteOmittedToo ==
  Writes(IF kind \in DOMAIN Patch THEN Results(Patched(my.answer), Initially)
                                  ELSE Results(Put[kind], Reset))

(* Mutant: a PUT carries only what differs from the answer, like a PATCH.   *)
WriteDriftOnly ==
  Writes(IF kind \in DOMAIN Patch THEN Results(Patched(my.answer), Left)
         ELSE Results({f \in Put[kind] \cap focus : my.spec[f] # my.answer[f]},
                      Reset))

(* Update's write, computed from the answer it has read.                   *)
Write ==
  Writes(IF kind \in DOMAIN Patch THEN Results(Patched(my.answer), Left)
                                  ELSE Results(Put[kind], Reset))

(* A failed call or a crash.  If it is the call after the POST that fails, *)
(* the new object is forgotten; after a crash it is found and named.       *)
CallFails ==
  /\ pc # "idle"
  /\ faults < MaxFaults
  /\ faults' = faults + 1
  /\ pc' = "idle"
  /\ my' = NoCopy
  /\ quiet' = FALSE
  /\ \/ UNCHANGED object
     \/ /\ pc = "secondCall"
        /\ exists' = FALSE
        /\ live' = Nothing
        /\ sent' = 0
  /\ UNCHANGED <<subject, spec, around, edits>>

-----------------------------------------------------------------------------
Edit ==
  /\ edits < MaxEdits
  /\ edits' = edits + 1
  /\ quiet' = FALSE
  /\ UNCHANGED <<subject, my, pc, faults>>

EditManifest ==
  /\ Edit
  /\ \E f \in focus : \E v \in Declarable(f) \ {spec[f]} :
       spec' = [spec EXCEPT ![f] = v]
  /\ UNCHANGED <<object, around>>

ConsoleEdit ==
  /\ exists
  /\ Edit
  /\ \E f \in focus : \E v \in Answerable(f) \ {live[f]} :
       live' = [live EXCEPT ![f] = v]
  /\ UNCHANGED <<spec, exists, sent, around>>

(* The Secret is rotated or removed.                                       *)
EditSecret ==
  /\ CreateReadsSecret(kind)
  /\ Edit
  /\ \/ secret' = [secret EXCEPT !.version = @ + 1]
     \/ secret.there /\ secret' = [secret EXCEPT !.there = FALSE]
  /\ UNCHANGED <<spec, object, refusing>>

(* An old data plane is enrolled, or the last template disabled.           *)
RefusalBegins ==
  /\ Refusable(kind) \cap focus # {}
  /\ ~refusing
  /\ Edit
  /\ refusing' = TRUE
  /\ UNCHANGED <<spec, object, secret>>

(* What was in the way goes: the Secret comes back, or the refusal ends.   *)
(* That needs no bound beside the one on what it undoes.                   *)
Restore ==
  /\ \/ ~secret.there /\ secret' = [secret EXCEPT !.there = TRUE]
        /\ UNCHANGED refusing
     \/ refusing /\ refusing' = FALSE
        /\ UNCHANGED secret
  /\ quiet' = FALSE
  /\ UNCHANGED <<subject, spec, object, my, pc, counters>>

Reconcile ==
  Start \/ Observe \/ ReadSecret \/ Create \/ CreateSecond \/ Get \/ Write

Next ==
  \/ Reconcile \/ CallFails
  \/ EditManifest \/ ConsoleEdit \/ EditSecret \/ RefusalBegins \/ Restore

Spec == Init /\ [][Next]_vars

(* Every poll interval starts a reconcile, and a started one runs on.      *)
FairSpec == Spec /\ WF_vars(Reconcile)

-----------------------------------------------------------------------------
(* Properties.                                                             *)

(* The object carries the manifest: what is set, and of a kind updated by  *)
(* PUT no value of its own where the manifest omits the field.             *)
Carries(desired, found) ==
  \A f \in focus :
    IF desired[f] # Unset THEN Emptied(found[f]) = Emptied(desired[f])
                          ELSE kind \in DOMAIN Patch \/ found[f] \notin Others

(* The manifest does not omit a field that a PUT keeps when omitted.       *)
Clearable == \A f \in focus \cap KeptOnPut(kind) : spec[f] # Unset

(* Nothing outside the object keeps the provider from writing it.          *)
Writable == secret.there /\ ~Refused(spec)

(* One reconcile that nobody disturbs, whatever the object was before,     *)
(* leaves an object that carries the manifest and that the next Observe    *)
(* finds up to date: a kind's check, Create and Update agree on its fields *)
(* and nothing is written forever.                                         *)
OneReconcileSuffices ==
  [][pc # "idle" /\ pc' = "idle" /\ quiet' /\ Clearable
       => exists' /\ Carries(spec', live') /\ UpToDate(spec', live')]_vars

(* Of the kinds updated by PATCH, the provider leaves a field as the       *)
(* console set it while the manifest omits the field, even where it writes *)
(* on account of another field or of an answer that is stale by then.      *)
UnmanagedFieldsKept ==
  [][exists /\ exists' /\ edits' = edits /\ kind \in DOMAIN Patch =>
       \A f \in focus : my.spec[f] = Unset => live'[f] = live[f]]_vars

(* A rotated secret reaches PgBeam with the next write, whatever the write *)
(* is for, and never gives way to an older one.                            *)
SecretCarried ==
  [][/\ exists /\ exists' => sent' >= sent
     /\ pc = "write" /\ pc' = "idle" /\ quiet' /\ AlwaysWrites(kind)
          => sent' = secret.version]_vars

(* When edits and faults stop, the object carries the manifest for good    *)
(* and the provider stops writing, however edits fell between its calls,   *)
(* if the Secret is there and the API no longer refuses what is declared.  *)
Converges ==
  <>[](Clearable /\ Writable =>
         exists /\ Carries(spec, live) /\ pc \in {"idle", "observe"})

(* The same without exception, as the change log says of the kinds updated *)
(* by PUT: a field removed from the manifest is cleared on the server.     *)
OmittedIsCleared == <>[](exists /\ Carries(spec, live))
=============================================================================
