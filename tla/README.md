# A verification project for the PgBeam Crossplane provider

This directory models the provider under `src/`: a Kubernetes controller that
keeps PgBeam objects (projects, databases, credentials, policy profiles, ...)
as custom resources declare them. TLC checks the models on small instances;
TLAPS proves the central safety results for every value of the constants.
"Runs" and "What is proved" say what was found.

## The system

`main.go` parses the flags, starts a controller-runtime manager and calls
`controller.Setup`, which registers one reconciler per kind. A reconciler is
crossplane-runtime's `managed.Reconciler`, which is not in the repository; the
repository supplies, per kind, `Connect`, `Observe`, `Create`, `Update` and
`Delete`. All state is in three places: the custom resource (spec, status,
annotations, finalizer) in the cluster, the PgBeam object behind the API, and
the connection Secret. The provider itself keeps nothing across reconciles.

| component | state | operations | what is hard | correct means |
| --- | --- | --- | --- | --- |
| lifecycle of an object with a server-assigned identifier (12 kinds, `*.gen.go`) | external-name and external-create annotations, finalizer; the object; the Secret | the handlers inside the reconcile | crashes between POST and annotation, lost answers, a second call in `Create`, stale caches, two processes, edits on both sides | no second object, no untracked object, deletion waits for the object, drift is repaired |
| field synchronisation (11 kinds with mutable fields) | each field in the manifest and in the object | `is*UpToDate`, the requests of `Create` and `Update` | four treatments of an omitted field, PATCH and PUT, CRD defaults, stale answers | one undisturbed reconcile suffices, no endless writes, unmanaged fields stay |
| settings with soft delete (`CacheRule`, `SpendLimit`) | a setting that exists anyway | the same PUT for `Create` and `Update`; `Delete` is a PUT of "off" | found whatever made it; found after its deletion | applied while declared, off after deletion |
| lookup by list (`getReplica` and three others) | page token | walk the pages | the list changes meanwhile | not found only if absent |
| observed status | `status.atProvider` | replaced by every `Observe` | parts known only to `Create`; an id published and then lost | what the README promises is there |
| connector, ProviderConfig (`connector.go`, `provider_config.go`) | usage, API key | `getClient`, `getSecretValue` | configuration gone before the resource, or moved to another account | nothing dropped for want of a look, deletion possible |
| immutable fields (`types.gen.go`) | CEL rules, defaults | admission | optional fields | the identifier of an object cannot be edited away |
| start and options (`main.go`, `setup.gen.go`) | flags | parse, wire | flags not passed on; no leader election by default | the intervals are the ones asked for |

Components interact only through the stored resource and the API: two
reconciles, or two processes, never share memory. What orders them is the
resourceVersion check of the API server and the external-create-pending
annotation.

## Modules

| module | models | uses |
| --- | --- | --- |
| `DeclaredObject` | what the provider promises of one resource (abstract) | |
| `DeclaredSetting` | what it promises of a setting that several resources may declare (abstract) | |
| `ManagedResource` | the life of one resource with a server-assigned identifier | `DeclaredObject` (refinement) |
| `ManagedResource_proofs` | theorems about it | `ManagedResource`, TLAPS |
| `FieldRules` | tables: how each field of each kind is compared and sent | |
| `FieldSync` | one object field by field under edits, with its secret | `FieldRules` |
| `SettingResource` | CacheRule and SpendLimit, several resources for one setting | `DeclaredSetting` (refinement) |
| `ListPages` | what a list endpoint answers | |
| `StatusRules` | tables: the status of each kind, and what fills it | |
| `ObservedStatus` | `status.atProvider` of every kind, the walk over a list, a custom domain's verification | `ListPages`, `StatusRules` |
| `Connection` | `getClient` over ProviderConfigs, Secrets and keys that come and go | `DeclaredObject` (refinement) |
| `SpecEdits` | every field of every manifest: what an edit of it does | `FieldRules` |
| `Polling` | from the flags to the time of the next drift check | |
| `FieldSync_proofs`, `SettingResource_proofs`, `ObservedStatus_proofs`, `Connection_proofs`, `SpecEdits_proofs`, `Polling_proofs` | theorems about the module each is named for | TLAPS |
| `MCManagedResource`, `MCFieldSync` | instances for TLC | |

### ManagedResource

`cr` is the stored custom resource, `cache[p]` process `p`'s informer copy,
`local[p]` the copy its running reconcile works on, `pc[p]` where that
reconcile stands. `live` is the API's set of objects. A spec is one abstract
value: what matters here is whether object and manifest agree; `FieldSync`
looks inside. Resource versions are modelled by what they are compared for,
`fresh[p]`: nothing was written since `p`'s copy was read.

A reconcile goes `Start`, `Initialize` (metadata.name becomes the external
name), `Connect`, `Observe`, `AddFinalizer`, and then, as `Observe` found,
`MarkPending`, `Post`, `PostCreateUpdate`, `RecordSuccess`, `Publish`, or
`UpdateGet`, `UpdatePatch`, or `Delete`, or `RemoveFinalizer`. Each is one call
to PgBeam or one write to Kubernetes, so everything else interleaves between
them. The steps of the reconciler library are mapped as external and modelled
as the provider relies on them: the pending annotation is written with the
observed version (a conflict otherwise), the outcome annotations and the
external name are written on top of whatever the version is by then, and a
resource whose latest annotation is pending is not reconciled until an operator
repairs it (`OperatorResolve`: looks the object up, names it, removes the
annotation, and does so only while no process is inside Create).

Faults: `Abort` (a crash at any step, or a failed call outside `Create`; both
leave the same state), `CreateFails`, `AnswerLost` (a POST that took effect).
An object lost to a failed `Create` is recorded in the history variable
`leaked`; `Owned` are the others. The constants say which kind is meant:
`PostCreate` for Project and AgentCredential, `Updatable = FALSE` for Replica,
CustomDomain and SelfHostEnrollment. With `PostCreate` the second call is
always made, which is the worst case.

Not modelled here: the deletion policy and management policies (library
features the provider leaves at their defaults), the time a rate limiter takes,
and what `ObservedStatus` has. Revoking a credential or an
enrollment is taken to make it disappear from the API's answers; the repository
does not say (see the hazards).

### FieldRules and FieldSync

`FieldRules` is a transcription: a table per kind of the fields its
`is*UpToDate` compares, grouped by how an omitted field is treated; of the
fields its `Create` sends in the POST and in the second call; of those its
`Update` sends; and of the fields with a CRD default, which a manifest never
omits once the API server has filled them in. Immutable fields are left out:
no edit can change them. `FieldSync` runs `Observe`, `Create`, `Update` on a
focus of a few fields while the manifest and the object are edited between any
two calls. A nested structure (`poolConfig`, `statementRules`) or a list counts
as one value, the empty list as `Default`. So a `statementRules` that is set and
empty counts like any other value, although the check accepts it against an
answer without rules (`policy_profile.gen.go:528`): the model finds drift where
the code need not, never the other way round.

Beside the fields there is the secret of the kinds that have one: a version, the
version the object has (`sent`), and whether the Kubernetes Secret is there.
`Database` and `WebhookEndpoint` read it before every write and so write
whatever else they found; a rotation on its own starts no write (hazards). The
API refuses a write of `functionDenylist` or `queryMode` as long as an old data
plane is enrolled or no template is enabled (`refusing`). That the refusal ends
or the Secret comes back (`Restore`) is no edit that the bound counts, since the
edit it undoes was one. `CallFails` is a crash
or a failed call anywhere; in the call after the POST it loses the new object,
as `ManagedResource` has it in detail.

Assumed of the API, which is not in the repository: it stores what it is sent
and answers what it stores; a PUT stores the default or null for what it omits
(the comment at `omitted_field_up_to_date_test.go:123`) except `queryMode` and
`functionDenylist`, which it keeps (`CHANGELOG.md:7` and `:25`). If it answered
an explicit default with null, the fields compared by pointer would drift
forever; nothing in the repository says that it does.

### SettingResource

`Observe` finds the setting by the manifest, so it exists before the resource
does and after its deletion, and nothing keeps two resources from declaring the
same one. `cr` has all of them; `who` is the one that the kind's worker has in
hand, on the copy `my`. The reconciler steps are coarser than above (one
process, a current cache, name and finalizer in one write), since those do not
differ between kinds. The two kinds differ in one thing (`Vanishes`): PgBeam
forgets the query shape of a CacheRule now and then, and never an organization.

Assumed of the API: the PUT of a cache rule whose query shape it does not have
makes it. `Create` supposes so, which is called exactly where the list lacks the
shape (`cache_rule.gen.go:96`), and the model has it for `Create` and `Update`.
`Delete` reads a 404 to the same PUT as "gone" (`cache_rule.gen.go:134`), and there
the model leaves an absent setting absent. If the PUT answered 404 throughout,
the `Create` of such a rule would fail until the shape is met again: `Applied` and
`Contended`, and `StatusCatchesUp` in `ObservedStatus`, rest on the first reading
where a query shape is absent; nothing rests on it for a SpendLimit.

`DeclaredSetting` is what any number of such resources promise together. A
resource is absent, declared, held (it has the finalizer) or withdrawn; `wanted`
has the values it may still be applied with, which are the declared one and,
while a reconcile is under way, the one of the copy it works on. Only a held or
withdrawn resource writes, only what is wanted, and off only when withdrawn. The
mapping (`Stage`, `Wanted`) reads these off `cr`, `who`, `my` and `pc`; a write
of an older copy is allowed by it, a write for a resource that is gone, or of a
value that was never declared, is not.

### ListPages, StatusRules and ObservedStatus

`Observe` and `Create` fill `status.atProvider` in the reconcile's copy; the
library stores it at the end, in one write, or not at all if the process dies
first. `StatusRules` has, per kind, the fields that `*AtProvider` declares, those
that `Observe`'s answer fills and those only `Create`'s does. A value is reduced
to the version of the object it was read at, so that "the status is behind" and
"the status has lost a field" can be told apart. The record of the external name
comes before the status, as in the library, with a crash possible in between.
`TypeOK` says that the two tables agree as far as the compiler makes them: no
handler fills a field that the type lacks.

A `Create` may fail here (`CreateFails`): nothing was made, or the PUT of a setting
took effect. An object that a POST made before its answer was lost, or before a
second call failed, is not followed: it is `leaked` in `ManagedResource`, whose
`ObjectsBounded` counts such objects. `AbsentIsAbsent` says nothing of them.

Four kinds have no GET. For these `Observe` is a walk over the pages, a step per
page, while other objects of the list come and go. The repository does not have
the API; assumed is that a page token names a position in the list's order that
stays valid when objects go. With a token that counts objects, a deletion in an
earlier page would hide an object from the walk, and the provider would make a
second one. The token is opaque to it.

`Verify` is the call an `Observe` of an unverified domain makes; its failure is
swallowed, as in the code, and its success is visible only to the next `Observe`.

### Connection

A reconcile's `Connect`, call by call: `Track` (the ProviderConfigUsage),
`GetConfig`, `GetSecret`, and then the handlers with the client made from that
key. Users delete and recreate configurations and Secrets, rotate and revoke
keys, and move `providerConfigRef`, which no rule protects, to a key of another
account. Assumed of the API: an object of another account is a 404, and whether
an account can create the object there (`admits`; the manifest names an
organization or a project) may be either. So an object can be left behind, and
`NeverLeftBehind` says that this is the only way it can be. A ProviderConfig that
is deleted really goes: the repository registers no controller that would hold
it while it is in use, so `InUse` is about the record only. Values of the key are
trimmed in the code; a key here is usable or not.

### Polling

`main`'s parsing of `--poll` and `--sync`, the set-up of one controller per kind,
and the two clocks that a resource is reconciled by. Time passes only while no
reconcile is due, so that lateness is not a matter of capacity. `LibraryPoll` is
the reconciler's own interval, which applies since no `Setup` function passes
`PollInterval` on. No `Setup` function filters events either, so that what is
listed anew at every sync period is reconciled (`Relist`): that is what bounds
the drift check beside the interval.

### SpecEdits

`FieldRules` has the fields that are compared. `SpecEdits` adds the others, the
CEL rules (`required`: equal; `optional`: unset or equal) and the fields in the
paths of the calls, and follows one field of one kind, any of them, through
edits, deletions and new manifests. An object stands at a place: the value of
the field it is addressed by, or a fixed place if the field is not in a path.
What happens inside a handler is in the other modules; here each is one step.
Defaults are filled in by the API server, so those fields are never omitted.

## Runs

| run | instance | shows |
| --- | --- | --- |
| `one_provider` | 1 process, 4 identifiers, 2 specs, 1 fault, 3 edits, fair | `TypeOK`, `Tracked`, `SecretPublished`, `NameNotLost`, refinement of `DeclaredObject`, `DeletionCompletes`, `DriftRepaired` |
| `two_providers` | 2 processes, 3 identifiers, 1 fault, 3 edits | `AtMostOneOwned`, `OneCreator`, `ObjectsBounded`, `ReleasedWhenGone`, `OnlyDeletedIsRemoved` |
| `fields` | each of the fields alone and two of a kind, one from each rule; 4 values, 2 edits, 1 fault, fair | `TypeOK`, `OneReconcileSuffices`, `UnmanagedFieldsKept`, `SecretCarried`, `Converges` |
| `settings` | either kind, 2 resources for one setting, 3 values, one of them "off", 1 fault, 5 edits, fair | `TypeOK`, refinement of `DeclaredSetting`, `FinalizerStays`, `DeletedStaysOff`, `Applied`, `Contended` |
| `status` | 14 kinds, up to 4 objects in turn among 3 others, pages of 2, 3 changes, 1 fault, fair | `TypeOK`, `PublishedIsManaged`, `AbsentIsAbsent`, `StatusCatchesUp`, `VerificationConverges` |
| `connection` | 2 configurations, 2 Secrets, 2 accounts with a key each, 3 edits, fair | `TypeOK`, `NeverLeftBehind`, `InUse`, `ResumesWhenUsable`, `RotationTakesEffect` |
| `spec_edits` | each of the fields alone, 2 values or none, 4 edits, fair | `TypeOK`, `NoneOrphaned`, `EditsCarried`, `EditsTakeEffect` |

Five runs end in a violation, each a disagreement between the code and what the
repository says of it:

* `post_create_orphan`: the second call of `Create` fails, the id of the new
  object is dropped with the error, and the retry creates another object.
* `denylist_kept`: removing `functionDenylist` from a manifest is drift that no
  write repairs, because the write omits the field and the API keeps it.
* `soft_delete_stuck`: after the soft delete `Observe` still finds the setting,
  so the finalizer is never removed, while the CRD tells users to delete and
  recreate. `FinalizerStays`, which `settings` checks and which is proved, says
  the rest: for a SpendLimit no behaviour at all gets there.
* `mcp_url_wiped`: the first `Observe` after `Create` replaces the status, and
  with it the `mcpURL` (and a project's `primaryDatabaseID`) that only `Create`'s
  answer holds.
* `polling`: `--poll` is parsed and put into the controller options, which have no
  use for it; the drift check comes at the reconciler's own interval. What does
  hold is `CheckedInTime`, which is proved: that interval, and `--sync` if that
  is shorter.

Two gaps need no run to be seen. Five documented fields of the status are declared
and set by no handler: `verified`, `dnsVerificationToken` and `dnsInstructions` of a
CustomDomain (`types.gen.go:533-546`; what `VerifyCustomDomain` answers goes into a
variable that nothing reads, and the token into the connection Secret alone), and
`id` of a CacheRule and of a SpendLimit (`types.gen.go:634`, `:783`). They are what
`AtProvider` has beyond `Filled` and `CreateOnly` in `StatusRules`, and no property
claims otherwise. And a crash between the stored external name and the write of the Secret
loses the one-time secrets for good, which is why `SecretPublished` is stated
for behaviours without faults.

Bounds. Two specs tell "as declared" from "not"; three identifiers let an object
be created, lost and created again and leave one that must not be used. In
`one_provider` there are as many identifiers as POSTs the bounds allow, so that
running out of them never stops a reconcile. Three edits let a resource be
applied, changed and deleted, or an object be deleted under it; in `connection`,
applied, moved to the other account and deleted. In `status` a list of four in
pages of two has objects before, on and after the page of the one that is looked
for, and three changes let one go, another come and the object itself change.
Five edits in `settings` let both resources be applied, one of them be deleted
and the setting be edited and forgotten meanwhile. Two edits in `fields` change
the manifest and the object within one reconcile, or the manifest and what a
write needs (the Secret goes, the API refuses), which then comes back; any
number of fields together and of edits is what its theorems add. `CHECK_DEADLOCK
FALSE` is set where the system may really be at rest: no resource, or one that
waits for an operator, and the bounds used up. Symmetry is used in safety runs
only. Four edits in `spec_edits` are an edit, a deletion, a new manifest and an
edit of that; two values are what it takes for an edit to change one.

Fairness is weak and only the provider's: the watch delivers, and a reconcile
is started (the library requeues after every poll interval and after errors)
and runs on. Faults and edits are bounded, so "eventually" means after they
stop. One assumption is strong: of the verifications asked for again and again
while the DNS record is in place, one is answered (`SF` on `Verify`, without
which a check that fails every time is a fair behaviour). In `SettingResource`
each resource has its turn with the one worker however often the other is in the
queue (`SF` on `Start(r)`: the queue is first in, first out). Nothing is assumed of
users, the console or operators; hence the exception for a pending annotation in
the liveness properties.

## What is proved

`ManagedResource_proofs`, for any sets of processes, identifiers and specs, any
bounds and any combination of `PostCreate`, `Updatable` and `LostResponses`,
from `ConstantsAssumption` alone (the sentinels are distinct from each other and
from the identifiers and specs):

* `TypeCorrect`, `NoSecondObject`, `ObjectsTracked`, `CreateExclusive`: the
  invariants of the runs;
* `EachFaultOneObject`: `ObjectsBounded`, that no order of retries and repairs
  makes one fault cost two objects;
* `FinalizerHolds`, `NameKept`, `NoneRemovedUnasked`: the action properties;
* `SecretIsPublished`: `SecretPublished`, with one process (`OneProcess`), which
  is what leader election is for;
* `OneCallNoDuplicate`: with a `Create` of one call whose answer arrives, what
  `post_create_orphan` violates holds;
* `Refinement`: `ManagedResource` implements `DeclaredObject`, with
  `declared <- cr.exists` and `owned <- Owned`.

They follow from `Invariant`, `Spec => []IInv`. The point of `IInv` is why a
process that is about to POST knows that no owned object exists, although what
it observed is old. `LocalKnown`: when it looked, the object its copy named was
absent, and since the API never assigns an identifier twice (`NamesUsed`) it is
still absent. `CopiesCurrent`: it could write the pending annotation only
because its copy was the stored version, so the resource names that absent
object, and `Tracked` then leaves no owned object at all. From there to the
outcome annotation `CreateKnown` holds that fact: no other process can start
(the annotation is pending) or write it (its copy is stale). `OneCreator`,
`AtMostOneOwned` and `Tracked` are conjuncts because each is needed for the
others' step. `StepShapes` says in which few ways a step changes the abstract
state, so that the refinement and the action properties need no second walk
over all actions. `EachFaultOneObject` counts beside it: `LeakCounted` says that
the identifiers lost to a failed `Create` are no more than the faults, and the
objects are among these and the owned one. `NoneRemovedUnasked` needs that a
deletion which the copy knows of is that of the stored resource, and not of one
of the same name that went before it (`DeletionKnown`).

`FieldSync_proofs` shows `OneReconcileIsEnough`, `UnmanagedKept`,
`SecretsCarried` and `FieldTypes`, for any set of fields of a kind together, any
values and any number of edits and faults, from `FocusesAssumption` (a focus is
fields of a kind) and `FieldSyncAssumption` (the sentinels are distinct). What
ties it to the code is `AllSorted`, proved table by table for the eleven kinds:
every field is compared in exactly one way, is sent by one of `Create`'s calls
and by `Update`, and a kind updated by PATCH compares an optional field only if
the manifest sets it. From there `WrittenAgrees` (what a write leaves the check
accepts) and `AgreedIsCarried` (what the check accepts carries the manifest)
hold field by field. The invariant adds that there is an object wherever it is
called (`Underway`), that what is known of a secret is not newer than it is
(`SecretKnown`), and that without an edit the copy and the answer are those of
now (`Undisturbed`).

`SettingResource_proofs` shows, for any number of resources, values, edits and
faults, `SettingTypes`, `OffByDeletionOnly` and `SettingRefines`, that
`SettingResource` implements `DeclaredSetting`. From the finalizer on a resource
stays while it is in hand, and a deletion that its copy knows of is not taken
back (`Holding`). `OffByDeletionOnly` says this of the present state; no run
checks its property, since a write that broke it would break `Refines`. A step
of the worker changes the abstract state of no other resource (`Moves`,
`Settles`), and what a write sends is wanted because the copy is (`HandKinds`).
For `FinalizerNeverGoes`: `Observe` always finds the limit of an organization
(`Present`), so `release` is never reached.

`ObservedStatus_proofs` shows `StatusTypes`, `PublishedIdManaged` and
`AbsentWasAbsent` for every kind, list and page size (`FilledDeclared` goes through
the tables of the fourteen kinds). `PageIsPrefix` says that
what is not on a page comes after all that is on it, so that the token stays
below the object that is looked for (`Ahead`), whatever comes and goes; that an
identifier is never assigned twice (`Known`) keeps a published one from naming
another object. `AbsentIsAbsent` is about the object of the present and of an
earlier reconcile: one whose `Create` was cut off by a crash before its record
is marked by the pending annotation (`Marked`), one that was recorded is named
(`Named`), and a walk that is over has missed neither (`Missing`).

`SpecEdits_proofs` shows `EditTypes` and `EditsOrphanNone`: for every kind and
field, any values and number of edits, no edit the CRD admits leaves an object
where no resource looks for it. It rests on `AddressFixed`, that every field in
the path of a call has a rule that keeps it equal (fourteen kinds, each a line
of two tables), and on an invariant: an object implies the finalizer (`HeldOn`),
and from the finalizer to the POST the place is reserved (`CreateReserved`).
`NoEditIgnored` (`EditsCarried`) rests on `NoFieldIgnored`, again table by table
for the fourteen kinds: a field that is no secret is sent by `Create`, and is
compared and sent by `Update` or kept by a rule of the CRD. Its invariant
(`Carried`) says that an object has the value that its resource cannot change
any more, and that the value a `Create` is under way with still is the
manifest's. All of it assumes `SpecEditsAssumption`: there are values, and the
sentinels are none of them.

`Connection_proofs` shows `ConnectionTypes`, `NoneLeftBehind` and
`UsageOnRecord` from `ConnectionAssumption`. The invariant says what a reconcile
may rely on while users change everything around it: what it saw absent stays
absent (`LookedRight`), a copy that still equals the stored resource has its
usage on record (`Recorded`; users' writes are numbered, `Versions`, so a
resource applied anew never equals an old copy), and from the finalizer to the
POST the resource cannot go (`Reserved`). Beyond that, `NeverLeftBehind` reads
the steps as `DeclaredObject` does: save where `Create` or `Release` runs with a
key of another account than the object's (`Elsewhere`), every step is one of its
and drops nothing. The handlers run with a key that was read (`KeyRead`). So
where there is one account, `Connection` implements `DeclaredObject` without
exception (`OneAccountRefines`).

`Polling_proofs` shows `CheckIsInTime` for any flags, kinds and length of time,
from `PollingAssumption` (durations are natural numbers). No run checks that
property: the one run of `Polling` is the one that ends in a violation. The
clock passes nothing that is due (`Ahead`), and a resource is due by the
interval unless the next list comes first (`Promised`).

Only model-checked: everything under fairness (`DeletionCompletes`,
`DriftRepaired`, `Converges`, `DeletedStaysOff`, `Applied`, `Contended`,
`StatusCatchesUp`, `VerificationConverges`, `ResumesWhenUsable`,
`RotationTakesEffect`, `EditsTakeEffect`), which is out of the proof system's
reach.

## Plan

Done: a module for every component that has control flow of its own, and a
proof of every safety property that the passing runs check. What could follow:

1. `Connection` composed with `ManagedResource`, so that a key that is revoked
   between the calls of one `Create` meets the pending annotation.
2. The walk over a list composed with `ManagedResource`, which takes a lookup to
   be one call; `AbsentIsAbsent` is what justifies that.

## Not modelled

Generated deep copies, accessors and the scheme (`zz_generated.deepcopy.go`,
`managed.gen.go`, `groupversion_info.gen.go`): no control flow of their own. The
package and CRD manifests: static data, of which defaults and rules are taken
from `types.gen.go`. Of the status, the `Available` condition and the formatting
of timestamps; of the manifests, enumerations and ranges of single values; of
the process, logging and the rate limiter. Revoked enrollments that the list
goes on naming are a hazard without a property: whether it does is not in the
repository.
