# A TLA+ model of the OpenShift Pipelines operator

The operator (Go, built on operator-sdk and controller-runtime) installs the
Tekton pipeline and triggers releases, Red Hat's addons and the tasks of the
community catalog into an OpenShift cluster, keeps them at the operator's own
version, and gives every namespace a service account to run pipelines with. It
is driven by one cluster-scoped resource, the Config named `cluster`, whose
status is also the operator's only durable memory.

These modules model both controllers with everything they interact with, where
order, failure and staleness decide whether an install or a namespace ends well,
and what the operator makes of the manifests it installs: the transformers and the
generated pipelines. Paths below are relative to the repository root.

## Inventory

| Part | State | Operations | Touches |
|---|---|---|---|
| Config controller, `pkg/controller/config` | four manifests in memory, re-transformed at every apply | `Reconcile` and its handlers: `applyPipeline`, `validatePipeline`, `applyTriggers`, `validateTriggers`, `applyAddons`, `applyCommunityResources`, `validateVersion`, `reconcileDeletion` | Config status, every object of the manifests |
| Config resource, `pkg/apis/operator/v1alpha1` | `spec.targetNamespace`; a list of conditions, newest first; `operatorUUID` | `InstallStatus`, `HasInstalledVersion` | read by everyone, status written by the operator |
| Start-up, `cmd/manager/main.go`, `newReconciler`, `add` | leader lock | read manifests, fetch catalog, watch, `createCR`, start | may create the Config |
| Informers and queue (controller-runtime) | caches of Config and Deployments, one queue | watch events, requeues | what handlers read, and when they run |
| Manifestival | none | `Apply` (create or patch, in order), `Delete` (reverse order) | the cluster |
| Validation, `pkg/utils/validate` | none | `Deployment`, `Webhook`, `CRD` | informer caches |
| RBAC controller, `pkg/controller/rbac` | none in memory | per namespace: `ensureSA`, `ensureSCClusterRole`, `ensureSCCRoleBinding`, `ensureRoleBindings` | service account, cluster role and role bindings, which users write too |
| Transformers, `pkg/utils/transform`, Manifestival's `InjectOwner` and `InjectNamespace` | none | owner, namespace, setting, kind, label and image injection | the manifests in memory, over and over |
| Addon templates, `pkg/utils/addons` | none | generate pipelines from templates at start-up | the addons manifest |
| Flags, `pkg/flag` | constants of a process | | |

The two controllers share a process and the leader lock and nothing else. The
Config controller talks to the rest only through the API server, and hears of it
only through two informers: one on Config (spec changes, creations and
deletions; status writes are filtered out by `GenerationChangedPredicate`) and
one on Deployments owned by a Config.

What is hard about it:

* every handler acts on a Config read from a cache that may be stale, and may
  act on the *absence* of a Config that has been created again since;
* the status is written under the API server's optimistic lock, and the result
  of the write is ignored on every failure path;
* handlers consist of several API calls, each of which may fail half-way;
* users delete, re-create and edit the Config between any two of those calls;
* the garbage collector removes what belongs to a former Config, foreground
  deletion takes its time, and rollouts may stall;
* role bindings are read, extended and written back while users write them, and
  the account is looked up in a cache that may show that of a namespace's former
  life;
* a manifest in memory is transformed again for every Config that comes, on top
  of what was made of it for the last one;
* the process may crash or be replaced by another build between any two calls,
  losing the namespace its manifests were transformed for.

What makes each part correct: for the Config controller, that recorded progress
is true and is never undone underneath the record, that every install and every
clean-up ends, and that the queue comes to rest; for start-up, that a new process
continues any state its predecessor left; for the RBAC controller, that every
namespace gets its account and bindings in the end and no subject of a binding is
lost; for transformers and templates, that nothing of an earlier Config stays behind,
that what refers to each other still does once everything is moved, and that the
generated pipelines fit the tasks they run.

## Modules

`InstallStatus`
: Constant-level vocabulary: the status codes (`config_types.go`), which handler
  `Reconcile` picks for which code (`ApplyOn`, `ValidateOn`), what each handler
  records (`AppliedCode`, ...), the codes that may follow a code (`Successors`)
  and `validateVersion` (`UpToDate`).

`ConfigLifecycle`
: The abstract specification: what someone sees who watches the Config and
  nothing else. It is created, deleted, and its status moves from a code to one
  of its `Successors`; an `installed` status is left only through a build that is
  not up to date with it.

`ConfigController`
: The controller with everything it interacts with. One action per handler and
  per API call of a handler; see below.

`MCConfigController`
: Values for the constants, one set per question.

`ConfigControllerProofs`
: Theorems about `ConfigController` and their proofs.

`NamespaceAccess`
: The abstract specification of the RBAC controller: what the people of a
  namespace see. An account appears and is added to each of two bindings; nobody
  else's subject is touched by the operator, and nothing happens in ignored
  namespaces.

`RBACController`, `MCRBACController`, `RBACControllerProofs`
: The RBAC controller, one action per live call of `Reconcile`, with the namespace
  informer and its resync, the cache of service accounts, the life of namespaces
  and the users; values for TLC; theorems and proofs.

`ManifestTransform`
: The transformers as operators on objects, and `transformManifest` for each of the
  four manifests.

`AddonPipelines`
: The generator of pipelines as operators; how a pipeline becomes an object is a
  parameter.

`Manifests`, `MCManifests`, `TransformProofs`, `ManifestsProofs`
: A state machine on top of the two: processes start, read and generate manifests,
  and transform them for whatever Config there is at the time. `MCManifests` holds
  one object of every shape the files under `deploy/resources` hold, under its real
  name and with its real references. `TransformProofs` proves what a transformation
  does to one object, `ManifestsProofs` what follows for the manifests in memory.

The two controllers share nothing a property could relate, so no module composes
them. `Manifests` and `ConfigController` split one component: the latter decides
when a manifest is transformed, applied and deleted and keeps of it only owner,
namespace and build; the former lets any of them be transformed at any time and
keeps its contents.

### State of `ConfigController`

| Variable | Stands for |
|---|---|
| `cr`, `uids` | the stored Config: uid, target namespace, head condition's code, and the build that wrote the status (its version and UUID); uids already given |
| `rest[c][p]` | the cluster-scoped objects of release `c`, its CRDs (`crds`) apart from its cluster roles and webhook configurations (`roles`): absent, present, or being deleted |
| `workload[c][ns]` | the Deployments of release `c` in a namespace: build, owner uid, whether they are being deleted, status |
| `extra[c]` | addons and catalog objects: build and owner uid of those that are owned (an owner without a build when some are missing), and whether the addons' cluster roles, which have no owner, are there |
| `overlapped` | the releases whose last complete apply found objects of `rest` that were being deleted, until they are torn down again (not in the code: a history variable) |
| `cache`, `lag` | the Config informer's copy and what it has yet to see |
| `seen` | the Deployment informer's copy of the status of each workload |
| `queued` | the request for `cluster` is in the work queue (a queue of one key holds it at most once) |
| `build`, `mem`, `catalog` | the running build, the namespace each manifest in memory was transformed for, whether the catalog was fetched |
| `pc`, `comp`, `outcome`, `cfg`, `fresh` | the worker: next call, component, code to record, Config it read, and whether that is still the stored version |
| `budget` | what is left of the environment's failures |

### Actions

| Action | Code |
|---|---|
| `Reconcile` | `Reconcile` up to the dispatch, `validateVersion` |
| `ApplyRest`, `ApplyWorkload` | the two `Apply` calls of `applyPipeline` and `applyTriggers`, with `transformManifest` |
| `RecreateDelete`, `RecreateApply`, `RecreateTimeout` | `deleteAndCreate`, `deleteAndCreateTriggers` |
| `Validate` | `validatePipeline`, `validateTriggers`, `validateDeployments` |
| `ExtraDelete`, `ExtraCreate` | `applyAddons`, `applyCommunityResources`, `deleteAndCreateAddons` |
| `WriteStatus` | `updateStatus` and the return of the handler |
| `DeleteManifest` | one `Delete` of `reconcileDeletion`: of a release (`Torn`) or of the addons (`AddonsTorn`) |
| `Start`, `Listen` | `newReconciler` to `createCR`; the start of the manager |
| `SyncConfig`, `SyncWorkload` | the informers and their event handlers |
| `Crash`, `Upgrade` | the end of a process, by itself or for another image; `leader.Become` keeps two from running at once |
| `Finalize`, `FinalizeRest` | the end of a foreground deletion, with a CRD that of its custom resources |
| `Rollout`, `Stall`, `CollectWorkload`, `CollectExtra` | the cluster's controllers |
| `CreateConfig`, `DeleteConfig`, `SetTargetNamespace` | users |

### State and actions of `RBACController`

| Variable | Stands for |
|---|---|
| `phase`, `lives` | each namespace: absent, active or terminating, and how often it was created |
| `account`, `binding`, `role` | the service account; the subjects of the role bindings `pipeline-anyuid` and `edit`; the cluster role `pipeline-anyuid` |
| `events`, `known` | the namespace informer: events on their way, and its cache |
| `accountKnown` | the cache of service accounts |
| `queue` | the work queue |
| `pc`, `cur`, `which`, `held`, `fresh` | the worker: next call, namespace, binding in hand, what was read of it and whether that is still the stored version |
| `budget` | what is left of failures, deletions, edits and undoings |

| Action | Code |
|---|---|
| `Take` | `Reconcile`: the ignore pattern and `getNS` |
| `EnsureAccount`, `EnsureRole` | `ensureSA`, `ensureSCClusterRole` |
| `GetBinding`, `CheckRole`, `WriteBinding` | `ensureSCCRoleBinding`, then `ensureRoleBindings`, call by call, with `createSCCRoleBinding`, `createRoleBinding` and `updateRoleBinding` |
| `Start`, `Crash` | the process |
| `NamespaceEvent`, `Resync`, `AccountSync` | `add`'s watch of namespaces, the informer's resync, the cache of accounts |
| `CreateNamespace`, `DeleteNamespace`, `EmptyAccount`, `EmptyBinding`, `FinishNamespace` | the life of a namespace |
| `AddSubject`, `RemoveSubject`, `TamperAccount`, `TamperBinding`, `TamperRole` | users: the former change others' access, the latter undo the operator's work |

### State and actions of `Manifests`

| Variable | Stands for |
|---|---|
| `up`, `env`, `probe` | the process, its `IMAGE_*` variables, and whether it found the console's CRD and the catalog |
| `cfg` | uid and `targetNamespace` of the Config |
| `mem` | `r.pipeline`, `r.triggers`, `r.addons`, `r.community` as sets of objects |
| `based` | the Config each was transformed for last (not in the code; what it is about) |

| Action | Code |
|---|---|
| `Start` | `newReconciler`, `readAddons`, `readOptional`, `fetchCommuntiyResources` |
| `Transform` | the head of `applyPipeline`, `applyTriggers`, `applyAddons`, `applyCommunityResources` |
| `Stop`, `EditTarget`, `RecreateConfig` | the end of a process; users |

### Abstractions of `ConfigController`

* The controller and webhook Deployments of a release are one workload; other
  namespaced objects share its fate and are left out. Services go with it.
* A workload's status is the verdict of `validate.Deployment`: not there, still
  rolling out, available, or past its progress deadline. `validate.Webhook` asks
  for an object of `rest`; it is read as current.
* An Apply or Delete is one step. One that fails has done any of the parts and not
  the others: `crds`, `roles`, the namespaced objects; of the owned
  addons some, all or none; for `ApplyRest` also the transformation alone. Within a
  part, objects are not told apart. Any later round of the handler goes over all
  objects again.
* A foreground Delete leaves Deployments, CRDs, cluster roles and webhook
  configurations there until a step of the cluster ends them, at any later time; an
  Apply meanwhile patches them and does not revive them. A CRD that goes takes
  custom resources with it, and none can be created while it is going. What a Delete
  of addons removes is gone at once: the one handler that could find it still there,
  `deleteAndCreateAddons`, waits until it is.
* The Namespace an Apply creates is left out. No Delete removes it: `okToDelete`
  wants an annotation that `Apply` put on a filtered copy (`r.pipeline.Filter(...)`)
  and the manifest in memory has not got.
* An informer that catches up shows the latest version; versions in between are
  skipped. Staleness itself is unbounded.
* A requeue with a delay, with back-off or at once is the same requeue.
* A cached `Get` succeeds or answers NotFound. An immutable field that differs
  (`errors.IsInvalid`) is a relation between builds, `Incompatible`.
* The discovery behind Manifestival's client is not modelled: a kind is known as
  soon as its CRD is there.
* A community catalog that cannot be fetched, or is not wanted, is an empty
  manifest.
* The condition list behind its head is never read by the code and is left out.
* The periodic resync of the Deployment informer is left out: it could only add
  one more request to a queue that properties expect to run empty.

### Abstractions of `RBACController`

* A read through an informer may be arbitrarily old and shares the step of the call
  that follows it. The lookup of the cluster role and its creation or update are one
  step: it is overwritten whatever it holds, and the only other outcome is failure.
* Events of one namespace arrive in order; the cache of service accounts skips
  versions in between.
* A failing call has done nothing, or all of it. A failure and a crash draw on the
  same budget.
* A terminating namespace refuses creations, not updates.
* The roleRef of a role binding is left out: the code never looks at that of one it
  finds. The cluster role `edit` is the platform's and always there.

### Abstractions of `ManifestTransform` and `Manifests`

* An object keeps the fields some transformer reads or writes; a reference is
  a record that says in which field of the object it is held.
* The order of the objects in a manifest is left out, and so is that of parameters:
  no two of an object share a name.
* An argument is what `strings.Split(arg, "=")` makes of it; environment variables
  come with names already lower-case and values split at equals signs, of which
  `imagesFromEnv` keeps the first part. How a name becomes a key is the constant
  `Keys`.
* The errors and panics of transformers are left out. An empty `data` of the two
  ConfigMaps has no cause in the files. A flag to be overridden that comes last would
  make `replaceContainersArgsImage` panic; `FlagsApart` assumes that there is none, and
  that no image reads like a flag.
* Of a generated pipeline's task the model keeps its `taskRef`, `runAfter`, and for
  each parameter the pipeline's parameters its value mentions.

## Runs

### Config controller

These runs use `MCConfigController`. Builds are one or two, `v1` and `v2`, with an
upgrade from `v1` to `v2`; two suffice, as every use of a build compares two of
them: the one that wrote an object or a status, and the one that runs. Namespaces
are one, or two where the namespace may change or differs from that of the
manifest files. `Limits` bounds API failures (`fault`), stalled rollouts (`stall`),
crashes, and the creations, deletions and edits of the Config by users. Two
creations and a deletion give two Configs in the life of the cluster, so that an old
one's leftovers meet a new one, and one failure can hit any call at any time.
Nothing else is bounded: upgrades end with the last build, and `uids` moves with
creations.

| Run | Checks | Instance |
|---|---|---|
| `config_safety` | `TypeOK`, `IInv`, `ManifestInPlace`, `NoTeardownOfLiveInstall`, `OwnedWhenRecorded`, `FollowsLifecycle` | two builds of the same version that differ in UUID, incompatible Deployments; two creations, a deletion, an upgrade |
| `config_edits` | `OwnedWhenRecorded`, `FollowsLifecycle` | two namespaces, the files' another than the default; a creation, a deletion, an edit, a failure |
| `config_install` | `EventuallyInstalled`, `EventuallyQuiet` | two builds of different versions, automatic install, catalog; a failure, a stall, a crash, an upgrade |
| `config_cleanup` | `SeenDeletionCleansUp` | two namespaces, catalog; a creation, a deletion, a failure, a crash |

The hazards are spread over the runs because objects that linger multiply the
states: there are 2.8 million in `config_safety`. An upgrade ends a process as a crash
does, so `config_safety` has no crash of its own. Re-creation together with failures,
or in another namespace, is in no run; for the safety properties the proofs below
cover every combination.

What they show: neither stale reads nor half-done applies and teardowns, crashes or
upgrades take the CRDs, roles and webhooks away from under recorded progress, save
where the apply itself went over a deletion that was not yet over
(`ManifestInPlace`; the exception is `config_overlap`'s). A teardown that started
from a stale NotFound runs only while the new Config has recorded nothing
(`NoTeardownOfLiveInstall`), which is not evident, as the teardown checks nothing; a
success is recorded only over Deployments that are this Config's own and this
build's (`OwnedWhenRecorded`); and the status moves as the install order says
(`FollowsLifecycle`). A Config that stays is installed by an up-to-date build, and
then the queue is empty. Where an operator runs while the Config is deleted, and from
then on, nothing is left but the Namespace (`SeenDeletionCleansUp`): a teardown that
failed half-way is taken up again, what a restarted operator deletes in the wrong
namespace the garbage collector removes, and so it does the catalog, which no
teardown names.

These runs show where the code does not do what the repository says of it:

| Run | Violated | What happens |
|---|---|---|
| `config_reinstall` | `EventuallyInstalled` | Config deleted and created again quickly: `applyPipeline` patches Deployments, or a webhook configuration, that are terminating; once they are gone `validatePipeline` polls for ever |
| `config_overlap` | `InstalledIsComplete` | the same with cluster roles and webhook configurations that go after the validation: the install is reported as complete without them |
| `config_orphans` | `DeletionCleansUp` | Config deleted while the operator is down: no finalizer, and the cluster-scoped objects stay |
| `config_addons` | `InstalledHasAddons` | a stale read runs `applyAddons` a second time, its failure cannot be recorded, and the install ends as installed without addons |
| `config_versions` | `InstalledVersionDeployed` | an upgrade in mid-install records its own versions over the former build's Deployments |

`config_install` allows no deletion because of `config_reinstall`, and
`SeenDeletionCleansUp` asks for a running operator because of `config_orphans`:
without that the properties do not hold.

Three more disagreements need no run to be seen:

* The target Namespace that an Apply created is skipped by every Delete, although
  Manifestival means to delete what it created (`okToDelete`, manifestival.go:217).
* An edit of `targetNamespace`, "namespace where OpenShift pipelines will be
  installed", is no reason for `validateVersion` to install again: an install that is
  over stays where it is.
* The README's own example of an image override for an argument,
  `IMAGE_PIPELINES_ARG_NOP`, matches nothing: `formKey` makes a key of the whole flag,
  so that the shipped `-nop-image` listens to `IMAGE_PIPELINES_ARG__NOP_IMAGE` only.
  The unit test of the rewriting uses keys of a third form, which match nothing of
  its data, and looks at flags its data does not hold.

Deadlock is not checked by these runs: a cluster in which the install is done, the queue is
empty and the budgets are spent has nothing left to do.

### RBAC controller

`rbac_accounts` uses `MCRBACController`: two namespaces, one of them ignored, and
one user, with one failure or crash, one deletion, one edit and one undoing of the
operator's work, each anywhere. One deletion gives a namespace a second life, in
which the cache may still show what belonged to its first. Namespaces do not meet
except in the queue and the cluster role; that any number of them behaves is what
the proofs show. 800,000 states, and no deadlock.

* `NoForgottenNamespace`: without the resync. Whatever failed, conflicted, crashed or
  was re-created quickly, a namespace Reconcile will not look at again has both
  bindings and, in its first life, its account. In a later life it may be without
  the account: `ensureSA` takes the former one, still in the cache, for it, and
  nothing but the resync or another event of the namespace brings `Reconcile` back.
* `FollowsAccess`: no subject a user adds is lost, none a user removes is revived.
  It rests on the version check of `Update`, which `updateRoleBinding` keeps by
  writing back the object it read.
* `EventuallyProvisioned`: a namespace that stays gets everything in the end,
  including what users deleted. For that it needs the resync, and that the SDK's
  `GenerationChangedPredicate` lets objects without a generation pass.

### Manifests

`manifests` uses `MCManifests`: about 60 shipped objects and the 60 generated ones,
two namespaces, two Configs in turn, with and without overrides. Two Configs
and two namespaces are enough for a manifest to carry what the one before left;
each transformer rewrites without looking at older values, so a third adds nothing.

* `LatestOwner`, `NoResidue`: a manifest transformed again and again has the owner
  and the namespace of the latest Config, and is what a fresh process would make of
  it. Deletion after a restart depends on it, and so does what the garbage collector
  removes.
* `NoCollision`: putting objects of several files into one namespace, and generating
  names from runtime, environment and style, never makes two the same.
* `ReferencesResolve`: subjects, roles and the services of webhooks are where the
  references say, annotated objects included.
* `PipelinesRun`: each of the generated pipelines passes to ClusterTasks that are
  installed only parameters they take.
* `OverridesHonoured`: exactly the arguments whose flag has a key, as the code forms
  it, among the variables are replaced, although the list is rewritten in place while
  it is walked, and walked again at the next apply.

`manifests_conversion` is violated: `ConversionsResolve`. The code rewrites a CRD's
conversion webhook where apiextensions v1beta1 keeps it, the shipped CRDs are v1, and
the webhook keeps naming a service in `tekton-pipelines`.

### Fairness

`ConfigController`: `Fairness` asks for weak fairness of the worker (`Handler`; the worker of
controller-runtime takes the next request whenever there is one), of the pod's
restart and start-up (`Start`, `Listen`; kubelet), of the informers, of foreground
deletion, rollouts and the garbage collector. It asks nothing of users, failures,
crashes, stalls and upgrades. A rollout past its deadline may still complete.

`RBACController`: weak fairness of the worker's calls, of the pod's restart, of the
delivery of events and caches, and of the resync (controller-runtime's informers
resync every ten hours); strong fairness of `Take`, as the work queue is first in
first out: a namespace that is queued again and again is not passed over for ever.

`Manifests` has safety properties only and no fairness.

## Proofs

`ConfigControllerProofs` proves, for every set of builds and namespaces, every
relation of upgrades and incompatibilities and every budget (the assumptions
`BuildsAssumption` and `ControllerAssumption`):

| Theorem | States |
|---|---|
| `IInvHolds` | `Spec => []IInv` |
| `TypeCorrect` | `Spec => []TypeOK` |
| `ManifestStaysInPlace` | `Spec => []ManifestInPlace` |
| `TeardownIsSafe` | `Spec => []NoTeardownOfLiveInstall` |
| `SuccessIsOwned` | `Spec => OwnedWhenRecorded` |
| `Implements` | `Spec => FollowsLifecycle` |

`ManifestInPlace` and `NoTeardownOfLiveInstall` are not inductive. What they lack
is what the handlers rely on without saying so, and `IInv` states it:

* `Reads`: a worker that may still write holds the Config that is stored; an
  informer that has caught up shows it; and whoever sees no Config, however stale
  the sight, sees it at a time at which the stored one, if any, has recorded
  nothing. The last is why stale teardowns are harmless: progress is recorded
  only by a worker that read the Config from a cache that has it, and a cache
  that has it does not lose it again before it is deleted.
* `Dispatched`: each code a running handler may record follows the code it was
  dispatched on, and an installed Config is worked on only by a build that is not
  up to date with it.
* `Backed`: between a successful apply and its record the cluster holds what the
  record will say. A deletion in between makes the write fail.

`ManifestInPlace` says of a release past its apply that it is `Held`: all of its
`rest` is there and none of it is being deleted, or `overlapped` has noted that the
apply found some of it on its way out. The history variable makes the invariant
inductive where the code has no promise to keep: only a teardown, which `Reads` keeps
away from recorded progress, makes something of `rest` go, and only what goes can be
lost (`FinalizeRestIInv`); an apply that is half done takes nothing away
(`PatchKeeps`), and one that is complete leaves nothing absent (`PatchCompletes`).

The step theorem has one lemma per action or group of actions; the frame lemmas
say once what an action that leaves the object, the cluster or the worker alone
keeps. `SuccessIsOwned` and `Implements` rest on `ConfigSteps`, the five ways the
stored Config can change, and `RecordedFromRead`, that a recorded status starts
from the Config that was read.

`RBACControllerProofs` proves, for any namespaces, ignored ones, users and budgets
(`RBACAssumption`):

| Theorem | States |
|---|---|
| `IInvHolds` | `Spec => []IInv` |
| `TypeCorrect` | `Spec => []TypeOK` |
| `NothingForgotten` | `Spec => []NoForgottenNamespace` |
| `Implements` | `Spec => FollowsAccess` |

Its `IInv` adds to `NoForgottenNamespace`: `Informed`, that the last event on its
way, or else the cache, tells whether the namespace exists; `FirstLife`, that the
cache of accounts does not lie about a namespace that was never deleted; `Held`,
that a binding that is still fresh is what is stored; and `Progress`, that what
Reconcile has done for the namespace in hand still stands unless an event will bring
it back. The last carries the argument: a namespace can lose what it was given only
by terminating, and a terminating namespace always has an event yet to come.

`ManifestsProofs` proves, for any files, catalog, namespaces, overrides and number of
Configs that satisfy the assumptions below:

| Theorem | States |
|---|---|
| `ManifestsTyped` | `Spec => []TypeOK` |
| `ManifestsPlaced` | `Spec => []LatestOwner` |
| `ManifestsWithoutResidue` | `Spec => []NoResidue` |
| `ManifestsApart` | `Spec => []NoCollision` |
| `ManifestsRefer` | `Spec => []ReferencesResolve` |
| `ManifestsOverridden` | `Spec => []OverridesHonoured` |
| `ManifestsRunnable` | `Spec => []PipelinesRun` |

The inductive invariant is `TypeOK /\ NoResidue`; the other invariants follow from it
state by state. That is the point of `NoResidue`: without it each of them would have to
be shown to survive a transformation of whatever an earlier one left, with it every
object in memory is `Now(c, u)`, an object that was read, transformed at most once.

That `NoResidue` is inductive is `TransformTwice` of `TransformProofs`: transforming an
object for one Config and then for another gives what the second alone would. It rests
on

* `TransformedFields`: each field of a transformed object in terms of the fields of the
  original (`Transformed`), one lemma per transformer. Kinds change in one case only, and
  to one the code does not take for cluster-scoped;
* `ReferencesTwice`: which references are redirected is not changed by redirecting them,
  as the new namespace is never empty;
* `ArgumentsTwice`: rewriting arguments in place, twice, is the same as once. This one
  is an induction over the list: the loop is a recursive function, `ArgumentsEquation`
  shows that it exists and obeys its equation, and both it and the rest are proved by
  way of the least index at which they would fail (`LeastNat`, from the library's
  well-founded induction over naturals). It holds for all arguments and overrides;
* `ArgumentsAsOverridden`, `FlagsStay`: what the loop computes is what
  `ArgumentAsOverridden` says of each argument alone. This one needs `FlagsApart`: with
  an image that reads like another overridden flag the code does rewrite an argument
  too many.

What the theorems take for granted of the files are the assumptions of `Manifests`, and
every run of `MCManifests` evaluates them on the shapes that are shipped:

| Assumption | Says | Used for |
|---|---|---|
| `ManifestsAssumption` | objects have the fields they should have, no owner, and a namespace only where there can be one; a target is never empty | all |
| `NamesAssumption` | no two objects have kind and name in common, a task of the catalog counting as the ClusterTask it becomes; one Namespace; no file holds a Pipeline | `ManifestsApart`, `ManifestsOverridden`, `ManifestsRunnable` |
| `SuffixesAssumption` | runtime and suffixes can be told from the name they make; to the provers, concatenation of strings is opaque | `ManifestsApart` |
| `TasksAssumption` | the ClusterTasks the pipelines name are shipped and take their parameters | `ManifestsRunnable` |
| `ReferencesAssumption` | a reference and what it refers to either both follow the target (`Together`) or both stay, or the referent is somebody else's and the reference stays | `ManifestsRefer` |
| `ArgumentsAssumption` | in every Deployment, for the images of every process, flags are apart | `ManifestsOverridden` |

The names of all 153 objects under `deploy/resources` satisfy `NamesAssumption`, and so
do the nine names of catalog tasks in `CommunityResourceURLs` (`pkg/flag/flag.go`);
`MCManifests` holds one of each shape. `NamesAssumption` is stronger than what a Kubernetes
cluster asks for, where the namespace tells objects apart: it must be, because
the target may be any namespace, that of another object included.

Model-checked and not proved: the liveness properties (`EventuallyInstalled`, `EventuallyQuiet`,
`SeenDeletionCleansUp`, `EventuallyProvisioned`), which are out of the prover's reach. All
other properties of the passing runs are theorems. The properties of the violated runs do
not hold and are not proved.

## Plan

1. *Done*: `InstallStatus`, `ConfigLifecycle`, `ConfigController`, with proofs.
2. *Done*: `NamespaceAccess`, `RBACController`, with proofs.
3. *Done*: `ManifestTransform`, `AddonPipelines`, `Manifests`, with proofs.
4. *Done*: all safety properties of `Manifests` as theorems, with `TransformProofs`.
5. *Done*: `ConfigController` with deletions that take their time, applies and deletes
   that stop half-way, the addons' own deletion.
6. Later: discovery, and a run that combines re-creation with failures.

## Not modelled

* Configs of another name (`markInvalidResource`): they share nothing with the
  install but the worker. Such a Config is marked once per event, and a failing
  write is not retried; nothing in the repository says otherwise.
* The arithmetic of `validate.Deployment` over replica counts: a verdict is a state
  of the workload in `ConfigController`. It is the logic of `kubectl rollout
  status`, over one object read at one time.
* The lock of `leader.Become` by itself: `ConfigController` takes from it that one
  process runs at a time.
* Metrics, logging, the command line, the end-to-end test harness, generated code,
  and vendored clients beyond the semantics above.
