-------------------------- MODULE ConfigController --------------------------
(***************************************************************************)
(* The Config controller (pkg/controller/config), the API server's objects *)
(* it works on, the two informers it reads through, the process it runs in *)
(* and the users and cluster controllers around it.                        *)
(*                                                                         *)
(* One worker runs one handler at a time; every API call of a handler is a *)
(* step of its own, so that users, the garbage collector, rollouts, the    *)
(* informers, API failures, crashes and upgrades interleave with it.       *)
(*                                                                         *)
(* Of a manifest these parts are told apart: rest, the cluster-scoped      *)
(* objects that no owner reference protects or collects, CRDs apart from   *)
(* cluster roles and webhook configurations; workload, its Deployments and *)
(* Services, one per namespace they were ever applied to; extra, the tasks *)
(* and templates of addons and catalog, owned by the Config.  The          *)
(* remaining namespaced objects share the fate of the workload and are     *)
(* left out, and so is the Namespace of the pipeline release, which is     *)
(* applied and never deleted.                                              *)
(***************************************************************************)
EXTENDS InstallStatus, Naturals

CONSTANTS Namespaces,       \* namespaces an install may target
          DefaultNamespace, \* flag.TargetNamespace
          RawNamespace,     \* the namespace written in the manifest files
          Upgrades,         \* <<b, d>>: the operator's image may go from b to d
          Incompatible,     \* <<b, d>>: d's Deployments cannot patch b's
          AutoInstall,      \* ~flag.NoAutoInstall
          CatalogWanted,    \* ~flag.SkipNonRedHatResources, on a supported arch
          Limits            \* how often the environment may do each thing

Hazards == {"fault", "stall", "crash", "create", "delete", "edit"}

ASSUME ControllerAssumption ==
    /\ {DefaultNamespace, RawNamespace} \subseteq Namespaces
    /\ "" \notin Namespaces
    /\ Upgrades \subseteq Builds \X Builds
    /\ Incompatible \subseteq Builds \X Builds
    /\ AutoInstall \in BOOLEAN
    /\ CatalogWanted \in BOOLEAN
    /\ Limits \in [Hazards -> Nat]

VARIABLES
    \* API server
    cr,        \* the Config resource, NoConfig when there is none
    uids,      \* the last uid given to a Config
    rest,      \* per core component and part: its cluster-scoped objects
    workload,  \* per core component and namespace: its Deployments
    extra,     \* addons and community: who applied them, for which Config; roles
    \* informers and work queue
    lag,       \* what the Config informer has yet to see
    cache,     \* the informer's copy of cr
    seen,      \* the Deployment informer's copy of each workload's status
    queued,    \* is a request for the Config in the work queue
    \* the operator process
    build,     \* the build that runs, or ran last
    mem,       \* per core component: namespace of the manifest held in memory
    catalog,   \* did this process fetch the community manifest
    \* its one worker
    pc,        \* the next step of the handler
    comp,      \* the component it works on
    outcome,   \* the code it is about to record
    cfg,       \* the Config it read
    fresh,     \* is cfg's resourceVersion still the current one
    \* environment
    budget,    \* what Limits leaves
    \* history
    overlapped \* components whose rest was being deleted when last applied, unless
               \* torn down since

object    == <<cr, uids>>
cluster   == <<rest, workload, extra, overlapped>>
informers == <<lag, cache, seen, queued>>
process   == <<build, mem, catalog>>
worker    == <<pc, comp, outcome, cfg, fresh>>
vars == <<object, cluster, informers, process, worker, budget>>

-----------------------------------------------------------------------------

\* Go's zero Config: what a failed Get leaves in the handler's variable.
NoConfig == [uid |-> 0, ns |-> "", code |-> "empty", by |-> NoBuild]
Configs == [uid : Nat \ {0}, ns : Namespaces, code : Codes,
            by : Builds \cup {NoBuild}] \cup {NoConfig}

\* A workload's status is what validate.Deployment makes of it; the controller
\* and webhook Deployments of a component are one workload.
NoWorkload == [by |-> NoBuild, owner |-> 0, terminating |-> FALSE,
               status |-> "absent"]
Statuses == {"absent", "progressing", "available", "deadline"}
Workloads == [by : Builds \cup {NoBuild}, owner : Nat, terminating : BOOLEAN,
              status : Statuses]

\* The cluster-scoped objects of a release; roles stands for webhooks as well.
Parts == {"crds", "roles"}
Presence == {"absent", "present", "terminating"}

\* An owner without a build: some of the owned objects are missing.  The addons'
\* cluster roles have no owner.
NoExtra == [by |-> NoBuild, owner |-> 0, roles |-> FALSE]
ExtraSets == [by : Builds \cup {NoBuild}, owner : Nat, roles : BOOLEAN]

Steps == {"down", "listing", "idle",
          "apply_rest", "apply_workload", "recreate",
          "validate", "extra_delete", "extra_create", "status", "delete"}

TypeOK ==
    /\ cr \in Configs
    /\ uids \in Nat
    /\ rest \in [Core -> [Parts -> Presence]]
    /\ workload \in [Core -> [Namespaces -> Workloads]]
    /\ extra \in [Extras -> ExtraSets]
    /\ overlapped \subseteq Core
    /\ lag \in {"none", "status", "spec"}
    /\ cache \in Configs
    /\ seen \in [Core -> [Namespaces -> Statuses]]
    /\ queued \in BOOLEAN
    /\ build \in Builds
    /\ mem \in [Core -> Namespaces]
    /\ catalog \in BOOLEAN
    /\ pc \in Steps
    /\ comp \in Components
    /\ pc \in {"apply_rest", "apply_workload", "recreate", "validate"} =>
          comp \in Core
    /\ pc \in {"extra_delete", "extra_create"} => comp \in Extras
    /\ outcome \in Codes
    /\ cfg \in Configs
    /\ fresh \in BOOLEAN
    /\ budget \in [Hazards -> Nat]

Exists(config) == config.uid # 0

Running == pc \notin {"down", "listing"}

\* Use up one of the environment's budget of hazard h.
Spend(h) ==
    /\ budget[h] > 0
    /\ budget' = [budget EXCEPT ![h] = @ - 1]

Init ==
    /\ cr = NoConfig
    /\ uids = 0
    /\ rest = [c \in Core |-> [p \in Parts |-> "absent"]]
    /\ workload = [c \in Core |-> [ns \in Namespaces |-> NoWorkload]]
    /\ extra = [c \in Extras |-> NoExtra]
    /\ overlapped = {}
    /\ lag = "spec"
    /\ cache = NoConfig
    /\ seen = [c \in Core |-> [ns \in Namespaces |-> "absent"]]
    /\ queued = FALSE
    /\ build \in Builds
    /\ mem = [c \in Core |-> RawNamespace]
    /\ catalog = FALSE
    /\ pc = "down"
    /\ comp = "pipeline"
    /\ outcome = "empty"
    /\ cfg = NoConfig
    /\ fresh = FALSE
    /\ budget = Limits

-----------------------------------------------------------------------------
(* The work queue and the dispatch of Reconcile. *)

Goto(step, c) == pc' = step /\ comp' = c

\* The handler returns; its local variables die with it.
Return(requeue) ==
    /\ Goto("idle", "pipeline")
    /\ outcome' = "empty"
    /\ cfg' = NoConfig
    /\ fresh' = FALSE
    /\ queued' = (queued \/ requeue)

\* The handler goes on to record code k, unconditionally the last thing it does.
Conclude(k) ==
    /\ Goto("status", comp)
    /\ outcome' = k

\* Mutant: every component is applied like a release.
FirstStepSame(c) == "apply_rest"

FirstStep(c) == IF c \in Core THEN "apply_rest" ELSE "extra_delete"

\* Reconcile reads the Config through the informer and picks the handler.
Reconcile ==
    /\ pc = "idle"
    /\ queued
    /\ queued' = FALSE
    /\ IF ~Exists(cache)
       THEN Goto("delete", "pipeline") /\ cfg' = cache /\ fresh' = (lag = "none")
       ELSE \/ /\ \/ \E c \in Components :
                       cache.code \in ApplyOn[c] /\ Goto(FirstStep(c), c)
                  \/ \E c \in Core :
                       cache.code \in ValidateOn[c] /\ Goto("validate", c)
                  \/ /\ cache.code = "installed"
                     /\ ~UpToDate(cache.by, build)
                     /\ Goto("apply_rest", "pipeline")
               /\ cfg' = cache
               /\ fresh' = (lag = "none")
            \/ /\ cache.code = "installed"
               /\ UpToDate(cache.by, build)
               /\ UNCHANGED <<pc, comp, cfg, fresh>>
    /\ UNCHANGED <<object, cluster, lag, cache, seen, process, outcome, budget>>

-----------------------------------------------------------------------------
(* applyPipeline and applyTriggers. *)

\* Write w for the workload of component comp in the namespace of cfg.
WriteWorkload(w) ==
    workload' = [workload EXCEPT ![comp] = [@ EXCEPT ![cfg.ns] = w]]

\* Mutant: the owner is set on creation only.
AppliedOwnerKept(w) ==
    [w EXCEPT !.by = build,
              !.owner = IF w = NoWorkload THEN cfg.uid ELSE @,
              !.status = IF w.by = build THEN @ ELSE "progressing"]

\* Manifestival's Apply: create what is absent, else patch the owner and, when
\* the build differs, the pod template, which starts a new rollout.  A patch
\* does not revive what is being deleted.
Applied(w) ==
    [w EXCEPT !.by = build,
              !.owner = cfg.uid,
              !.status = IF w.by = build THEN @ ELSE "progressing"]

\* An Apply that gets as far as the parts S of component c: what is being deleted
\* it finds and patches like the rest.
Patch(c, S) ==
    rest' = [rest EXCEPT ![c] =
               [p \in Parts |-> IF p \in S /\ rest[c][p] = "absent"
                                THEN "present" ELSE rest[c][p]]]

Overlaps(c) == \E p \in Parts : rest[c][p] = "terminating"

\* transformManifest, then Apply of everything but Deployments and Services.
ApplyRest ==
    /\ pc = "apply_rest"
    /\ \/ /\ mem' = [mem EXCEPT ![comp] = cfg.ns]
          /\ Patch(comp, Parts)
          /\ overlapped' = IF Overlaps(comp) THEN overlapped \cup {comp}
                                             ELSE overlapped \ {comp}
          /\ Goto("apply_workload", comp)
          /\ UNCHANGED <<outcome, budget>>
       \/ /\ Spend("fault")
          /\ \/ UNCHANGED <<mem, rest>>
             \/ /\ mem' = [mem EXCEPT ![comp] = cfg.ns]
                /\ \E S \in SUBSET Parts : Patch(comp, S)
          /\ Conclude(ApplyErrorCode[comp])
          /\ UNCHANGED overlapped
    /\ UNCHANGED <<object, workload, extra, informers, build, catalog,
                   cfg, fresh>>

\* An Apply that answers Invalid: an immutable field of the live object differs.
Invalid(w) == <<w.by, build>> \in Incompatible

\* Apply of the Deployments and Services.
ApplyWorkload ==
    /\ pc = "apply_workload"
    /\ LET w == workload[comp][cfg.ns]
       IN /\ ~Invalid(w)
          /\ \/ /\ WriteWorkload(Applied(w))
                /\ Conclude(AppliedCode[comp])
                /\ UNCHANGED budget
             \/ /\ Spend("fault")
                /\ WriteWorkload(Applied(w)) \/ UNCHANGED workload
                /\ Conclude(ApplyErrorCode[comp])
    /\ UNCHANGED <<object, rest, extra, overlapped, informers,
                   process, cfg, fresh>>

\* deleteAndCreate, deleteAndCreateTriggers: the foreground Delete.
RecreateDelete ==
    /\ pc = "apply_workload"
    /\ LET w == workload[comp][cfg.ns]
       IN /\ Invalid(w)
          /\ \/ /\ WriteWorkload([w EXCEPT !.terminating = TRUE])
                /\ Goto("recreate", comp)
                /\ UNCHANGED <<outcome, budget>>
             \/ /\ Spend("fault")
                /\ \/ WriteWorkload([w EXCEPT !.terminating = TRUE])
                   \/ UNCHANGED workload
                /\ Conclude(ApplyErrorCode[comp])
    /\ UNCHANGED <<object, rest, extra, overlapped, informers,
                   process, cfg, fresh>>

\* The poll finds everything gone and the manifest is applied anew.
RecreateApply ==
    /\ pc = "recreate"
    /\ workload[comp][cfg.ns] = NoWorkload
    /\ \/ /\ WriteWorkload(Applied(NoWorkload))
          /\ Conclude(AppliedCode[comp])
          /\ UNCHANGED budget
       \/ /\ Spend("fault")
          /\ WriteWorkload(Applied(NoWorkload)) \/ UNCHANGED workload
          /\ Conclude(ApplyErrorCode[comp])
    /\ UNCHANGED <<object, rest, extra, overlapped, informers,
                   process, cfg, fresh>>

\* The poll gives up: 60 seconds are over, or a Get failed.
RecreateTimeout ==
    /\ pc = "recreate"
    /\ workload[comp][cfg.ns] # NoWorkload
    /\ Spend("fault")
    /\ Conclude(ApplyErrorCode[comp])
    /\ UNCHANGED <<object, cluster, informers, process, cfg, fresh>>

-----------------------------------------------------------------------------
(* validatePipeline and validateTriggers, applyAddons and                  *)
(* applyCommunityResources, updateStatus, reconcileDeletion.               *)

\* Deployments are read through the informer; the webhook configuration is part
\* of rest.
Validate ==
    /\ pc = "validate"
    /\ LET status == seen[comp][cfg.ns]
       IN \/ /\ status = "deadline"
             /\ Conclude(ValidateErrorCode[comp])
             /\ UNCHANGED <<cfg, fresh, queued>>
          \/ /\ status = "available" /\ rest[comp]["roles"] # "absent"
             /\ Conclude(ValidatedCode[comp])
             /\ UNCHANGED <<cfg, fresh, queued>>
          \/ /\ \/ status \in {"absent", "progressing"}
                \/ status = "available" /\ rest[comp]["roles"] = "absent"
             /\ Return(TRUE)
    /\ UNCHANGED <<object, cluster, lag, cache, seen, process, budget>>

\* A process that could not fetch the catalog holds an empty manifest, on which
\* Delete and Apply do nothing.
HasManifest(c) == c = "addons" \/ catalog

\* What there is of extra component comp becomes x.
WriteExtra(x) == extra' = [extra EXCEPT ![comp] = IF HasManifest(comp) THEN x ELSE @]

Partly(x) == [x EXCEPT !.by = NoBuild]

\* What a Delete that may fail on its way leaves of x.
Remains(x) ==
    {x, NoExtra} \cup {[Partly(x) EXCEPT !.roles = roles] : roles \in {FALSE, x.roles}}

\* deleteAndCreateAddons: Delete and the wait until all of it is gone.
ExtraDelete ==
    /\ pc = "extra_delete"
    /\ \/ /\ WriteExtra(NoExtra)
          /\ Goto("extra_create", comp)
          /\ UNCHANGED <<outcome, budget>>
       \/ /\ Spend("fault")
          /\ \E x \in Remains(extra[comp]) : WriteExtra(x)
          /\ Conclude(ApplyErrorCode[comp])
    /\ UNCHANGED <<object, rest, workload, overlapped, informers,
                   process, cfg, fresh>>

\* No custom resource is created whose CRD is gone or going.
KindsServed(c) ==
    /\ rest["pipeline"]["crds"] = "present"
    /\ c = "addons" => rest["triggers"]["crds"] = "present"

Installed(c) == [by |-> build, owner |-> cfg.uid, roles |-> c = "addons"]

\* deleteAndCreateAddons: Apply.
ExtraCreate ==
    /\ pc = "extra_create"
    /\ \/ /\ KindsServed(comp) \/ ~HasManifest(comp)
          /\ WriteExtra(Installed(comp))
          /\ Conclude(AppliedCode[comp])
          /\ UNCHANGED budget
       \/ /\ \/ Spend("fault")
             \/ ~KindsServed(comp) /\ HasManifest(comp) /\ UNCHANGED budget
          /\ \/ \E roles \in {FALSE, comp = "addons"} :
                   WriteExtra([Partly(Installed(comp)) EXCEPT !.roles = roles])
             \/ KindsServed(comp) /\ WriteExtra(Installed(comp))
             \/ UNCHANGED extra
          /\ Conclude(ApplyErrorCode[comp])
    /\ UNCHANGED <<object, rest, workload, overlapped, informers,
                   process, cfg, fresh>>

\* Mutants: the write goes to whatever Config has the name, or has the uid.
MayWriteByName == Exists(cr)
MayWriteByUid == Exists(cr) /\ cr.uid = cfg.uid

\* The optimistic lock of Status().Update: only a handler that read the latest
\* version of the Config may write it.
MayWrite == fresh

\* Mutant: the caller trusts the Config watch to bring the request back.
WriteStatusOnce ==
    /\ pc = "status"
    /\ \/ /\ MayWrite
          /\ cr' = [cr EXCEPT !.code = outcome, !.by = build]
          /\ lag' = "status"
          /\ UNCHANGED budget
       \/ /\ ~MayWrite
          /\ UNCHANGED <<cr, lag, budget>>
       \/ /\ Spend("fault")
          /\ UNCHANGED <<cr, lag>>
    /\ Return(FALSE)
    /\ UNCHANGED <<uids, cluster, cache, seen, process>>

\* updateStatus; every caller has the request queued again, written or not.
WriteStatus ==
    /\ pc = "status"
    /\ \/ /\ MayWrite
          /\ cr' = [cr EXCEPT !.code = outcome, !.by = build]
          /\ lag' = "status"
          /\ UNCHANGED budget
       \/ /\ ~MayWrite
          /\ UNCHANGED <<cr, lag, budget>>
       \/ /\ Spend("fault")
          /\ UNCHANGED <<cr, lag>>
    /\ Return(TRUE)
    /\ UNCHANGED <<uids, cluster, cache, seen, process>>

\* The manifests reconcileDeletion removes, in order; the catalog's is not one.
NextDeleted == [pipeline |-> "triggers", triggers |-> "addons"]

\* What a foreground Delete makes of workload w.
Deleted(w) == IF w = NoWorkload THEN w ELSE [w EXCEPT !.terminating = TRUE]

\* A foreground Delete of core component c that gets as far as the parts S of it,
\* "namespaced" for the Deployments.  It waits for nothing: an object stays until its
\* pods, its custom resources or the garbage collector let it go.  The Namespace is
\* skipped (okToDelete), for want of an annotation that Apply has put on a copy.
Torn(c, S) ==
    /\ rest' = [rest EXCEPT ![c] =
                  [p \in Parts |-> IF p \in S /\ rest[c][p] = "present"
                                   THEN "terminating" ELSE rest[c][p]]]
    /\ overlapped' = overlapped \ {c}
    /\ IF "namespaced" \in S
       THEN workload' = [workload EXCEPT ![c] =
                           [@ EXCEPT ![mem[c]] = Deleted(workload[c][mem[c]])]]
       ELSE UNCHANGED workload
    /\ UNCHANGED extra

\* Mutant: the addons are left to the garbage collector.
AddonsLeft(x) == UNCHANGED <<rest, overlapped, workload, extra>>

\* The Delete of the addons that leaves x.  What it deletes is gone at once in the
\* model: deleteAndCreateAddons, all that could find it, waits until it is.
AddonsTorn(x) ==
    /\ extra' = [extra EXCEPT !["addons"] = x]
    /\ UNCHANGED <<rest, overlapped, workload>>

\* reconcileDeletion, one manifest at a time.
DeleteManifest ==
    /\ pc = "delete"
    /\ \/ /\ comp \in Core
          /\ Torn(comp, Parts \cup {"namespaced"})
          /\ Goto("delete", NextDeleted[comp])
          /\ UNCHANGED <<budget, outcome, cfg, fresh, queued>>
       \/ comp = "addons" /\ AddonsTorn(NoExtra) /\ Return(FALSE) /\ UNCHANGED budget
       \/ /\ Spend("fault")
          /\ \/ comp \in Core /\ \E S \in SUBSET (Parts \cup {"namespaced"}) : Torn(comp, S)
             \/ comp = "addons" /\ \E x \in Remains(extra["addons"]) : AddonsTorn(x)
          /\ Return(TRUE)
    /\ UNCHANGED <<object, lag, cache, seen, process>>

-----------------------------------------------------------------------------
(* The process and its informers. *)

\* What a process that ends leaves of its own: nothing.
Forget ==
    /\ pc' = "down" /\ comp' = "pipeline" /\ outcome' = "empty"
    /\ cfg' = NoConfig /\ fresh' = FALSE
    /\ lag' = "spec" /\ cache' = NoConfig
    /\ seen' = [c \in Core |-> [ns \in Namespaces |-> "absent"]]
    /\ queued' = FALSE
    /\ mem' = [c \in Core |-> RawNamespace]
    /\ catalog' = FALSE

NewConfig(ns) == [uid |-> uids + 1, ns |-> ns, code |-> "empty", by |-> NoBuild]

\* main, newReconciler and add, up to createCR: the manifests are read from the
\* image, the catalog is fetched or given up, the Config is created unless it is
\* there.
Start ==
    /\ pc = "down"
    /\ pc' = "listing"
    /\ IF CatalogWanted
       THEN \/ catalog' = TRUE /\ UNCHANGED budget
            \/ catalog' = FALSE /\ Spend("fault")
       ELSE catalog' = FALSE /\ UNCHANGED budget
    /\ IF AutoInstall /\ ~Exists(cr)
       THEN cr' = NewConfig(DefaultNamespace) /\ uids' = uids + 1
       ELSE UNCHANGED object
    /\ UNCHANGED <<cluster, informers, build, mem, comp, outcome, cfg, fresh>>

\* The manager starts: the informers list, and every Config and every Deployment
\* owned by one puts the request in the queue.
Listen ==
    /\ pc = "listing"
    /\ pc' = "idle"
    /\ cache' = cr
    /\ lag' = "none"
    /\ seen' = [c \in Core |-> [ns \in Namespaces |-> workload[c][ns].status]]
    /\ queued' = (\/ Exists(cr)
                  \/ \E c \in Core, ns \in Namespaces :
                        workload[c][ns] # NoWorkload)
    /\ UNCHANGED <<object, cluster, process, comp, outcome, cfg, fresh, budget>>

Crash ==
    /\ pc # "down"
    /\ Spend("crash")
    /\ Forget
    /\ UNCHANGED <<object, cluster, build>>

\* The operator's Deployment rolls to another image.  The lock of leader.Become
\* keeps the new process out until the old one is gone.
Upgrade ==
    /\ \E b \in Builds : <<build, b>> \in Upgrades /\ build' = b
    /\ Forget
    /\ UNCHANGED <<object, cluster, budget>>

\* The Config informer catches up.  GenerationChangedPredicate keeps status
\* writes out of the queue.
SyncConfig ==
    /\ Running
    /\ lag # "none"
    /\ lag' = "none"
    /\ cache' = cr
    /\ queued' = (queued \/ lag = "spec")
    /\ UNCHANGED <<object, cluster, seen, process, worker, budget>>

\* The Deployment informer catches up on one workload; the handler queues the
\* name of the Config that owns it.
SyncWorkload(c, ns) ==
    /\ Running
    /\ seen[c][ns] # workload[c][ns].status
    /\ seen' = [seen EXCEPT ![c] = [@ EXCEPT ![ns] = workload[c][ns].status]]
    /\ queued' = TRUE
    /\ UNCHANGED <<object, cluster, lag, cache, process, worker, budget>>

-----------------------------------------------------------------------------
(* Cluster controllers. *)

SetWorkload(c, ns, w) ==
    /\ workload' = [workload EXCEPT ![c] = [@ EXCEPT ![ns] = w]]
    /\ UNCHANGED <<object, rest, extra, overlapped, informers, process,
                   worker>>

\* The last pod of a Deployment that is being deleted is gone.
Finalize(c, ns) ==
    /\ workload[c][ns].terminating
    /\ SetWorkload(c, ns, NoWorkload)
    /\ UNCHANGED budget

\* The last of a group of cluster-scoped objects that are being deleted is gone,
\* and with a CRD all custom resources of its kind: the tasks with the pipeline's,
\* the addons' trigger bindings with the triggers'.
FinalizeRest(c, p) ==
    /\ rest[c][p] = "terminating"
    /\ rest' = [rest EXCEPT ![c] = [@ EXCEPT ![p] = "absent"]]
    /\ extra' = [d \in Extras |->
                   IF p = "crds" /\ (c = "pipeline" \/ d = "addons")
                   THEN Partly(extra[d]) ELSE extra[d]]
    /\ UNCHANGED <<object, workload, overlapped, informers, process,
                   worker, budget>>

Rollout(c, ns) ==
    /\ ~workload[c][ns].terminating
    /\ workload[c][ns].status \in {"progressing", "deadline"}
    /\ SetWorkload(c, ns, [workload[c][ns] EXCEPT !.status = "available"])
    /\ UNCHANGED budget

\* ProgressDeadlineExceeded.
Stall(c, ns) ==
    /\ ~workload[c][ns].terminating
    /\ workload[c][ns].status = "progressing"
    /\ SetWorkload(c, ns, [workload[c][ns] EXCEPT !.status = "deadline"])
    /\ Spend("stall")

\* The garbage collector removes what the Config that is no more owned.
CollectWorkload(c, ns) ==
    /\ workload[c][ns] # NoWorkload
    /\ workload[c][ns].owner # cr.uid
    /\ SetWorkload(c, ns, NoWorkload)
    /\ UNCHANGED budget

CollectExtra(c) ==
    /\ extra[c].owner # 0
    /\ extra[c].owner # cr.uid
    /\ extra' = [extra EXCEPT ![c] = [NoExtra EXCEPT !.roles = extra[c].roles]]
    /\ UNCHANGED <<object, rest, workload, overlapped, informers,
                   process, worker, budget>>

-----------------------------------------------------------------------------
(* Users. *)

\* Any write to the Config outdates what the handler and the informer hold.
Outdate ==
    /\ fresh' = FALSE
    /\ lag' = "spec"
    /\ UNCHANGED <<cluster, cache, seen, queued, process, pc, comp, outcome, cfg>>

CreateConfig(ns) ==
    /\ ~Exists(cr)
    /\ Spend("create")
    /\ cr' = NewConfig(ns)
    /\ uids' = uids + 1
    /\ Outdate

\* The Config has no finalizer: it is gone at once.
DeleteConfig ==
    /\ Exists(cr)
    /\ Spend("delete")
    /\ cr' = NoConfig
    /\ Outdate
    /\ UNCHANGED uids

SetTargetNamespace(ns) ==
    /\ Exists(cr)
    /\ ns # cr.ns
    /\ Spend("edit")
    /\ cr' = [cr EXCEPT !.ns = ns]
    /\ Outdate
    /\ UNCHANGED uids

-----------------------------------------------------------------------------

Handler ==
    \/ Reconcile \/ ApplyRest \/ ApplyWorkload
    \/ RecreateDelete \/ RecreateApply \/ RecreateTimeout
    \/ Validate \/ ExtraDelete \/ ExtraCreate
    \/ WriteStatus \/ DeleteManifest

Operator ==
    \/ Handler \/ Start \/ Listen \/ SyncConfig
    \/ \E c \in Core, ns \in Namespaces : SyncWorkload(c, ns)

Kubernetes ==
    \/ \E c \in Core, ns \in Namespaces :
          \/ Finalize(c, ns) \/ Rollout(c, ns)
          \/ Stall(c, ns) \/ CollectWorkload(c, ns)
    \/ \E c \in Core, p \in Parts : FinalizeRest(c, p)
    \/ \E c \in Extras : CollectExtra(c)

User ==
    \/ \E ns \in Namespaces : CreateConfig(ns) \/ SetTargetNamespace(ns)
    \/ DeleteConfig

Next == Operator \/ Kubernetes \/ User \/ Crash \/ Upgrade

Spec == Init /\ [][Next]_vars

\* The worker pool, the kubelet that restarts the pod, the informers and the
\* cluster's controllers keep going; users, failures and upgrades owe nothing.
Fairness ==
    /\ WF_vars(Handler)
    /\ WF_vars(Start)
    /\ WF_vars(Listen)
    /\ WF_vars(SyncConfig)
    /\ \A c \in Core, ns \in Namespaces :
          /\ WF_vars(SyncWorkload(c, ns))
          /\ WF_vars(Finalize(c, ns))
          /\ WF_vars(Rollout(c, ns))
          /\ WF_vars(CollectWorkload(c, ns))
    /\ \A c \in Core, p \in Parts : WF_vars(FinalizeRest(c, p))
    /\ \A c \in Extras : WF_vars(CollectExtra(c))

FairSpec == Spec /\ Fairness

-----------------------------------------------------------------------------
(* Properties. *)

InPlace(c) == \A p \in Parts : rest[c][p] = "present"

\* In the cluster for good, or lost to a deletion that was under way when the
\* component was last applied.
Held(c) == InPlace(c) \/ c \in overlapped

\* A Config that records progress past the apply of a core component has that
\* component's CRDs, roles and webhooks in the cluster, none of them being deleted:
\* no order of deletions, re-creations, stale reads, crashes and half-done applies
\* and teardowns (applyPipeline, applyTriggers, reconcileDeletion) takes them away
\* from under a status that Reconcile will never apply them from again.  The one
\* exception is an apply that patches what an earlier teardown has not yet got rid
\* of (see InstalledIsComplete).
ManifestInPlace ==
    \A c \in Core : cr.code \in PastApply[c] => Held(c)

\* reconcileDeletion, decided on an informer's NotFound that may be out of date,
\* never runs while the Config that exists by then has recorded any progress.
NoTeardownOfLiveInstall ==
    pc = "delete" => cr.code = "empty"

\* When applyPipeline or applyTriggers get their success recorded, the manifest
\* they applied, and that reconcileDeletion would remove, is the one for the
\* namespace the Config names by then, and the Deployments that are there are
\* this build's and belong to this very Config: the garbage collector spares them.
OwnedWhenRecorded ==
    [][\A c \in Core :
          cr'.code = AppliedCode[c] /\ cr.code # cr'.code =>
              /\ mem[c] = cr'.ns
              /\ LET w == workload[c][cr'.ns]
                 IN w = NoWorkload \/ (w.owner = cr'.uid /\ w.by = cr'.by)]_vars

\* Seen through its Config resource the controller is the state machine of
\* ConfigLifecycle: Reconcile's dispatch, the handlers and the resourceVersion
\* check of updateStatus together.
Lifecycle == INSTANCE ConfigLifecycle
             WITH exists <- Exists(cr), code <- cr.code, by <- cr.by
FollowsLifecycle == Lifecycle!Spec

\* A Config that stays is installed in the end, by a build that is up to date,
\* whatever failed, crashed or was upgraded on the way (Reconcile's requeues).
EventuallyInstalled ==
    <>[]Exists(cr) => <>[](cr.code = "installed" /\ UpToDate(cr.by, build))

\* And then the operator comes to rest: no request is left to go round and round
\* in the queue (validateVersion does not requeue).
EventuallyQuiet ==
    <>[]Exists(cr) => <>[](pc = "idle" /\ ~queued)

\* Nothing of the install is left but the Namespace.
CleanedUp ==
    /\ rest = [c \in Core |-> [p \in Parts |-> "absent"]]
    /\ workload = [c \in Core |-> [ns \in Namespaces |-> NoWorkload]]
    /\ extra = [c \in Extras |-> NoExtra]

\* Once the Config is deleted for good, reconcileDeletion and the garbage
\* collector leave nothing of the install but its Namespace.
DeletionCleansUp == <>[]~Exists(cr) => <>[]CleanedUp

\* So they do whenever the operator runs while the Config is deleted and from then
\* on: after a teardown that failed half-way, after a restart, when the manifests in
\* memory are for the namespace of the files, and although nobody deletes the
\* catalog (reconcileDeletion, owner references of transformManifest).
SeenDeletionCleansUp ==
    [](uids > 0 /\ ~Running => Exists(cr)) => DeletionCleansUp

\* "InstalledStatus indicates that all pipeline resources are installed
\* successfully" (config_types.go): its CRDs, cluster roles and webhooks exist.
InstalledIsComplete ==
    cr.code = "installed" =>
        \A c \in Core, p \in Parts : rest[c][p] # "absent"

\* "InstalledStatus indicates that all pipeline resources are installed
\* successfully": among them the addons (applyAddons).
InstalledHasAddons ==
    cr.code = "installed" => extra["addons"].by # NoBuild

\* The condition's "version of OpenShift pipelines", which the running build
\* takes from its own manifest, is that of the Deployments (getComponentVersion).
InstalledVersionDeployed ==
    cr.code = "installed" /\ cr.by = build =>
        workload["pipeline"][cr.ns].by \in {build, NoBuild}

-----------------------------------------------------------------------------
(* The inductive invariant behind the safety properties. *)

Applying == {"apply_rest", "apply_workload", "recreate",
             "extra_delete", "extra_create"}
Installing == Applying \cup {"validate", "status"}

\* What a successful apply of core component c leaves until it is recorded.
InHand(c) ==
    /\ Held(c)
    /\ mem[c] = cfg.ns
    /\ LET w == workload[c][cfg.ns]
       IN w = NoWorkload \/ (w.owner = cfg.uid /\ w.by = build)

\* A Config that may be written is the one that was read; an informer that is up
\* to date shows the Config; and a NotFound, however old, is never of a Config
\* that has since recorded progress (Reconcile, updateStatus).
Reads ==
    /\ fresh => Running /\ lag = "none" /\ cfg = cr
    /\ Running /\ lag = "none" => cache = cr
    /\ Running /\ ~Exists(cache) => cr.code = "empty"

\* Whatever a handler may still record follows the status it was dispatched on.
Dispatched ==
    /\ pc \in Installing =>
          Exists(cfg) /\ (cfg.code = "installed" => ~UpToDate(cfg.by, build))
    /\ pc \in Applying => ApplyOutcomes(comp) \subseteq Successors(cfg.code)
    /\ pc = "validate" => ValidateOutcomes(comp) \subseteq Successors(cfg.code)
    /\ pc = "status" => outcome \in Successors(cfg.code)

\* A success about to be recorded is backed by what is in the cluster.
Backed ==
    /\ pc \in {"apply_workload", "recreate"} =>
          Held(comp) /\ mem[comp] = cfg.ns
    /\ \A c \in Core : pc = "status" /\ outcome = AppliedCode[c] => InHand(c)

\* Strengthens ManifestInPlace and NoTeardownOfLiveInstall (applyPipeline,
\* applyTriggers, reconcileDeletion) to an invariant that is inductive.
IInv ==
    /\ TypeOK
    /\ Reads
    /\ Dispatched
    /\ Backed
    /\ NoTeardownOfLiveInstall
    /\ ManifestInPlace

=============================================================================
