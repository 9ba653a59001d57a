----------------------------- MODULE Manifests -----------------------------
(***************************************************************************)
(* The four manifests an operator process keeps in memory.  It reads and   *)
(* generates them when it starts; every apply transforms one of them for   *)
(* the Config of the moment and puts the result in the place of what was   *)
(* read, so that the next apply and the next delete start from there.      *)
(*                                                                         *)
(* Which handler runs when is ConfigController's subject: here any of them *)
(* may run at any time.                                                    *)
(***************************************************************************)
EXTENDS ManifestTransform

CONSTANTS Resources,    \* the objects in each part of flag.ResourceDir and the catalog
          External,     \* identities the manifests refer to and others provide
          Targets,      \* values of spec.targetNamespace
          Deployments,  \* the IMAGE_* variables a process may be started with
          MaxUid        \* bound on the Configs created in turn

\* An object of which nothing is known.
Blank ==
    [kind |-> None, name |-> None, ns |-> None, owners |-> {}, provider |-> None,
     preserveNS |-> FALSE, preserveRBSubjectNS |-> FALSE, refs |-> {},
     data |-> <<>>, containers |-> <<>>, params |-> {}, tasks |-> <<>>]

\* An object the generator makes: it lives where the template says, for good.
GeneratedPipeline(name, params, tasks) ==
    [Blank EXCEPT
        !.kind = "Pipeline", !.name = name, !.ns = "openshift",
        !.preserveNS = TRUE, !.tasks = tasks,
        !.params = {[name |-> p, default |-> None] : p \in params}]

Addons == INSTANCE AddonPipelines WITH Pipeline <- GeneratedPipeline

Components == {"pipeline", "triggers", "addons", "community"}

-----------------------------------------------------------------------------
(* What is known of the files and of the catalog. *)

Refs == [at : STRING, kind : STRING, name : STRING, ns : STRING]
Params == [name : STRING, default : STRING]
Containers == [name : STRING, image : STRING, args : Seq(Seq(STRING))]

\* The files name no owner, and a namespace only where there can be one.
AsShipped(u) ==
    /\ IsObject(u)
    /\ u.owners = {}
    /\ u.kind \in ClusterScoped => u.ns = None
    /\ u.refs \subseteq Refs
    /\ u.params \subseteq Params
    /\ u.containers \in Seq(Containers)

ASSUME ManifestsAssumption ==
    /\ Targets # {} /\ Targets \subseteq STRING \ {None}
    /\ MaxUid \in Nat \ {0}
    /\ DOMAIN Resources = Components \cup {"optional"}
    /\ \A part \in DOMAIN Resources : \A u \in Resources[part] : AsShipped(u)

\* The kind an object of the catalog is applied as.
AppliedKind(kind) == IF kind = "Task" THEN "ClusterTask" ELSE kind

\* No two objects have kind and name in common, whatever their namespaces, and
\* there is one Namespace at most.  All pipelines are generated.
ASSUME NamesAssumption ==
    \A p, q \in DOMAIN Resources : \A u \in Resources[p], v \in Resources[q] :
        /\ u.kind # "Pipeline"
        /\ /\ AppliedKind(u.kind) = AppliedKind(v.kind)
           /\ u.name = v.name \/ u.kind = "Namespace"
           => p = q /\ u = v

\* The texts the names of pipelines are put together from tell them apart.
ASSUME SuffixesAssumption ==
    \A r, s \in DOMAIN Addons!Runtimes, e, f \in Addons!Environments,
       a, b \in Addons!Styles :
        r \o Addons!EnvironmentSuffix[e] \o Addons!StyleSuffix[a]
                = s \o Addons!EnvironmentSuffix[f] \o Addons!StyleSuffix[b]
            => r = s /\ e = f /\ a = b

\* Some ClusterTask of that name takes these parameters.
Takes(name, params) ==
    \E task \in Resources["addons"] :
        /\ task.kind = "ClusterTask" /\ task.name = name
        /\ params \subseteq {q.name : q \in task.params}

\* The tasks the pipelines are made of are among the ClusterTasks.
ASSUME TasksAssumption ==
    /\ Takes("git-clone", {"url", "revision", "subdirectory", "deleteExisting"})
    /\ Takes("openshift-client", {"SCRIPT", "ARGS"})
    /\ Takes("kn", {"ARGS"})
    /\ \A style \in Addons!Styles, runtime \in DOMAIN Addons!Runtimes :
          Takes(Addons!TaskRef(style, runtime),
                {"TLSVERIFY", IF runtime = "buildah" THEN "CONTEXT" ELSE "PATH_CONTEXT"}
                \cup (IF style = "workspace" THEN {"IMAGE"} ELSE {})
                \cup ({Addons!Runtimes[runtime]} \ {""}))

\* Where a reference leads; one that names no namespace stays in its object's.
Referent(u, r) ==
    <<r.kind,
      IF r.kind \in ClusterScoped THEN None ELSE IF r.ns = None THEN u.ns ELSE r.ns,
      r.name>>

ConversionWebhook == "spec.conversion.webhook.clientConfig"

\* The objects that go where the target is, and the references that are made to
\* lead there or, naming no namespace, go there with their object.
Moves(u) == u.kind \notin ClusterScoped /\ ~u.preserveNS
Redirected(u, r) ==
    /\ r.ns # None /\ u.kind \in DOMAIN RedirectedField /\ r.at = RedirectedField[u.kind]
    /\ CASE u.kind = "RoleBinding"              -> ~u.preserveRBSubjectNS
         [] u.kind = "CustomResourceDefinition" -> TRUE
         [] OTHER                               -> ~u.preserveNS
Follows(u, r) == Redirected(u, r) \/ (r.ns = None /\ Moves(u))

\* Reference and referent either both move or are both left where they are and
\* find each other there.
Together(u, r, v) ==
    /\ v.kind = r.kind /\ v.name = r.name /\ r.kind \notin {"Namespace", "Task"}
    /\ \/ r.kind \in ClusterScoped
       \/ Follows(u, r) /\ Moves(v)
       \/ ~Follows(u, r) /\ ~Moves(v) /\ Referent(u, r) = Identity(v)

\* Annotations and namespaces in the files agree with each other in this way.
ASSUME ReferencesAssumption ==
    /\ \A u \in Resources["optional"] : u.refs = {}
    /\ \A c \in Components : \A u \in Resources[c] : \A r \in u.refs :
          r.at # ConversionWebhook =>
             \/ \E v \in Resources[c] : Together(u, r, v)
             \/ /\ r.kind \in ClusterScoped \/ ~Follows(u, r)
                /\ Referent(u, r) \in External

\* A flag the image of which is overridden has a value, neither it nor what
\* replaces it another such flag: where such a flag comes last the code panics, and
\* an image that reads like a flag it would take for one.  Neither is modelled.
FlagsApart(args, images) ==
    \A a \in DOMAIN args : NamesImage(args[a], images) =>
        /\ a + 1 \in DOMAIN args
        /\ Len(args[a + 1]) \in {1, 2} => FormKey("arg_", args[a + 1][1]) \notin DOMAIN images
        /\ ~NamesImage(<<images[FormKey("arg_", args[a][1])]>>, images)

ASSUME ArgumentsAssumption ==
    \A e \in Deployments, c \in {"pipeline", "triggers"} : \A u \in Resources[c] :
        \A i \in DOMAIN u.containers : FlagsApart(u.containers[i].args, Images(c, e))

VARIABLES up,       \* the process runs
          env,      \* the variables it was started with
          probe,    \* what it found at start: the console's CRD, the catalog
          cfg,      \* uid and targetNamespace of the Config
          mem,      \* the manifest of each component, a set of objects
          based     \* the Config each was transformed for last, or Raw

vars == <<up, env, probe, cfg, mem, based>>

Configs == [uid : 1..MaxUid, target : Targets]
Raw == [uid |-> 0, target |-> None]

Empty == [c \in Components |-> {}]

\* newReconciler and readAddons: the samples are read only where the console
\* knows them, and a catalog that cannot be fetched is an empty manifest.
Read(found) ==
    [pipeline  |-> Resources["pipeline"],
     triggers  |-> Resources["triggers"],
     addons    |-> Resources["addons"] \cup Addons!CreatePipelines
                   \cup (IF found.console THEN Resources["optional"] ELSE {}),
     community |-> IF found.catalog THEN Resources["community"] ELSE {}]

Init ==
    /\ up = FALSE
    /\ env = {}
    /\ probe = [console |-> FALSE, catalog |-> FALSE]
    /\ cfg \in [uid : {1}, target : Targets]
    /\ mem = Empty
    /\ based = [c \in Components |-> Raw]

Start ==
    /\ ~up
    /\ up' = TRUE
    /\ env' \in Deployments
    /\ probe' \in [console : BOOLEAN, catalog : BOOLEAN]
    /\ mem' = Read(probe')
    /\ UNCHANGED <<cfg, based>>

Stop ==
    /\ up
    /\ up' = FALSE
    /\ env' = {}
    /\ probe' = [console |-> FALSE, catalog |-> FALSE]
    /\ mem' = Empty
    /\ based' = [c \in Components |-> Raw]
    /\ UNCHANGED cfg

\* applyPipeline, applyTriggers, applyAddons and applyCommunityResources, up to
\* the Apply: what is in memory is transformed over again.
Transform(c) ==
    /\ up
    /\ mem' = [mem EXCEPT ![c] = TransformManifest(c, @, cfg, env)]
    /\ based' = [based EXCEPT ![c] = cfg]
    /\ UNCHANGED <<up, env, probe, cfg>>

EditTarget(t) ==
    /\ t # cfg.target
    /\ cfg' = [cfg EXCEPT !.target = t]
    /\ UNCHANGED <<up, env, probe, mem, based>>

\* Deleted and created again, in the same namespace or another.
RecreateConfig(t) ==
    /\ cfg.uid < MaxUid
    /\ cfg' = [uid |-> cfg.uid + 1, target |-> t]
    /\ UNCHANGED <<up, env, probe, mem, based>>

Next ==
    \/ Start \/ Stop
    \/ \E c \in Components : Transform(c)
    \/ \E t \in Targets : EditTarget(t) \/ RecreateConfig(t)

Spec == Init /\ [][Next]_vars

-----------------------------------------------------------------------------
(* Properties. *)

\* An object in memory while uid is the latest one of a Config.
WellFormed(u, uid) ==
    /\ IsObject(u) /\ u.refs \subseteq Refs
    /\ u.owners \subseteq 1..uid
    /\ u.kind \in ClusterScoped => u.ns = None /\ u.owners = {}

\* Owners and namespaces are given to the objects that can have them: an owner
\* on a cluster-scoped one would hand it to the garbage collector (InjectOwner,
\* InjectNamespace).
TypeOK ==
    /\ up \in BOOLEAN
    /\ cfg \in Configs
    /\ based \in [Components -> Configs \cup {Raw}]
    /\ IF up THEN env \in Deployments
             ELSE mem = Empty /\ based = [c \in Components |-> Raw]
    /\ DOMAIN mem = Components
    /\ \A c \in Components : \A u \in mem[c] : WellFormed(u, cfg.uid)

OwnedAndPlaced(u, config) ==
    u.kind \notin ClusterScoped =>
        /\ u.owners = {config.uid}
        /\ u.ns = config.target \/ u.preserveNS

\* Every object that can have them has the one owner and the namespace of the
\* Config its manifest was transformed for last, the annotated ones and those that
\* change their kind on the way included: what keeps an old owner dies with it
\* (transformManifest, ReplaceKind).
LatestOwner ==
    \A c \in Components : based[c] # Raw =>
        \A u \in mem[c] : OwnedAndPlaced(u, based[c])

\* Nothing of an earlier Config stays behind: whatever Configs a manifest has been
\* transformed for, it is what a process that has just started would make of it
\* (transformManifest over its own result, and r.pipeline = newPipeline).
NoResidue ==
    up => \A c \in Components :
             mem[c] = IF based[c] = Raw THEN Read(probe)[c]
                      ELSE TransformManifest(c, Read(probe)[c], based[c], env)

\* Moving objects between namespaces and generating them never makes two the
\* same: one of them would overwrite the other in the cluster (InjectNamespace,
\* pipeline.generate, ReplaceKind).
NoCollision ==
    \A c, d \in Components : \A u \in mem[c], v \in mem[d] :
        Identity(u) = Identity(v) => u = v /\ c = d

Resolves(c, u, r) == Referent(u, r) \in {Identity(v) : v \in mem[c]} \cup External

\* The subjects and roles of bindings and the services of webhooks are where the
\* references say once a manifest is transformed, although references and
\* referents are rewritten apart from each other, some by annotation not at all
\* (InjectNamespaceRoleBindingConditional, InjectNamespaceConditional).
ReferencesResolve ==
    \A c \in Components : based[c] # Raw =>
        \A u \in mem[c] : \A r \in u.refs :
            r.at # ConversionWebhook => Resolves(c, u, r)

\* "namespace where OpenShift pipelines will be installed" (config_types.go), for
\* the services that convert the custom resources.
ConversionsResolve ==
    \A c \in Components : based[c] # Raw =>
        \A u \in mem[c] : \A r \in u.refs :
            r.at = ConversionWebhook => Resolves(c, u, r)

\* A generated pipeline can run with the tasks that are installed along with it:
\* each refers to a ClusterTask that takes the parameters it is passed, and is
\* passed only what the pipeline and its own inputs declare
\* (generateBasePipeline, the deploy tasks).
PipelinesRun ==
    \A p \in {u \in mem["addons"] : u.kind = "Pipeline"} :
        LET Declared == {q.name : q \in p.params}
            Names == {t.name : t \in Range(p.tasks)}
        IN \A t \in Range(p.tasks) :
              /\ t.after \subseteq Names
              /\ \A q \in t.params : q.params \subseteq Declared /\ q.inputs \subseteq t.inputs
              /\ \E task \in mem["addons"] :
                    /\ task.kind = "ClusterTask"
                    /\ task.name = t.ref
                    /\ {q.name : q \in t.params} \subseteq {q.name : q \in task.params}

\* What an argument should become, by the one before it and by itself.
ArgumentAsOverridden(args, i, images) ==
    LET Key(a) == FormKey("arg_", a[1])
        Plain(a) == Len(a) = 1
        Split(a) == Len(a) = 2
    IN IF Split(args[i]) /\ Key(args[i]) \in DOMAIN images
       THEN <<args[i][1], images[Key(args[i])]>>
       ELSE IF i > 1 /\ Plain(args[i - 1]) /\ Key(args[i - 1]) \in DOMAIN images
            THEN <<images[Key(args[i - 1])]>>
            ELSE args[i]

\* Rewriting arguments in place while they are walked, and once more at every apply,
\* replaces what follows a flag or is its value where the flag's key, as the code
\* forms it, is among the variables', and nothing else (replaceContainersArgsImage).
\* That the example in the repository's README, IMAGE_PIPELINES_ARG_NOP, forms no key
\* of the shipped files is outside of it.
OverridesHonoured ==
    \A c \in {"pipeline", "triggers"} : based[c] # Raw =>
        \A u \in mem[c], v \in Read(probe)[c] :
            u.kind = "Deployment" /\ v.kind = "Deployment" /\ u.name = v.name =>
                \A i \in DOMAIN v.containers :
                    LET args == v.containers[i].args
                    IN u.containers[i].args =
                          [a \in DOMAIN args |->
                              ArgumentAsOverridden(args, a, Images(c, env))]
=============================================================================
