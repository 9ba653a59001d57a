------------------------- MODULE ManifestTransform -------------------------
(***************************************************************************)
(* The transformations every manifest goes through before it is applied    *)
(* (pkg/utils/transform, transformManifest, and the two transformers of    *)
(* Manifestival they build on).                                            *)
(*                                                                         *)
(* An object keeps the fields the transformers read or write.  A reference *)
(* to another object (subject, webhook service, roleRef) is a record whose *)
(* "at" is the field of the object that holds it; parameters are the set   *)
(* of their names and defaults, for no two of an object share a name.  An  *)
(* argument of a container is the sequence strings.Split(arg, "=") makes   *)
(* of it.                                                                  *)
(***************************************************************************)
EXTENDS Naturals, Sequences, Functions

CONSTANT Keys   \* of a name with dashes or capitals: lower case, with underscores

None == ""

Fields ==
    {"kind", "name", "ns", "owners", "provider", "preserveNS",
     "preserveRBSubjectNS", "refs", "data", "containers", "params", "tasks"}

IsObject(u) == u = [f \in Fields |-> u[f]]

\* The kinds isClusterScoped knows among those that are shipped.  Others, the
\* kind ClusterTask too, are treated as if they lived in a namespace.
ClusterScoped ==
    {"Namespace", "PodSecurityPolicy", "ClusterRole", "ClusterRoleBinding",
     "CustomResourceDefinition",
     "ValidatingWebhookConfiguration", "MutatingWebhookConfiguration"}

Identity(u) == <<u.kind, u.ns, u.name>>

-----------------------------------------------------------------------------
(* Owner and namespace. *)

\* Mutant: owners are added and none is ever dropped.
InjectOwnerAnew(u, uid) ==
    IF u.kind \in ClusterScoped THEN u ELSE [u EXCEPT !.owners = @ \cup {uid}]

\* Mutant: the owner of everything.
InjectOwnerEverywhere(u, uid) == [u EXCEPT !.owners = {uid}]

InjectOwner(u, uid) ==
    IF u.kind \in ClusterScoped THEN u ELSE [u EXCEPT !.owners = {uid}]

\* The references at field that name a namespace name ns from now on.
Redirect(u, field, ns) ==
    [u EXCEPT !.refs = {IF r.at = field /\ r.ns # None THEN [r EXCEPT !.ns = ns]
                                                       ELSE r : r \in @}]

\* Where InjectNamespace looks for references.  In a CustomResourceDefinition
\* that is where apiextensions v1beta1 keeps the conversion webhook.
RedirectedField ==
    [ClusterRoleBinding             |-> "subjects",
     RoleBinding                    |-> "subjects",
     ValidatingWebhookConfiguration |-> "webhooks",
     MutatingWebhookConfiguration   |-> "webhooks",
     CustomResourceDefinition       |-> "spec.conversion.webhookClientConfig"]

\* A Namespace is not put into the namespace but becomes it.
InjectNamespace(u, ns) ==
    LET Moved == IF u.kind \in ClusterScoped THEN u ELSE [u EXCEPT !.ns = ns]
        Named == IF u.kind = "Namespace" THEN [Moved EXCEPT !.name = ns] ELSE Moved
    IN IF u.kind \in DOMAIN RedirectedField
       THEN Redirect(Named, RedirectedField[u.kind], ns)
       ELSE Named

InjectNamespaceConditional(u, ns) ==
    IF u.preserveNS THEN u ELSE InjectNamespace(u, ns)

\* Not subject to the annotation above.
InjectNamespaceCRDWebhookClientConfig(u, ns) ==
    IF u.kind = "CustomResourceDefinition"
    THEN Redirect(u, "spec.conversion.webhookClientConfig", ns)
    ELSE u

\* Mutant: the second annotation is overlooked.
RoleBindingConditionalOnce(u, ns) ==
    LET Moved == IF u.preserveNS THEN u ELSE [u EXCEPT !.ns = ns]
    IN Redirect(Moved, "subjects", ns)

InjectNamespaceRoleBindingConditional(u, ns) ==
    LET Moved == IF u.preserveNS THEN u ELSE [u EXCEPT !.ns = ns]
    IN IF u.preserveRBSubjectNS THEN Moved ELSE Redirect(Moved, "subjects", ns)

-----------------------------------------------------------------------------
(* Settings, kinds and labels. *)

SetData(u, name, key, value) ==
    IF u.kind = "ConfigMap" /\ u.name = name
    THEN [u EXCEPT !.data = [k \in DOMAIN @ \cup {key} |->
                                IF k = key THEN value ELSE @[k]]]
    ELSE u

InjectDefaultSA(u) ==
    SetData(u, "config-defaults", "default-service-account", "pipeline")

SetDisableAffinityAssistant(u) ==
    SetData(u, "feature-flags", "disable-affinity-assistant", "true")

ReplaceKind(u, from, to) == IF u.kind = from THEN [u EXCEPT !.kind = to] ELSE u

\* InjectLabel with the policy Overwrite, for some kinds or all.
InjectProvider(u, value, kinds) ==
    IF kinds = {} \/ u.kind \in kinds THEN [u EXCEPT !.provider = value] ELSE u

-----------------------------------------------------------------------------
(* Images.  images maps the lower-case names of environment variables,      *)
(* without their prefix, to image references.                               *)

\* The variables of one prefix; a value ends at its first equals sign.
ImagesFromEnv(env, prefix) ==
    LET Vars == {v \in env : v.prefix = prefix}
    IN [key \in {v.name : v \in Vars} |->
           (CHOOSE v \in Vars : v.name = key).value[1]]

ImagePrefix ==
    [pipeline |-> "IMAGE_PIPELINES_", triggers  |-> "IMAGE_TRIGGERS_",
     addons   |-> "IMAGE_ADDONS_",    community |-> "IMAGE_ADDONS_"]

Images(component, env) == ImagesFromEnv(env, ImagePrefix[component])

FormKey(prefix, name) ==
    prefix \o (IF name \in DOMAIN Keys THEN Keys[name] ELSE name)

\* Mutant: the argument itself is taken for the value.
ReplaceContainersArgsInPlace(args, images) ==
    [a \in DOMAIN args |->
        LET key == FormKey("arg_", args[a][1])
        IN IF key \in DOMAIN images THEN <<images[key]>> ELSE args[a]]

\* An argument that is a flag alone, and the variable says what follows it.
NamesImage(a, images) == Len(a) = 1 /\ FormKey("arg_", a[1]) \in DOMAIN images

\* The turn of argument i, when those before it have become done.
ReplaceArgument(args, done, i, images) ==
    LET Found == IF i > 1 /\ NamesImage(done[i - 1], images)
                 THEN <<images[FormKey("arg_", done[i - 1][1])]>>
                 ELSE args[i]
        key == FormKey("arg_", Found[1])
    IN IF Len(Found) = 2 /\ key \in DOMAIN images THEN <<Found[1], images[key]>>
                                                  ELSE Found

\* One argument after the other, in place: "flag=value" is rewritten, after a
\* flag alone the next argument is.  An argument with more equals signs is
\* looked up whole and never found.  (A flag to be overridden that comes last
\* would make the code panic: FlagsApart in Manifests excludes it.)
ReplaceContainersArgsImage(args, images) ==
    LET done[i \in DOMAIN args] == ReplaceArgument(args, done, i, images)
    IN done

ReplaceContainer(c, images) ==
    LET key == FormKey("", c.name)
    IN [c EXCEPT !.image = IF key \in DOMAIN images THEN images[key] ELSE @,
                 !.args = ReplaceContainersArgsImage(@, images)]

DeploymentImages(u, images) ==
    IF u.kind = "Deployment"
    THEN [u EXCEPT !.containers =
             [i \in DOMAIN @ |-> ReplaceContainer(@[i], images)]]
    ELSE u

\* Unlike a Deployment's, a task's images are not replaced by an empty one.
\* (A step without a name has the name None.)
Overridden(key, images) == key \in DOMAIN images /\ images[key] # None

ReplaceStep(s, images) ==
    IF s.name # None /\ Overridden(FormKey("", s.name), images)
    THEN [s EXCEPT !.image = images[FormKey("", s.name)]]
    ELSE s

ReplaceParam(p, images) ==
    IF Overridden(FormKey("param_", p.name), images)
    THEN [p EXCEPT !.default = images[FormKey("param_", p.name)]]
    ELSE p

\* Without steps the parameters stay as they are.
TaskImages(u, images) ==
    IF u.kind = "ClusterTask" /\ u.containers # <<>>
    THEN [u EXCEPT
             !.containers = [i \in DOMAIN @ |-> ReplaceStep(@[i], images)],
             !.params = {ReplaceParam(p, images) : p \in @}]
    ELSE u

-----------------------------------------------------------------------------
(* The four manifests. *)

\* What applyPipeline, applyTriggers, applyAddons and applyCommunityResources
\* add to the transformers all manifests have.
AdditionalTransformers(component, u, env) ==
    CASE component \in {"pipeline", "triggers"} ->
            DeploymentImages(u, Images(component, env))
      [] component = "addons"    ->
            TaskImages(InjectProvider(u, "redhat", {"ClusterTask"}),
                       Images(component, env))
      [] component = "community" ->
            TaskImages(InjectProvider(ReplaceKind(u, "Task", "ClusterTask"),
                                      "community", {}),
                       Images(component, env))

TransformRoleBinding(u, cfg) ==
    InjectNamespaceRoleBindingConditional(InjectOwner(u, cfg.uid), cfg.target)

TransformOther(component, u, cfg, env) ==
    LET Placed == InjectNamespaceCRDWebhookClientConfig(
                      InjectNamespaceConditional(InjectOwner(u, cfg.uid), cfg.target),
                      cfg.target)
    IN AdditionalTransformers(component,
           SetDisableAffinityAssistant(InjectDefaultSA(Placed)), env)

TransformObject(component, u, cfg, env) ==
    IF u.kind = "RoleBinding" THEN TransformRoleBinding(u, cfg)
                              ELSE TransformOther(component, u, cfg, env)

\* The order of the objects is left out: role bindings go last.
TransformManifest(component, objects, cfg, env) ==
    {TransformObject(component, u, cfg, env) : u \in objects}
=============================================================================
