---------------------------- MODULE MCManifests ----------------------------
(* Values of the constants of Manifests for TLC: one object of every shape   *)
(* the files under deploy/resources hold, with their names and references,   *)
(* and one Deployment with the forms of arguments those files do not use.    *)
EXTENDS Manifests, TLC

Cluster(kind, name) == [Blank EXCEPT !.kind = kind, !.name = name]
Object(kind, name) == [Cluster(kind, name) EXCEPT !.ns = "tekton-pipelines"]
At(u, ns) == [u EXCEPT !.ns = ns]
Referring(u, refs) == [u EXCEPT !.refs = refs]

Ref(at, kind, name, ns) == [at |-> at, kind |-> kind, name |-> name, ns |-> ns]
Subject(name, ns) == Ref("subjects", "ServiceAccount", name, ns)
Role(name) == Ref("roleRef", "Role", name, None)
ClusterRole(name) == Ref("roleRef", "ClusterRole", name, None)
Webhook(at, name) == Ref(at, "Service", name, "tekton-pipelines")

Container(name, args) == [name |-> name, image |-> "shipped", args |-> args]
Deployment(name, containers) ==
    [Object("Deployment", name) EXCEPT !.containers = containers]
ConfigMap(name) ==
    [Object("ConfigMap", name) EXCEPT !.data = [_example |-> "text"]]

Parameters(names) == {[name |-> n, default |-> "shipped"] : n \in names}
Task(kind, name, steps, params) ==
    [Cluster(kind, name) EXCEPT
        !.containers = [i \in DOMAIN steps |-> Container(steps[i], <<>>)],
        !.params = Parameters(params)]

PipelineObjects ==
    {Cluster("Namespace", "tekton-pipelines"),
     Cluster("PodSecurityPolicy", "tekton-pipelines"),
     Cluster("ClusterRole", "tekton-pipelines-controller-cluster-access"),
     Referring(Cluster("ClusterRoleBinding", "tekton-pipelines-controller-cluster-access"),
               {Subject("tekton-pipelines-controller", "tekton-pipelines"),
                ClusterRole("tekton-pipelines-controller-cluster-access")}),
     Object("ServiceAccount", "tekton-pipelines-controller"),
     Object("Role", "tekton-pipelines-controller"),
     Referring(Object("RoleBinding", "tekton-pipelines-controller"),
               {Subject("tekton-pipelines-controller", "tekton-pipelines"),
                Role("tekton-pipelines-controller")}),
     Object("Role", "openshift-pipelines-read"),
     [Referring(Object("RoleBinding", "openshift-pipelines-prometheus-k8s-read-binding"),
                {Subject("prometheus-k8s", "openshift-monitoring"),
                 Role("openshift-pipelines-read")})
        EXCEPT !.preserveRBSubjectNS = TRUE],
     Referring(Cluster("CustomResourceDefinition", "clustertasks.tekton.dev"),
               {Webhook(ConversionWebhook, "tekton-pipelines-webhook")}),
     Referring(Cluster("ValidatingWebhookConfiguration",
                       "validation.webhook.pipeline.tekton.dev"),
               {Webhook("webhooks", "tekton-pipelines-webhook")}),
     Object("Service", "tekton-pipelines-webhook"),
     ConfigMap("config-defaults"), ConfigMap("feature-flags"),
     Deployment("tekton-pipelines-controller",
        <<Container("tekton-pipelines-controller",
            <<<<"-version">>, <<"devel">>, <<"-git-image">>, <<"shipped/git-init">>,
              <<"-nop-image">>, <<"shipped/nop">>>>)>>),
     Deployment("tekton-pipelines-webhook", <<Container("webhook", <<>>)>>)}

TriggerObjects ==
    {Object("ServiceAccount", "tekton-triggers-controller"),
     Cluster("ClusterRole", "tekton-triggers-admin"),
     Referring(Cluster("ClusterRoleBinding", "tekton-triggers-controller-admin"),
               {Subject("tekton-triggers-controller", "tekton-pipelines"),
                ClusterRole("tekton-triggers-admin")}),
     Referring(Cluster("MutatingWebhookConfiguration", "webhook.triggers.tekton.dev"),
               {Webhook("webhooks", "tekton-triggers-webhook")}),
     Object("Service", "tekton-triggers-webhook"),
     Deployment("tekton-triggers-controller",
        <<Container("tekton-triggers-controller",
            <<<<"-logtostderr">>, <<"-el-image">>, <<"eventlistenersink">>,
              <<"-el-port">>, <<"8080">>>>)>>),
     Deployment("tekton-triggers-webhook",
        <<Container("webhook",
            <<<<"-el-image", "eventlistenersink">>, <<"-el-image", "a", "b">>>>)>>)}

S2I == {"s2i-dotnet-3", "s2i-go", "s2i-java-8", "s2i-java-11", "s2i-nodejs",
        "s2i-perl", "s2i-php", "s2i-python-3", "s2i-ruby"}
Versioned(name) ==
    CASE name = "s2i-nodejs" -> {"VERSION"}
      [] name \in {"s2i-go", "s2i-java-8", "s2i-java-11"} -> {}
      [] OTHER -> {"MINOR_VERSION"}

Builder(name) ==
    LET Common == {"PATH_CONTEXT", "TLSVERIFY"} \cup Versioned(name)
        Steps == <<"generate", "build", "push">>
    IN {Task("ClusterTask", name, Steps, Common \cup {"IMAGE"}),
        Task("ClusterTask", name \o "-pr", Steps, Common)}

AddonObjects ==
    UNION {Builder(name) : name \in S2I}
    \cup {Task("ClusterTask", "buildah", <<"build", "push">>,
               {"IMAGE", "BUILDER_IMAGE", "CONTEXT", "TLSVERIFY"}),
          Task("ClusterTask", "buildah-pr", <<"build", "push">>,
               {"BUILDER_IMAGE", "CONTEXT", "TLSVERIFY"}),
          Task("ClusterTask", "kn", <<"kn">>, {"kn-image", "ARGS"}),
          Task("ClusterTask", "openshift-client", <<"oc">>, {"SCRIPT", "ARGS"}),
          Task("ClusterTask", "git-clone", <<"clone">>,
               {"url", "revision", "subdirectory", "deleteExisting"}),
          Cluster("ClusterTriggerBinding", "github-push"),
          Cluster("ClusterRole", "tekton-default-pipelines-view"),
          [Referring(At(Object("RoleBinding", "tekton-default-pipelines-view"), "openshift"),
                     {ClusterRole("tekton-default-pipelines-view")})
             EXCEPT !.preserveNS = TRUE],
          At(Object("Role", "tekton-default-openshift-pipelines-view"),
             "openshift-pipelines"),
          Referring(At(Object("RoleBinding", "tekton-default-openshift-pipelines-view"),
                       "openshift-pipelines"),
                    {Role("tekton-default-openshift-pipelines-view")}),
          Cluster("ConsoleCLIDownload", "tkn")}

Shipped ==
    [pipeline  |-> PipelineObjects,
     triggers  |-> TriggerObjects,
     addons    |-> AddonObjects,
     optional  |-> {Cluster("ConsoleYAMLSample", "buildah-snippet")},
     community |-> {Task("Task", "tkn", <<"tkn">>, {"ARGS", "tkn-image"}),
                    Task("Task", "git-cli", <<None>>, {"BASE_IMAGE"})}]

Monitoring == {<<"ServiceAccount", "openshift-monitoring", "prometheus-k8s">>}

KeysOf ==
    ("tekton-pipelines-controller" :> "tekton_pipelines_controller")
    @@ ("-git-image" :> "_git_image") @@ ("-nop-image" :> "_nop_image")
    @@ ("-el-image" :> "_el_image") @@ ("kn-image" :> "kn_image")
    @@ ("tkn-image" :> "tkn_image") @@ ("BUILDER_IMAGE" :> "builder_image")
    @@ ("BASE_IMAGE" :> "base_image")

Variable(prefix, name, value) == [prefix |-> prefix, name |-> name, value |-> value]
NoOverrides == {}
\* Every kind of override; one value is empty, one has an equals sign.
Mirrored ==
    {Variable("IMAGE_PIPELINES_", "tekton_pipelines_controller", <<"mirror/controller">>),
     Variable("IMAGE_PIPELINES_", "webhook", <<"">>),
     Variable("IMAGE_PIPELINES_", "arg__git_image", <<"mirror/git">>),
     Variable("IMAGE_TRIGGERS_", "webhook", <<"mirror/webhook">>),
     Variable("IMAGE_TRIGGERS_", "arg__el_image", <<"mirror/el", "v1">>),
     Variable("IMAGE_ADDONS_", "push", <<"mirror/buildah">>),
     Variable("IMAGE_ADDONS_", "build", <<"">>),
     Variable("IMAGE_ADDONS_", "param_kn_image", <<"mirror/kn">>),
     Variable("IMAGE_ADDONS_", "param_builder_image", <<"mirror/builder">>)}
Started == {NoOverrides, Mirrored}

TwoTargets == {"openshift-pipelines", "tekton"}
=============================================================================
