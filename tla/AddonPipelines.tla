-------------------------- MODULE AddonPipelines --------------------------
(***************************************************************************)
(* The pipelines the operator generates for every runtime, environment and *)
(* style of input, from two templates (pkg/utils/addons, flag.Runtimes).   *)
(*                                                                         *)
(* Of a task of a pipeline the model keeps the ClusterTask it refers to,   *)
(* the tasks it runs after and the resources it declares as inputs, and    *)
(* for each parameter it passes the parameters of the pipeline and the     *)
(* inputs of its own that the value is made of.                            *)
(***************************************************************************)
EXTENDS Naturals, Sequences

CONSTANTS Pipeline(_, _, _)  \* the object with a name, parameters and tasks

\* How a runtime names its version: a VERSION, a MINOR_VERSION or neither.
Runtimes ==
    [runtime \in {"s2i-dotnet-3", "s2i-go", "s2i-java-8", "s2i-java-11", "s2i-nodejs",
                  "s2i-perl", "s2i-php", "s2i-python-3", "s2i-ruby", "buildah"}
        |-> CASE runtime = "s2i-nodejs" -> "VERSION"
              [] runtime \in {"s2i-go", "s2i-java-8", "s2i-java-11", "buildah"} -> ""
              [] OTHER -> "MINOR_VERSION"]

\* A parameter a task is passed, its value made of the pipeline's parameters.
Passed(name, params) == [name |-> name, params |-> params, inputs |-> {}]

\* deploy/resources/templates: the task the generator completes is called
\* build, and the one it makes is called deploy.
Template ==
    [workspace |->
        [params |-> {"APP_NAME", "GIT_REPO", "GIT_REVISION", "IMAGE_NAME",
                     "PATH_CONTEXT"},
         tasks  |-> <<[name |-> "fetch-repository", ref |-> "git-clone",
                       after |-> {}, inputs |-> {},
                       params |-> {Passed("url", {"GIT_REPO"}),
                                   Passed("revision", {"GIT_REVISION"}),
                                   Passed("subdirectory", {}),
                                   Passed("deleteExisting", {})}],
                      [name |-> "build", ref |-> "", after |-> {"fetch-repository"},
                       inputs |-> {},
                       params |-> {Passed("IMAGE", {"IMAGE_NAME"}),
                                   Passed("TLSVERIFY", {})}],
                      [name |-> "deploy", ref |-> "", after |-> {},
                       inputs |-> {}, params |-> {}]>>],
     resource |->
        [params |-> {"APP_NAME", "PATH_CONTEXT"},
         tasks  |-> <<[name |-> "build", ref |-> "", after |-> {},
                       inputs |-> {"source"}, params |-> {Passed("TLSVERIFY", {})}],
                      [name |-> "deploy", ref |-> "", after |-> {},
                       inputs |-> {}, params |-> {}]>>]]

Styles == DOMAIN Template
Environments == {"openshift", "kubernetes", "knative"}

\* The indexes of the build and the deploy task.
BuildIndex(style) == IF style = "resource" THEN 1 ELSE 2
DeployIndex(style) == IF style = "resource" THEN 2 ELSE 3

-----------------------------------------------------------------------------

\* Mutant: all builders take the same parameter.
ContextParamAlways(runtime) == "PATH_CONTEXT"

ContextParam(runtime) == IF runtime = "buildah" THEN "CONTEXT" ELSE "PATH_CONTEXT"

\* The parameter of the pipeline that holds the version of the runtime.
VersionParam(runtime) ==
    CASE Runtimes[runtime] = "VERSION"       -> {"MAJOR_VERSION"}
      [] Runtimes[runtime] = "MINOR_VERSION" -> {"MINOR_VERSION"}
      [] Runtimes[runtime] = ""              -> {}

\* The two styles are built, and named, differently.
StyleSuffix == [workspace |-> "", resource |-> "-pr"]

TaskRef(style, runtime) == runtime \o StyleSuffix[style]

BuildTask(style, runtime) ==
    [Template[style].tasks[BuildIndex(style)] EXCEPT
        !.ref = TaskRef(style, runtime),
        !.params = @ \cup {Passed(ContextParam(runtime), {"PATH_CONTEXT"})}
                     \cup {Passed(version, VersionParam(runtime)) :
                              version \in {Runtimes[runtime]} \ {""}}]

DeployTask(style, environment) ==
    LET deploy == [Template[style].tasks[DeployIndex(style)] EXCEPT !.after = {"build"}]
    IN CASE environment = "openshift" ->
               [deploy EXCEPT !.ref = "openshift-client",
                              !.params = {Passed("ARGS", {"APP_NAME"})}]
         [] environment = "kubernetes" ->
               [deploy EXCEPT !.ref = "openshift-client",
                              !.params = {Passed("SCRIPT", {}),
                                          Passed("ARGS", {"APP_NAME"})}]
         [] environment = "knative" /\ style = "workspace" ->
               [deploy EXCEPT !.name = "kn-service-create", !.ref = "kn",
                              !.params = {Passed("ARGS", {"APP_NAME", "IMAGE_NAME"})}]
         [] environment = "knative" /\ style = "resource" ->
               [deploy EXCEPT !.name = "kn-service-create", !.ref = "kn",
                              !.inputs = {"image"},
                              !.params = {[Passed("ARGS", {"APP_NAME"})
                                              EXCEPT !.inputs = {"image"}]}]

EnvironmentSuffix ==
    [openshift |-> "", kubernetes |-> "-deployment", knative |-> "-knative"]

\* Mutant: the two styles share their names.
PipelineNameShared(style, runtime, environment) ==
    runtime \o EnvironmentSuffix[environment]

PipelineName(style, runtime, environment) ==
    runtime \o EnvironmentSuffix[environment] \o StyleSuffix[style]

Generate(style, runtime, environment) ==
    Pipeline(PipelineName(style, runtime, environment),
             Template[style].params \cup VersionParam(runtime),
             [Template[style].tasks EXCEPT
                 ![BuildIndex(style)] = BuildTask(style, runtime),
                 ![DeployIndex(style)] = DeployTask(style, environment)])

CreatePipelines ==
    {Generate(style, runtime, environment) :
        style \in Styles, runtime \in DOMAIN Runtimes, environment \in Environments}
=============================================================================
