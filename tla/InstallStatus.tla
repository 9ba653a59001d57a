--------------------------- MODULE InstallStatus ---------------------------
(***************************************************************************)
(* The vocabulary of the Config resource: the status codes an install goes *)
(* through, the parts of an install, and the handler that Reconcile picks  *)
(* for each code.  Everything here is a constant expression.               *)
(***************************************************************************)

CONSTANTS Builds,     \* operator builds: an image with its manifests
          NoBuild,    \* recorded in the status before the first condition
          VersionOf,  \* flag.TektonVersion of each build
          UUIDOf      \* flag.OperatorUUID of each build, "" when it has none

ASSUME BuildsAssumption ==
    /\ NoBuild \notin Builds
    /\ VersionOf \in [Builds -> STRING]
    /\ UUIDOf \in [Builds -> STRING]

\* The parts of an install, in install order: the two tekton releases, the
\* Red Hat addons and the tasks fetched from the community catalog.
Core == {"pipeline", "triggers"}
Extras == {"addons", "community"}
Components == Core \cup Extras

Codes ==
    {"empty",
     "error-pipeline-apply", "applied-pipeline",
     "error-pipeline-validate", "validated-pipeline",
     "error-triggers", "applied-triggers",
     "error-triggers-validate", "validated-triggers",
     "error-addons", "applied-addons",
     "error-community-resources", "installed"}

\* What a handler records when it succeeds and when it fails.
AppliedCode ==
    [pipeline  |-> "applied-pipeline",
     triggers  |-> "applied-triggers",
     addons    |-> "applied-addons",
     community |-> "installed"]
ApplyErrorCode ==
    [pipeline  |-> "error-pipeline-apply",
     triggers  |-> "error-triggers",
     addons    |-> "error-addons",
     community |-> "error-community-resources"]
ValidatedCode ==
    [pipeline |-> "validated-pipeline",
     triggers |-> "validated-triggers"]
ValidateErrorCode ==
    [pipeline |-> "error-pipeline-validate",
     triggers |-> "error-triggers-validate"]

\* The codes on which Reconcile calls the apply and the validate handlers.
ApplyOn ==
    [pipeline  |-> {"empty", "error-pipeline-apply"},
     triggers  |-> {"validated-pipeline", "error-triggers"},
     addons    |-> {"validated-triggers", "error-addons"},
     community |-> {"applied-addons", "error-community-resources"}]
ValidateOn ==
    [pipeline |-> {"applied-pipeline", "error-pipeline-validate"},
     triggers |-> {"applied-triggers", "error-triggers-validate"}]

\* The codes that can only follow a successful apply of a core component.
PastApply ==
    [pipeline |-> Codes \ {"empty", "error-pipeline-apply"},
     triggers |-> {"applied-triggers", "error-triggers-validate",
                   "validated-triggers", "error-addons", "applied-addons",
                   "error-community-resources", "installed"}]

\* The codes the handlers that run on a given code may record.  On "installed"
\* only an operator that is not up to date runs a handler, applyPipeline.
ApplyOutcomes(c) == {AppliedCode[c], ApplyErrorCode[c]}
ValidateOutcomes(c) == {ValidatedCode[c], ValidateErrorCode[c]}
Successors(code) ==
    {k \in Codes :
        \/ \E c \in Components : code \in ApplyOn[c] /\ k \in ApplyOutcomes(c)
        \/ \E c \in Core : code \in ValidateOn[c] /\ k \in ValidateOutcomes(c)
        \/ code = "installed" /\ k \in ApplyOutcomes("pipeline")}

\* Mutant: a build without a UUID takes no install for its own.
UpToDateByUUID(recorded, b) ==
    /\ recorded \in Builds
    /\ VersionOf[recorded] = VersionOf[b]
    /\ UUIDOf[b] # "" /\ UUIDOf[b] = UUIDOf[recorded]

\* validateVersion: the build that wrote the head condition and OperatorUUID is
\* one that build b takes for its own.
UpToDate(recorded, b) ==
    /\ recorded \in Builds
    /\ VersionOf[recorded] = VersionOf[b]
    /\ UUIDOf[b] \in {"", UUIDOf[recorded]}
=============================================================================
