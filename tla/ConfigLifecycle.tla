-------------------------- MODULE ConfigLifecycle --------------------------
(***************************************************************************)
(* What the operator promises to whoever watches the Config resource: the  *)
(* install status moves only along the install order, one handler at a     *)
(* time, whatever the operator's informer shows it and however often the   *)
(* resource is deleted and created again; and a finished install is only   *)
(* reopened by a build that does not take it for its own.                  *)
(* ConfigController is shown to implement it.                              *)
(***************************************************************************)
EXTENDS InstallStatus

VARIABLES exists,   \* is there a Config resource
          code,     \* its install status, the code of the head condition
          by        \* the build that wrote the status

vars == <<exists, code, by>>

TypeOK ==
    /\ exists \in BOOLEAN
    /\ code \in Codes
    /\ by \in Builds \cup {NoBuild}

Init ==
    /\ exists = FALSE
    /\ code = "empty"
    /\ by = NoBuild

Create ==
    /\ ~exists
    /\ exists' = TRUE
    /\ UNCHANGED <<code, by>>

Delete ==
    /\ exists
    /\ exists' = FALSE
    /\ code' = "empty"
    /\ by' = NoBuild

Record ==
    /\ exists
    /\ code' \in Successors(code)
    /\ by' \in Builds
    /\ code = "installed" => ~UpToDate(by, by')
    /\ UNCHANGED exists

Next == Create \/ Delete \/ Record

Spec == Init /\ [][Next]_vars
=============================================================================
