------------------------- MODULE MCRBACController -------------------------
(* Values of the constants of RBACController for TLC. *)
EXTENDS RBACController

TwoNamespaces == {"app", "kube-system"}
Platform == {"kube-system"}
OneUser == {"alice"}
NoSubjects == {"no role binding"}

Limit(failure, delete, edit, tamper) ==
    [failure |-> failure, delete |-> delete, edit |-> edit, tamper |-> tamper]
OneOfEach == Limit(1, 1, 1, 1)
=============================================================================
