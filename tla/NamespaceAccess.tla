------------------------- MODULE NamespaceAccess -------------------------
(***************************************************************************)
(* What the people of a namespace see of the RBAC controller: its service  *)
(* account appears, and is granted the two roles by adding one subject to  *)
(* each binding.  Every step changes one subject of one binding at most,   *)
(* so nobody's grant is lost and nobody's withdrawal is undone.            *)
(***************************************************************************)
EXTENDS Naturals

CONSTANTS Namespaces,
          Ignored,    \* those that match flag.IgnorePattern
          Bindings,   \* names of the role bindings the operator cares for
          Account,    \* the operator's subject, flag.PipelineSA
          Others,     \* the subjects of users
          NoBinding   \* the value of a binding that does not exist

Subjects == Others \cup {Account}
Phases == {"absent", "active", "terminating"}

VARIABLES phase,      \* of each namespace
          account,    \* the namespaces that have the service account
          binding     \* per namespace and name: the subjects, or NoBinding

accessVars == <<phase, account, binding>>

Exists(n, b) == binding[n][b] # NoBinding

SetBinding(n, b, subjects) ==
    /\ binding' = [binding EXCEPT ![n] = [@ EXCEPT ![b] = subjects]]
    /\ UNCHANGED <<phase, account>>

AccessInit ==
    /\ phase = [n \in Namespaces |-> "absent"]
    /\ account = {}
    /\ binding = [n \in Namespaces |-> [b \in Bindings |-> NoBinding]]

-----------------------------------------------------------------------------
(* The operator. *)

GiveAccount(n) ==
    /\ phase[n] = "active"
    /\ n \notin Ignored
    /\ n \notin account
    /\ account' = account \cup {n}
    /\ UNCHANGED <<phase, binding>>

\* An existing binding gains the account and keeps whoever else it has.
Grant(n, b) ==
    /\ n \notin Ignored
    /\ \/ /\ phase[n] = "active"
          /\ ~Exists(n, b)
          /\ SetBinding(n, b, {Account})
       \/ /\ Exists(n, b)
          /\ Account \notin binding[n][b]
          /\ SetBinding(n, b, binding[n][b] \cup {Account})

-----------------------------------------------------------------------------
(* Users and the namespace controller. *)

Create(n) ==
    /\ phase[n] = "absent"
    /\ phase' = [phase EXCEPT ![n] = "active"]
    /\ UNCHANGED <<account, binding>>

Terminate(n) ==
    /\ phase[n] = "active"
    /\ phase' = [phase EXCEPT ![n] = "terminating"]
    /\ UNCHANGED <<account, binding>>

Vanish(n) ==
    /\ phase[n] = "terminating"
    /\ n \notin account
    /\ \A b \in Bindings : ~Exists(n, b)
    /\ phase' = [phase EXCEPT ![n] = "absent"]
    /\ UNCHANGED <<account, binding>>

LoseAccount(n) ==
    /\ n \in account
    /\ account' = account \ {n}
    /\ UNCHANGED <<phase, binding>>

LoseBinding(n, b) == Exists(n, b) /\ SetBinding(n, b, NoBinding)

Invite(n, b, s) ==
    /\ phase[n] = "active" \/ Exists(n, b)
    /\ SetBinding(n, b, IF Exists(n, b) THEN binding[n][b] \cup {s} ELSE {s})

Dismiss(n, b, s) ==
    /\ Exists(n, b)
    /\ s \in binding[n][b]
    /\ SetBinding(n, b, binding[n][b] \ {s})

AccessNext ==
    \E n \in Namespaces :
        \/ GiveAccount(n) \/ LoseAccount(n)
        \/ Create(n) \/ Terminate(n) \/ Vanish(n)
        \/ \E b \in Bindings :
              \/ Grant(n, b) \/ LoseBinding(n, b)
              \/ \E s \in Others : Invite(n, b, s)
              \/ \E s \in Subjects : Dismiss(n, b, s)

AccessSpec == AccessInit /\ [][AccessNext]_accessVars
=============================================================================
