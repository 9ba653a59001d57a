-------------------------- MODULE RBACController --------------------------
(***************************************************************************)
(* The RBAC controller (pkg/controller/rbac), the namespaces it serves,    *)
(* the two informers it reads through, and the users who write the same    *)
(* role bindings.                                                          *)
(*                                                                         *)
(* One worker runs Reconcile for one namespace at a time.  A read through  *)
(* an informer may be arbitrarily old and shares the step of the call that *)
(* follows it; every live read and every write is a step of its own.       *)
(***************************************************************************)
EXTENDS Naturals, Sequences

CONSTANTS Namespaces,
          Ignored,    \* those that match flag.IgnorePattern
          Account,    \* the service account as a subject, flag.PipelineSA
          Others,     \* the subjects users put into role bindings
          NoBinding,  \* the value of a role binding that does not exist
          Limits      \* how often the environment may do each thing

Hazards == {"failure", "delete", "edit", "tamper"}

\* The role binding to flag.PipelineAnyuid is ensured first, then the one to edit.
Bindings == {"anyuid", "edit"}

Subjects == Others \cup {Account}

ASSUME RBACAssumption ==
    /\ Namespaces # {}
    /\ Ignored \subseteq Namespaces
    /\ Account \notin Others
    /\ NoBinding \notin SUBSET Subjects
    /\ Limits \in [Hazards -> Nat]

VARIABLES
    \* API server
    phase,        \* of each namespace
    lives,        \* how often each namespace has been created
    account,      \* the namespaces that have the service account
    binding,      \* per namespace and name: the subjects, or NoBinding
    role,         \* the cluster role flag.PipelineAnyuid
    \* informers and work queue
    events,       \* per namespace: existence after each event yet to come
    known,        \* the namespaces in the informer's cache
    accountKnown, \* those whose account is in the informer's cache
    queue,
    \* the worker
    pc,           \* the next step of Reconcile
    cur,          \* the namespace it works on
    which,        \* the role binding it ensures
    held,         \* what it read of that binding
    fresh,        \* is that the latest version
    \* environment
    budget        \* what Limits leaves

api       == <<phase, lives, account, binding, role>>
informers == <<events, known, accountKnown>>
worker    == <<pc, cur, which, held, fresh>>
vars == <<api, informers, queue, worker, budget>>

-----------------------------------------------------------------------------

Phases == {"absent", "active", "terminating"}
Steps == {"down", "idle", "account", "role", "get", "check", "write"}
Contents == (SUBSET Subjects) \cup {NoBinding}

TypeOK ==
    /\ phase \in [Namespaces -> Phases]
    /\ lives \in [Namespaces -> Nat]
    /\ account \in SUBSET Namespaces
    /\ binding \in [Namespaces -> [Bindings -> Contents]]
    /\ role \in {"absent", "drifted", "ours"}
    /\ events \in [Namespaces -> Seq(BOOLEAN)]
    /\ known \in SUBSET Namespaces
    /\ accountKnown \in SUBSET Namespaces
    /\ queue \in SUBSET Namespaces
    /\ pc \in Steps
    /\ cur \in Namespaces
    /\ which \in Bindings
    /\ held \in Contents
    /\ fresh \in BOOLEAN
    /\ budget \in [Hazards -> Nat]

\* Use up one of the environment's budget of hazard h.
Spend(h) ==
    /\ budget[h] > 0
    /\ budget' = [budget EXCEPT ![h] = @ - 1]

Running == pc # "down"

\* Where the worker is while it is nowhere.
Nowhere == CHOOSE n \in Namespaces : TRUE

\* The worker's variables once Reconcile is over.
Clear == which' = "anyuid" /\ held' = NoBinding /\ fresh' = FALSE /\ cur' = Nowhere

Init ==
    /\ phase = [n \in Namespaces |-> "absent"]
    /\ lives = [n \in Namespaces |-> 0]
    /\ account = {}
    /\ binding = [n \in Namespaces |-> [b \in Bindings |-> NoBinding]]
    /\ role = "absent"
    /\ events = [n \in Namespaces |-> <<>>]
    /\ known = {}
    /\ accountKnown = {}
    /\ queue = {}
    /\ pc = "down"
    /\ cur = Nowhere
    /\ which = "anyuid"
    /\ held = NoBinding
    /\ fresh = FALSE
    /\ budget = Limits

-----------------------------------------------------------------------------
(* Reconcile. *)

Goto(step) == pc' = step /\ UNCHANGED <<cur, which, held, fresh>>

\* Mutant: the error is logged and swallowed.
ReturnQuietly(failed) ==
    /\ pc' = "idle"
    /\ Clear
    /\ UNCHANGED queue

\* Reconcile returns; the worker puts a request that failed back into the queue.
Return(failed) ==
    /\ pc' = "idle"
    /\ Clear
    /\ queue' = IF failed THEN queue \cup {cur} ELSE queue

\* Any call may fail for reasons of its own.
Fail == Spend("failure") /\ Return(TRUE)

\* The ignore pattern and getNS: a namespace the informer does not show is done.
Take(n) ==
    /\ pc = "idle"
    /\ n \in queue
    /\ queue' = queue \ {n}
    /\ IF n \notin Ignored /\ n \in known
       THEN pc' = "account" /\ cur' = n
       ELSE UNCHANGED <<pc, cur>>
    /\ UNCHANGED <<api, informers, which, held, fresh, budget>>

\* ensureSA: looked up in the cache, created through the API server.
EnsureAccount ==
    /\ pc = "account"
    /\ \/ /\ cur \in accountKnown
          /\ Goto("role")
          /\ UNCHANGED <<account, queue, budget>>
       \/ /\ cur \notin accountKnown
          /\ LET Creatable == phase[cur] = "active" /\ cur \notin account
                 Created == account' = account \cup {cur}
             IN \/ Creatable /\ Created /\ Goto("role") /\ UNCHANGED <<queue, budget>>
                \/ ~Creatable /\ Return(TRUE) /\ UNCHANGED <<account, budget>>
                \/ Fail /\ (UNCHANGED account \/ (Creatable /\ Created))
    /\ UNCHANGED <<phase, lives, binding, role, informers>>

\* ensureSCClusterRole: created, or overwritten whatever it holds.
EnsureRole ==
    /\ pc = "role"
    /\ \/ role' = "ours" /\ Goto("get") /\ UNCHANGED <<queue, budget>>
       \/ Fail /\ (role' = "ours" \/ UNCHANGED role)
    /\ UNCHANGED <<phase, lives, account, binding, informers>>

\* ensureSCCRoleBinding, ensureRoleBindings: Get of the role binding.
GetBinding ==
    /\ pc = "get"
    /\ \/ /\ pc' = "check"
          /\ held' = binding[cur][which]
          /\ fresh' = TRUE
          /\ UNCHANGED <<cur, which, queue, budget>>
       \/ Fail
    /\ UNCHANGED <<api, informers>>

\* Then Get of the cluster role; the platform has one called edit.
CheckRole ==
    /\ pc = "check"
    /\ LET found == which = "edit" \/ role # "absent"
       IN \/ found /\ Goto("write") /\ UNCHANGED <<queue, budget>>
          \/ ~found /\ Return(TRUE) /\ UNCHANGED budget
          \/ Fail
    /\ UNCHANGED <<api, informers>>

\* After the binding to anyuid the one to edit is ensured; then all is done.
NextBinding ==
    \/ /\ which = "anyuid"
       /\ pc' = "get"
       /\ which' = "edit"
       /\ held' = NoBinding
       /\ fresh' = FALSE
       /\ UNCHANGED <<cur, queue>>
    \/ which = "edit" /\ Return(FALSE)

\* Mutant: the update carries no resourceVersion and always wins.
AcceptedBlindly ==
    IF held = NoBinding
    THEN phase[cur] = "active" /\ binding[cur][which] = NoBinding
    ELSE binding[cur][which] # NoBinding

\* Mutant: a binding that is there is taken as it is.
UpToDateWhenFound == held # NoBinding

\* updateRoleBinding's hasSubject.
UpToDate == held # NoBinding /\ Account \in held

\* What the API server accepts: a Create where the binding is missing and the
\* namespace is not on its way out, an Update of the version that was read.
Accepted ==
    IF held = NoBinding
    THEN phase[cur] = "active" /\ binding[cur][which] = NoBinding
    ELSE fresh

\* Mutant: the account is appended to whatever Get returned, found or not.
IntendedAppended == held \cup {Account}

\* createSCCRoleBinding and createRoleBinding write the account as the only
\* subject, updateRoleBinding appends it to the subjects that were read.
Intended == IF held = NoBinding THEN {Account} ELSE held \cup {Account}

WriteBinding ==
    /\ pc = "write"
    /\ LET Written == binding' = [binding EXCEPT ![cur] =
                                    [@ EXCEPT ![which] = Intended]]
       IN \/ UpToDate /\ NextBinding /\ UNCHANGED <<binding, budget>>
          \/ /\ ~UpToDate
             /\ \/ Accepted /\ Written /\ NextBinding /\ UNCHANGED budget
                \/ ~Accepted /\ Return(TRUE) /\ UNCHANGED <<binding, budget>>
                \/ Fail /\ (UNCHANGED binding \/ (Accepted /\ Written))
    /\ UNCHANGED <<phase, lives, account, role, informers>>

-----------------------------------------------------------------------------
(* The process and its informers. *)

\* The informers list before the worker starts, and every namespace is queued.
Start ==
    /\ pc = "down"
    /\ Goto("idle")
    /\ known' = {n \in Namespaces : phase[n] # "absent"}
    /\ queue' = known'
    /\ accountKnown' = account
    /\ UNCHANGED <<api, events, budget>>

Crash ==
    /\ Running
    /\ Spend("failure")
    /\ pc' = "down"
    /\ Clear
    /\ known' = {} /\ accountKnown' = {} /\ queue' = {}
    /\ events' = [n \in Namespaces |-> <<>>]
    /\ UNCHANGED api

\* The namespace informer delivers the next event: the cache follows it, and
\* whatever it was, the namespace is queued.
NamespaceEvent(n) ==
    /\ Running
    /\ events[n] # <<>>
    /\ events' = [events EXCEPT ![n] = Tail(@)]
    /\ known' = IF Head(events[n]) THEN known \cup {n} ELSE known \ {n}
    /\ queue' = queue \cup {n}
    /\ UNCHANGED <<api, accountKnown, worker, budget>>

\* Mutant: only changes of the generation count, and a namespace has none.
ResyncFiltered(n) == Running /\ n \in known /\ UNCHANGED vars

\* The informer's periodic resync, or a write to the namespace's metadata.  The
\* operator SDK's GenerationChangedPredicate lets every update of an object
\* without a generation pass.
Resync(n) ==
    /\ Running
    /\ n \in known
    /\ n \notin queue
    /\ queue' = queue \cup {n}
    /\ UNCHANGED <<api, informers, worker, budget>>

\* Nobody watches service accounts: their informer feeds the cache only.
AccountSync(n) ==
    /\ Running
    /\ (n \in accountKnown) # (n \in account)
    /\ accountKnown' = IF n \in account THEN accountKnown \cup {n}
                                        ELSE accountKnown \ {n}
    /\ UNCHANGED <<api, events, known, queue, worker, budget>>

-----------------------------------------------------------------------------
(* The life of a namespace. *)

\* phase[n] becomes p, and an operator that runs will hear of it.
Enter(n, p) ==
    /\ phase' = [phase EXCEPT ![n] = p]
    /\ events' = IF Running
                 THEN [events EXCEPT ![n] = Append(@, p # "absent")]
                 ELSE events
    /\ UNCHANGED <<account, binding, role, known, accountKnown, queue, worker>>

CreateNamespace(n) ==
    /\ phase[n] = "absent"
    /\ Enter(n, "active")
    /\ lives' = [lives EXCEPT ![n] = @ + 1]
    /\ UNCHANGED budget

DeleteNamespace(n) ==
    /\ phase[n] = "active"
    /\ Spend("delete")
    /\ Enter(n, "terminating")
    /\ UNCHANGED lives

\* Write the role binding; what the worker holds of it is no longer current.
SetBinding(n, b, subjects) ==
    /\ binding' = [binding EXCEPT ![n] = [@ EXCEPT ![b] = subjects]]
    /\ fresh' = (fresh /\ <<n, b>> # <<cur, which>>)
    /\ UNCHANGED <<phase, lives, account, role, informers, queue,
                   pc, cur, which, held>>

RemoveAccount(n) ==
    /\ n \in account
    /\ account' = account \ {n}
    /\ UNCHANGED <<phase, lives, binding, role, informers, queue, worker>>

\* The namespace controller empties a namespace that terminates.
EmptyAccount(n) ==
    /\ phase[n] = "terminating"
    /\ RemoveAccount(n)
    /\ UNCHANGED budget

EmptyBinding(n, b) ==
    /\ phase[n] = "terminating"
    /\ binding[n][b] # NoBinding
    /\ SetBinding(n, b, NoBinding)
    /\ UNCHANGED budget

FinishNamespace(n) ==
    /\ phase[n] = "terminating"
    /\ n \notin account
    /\ \A b \in Bindings : binding[n][b] = NoBinding
    /\ Enter(n, "absent")
    /\ UNCHANGED <<lives, budget>>

-----------------------------------------------------------------------------
(* Users. *)

\* Users give others a role, or take it from them, as they are entitled to.
AddSubject(n, b, s) ==
    /\ \/ phase[n] = "active" /\ binding[n][b] = NoBinding
       \/ binding[n][b] # NoBinding /\ s \notin binding[n][b]
    /\ Spend("edit")
    /\ SetBinding(n, b, IF binding[n][b] = NoBinding
                        THEN {s} ELSE binding[n][b] \cup {s})

RemoveSubject(n, b, s) ==
    /\ binding[n][b] # NoBinding
    /\ s \in binding[n][b]
    /\ SetBinding(n, b, binding[n][b] \ {s})
    /\ UNCHANGED budget

\* They may also undo what the operator did.
TamperAccount(n) == Spend("tamper") /\ RemoveAccount(n)

TamperBinding(n, b) ==
    /\ binding[n][b] # NoBinding
    /\ Spend("tamper")
    /\ \/ SetBinding(n, b, NoBinding)
       \/ /\ Account \in binding[n][b]
          /\ SetBinding(n, b, binding[n][b] \ {Account})

TamperRole ==
    /\ Spend("tamper")
    /\ role' \in {"absent", "drifted"} \ {role}
    /\ UNCHANGED <<phase, lives, account, binding, informers, queue, worker>>

-----------------------------------------------------------------------------

Handler ==
    EnsureAccount \/ EnsureRole \/ GetBinding \/ CheckRole \/ WriteBinding

Informers(n) == NamespaceEvent(n) \/ Resync(n) \/ AccountSync(n)

Environment(n) ==
    \/ CreateNamespace(n) \/ DeleteNamespace(n)
    \/ EmptyAccount(n) \/ FinishNamespace(n) \/ TamperAccount(n)
    \/ \E b \in Bindings :
          \/ EmptyBinding(n, b) \/ TamperBinding(n, b)
          \/ \E s \in Others : AddSubject(n, b, s) \/ RemoveSubject(n, b, s)

Next ==
    \/ Start \/ Handler \/ Crash \/ TamperRole
    \/ \E n \in Namespaces : Take(n) \/ Informers(n) \/ Environment(n)

Spec == Init /\ [][Next]_vars

\* The kubelet restarts the pod, the worker goes on, the queue is first in first
\* out, informers deliver and resync; users and failures owe nothing.
Fairness ==
    /\ WF_vars(Start)
    /\ WF_vars(Handler)
    /\ \A n \in Namespaces :
          /\ SF_vars(Take(n))
          /\ WF_vars(NamespaceEvent(n))
          /\ WF_vars(Resync(n))
          /\ WF_vars(AccountSync(n))

FairSpec == Spec /\ Fairness

-----------------------------------------------------------------------------
(* Properties. *)

Untampered == budget["tamper"] = Limits["tamper"]

\* Reconcile will still look at n: an event is on its way, n is queued or in hand.
Coming(n) == events[n] # <<>> \/ n \in queue
InHand(n) == pc \notin {"down", "idle"} /\ cur = n

Bound(n, b) == binding[n][b] # NoBinding /\ Account \in binding[n][b]

\* The resync apart, no namespace is forgotten: through failures of any call,
\* conflicts with users, crashes and quick re-creation, a namespace Reconcile
\* will not look at again has both bindings and, unless it is a re-creation,
\* its service account (ensureSA looks it up in a cache that may still show the
\* account of the namespace's former life).
NoForgottenNamespace ==
    Running /\ Untampered =>
        \A n \in Namespaces \ Ignored :
            phase[n] = "active" /\ ~Coming(n) /\ ~InHand(n) =>
                /\ \A b \in Bindings : Bound(n, b)
                /\ lives[n] = 1 => n \in account

Access == INSTANCE NamespaceAccess

\* Seen by the users of the namespaces Reconcile behaves like NamespaceAccess:
\* no lost update, no grant revived, nothing in ignored namespaces.
FollowsAccess == Access!AccessSpec

Provisioned(n) ==
    /\ n \in account
    /\ role = "ours"
    /\ \A b \in Bindings : Bound(n, b)

\* A namespace that stays gets its account and, with the role, both bindings in
\* the end, whatever failed, crashed, was re-created or was undone by users
\* (Reconcile's requeues and the resync).
EventuallyProvisioned ==
    \A n \in Namespaces \ Ignored :
        <>[](phase[n] = "active") => <>[]Provisioned(n)

-----------------------------------------------------------------------------
(* The inductive invariant behind the safety properties. *)

\* Once its last event is delivered a namespace is in the cache if it exists.
Informed ==
    \A n \in Namespaces :
        IF events[n] = <<>>
        THEN Running => (n \in known <=> phase[n] # "absent")
        ELSE Running /\ events[n][Len(events[n])] = (phase[n] # "absent")

\* In the first life of a namespace the account that is seen is there (ensureSA).
FirstLife ==
    \A n \in Namespaces :
        /\ lives[n] = 0 => phase[n] = "absent" /\ n \notin account \cup accountKnown
        /\ Untampered /\ phase[n] = "active" /\ lives[n] = 1 /\ n \in accountKnown
              => n \in account

\* What the worker holds, and on whose behalf.
Held ==
    /\ pc \notin {"down", "idle"} => cur \notin Ignored
    /\ pc \notin {"get", "check", "write"} => which = "anyuid"
    /\ pc \notin {"check", "write"} => held = NoBinding /\ ~fresh
    /\ fresh => held = binding[cur][which]

\* What Reconcile has done so far for the namespace in hand still stands, unless
\* an event will bring the namespace back.
Progress ==
    Untampered /\ pc \in {"role", "get", "check", "write"}
               /\ phase[cur] = "active" /\ ~Coming(cur) =>
        /\ lives[cur] = 1 => cur \in account
        /\ which = "edit" => Bound(cur, "anyuid")
        /\ UpToDate => Bound(cur, which)

\* Strengthens NoForgottenNamespace (Reconcile, ensureSA, updateRoleBinding) to
\* an invariant that is inductive.
IInv ==
    /\ TypeOK
    /\ budget["tamper"] <= Limits["tamper"]
    /\ Informed
    /\ FirstLife
    /\ Held
    /\ Progress
    /\ NoForgottenNamespace

=============================================================================
