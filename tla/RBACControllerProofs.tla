----------------------- MODULE RBACControllerProofs -----------------------
(***************************************************************************)
(* Proofs about RBACController, for every set of namespaces, ignored ones, *)
(* users, and every budget of the environment.                             *)
(***************************************************************************)
EXTENDS RBACController, TLAPS

-----------------------------------------------------------------------------
(* Types of what the actions have in common. *)

LEMMA NowhereType == Nowhere \in Namespaces
  BY RBACAssumption DEF Nowhere

LEMMA SpendTypes ==
    ASSUME TypeOK, NEW h \in Hazards, Spend(h)
    PROVE  /\ budget' \in [Hazards -> Nat]
           /\ budget'["tamper"] <= budget["tamper"]
           /\ h = "tamper" => budget'["tamper"] < budget["tamper"]
  BY DEF TypeOK, Spend, Hazards

\* No step gives the users' budget back; one of theirs on it shows for good.
LEMMA TamperShows ==
    ASSUME TypeOK, budget["tamper"] <= Limits["tamper"]
    PROVE  /\ UNCHANGED budget \/ Spend("failure") \/ Spend("delete") \/ Spend("edit")
                 => /\ (budget["tamper"] <= Limits["tamper"])'
                    /\ Untampered' => Untampered
           /\ Spend("tamper") => /\ (budget["tamper"] <= Limits["tamper"])'
                                 /\ ~Untampered'
  BY RBACAssumption DEF TypeOK, Spend, Untampered, Hazards

WorkerTypes ==
    /\ pc \in Steps
    /\ cur \in Namespaces
    /\ which \in Bindings
    /\ held \in Contents
    /\ fresh \in BOOLEAN
    /\ queue \in SUBSET Namespaces

LEMMA ReturnTypes ==
    ASSUME TypeOK
    PROVE  /\ Return(TRUE) \/ Return(FALSE) => WorkerTypes'
           /\ Fail => WorkerTypes' /\ budget' \in [Hazards -> Nat]
  <1>1. Return(TRUE) \/ Return(FALSE) => WorkerTypes'
    BY NowhereType
       DEF TypeOK, Return, Clear, WorkerTypes, Steps, Bindings, Contents
  <1>2. "failure" \in Hazards
    BY DEF Hazards
  <1>3. QED
    BY <1>1, <1>2, SpendTypes DEF Fail

LEMMA IntendedType ==
    ASSUME held \in Contents
    PROVE  Intended \in SUBSET Subjects
  BY RBACAssumption DEF Intended, Contents, Subjects

LEMMA BindingTypes ==
    ASSUME TypeOK, NEW n \in Namespaces, NEW b \in Bindings, NEW x \in Contents,
           binding' = [binding EXCEPT ![n] = [@ EXCEPT ![b] = x]]
    PROVE  /\ binding' \in [Namespaces -> [Bindings -> Contents]]
           /\ binding'[n][b] = x
           /\ \A m \in Namespaces, c \in Bindings :
                 m # n \/ c # b => binding'[m][c] = binding[m][c]
  BY DEF TypeOK

-----------------------------------------------------------------------------
(* The events of the namespace informer. *)

LEMMA NoEvents ==
    /\ <<>> \in Seq(BOOLEAN)
    /\ \A s \in Seq(BOOLEAN) : s = <<>> => Len(s) = 0
    /\ [n \in Namespaces |-> <<>>] \in [Namespaces -> Seq(BOOLEAN)]
  OBVIOUS

LEMMA Appended ==
    ASSUME NEW s \in Seq(BOOLEAN), NEW x \in BOOLEAN
    PROVE  /\ Append(s, x) \in Seq(BOOLEAN)
           /\ Append(s, x) # <<>>
           /\ Append(s, x)[Len(Append(s, x))] = x
  OBVIOUS

LEMMA LastOne ==
    ASSUME NEW s \in Seq(BOOLEAN), NEW t \in Seq(BOOLEAN),
           Len(t) = Len(s) - 1, t = <<>>
    PROVE  Len(s) = 1
  <1>1. Len(t) = 0
    BY NoEvents
  <1>2. QED
    BY <1>1

LEMMA Popped ==
    ASSUME NEW s \in Seq(BOOLEAN), s # <<>>
    PROVE  /\ Head(s) \in BOOLEAN
           /\ Tail(s) \in Seq(BOOLEAN)
           /\ Tail(s) = <<>> => Head(s) = s[Len(s)]
           /\ Tail(s) # <<>> => Tail(s)[Len(Tail(s))] = s[Len(s)]
  <1>1. Len(s) \in Nat /\ Len(s) >= 1 /\ Head(s) = s[1] /\ Head(s) \in BOOLEAN
    OBVIOUS
  <1>2. Tail(s) \in Seq(BOOLEAN) /\ Len(Tail(s)) = Len(s) - 1
    BY <1>1
  <1>3. \A i \in 1 .. Len(Tail(s)) : Tail(s)[i] = s[i + 1]
    BY <1>1, <1>2
  <1>4. CASE Tail(s) = <<>>
    <2>1. Len(s) = 1
      BY <1>2, <1>4, LastOne, Zenon
    <2>2. s[Len(s)] = s[1]
      BY <2>1
    <2>3. Head(s) = s[Len(s)]
      BY <1>1, <2>2
    <2>4. QED
      BY <1>1, <1>2, <1>4, <2>3, Zenon
  <1>5. CASE Tail(s) # <<>>
    <2>1. Len(Tail(s)) >= 1
      BY <1>2, <1>5
    <2>2. QED
      BY <1>1, <1>2, <1>3, <1>5, <2>1
  <1>6. QED
    BY <1>4, <1>5

\* A namespace that changes phase has its last event say so.
LEMMA EnterInforms ==
    ASSUME TypeOK, Informed, NEW n \in Namespaces, NEW p \in Phases, Enter(n, p)
    PROVE  /\ phase' \in [Namespaces -> Phases]
           /\ events' \in [Namespaces -> Seq(BOOLEAN)]
           /\ phase'[n] = p
           /\ \A m \in Namespaces \ {n} :
                 phase'[m] = phase[m] /\ events'[m] = events[m]
           /\ Running => events'[n] # <<>>
           /\ ~Running => events' = events
           /\ Informed'
  <1>1. events[n] \in Seq(BOOLEAN) /\ (p # "absent") \in BOOLEAN
    BY DEF TypeOK
  <1>2. /\ phase' \in [Namespaces -> Phases] /\ phase'[n] = p
        /\ \A m \in Namespaces \ {n} : phase'[m] = phase[m]
        /\ UNCHANGED <<known, pc>>
    BY DEF TypeOK, Enter, worker
  <1>3. CASE Running
    <2> DEFINE s == Append(events[n], p # "absent")
    <2>1. s \in Seq(BOOLEAN) /\ s # <<>> /\ s[Len(s)] = (p # "absent")
      BY <1>1, Appended
    <2> HIDE DEF s
    <2>2. events' = [events EXCEPT ![n] = s]
      BY <1>3 DEF Enter, s
    <2>3. /\ events' \in [Namespaces -> Seq(BOOLEAN)] /\ events'[n] = s
          /\ \A m \in Namespaces \ {n} : events'[m] = events[m]
      BY <2>1, <2>2 DEF TypeOK
    <2>4. Informed'
      BY <1>2, <1>3, <2>1, <2>3 DEF Informed, Running
    <2>5. QED
      BY <1>2, <1>3, <2>1, <2>3, <2>4
  <1>4. CASE ~Running
    <2>1. events' = events
      BY <1>4 DEF Enter
    <2>2. Informed'
      BY <1>2, <1>4, <2>1 DEF Informed, Running
    <2>3. QED
      BY <1>2, <1>4, <2>1, <2>2 DEF TypeOK
  <1>5. QED
    BY <1>3, <1>4

-----------------------------------------------------------------------------
(* The inductive invariant. *)

LEMMA InitIInv == Init => IInv
  <1> SUFFICES ASSUME Init PROVE IInv
    OBVIOUS
  <1>1. TypeOK
    BY NowhereType, NoEvents, RBACAssumption
       DEF Init, TypeOK, Phases, Steps, Contents, Bindings
  <1>2. budget["tamper"] <= Limits["tamper"]
    BY RBACAssumption DEF Init, Hazards
  <1>3. Informed /\ FirstLife /\ Held /\ Progress /\ NoForgottenNamespace
    BY DEF Init, Informed, FirstLife, Held, Progress, NoForgottenNamespace, Running
  <1>4. QED
    BY <1>1, <1>2, <1>3 DEF IInv

-----------------------------------------------------------------------------
(* Reconcile. *)

LEMMA TakeStep ==
    ASSUME IInv, NEW n \in Namespaces, Take(n)
    PROVE  IInv'
  <1>1. TypeOK'
    BY NowhereType, RBACAssumption
       DEF IInv, TypeOK, Take, Steps, Phases, Contents, Hazards, Subjects,
           Bindings, api, informers, worker
  <1>2. (budget["tamper"] <= Limits["tamper"])' /\ (Untampered' => Untampered)
    BY TamperShows DEF IInv, Take
  <1>3. Informed'
    BY DEF IInv, TypeOK, Informed, Running, Take, api, informers, worker
  <1>4. FirstLife'
    BY <1>2 DEF IInv, TypeOK, FirstLife, Take, Phases, api, informers, worker
  <1>5. Held'
    BY NowhereType
       DEF IInv, TypeOK, Held, Take, Steps, Bindings, api, informers, worker
  <1>6. Progress'
    BY <1>1, <1>2, RBACAssumption
       DEF IInv, TypeOK, Progress, FirstLife, Held, Informed, Running, Coming,
           Bound, UpToDate, Take, Phases, Bindings, Contents, Subjects, api,
           informers, worker
  <1>7. NoForgottenNamespace'
    BY <1>1, <1>2, RBACAssumption
       DEF IInv, TypeOK, NoForgottenNamespace, Progress, FirstLife, Held,
           Informed, Running, Coming, InHand, Bound, UpToDate, Take, Phases,
           Bindings, Contents, Subjects, api, informers, worker
  <1>8. QED
    BY <1>1, <1>2, <1>3, <1>4, <1>5, <1>6, <1>7 DEF IInv

\* An account that is seen in the first life of a namespace is there.
LEMMA EnsureAccountStep ==
    ASSUME IInv, EnsureAccount
    PROVE  IInv'
  <1>1. TypeOK'
    <2>0. TypeOK
      BY DEF IInv
    <2>1. \/ /\ pc' \in Steps /\ held' \in Contents /\ fresh' \in BOOLEAN
             /\ UNCHANGED <<cur, which, queue, budget>>
          \/ Return(TRUE) /\ UNCHANGED budget
          \/ Fail
      BY <2>0 DEF EnsureAccount, Goto, TypeOK, Steps
    <2>2. WorkerTypes' /\ budget' \in [Hazards -> Nat]
      BY <2>0, <2>1, ReturnTypes DEF TypeOK, WorkerTypes
    <2>3. QED
      BY <2>0, <2>2 DEF EnsureAccount, TypeOK, WorkerTypes, api, informers
  <1>2. (budget["tamper"] <= Limits["tamper"])' /\ (Untampered' => Untampered)
    BY TamperShows DEF IInv, EnsureAccount, Goto, Return, Clear, Fail
  <1>3. Informed'
    BY
       DEF IInv, TypeOK, Informed, Running, EnsureAccount, Goto, Return,
           Clear, Fail, api, informers, worker
  <1>4. FirstLife'
    BY <1>2
       DEF IInv, TypeOK, FirstLife, EnsureAccount, Goto, Return, Clear, Fail,
           Phases, api, informers, worker
  <1>5. Held'
    BY NowhereType
       DEF IInv, TypeOK, Held, EnsureAccount, Goto, Return, Clear, Fail,
           Steps, Bindings, api, informers, worker
  <1>6. Progress'
    BY <1>1, <1>2, RBACAssumption
       DEF IInv, TypeOK, Progress, FirstLife, Held, Informed, Running, Coming,
           Bound, UpToDate, EnsureAccount, Goto, Return, Clear, Fail, Phases,
           Bindings, Contents, Subjects, api, informers, worker
  <1>7. NoForgottenNamespace'
    BY <1>1, <1>2, RBACAssumption
       DEF IInv, TypeOK, NoForgottenNamespace, Progress, FirstLife, Held,
           Informed, Running, Coming, InHand, Bound, UpToDate, EnsureAccount,
           Goto, Return, Clear, Fail, Phases, Bindings, Contents, Subjects,
           api, informers, worker
  <1>8. QED
    BY <1>1, <1>2, <1>3, <1>4, <1>5, <1>6, <1>7 DEF IInv

LEMMA EnsureRoleStep ==
    ASSUME IInv, EnsureRole
    PROVE  IInv'
  <1>1. TypeOK'
    <2>0. TypeOK
      BY DEF IInv
    <2>1. \/ /\ pc' \in Steps /\ held' \in Contents /\ fresh' \in BOOLEAN
             /\ UNCHANGED <<cur, which, queue, budget>>
          \/ Return(TRUE) /\ UNCHANGED budget
          \/ Fail
      BY <2>0 DEF EnsureRole, Goto, TypeOK, Steps
    <2>2. WorkerTypes' /\ budget' \in [Hazards -> Nat]
      BY <2>0, <2>1, ReturnTypes DEF TypeOK, WorkerTypes
    <2>3. QED
      BY <2>0, <2>2 DEF EnsureRole, TypeOK, WorkerTypes, api, informers
  <1>2. (budget["tamper"] <= Limits["tamper"])' /\ (Untampered' => Untampered)
    BY TamperShows DEF IInv, EnsureRole, Goto, Return, Clear, Fail
  <1>3. Informed'
    BY
       DEF IInv, TypeOK, Informed, Running, EnsureRole, Goto, Return, Clear,
           Fail, api, informers, worker
  <1>4. FirstLife'
    BY <1>2
       DEF IInv, TypeOK, FirstLife, EnsureRole, Goto, Return, Clear, Fail,
           Phases, api, informers, worker
  <1>5. Held'
    BY NowhereType
       DEF IInv, TypeOK, Held, EnsureRole, Goto, Return, Clear, Fail, Steps,
           Bindings, api, informers, worker
  <1>6. Progress'
    BY <1>1, <1>2, RBACAssumption
       DEF IInv, TypeOK, Progress, FirstLife, Held, Informed, Running, Coming,
           Bound, UpToDate, EnsureRole, Goto, Return, Clear, Fail, Phases,
           Bindings, Contents, Subjects, api, informers, worker
  <1>7. NoForgottenNamespace'
    BY <1>1, <1>2, RBACAssumption
       DEF IInv, TypeOK, NoForgottenNamespace, Progress, FirstLife, Held,
           Informed, Running, Coming, InHand, Bound, UpToDate, EnsureRole,
           Goto, Return, Clear, Fail, Phases, Bindings, Contents, Subjects,
           api, informers, worker
  <1>8. QED
    BY <1>1, <1>2, <1>3, <1>4, <1>5, <1>6, <1>7 DEF IInv

LEMMA GetBindingStep ==
    ASSUME IInv, GetBinding
    PROVE  IInv'
  <1>1. TypeOK'
    <2>0. TypeOK
      BY DEF IInv
    <2>1. \/ /\ pc' \in Steps /\ held' \in Contents /\ fresh' \in BOOLEAN
             /\ UNCHANGED <<cur, which, queue, budget>>
          \/ Return(TRUE) /\ UNCHANGED budget
          \/ Fail
      <3>1. binding[cur][which] \in Contents
        BY <2>0 DEF TypeOK
      <3>2. QED
        BY <3>1 DEF GetBinding, Steps
    <2>2. WorkerTypes' /\ budget' \in [Hazards -> Nat]
      BY <2>0, <2>1, ReturnTypes DEF TypeOK, WorkerTypes
    <2>3. QED
      BY <2>0, <2>2 DEF GetBinding, TypeOK, WorkerTypes, api, informers
  <1>2. (budget["tamper"] <= Limits["tamper"])' /\ (Untampered' => Untampered)
    BY TamperShows DEF IInv, GetBinding, Goto, Return, Clear, Fail
  <1>3. Informed'
    BY
       DEF IInv, TypeOK, Informed, Running, GetBinding, Goto, Return, Clear,
           Fail, api, informers, worker
  <1>4. FirstLife'
    BY <1>2
       DEF IInv, TypeOK, FirstLife, GetBinding, Goto, Return, Clear, Fail,
           Phases, api, informers, worker
  <1>5. Held'
    BY NowhereType
       DEF IInv, TypeOK, Held, GetBinding, Goto, Return, Clear, Fail, Steps,
           Bindings, api, informers, worker
  <1>6. Progress'
    BY <1>1, <1>2, RBACAssumption
       DEF IInv, TypeOK, Progress, FirstLife, Held, Informed, Running, Coming,
           Bound, UpToDate, GetBinding, Goto, Return, Clear, Fail, Phases,
           Bindings, Contents, Subjects, api, informers, worker
  <1>7. NoForgottenNamespace'
    BY <1>1, <1>2, RBACAssumption
       DEF IInv, TypeOK, NoForgottenNamespace, Progress, FirstLife, Held,
           Informed, Running, Coming, InHand, Bound, UpToDate, GetBinding,
           Goto, Return, Clear, Fail, Phases, Bindings, Contents, Subjects,
           api, informers, worker
  <1>8. QED
    BY <1>1, <1>2, <1>3, <1>4, <1>5, <1>6, <1>7 DEF IInv

LEMMA CheckRoleStep ==
    ASSUME IInv, CheckRole
    PROVE  IInv'
  <1>1. TypeOK'
    <2>0. TypeOK
      BY DEF IInv
    <2>1. \/ /\ pc' \in Steps /\ held' \in Contents /\ fresh' \in BOOLEAN
             /\ UNCHANGED <<cur, which, queue, budget>>
          \/ Return(TRUE) /\ UNCHANGED budget
          \/ Fail
      BY <2>0 DEF CheckRole, Goto, TypeOK, Steps
    <2>2. WorkerTypes' /\ budget' \in [Hazards -> Nat]
      BY <2>0, <2>1, ReturnTypes DEF TypeOK, WorkerTypes
    <2>3. QED
      BY <2>0, <2>2 DEF CheckRole, TypeOK, WorkerTypes, api, informers
  <1>2. (budget["tamper"] <= Limits["tamper"])' /\ (Untampered' => Untampered)
    BY TamperShows DEF IInv, CheckRole, Goto, Return, Clear, Fail
  <1>3. Informed'
    BY
       DEF IInv, TypeOK, Informed, Running, CheckRole, Goto, Return, Clear,
           Fail, api, informers, worker
  <1>4. FirstLife'
    BY <1>2
       DEF IInv, TypeOK, FirstLife, CheckRole, Goto, Return, Clear, Fail,
           Phases, api, informers, worker
  <1>5. Held'
    BY NowhereType
       DEF IInv, TypeOK, Held, CheckRole, Goto, Return, Clear, Fail, Steps,
           Bindings, api, informers, worker
  <1>6. Progress'
    BY <1>1, <1>2, RBACAssumption
       DEF IInv, TypeOK, Progress, FirstLife, Held, Informed, Running, Coming,
           Bound, UpToDate, CheckRole, Goto, Return, Clear, Fail, Phases,
           Bindings, Contents, Subjects, api, informers, worker
  <1>7. NoForgottenNamespace'
    BY <1>1, <1>2, RBACAssumption
       DEF IInv, TypeOK, NoForgottenNamespace, Progress, FirstLife, Held,
           Informed, Running, Coming, InHand, Bound, UpToDate, CheckRole,
           Goto, Return, Clear, Fail, Phases, Bindings, Contents, Subjects,
           api, informers, worker
  <1>8. QED
    BY <1>1, <1>2, <1>3, <1>4, <1>5, <1>6, <1>7 DEF IInv

\* What was read to name the account does so still, or the namespace will be
\* back; what is written names it.
LEMMA WriteBindingStep ==
    ASSUME IInv, WriteBinding
    PROVE  IInv'
  <1>1. TypeOK'
    <2>0. TypeOK /\ Intended \in Contents
      BY IntendedType DEF IInv, TypeOK, Contents
    <2>1. \/ /\ pc' = "get" /\ which' = "edit" /\ held' = NoBinding
             /\ fresh' = FALSE /\ UNCHANGED <<cur, queue, budget>>
          \/ (Return(TRUE) \/ Return(FALSE)) /\ UNCHANGED budget
          \/ Fail
      BY DEF WriteBinding, NextBinding
    <2>2. WorkerTypes' /\ budget' \in [Hazards -> Nat]
      BY <2>0, <2>1, ReturnTypes
         DEF TypeOK, WorkerTypes, Steps, Bindings, Contents
    <2>3. binding' \in [Namespaces -> [Bindings -> Contents]]
      <3>1. \/ binding' = binding
            \/ binding' = [binding EXCEPT ![cur] = [@ EXCEPT ![which] = Intended]]
        BY DEF WriteBinding
      <3>2. QED
        BY <2>0, <3>1, BindingTypes DEF TypeOK
    <2>4. QED
      BY <2>0, <2>2, <2>3 DEF WriteBinding, TypeOK, WorkerTypes, informers
  <1>2. (budget["tamper"] <= Limits["tamper"])' /\ (Untampered' => Untampered)
    BY TamperShows DEF IInv, WriteBinding, Fail
  <1>3. Informed'
    BY
       DEF IInv, TypeOK, Informed, Running, WriteBinding, NextBinding,
           Accepted, Intended, Goto, Return, Clear, Fail, api, informers,
           worker
  <1>4. FirstLife'
    BY <1>2
       DEF IInv, TypeOK, FirstLife, WriteBinding, NextBinding, Accepted,
           Intended, Goto, Return, Clear, Fail, Phases, api, informers, worker
  <1>5. Held'
    BY NowhereType
       DEF IInv, TypeOK, Held, WriteBinding, NextBinding, Accepted, Intended,
           Goto, Return, Clear, Fail, Steps, Bindings, api, informers, worker
  <1>6. Progress'
    BY <1>1, <1>2, RBACAssumption
       DEF IInv, TypeOK, Progress, FirstLife, Held, Informed, Running, Coming,
           Bound, UpToDate, WriteBinding, NextBinding, Accepted, Intended,
           Goto, Return, Clear, Fail, Phases, Bindings, Contents, Subjects,
           api, informers, worker
  <1>7. NoForgottenNamespace'
    <2> SUFFICES ASSUME Running', Untampered', NEW n \in Namespaces \ Ignored,
                        phase'[n] = "active", ~Coming(n)', ~InHand(n)'
                 PROVE  /\ \A b \in Bindings : Bound(n, b)'
                        /\ lives'[n] = 1 => n \in account'
      BY DEF NoForgottenNamespace
    <2>1. /\ UNCHANGED <<phase, lives, account, events>> /\ Running /\ Untampered
          /\ pc = "write" /\ cur \in Namespaces /\ which \in Bindings
      BY <1>2 DEF WriteBinding, informers, Running, IInv, TypeOK
    <2>2. \A m \in Namespaces, b \in Bindings : Bound(m, b) => Bound(m, b)'
      <3>1. \/ binding' = binding
            \/ /\ binding' = [binding EXCEPT ![cur] = [@ EXCEPT ![which] = Intended]]
               /\ Account \in Intended /\ Intended \in Contents
               /\ Intended # NoBinding
        BY RBACAssumption, IntendedType
           DEF WriteBinding, Intended, IInv, TypeOK, Contents
      <3>2. QED
        BY <2>1, <3>1, BindingTypes DEF Bound, IInv
    <2>3. CASE n # cur
      <3>1. ~Coming(n)
        BY <2>1, <2>3 DEF WriteBinding, NextBinding, Return, Fail, Coming
      <3>2. QED
        BY <2>1, <2>2, <2>3, <3>1 DEF IInv, NoForgottenNamespace, InHand
    <2>4. CASE n = cur
      <3>1. /\ which = "edit" /\ Return(FALSE)
            /\ \/ UpToDate
               \/ /\ binding' = [binding EXCEPT ![cur] = [@ EXCEPT ![which] = Intended]]
        BY <2>1, <2>4
           DEF WriteBinding, NextBinding, Return, Fail, Clear, Coming, InHand
      <3>2. ~Coming(cur)
        BY <2>1, <2>4, <3>1 DEF Return, Coming
      <3>3. /\ lives[cur] = 1 => cur \in account
            /\ Bound(cur, "anyuid")
            /\ UpToDate => Bound(cur, which)
        BY <2>1, <2>4, <3>1, <3>2 DEF IInv, Progress
      <3>4. Account \in binding'[cur][which] /\ binding'[cur][which] # NoBinding
        <4>1. CASE UpToDate
          BY <2>1, <2>2, <3>3, <4>1 DEF Bound
        <4>2. CASE binding' = [binding EXCEPT ![cur] = [@ EXCEPT ![which] = Intended]]
          <5>1. /\ Account \in Intended /\ Intended \in Contents
                /\ Intended # NoBinding
            BY RBACAssumption, IntendedType DEF Intended, IInv, TypeOK, Contents
          <5>2. binding'[cur][which] = Intended
            BY <2>1, <4>2, <5>1, BindingTypes DEF IInv
          <5>3. QED
            BY <5>1, <5>2
        <4>3. QED
          BY <3>1, <4>1, <4>2
      <3>5. QED
        BY <2>1, <2>2, <2>4, <3>1, <3>3, <3>4 DEF Bindings, Bound
    <2>5. QED
      BY <2>3, <2>4
  <1>8. QED
    BY <1>1, <1>2, <1>3, <1>4, <1>5, <1>6, <1>7 DEF IInv

-----------------------------------------------------------------------------
(* The process and its informers. *)

LEMMA StartStep ==
    ASSUME IInv, Start
    PROVE  IInv'
  <1>1. TypeOK'
    BY NowhereType, RBACAssumption
       DEF IInv, TypeOK, Start, Goto, Steps, Phases, Contents, Hazards,
           Subjects, Bindings, api, informers, worker
  <1>2. (budget["tamper"] <= Limits["tamper"])' /\ (Untampered' => Untampered)
    BY TamperShows DEF IInv, Start, Goto
  <1>3. Informed'
    BY DEF IInv, TypeOK, Informed, Running, Start, Goto, api, informers, worker
  <1>4. FirstLife'
    BY <1>2
       DEF IInv, TypeOK, FirstLife, Start, Goto, Phases, api, informers,
           worker
  <1>5. Held'
    BY NowhereType
       DEF IInv, TypeOK, Held, Start, Goto, Steps, Bindings, api, informers,
           worker
  <1>6. Progress'
    BY <1>1, <1>2, RBACAssumption
       DEF IInv, TypeOK, Progress, FirstLife, Held, Informed, Running, Coming,
           Bound, UpToDate, Start, Goto, Phases, Bindings, Contents, Subjects,
           api, informers, worker
  <1>7. NoForgottenNamespace'
    BY <1>1, <1>2, RBACAssumption
       DEF IInv, TypeOK, NoForgottenNamespace, Progress, FirstLife, Held,
           Informed, Running, Coming, InHand, Bound, UpToDate, Start, Goto,
           Phases, Bindings, Contents, Subjects, api, informers, worker
  <1>8. QED
    BY <1>1, <1>2, <1>3, <1>4, <1>5, <1>6, <1>7 DEF IInv

LEMMA CrashStep ==
    ASSUME IInv, Crash
    PROVE  IInv'
  <1>1. TypeOK'
    <2>1. budget' \in [Hazards -> Nat]
      BY SpendTypes DEF Crash, IInv, Hazards
    <2>2. QED
      BY <2>1, NowhereType, NoEvents
         DEF IInv, TypeOK, Crash, Clear, Steps, Bindings, Contents, api
  <1>2. (budget["tamper"] <= Limits["tamper"])' /\ (Untampered' => Untampered)
    BY TamperShows DEF IInv, Crash, Running, Clear
  <1>3. Informed'
    BY
       DEF IInv, TypeOK, Informed, Running, Crash, Running, Clear, api,
           informers, worker
  <1>4. FirstLife'
    BY <1>2
       DEF IInv, TypeOK, FirstLife, Crash, Running, Clear, Phases, api,
           informers, worker
  <1>5. Held'
    BY NowhereType
       DEF IInv, TypeOK, Held, Crash, Running, Clear, Steps, Bindings, api,
           informers, worker
  <1>6. Progress'
    BY <1>1, <1>2, RBACAssumption
       DEF IInv, TypeOK, Progress, FirstLife, Held, Informed, Running, Coming,
           Bound, UpToDate, Crash, Running, Clear, Phases, Bindings, Contents,
           Subjects, api, informers, worker
  <1>7. NoForgottenNamespace'
    BY <1>1, <1>2, RBACAssumption
       DEF IInv, TypeOK, NoForgottenNamespace, Progress, FirstLife, Held,
           Informed, Running, Coming, InHand, Bound, UpToDate, Crash, Running,
           Clear, Phases, Bindings, Contents, Subjects, api, informers, worker
  <1>8. QED
    BY <1>1, <1>2, <1>3, <1>4, <1>5, <1>6, <1>7 DEF IInv

\* A namespace whose last event is delivered is in the cache if it exists.
LEMMA NamespaceEventStep ==
    ASSUME IInv, NEW n \in Namespaces, NamespaceEvent(n)
    PROVE  IInv'
  <1>1. TypeOK'
    <2>1. events[n] \in Seq(BOOLEAN) /\ events[n] # <<>>
      BY DEF IInv, TypeOK, NamespaceEvent
    <2>2. Tail(events[n]) \in Seq(BOOLEAN)
      BY <2>1, Popped
    <2>3. QED
      BY <2>2 DEF NamespaceEvent, IInv, TypeOK, api, worker
  <1>2. (budget["tamper"] <= Limits["tamper"])' /\ (Untampered' => Untampered)
    BY TamperShows DEF IInv, NamespaceEvent, Running
  <1>3. Informed'
    <2> DEFINE s == events[n]
    <2>1. s \in Seq(BOOLEAN) /\ s # <<>>
      BY DEF IInv, TypeOK, NamespaceEvent
    <2>2. /\ Head(s) \in BOOLEAN
          /\ Tail(s) = <<>> => Head(s) = s[Len(s)]
          /\ Tail(s) # <<>> => Tail(s)[Len(Tail(s))] = s[Len(s)]
      BY <2>1, Popped
    <2>3. s[Len(s)] = (phase[n] # "absent") /\ Running
      BY <2>1 DEF IInv, Informed
    <2>4. events'[n] = Tail(s)
      BY DEF NamespaceEvent, IInv, TypeOK
    <2>5. n \in known' <=> Head(s)
      BY <2>2 DEF NamespaceEvent
    <2>6. \A m \in Namespaces \ {n} :
             events'[m] = events[m] /\ (m \in known' <=> m \in known)
      BY DEF NamespaceEvent, IInv, TypeOK
    <2>7. UNCHANGED <<phase, pc>>
      BY DEF NamespaceEvent, api, worker
    <2> HIDE DEF s
    <2>8. QED
      BY <2>2, <2>3, <2>4, <2>5, <2>6, <2>7 DEF IInv, Informed, Running
  <1>4. FirstLife'
    BY <1>2
       DEF IInv, TypeOK, FirstLife, NamespaceEvent, Running, Phases, api,
           informers, worker
  <1>5. Held'
    BY NowhereType
       DEF IInv, TypeOK, Held, NamespaceEvent, Running, Steps, Bindings, api,
           informers, worker
  <1>6. Progress'
    BY <1>1, <1>2, RBACAssumption
       DEF IInv, TypeOK, Progress, FirstLife, Held, Informed, Running, Coming,
           Bound, UpToDate, NamespaceEvent, Running, Phases, Bindings,
           Contents, Subjects, api, informers, worker
  <1>7. NoForgottenNamespace'
    BY <1>1, <1>2, RBACAssumption
       DEF IInv, TypeOK, NoForgottenNamespace, Progress, FirstLife, Held,
           Informed, Running, Coming, InHand, Bound, UpToDate, NamespaceEvent,
           Running, Phases, Bindings, Contents, Subjects, api, informers,
           worker
  <1>8. QED
    BY <1>1, <1>2, <1>3, <1>4, <1>5, <1>6, <1>7 DEF IInv

LEMMA ResyncStep ==
    ASSUME IInv, NEW n \in Namespaces, Resync(n)
    PROVE  IInv'
  <1>1. TypeOK'
    BY NowhereType, RBACAssumption
       DEF IInv, TypeOK, Resync, Running, Steps, Phases, Contents, Hazards,
           Subjects, Bindings, api, informers, worker
  <1>2. (budget["tamper"] <= Limits["tamper"])' /\ (Untampered' => Untampered)
    BY TamperShows DEF IInv, Resync, Running
  <1>3. Informed'
    BY
       DEF IInv, TypeOK, Informed, Running, Resync, Running, api, informers,
           worker
  <1>4. FirstLife'
    BY <1>2
       DEF IInv, TypeOK, FirstLife, Resync, Running, Phases, api, informers,
           worker
  <1>5. Held'
    BY NowhereType
       DEF IInv, TypeOK, Held, Resync, Running, Steps, Bindings, api,
           informers, worker
  <1>6. Progress'
    BY <1>1, <1>2, RBACAssumption
       DEF IInv, TypeOK, Progress, FirstLife, Held, Informed, Running, Coming,
           Bound, UpToDate, Resync, Running, Phases, Bindings, Contents,
           Subjects, api, informers, worker
  <1>7. NoForgottenNamespace'
    BY <1>1, <1>2, RBACAssumption
       DEF IInv, TypeOK, NoForgottenNamespace, Progress, FirstLife, Held,
           Informed, Running, Coming, InHand, Bound, UpToDate, Resync,
           Running, Phases, Bindings, Contents, Subjects, api, informers,
           worker
  <1>8. QED
    BY <1>1, <1>2, <1>3, <1>4, <1>5, <1>6, <1>7 DEF IInv

LEMMA AccountSyncStep ==
    ASSUME IInv, NEW n \in Namespaces, AccountSync(n)
    PROVE  IInv'
  <1>1. TypeOK'
    BY NowhereType, RBACAssumption
       DEF IInv, TypeOK, AccountSync, Running, Steps, Phases, Contents,
           Hazards, Subjects, Bindings, api, informers, worker
  <1>2. (budget["tamper"] <= Limits["tamper"])' /\ (Untampered' => Untampered)
    BY TamperShows DEF IInv, AccountSync, Running
  <1>3. Informed'
    BY
       DEF IInv, TypeOK, Informed, Running, AccountSync, Running, api,
           informers, worker
  <1>4. FirstLife'
    BY <1>2
       DEF IInv, TypeOK, FirstLife, AccountSync, Running, Phases, api,
           informers, worker
  <1>5. Held'
    BY NowhereType
       DEF IInv, TypeOK, Held, AccountSync, Running, Steps, Bindings, api,
           informers, worker
  <1>6. Progress'
    BY <1>1, <1>2, RBACAssumption
       DEF IInv, TypeOK, Progress, FirstLife, Held, Informed, Running, Coming,
           Bound, UpToDate, AccountSync, Running, Phases, Bindings, Contents,
           Subjects, api, informers, worker
  <1>7. NoForgottenNamespace'
    BY <1>1, <1>2, RBACAssumption
       DEF IInv, TypeOK, NoForgottenNamespace, Progress, FirstLife, Held,
           Informed, Running, Coming, InHand, Bound, UpToDate, AccountSync,
           Running, Phases, Bindings, Contents, Subjects, api, informers,
           worker
  <1>8. QED
    BY <1>1, <1>2, <1>3, <1>4, <1>5, <1>6, <1>7 DEF IInv

-----------------------------------------------------------------------------
(* Namespaces and users. *)

\* What is new is announced to an operator that runs, and listed by one that starts.
LEMMA CreateNamespaceStep ==
    ASSUME IInv, NEW n \in Namespaces, CreateNamespace(n)
    PROVE  IInv'
  <1>1. TypeOK'
    <2>1. phase' \in [Namespaces -> Phases] /\ events' \in [Namespaces -> Seq(BOOLEAN)]
      BY EnterInforms DEF IInv, CreateNamespace, Phases
    <2>2. QED
      BY <2>1 DEF CreateNamespace, Enter, IInv, TypeOK, worker
  <1>2. (budget["tamper"] <= Limits["tamper"])' /\ (Untampered' => Untampered)
    BY TamperShows DEF IInv, CreateNamespace, Enter
  <1>3. Informed'
    BY EnterInforms DEF IInv, CreateNamespace, Phases
  <1>4. FirstLife'
    BY <1>2
       DEF IInv, TypeOK, FirstLife, CreateNamespace, Enter, Phases, api,
           informers, worker
  <1>5. Held'
    BY NowhereType
       DEF IInv, TypeOK, Held, CreateNamespace, Enter, Steps, Bindings, api,
           informers, worker
  <1>6. Progress'
    <2>1. CASE cur = n
      BY <2>1, EnterInforms
         DEF IInv, CreateNamespace, Enter, Phases, Progress, Coming, Running, worker
    <2>2. CASE cur # n
      <3>1. /\ phase'[cur] = phase[cur] /\ events'[cur] = events[cur]
            /\ lives'[cur] = lives[cur]
        BY <2>2, EnterInforms DEF IInv, TypeOK, CreateNamespace, Phases
      <3>2. QED
        BY <1>2, <3>1
           DEF IInv, CreateNamespace, Enter, Progress, Coming, Bound, UpToDate, worker
    <2>3. QED
      BY <2>1, <2>2
  <1>7. NoForgottenNamespace'
    BY <1>1, <1>2, RBACAssumption
       DEF IInv, TypeOK, NoForgottenNamespace, Progress, FirstLife, Held,
           Informed, Running, Coming, InHand, Bound, UpToDate,
           CreateNamespace, Enter, Phases, Bindings, Contents, Subjects, api,
           informers, worker
  <1>8. QED
    BY <1>1, <1>2, <1>3, <1>4, <1>5, <1>6, <1>7 DEF IInv

LEMMA DeleteNamespaceStep ==
    ASSUME IInv, NEW n \in Namespaces, DeleteNamespace(n)
    PROVE  IInv'
  <1>1. TypeOK'
    <2>0. budget' \in [Hazards -> Nat]
      BY SpendTypes DEF IInv, DeleteNamespace, Hazards
    <2>1. phase' \in [Namespaces -> Phases] /\ events' \in [Namespaces -> Seq(BOOLEAN)]
      BY EnterInforms DEF IInv, DeleteNamespace, Phases
    <2>2. QED
      BY <2>1, <2>0 DEF DeleteNamespace, Enter, IInv, TypeOK, worker
  <1>2. (budget["tamper"] <= Limits["tamper"])' /\ (Untampered' => Untampered)
    BY TamperShows DEF IInv, DeleteNamespace, Enter
  <1>3. Informed'
    BY EnterInforms DEF IInv, DeleteNamespace, Phases
  <1>4. FirstLife'
    BY <1>2
       DEF IInv, TypeOK, FirstLife, DeleteNamespace, Enter, Phases, api,
           informers, worker
  <1>5. Held'
    BY NowhereType
       DEF IInv, TypeOK, Held, DeleteNamespace, Enter, Steps, Bindings, api,
           informers, worker
  <1>6. Progress'
    BY <1>1, <1>2, RBACAssumption
       DEF IInv, TypeOK, Progress, FirstLife, Held, Informed, Running, Coming,
           Bound, UpToDate, DeleteNamespace, Enter, Phases, Bindings,
           Contents, Subjects, api, informers, worker
  <1>7. NoForgottenNamespace'
    BY <1>1, <1>2, RBACAssumption
       DEF IInv, TypeOK, NoForgottenNamespace, Progress, FirstLife, Held,
           Informed, Running, Coming, InHand, Bound, UpToDate,
           DeleteNamespace, Enter, Phases, Bindings, Contents, Subjects, api,
           informers, worker
  <1>8. QED
    BY <1>1, <1>2, <1>3, <1>4, <1>5, <1>6, <1>7 DEF IInv

LEMMA FinishNamespaceStep ==
    ASSUME IInv, NEW n \in Namespaces, FinishNamespace(n)
    PROVE  IInv'
  <1>1. TypeOK'
    <2>1. phase' \in [Namespaces -> Phases] /\ events' \in [Namespaces -> Seq(BOOLEAN)]
      BY EnterInforms DEF IInv, FinishNamespace, Phases
    <2>2. QED
      BY <2>1 DEF FinishNamespace, Enter, IInv, TypeOK, worker
  <1>2. (budget["tamper"] <= Limits["tamper"])' /\ (Untampered' => Untampered)
    BY TamperShows DEF IInv, FinishNamespace, Enter
  <1>3. Informed'
    BY EnterInforms DEF IInv, FinishNamespace, Phases
  <1>4. FirstLife'
    BY <1>2
       DEF IInv, TypeOK, FirstLife, FinishNamespace, Enter, Phases, api,
           informers, worker
  <1>5. Held'
    BY NowhereType
       DEF IInv, TypeOK, Held, FinishNamespace, Enter, Steps, Bindings, api,
           informers, worker
  <1>6. Progress'
    BY <1>1, <1>2, RBACAssumption
       DEF IInv, TypeOK, Progress, FirstLife, Held, Informed, Running, Coming,
           Bound, UpToDate, FinishNamespace, Enter, Phases, Bindings,
           Contents, Subjects, api, informers, worker
  <1>7. NoForgottenNamespace'
    BY <1>1, <1>2, RBACAssumption
       DEF IInv, TypeOK, NoForgottenNamespace, Progress, FirstLife, Held,
           Informed, Running, Coming, InHand, Bound, UpToDate,
           FinishNamespace, Enter, Phases, Bindings, Contents, Subjects, api,
           informers, worker
  <1>8. QED
    BY <1>1, <1>2, <1>3, <1>4, <1>5, <1>6, <1>7 DEF IInv

LEMMA EmptyAccountStep ==
    ASSUME IInv, NEW n \in Namespaces, EmptyAccount(n)
    PROVE  IInv'
  <1>1. TypeOK'
    BY NowhereType, RBACAssumption
       DEF IInv, TypeOK, EmptyAccount, RemoveAccount, Steps, Phases, Contents,
           Hazards, Subjects, Bindings, api, informers, worker
  <1>2. (budget["tamper"] <= Limits["tamper"])' /\ (Untampered' => Untampered)
    BY TamperShows DEF IInv, EmptyAccount, RemoveAccount
  <1>3. Informed'
    BY
       DEF IInv, TypeOK, Informed, Running, EmptyAccount, RemoveAccount, api,
           informers, worker
  <1>4. FirstLife'
    BY <1>2
       DEF IInv, TypeOK, FirstLife, EmptyAccount, RemoveAccount, Phases, api,
           informers, worker
  <1>5. Held'
    BY NowhereType
       DEF IInv, TypeOK, Held, EmptyAccount, RemoveAccount, Steps, Bindings,
           api, informers, worker
  <1>6. Progress'
    BY <1>1, <1>2, RBACAssumption
       DEF IInv, TypeOK, Progress, FirstLife, Held, Informed, Running, Coming,
           Bound, UpToDate, EmptyAccount, RemoveAccount, Phases, Bindings,
           Contents, Subjects, api, informers, worker
  <1>7. NoForgottenNamespace'
    BY <1>1, <1>2, RBACAssumption
       DEF IInv, TypeOK, NoForgottenNamespace, Progress, FirstLife, Held,
           Informed, Running, Coming, InHand, Bound, UpToDate, EmptyAccount,
           RemoveAccount, Phases, Bindings, Contents, Subjects, api,
           informers, worker
  <1>8. QED
    BY <1>1, <1>2, <1>3, <1>4, <1>5, <1>6, <1>7 DEF IInv

LEMMA TamperAccountStep ==
    ASSUME IInv, NEW n \in Namespaces, TamperAccount(n)
    PROVE  IInv'
  <1>1. TypeOK'
    <2>1. budget' \in [Hazards -> Nat]
      BY SpendTypes DEF IInv, TamperAccount, Hazards
    <2>2. QED
      BY <2>1 DEF IInv, TypeOK, TamperAccount, RemoveAccount, informers, worker
  <1>2. (budget["tamper"] <= Limits["tamper"])' /\ ~Untampered'
    BY TamperShows DEF IInv, TamperAccount, RemoveAccount
  <1>3. Informed'
    BY
       DEF IInv, TypeOK, Informed, Running, TamperAccount, RemoveAccount, api,
           informers, worker
  <1>4. FirstLife'
    BY <1>2 DEF IInv, FirstLife, TamperAccount, RemoveAccount, informers
  <1>5. Held'
    BY NowhereType
       DEF IInv, TypeOK, Held, TamperAccount, RemoveAccount, Steps, Bindings,
           api, informers, worker
  <1>6. Progress'
    BY <1>2 DEF Progress
  <1>7. NoForgottenNamespace'
    BY <1>2 DEF NoForgottenNamespace
  <1>8. QED
    BY <1>1, <1>2, <1>3, <1>4, <1>5, <1>6, <1>7 DEF IInv

LEMMA EmptyBindingStep ==
    ASSUME IInv, NEW n \in Namespaces, NEW b \in Bindings, EmptyBinding(n, b)
    PROVE  IInv'
  <1>1. TypeOK'
    BY NowhereType, RBACAssumption
       DEF IInv, TypeOK, EmptyBinding, SetBinding, Steps, Phases, Contents,
           Hazards, Subjects, Bindings, api, informers, worker
  <1>2. (budget["tamper"] <= Limits["tamper"])' /\ (Untampered' => Untampered)
    BY TamperShows DEF IInv, EmptyBinding, SetBinding
  <1>3. Informed'
    BY
       DEF IInv, TypeOK, Informed, Running, EmptyBinding, SetBinding, api,
           informers, worker
  <1>4. FirstLife'
    BY <1>2
       DEF IInv, TypeOK, FirstLife, EmptyBinding, SetBinding, Phases, api,
           informers, worker
  <1>5. Held'
    BY NowhereType
       DEF IInv, TypeOK, Held, EmptyBinding, SetBinding, Steps, Bindings, api,
           informers, worker
  <1>6. Progress'
    BY <1>1, <1>2, RBACAssumption
       DEF IInv, TypeOK, Progress, FirstLife, Held, Informed, Running, Coming,
           Bound, UpToDate, EmptyBinding, SetBinding, Phases, Bindings,
           Contents, Subjects, api, informers, worker
  <1>7. NoForgottenNamespace'
    BY <1>1, <1>2, RBACAssumption
       DEF IInv, TypeOK, NoForgottenNamespace, Progress, FirstLife, Held,
           Informed, Running, Coming, InHand, Bound, UpToDate, EmptyBinding,
           SetBinding, Phases, Bindings, Contents, Subjects, api, informers,
           worker
  <1>8. QED
    BY <1>1, <1>2, <1>3, <1>4, <1>5, <1>6, <1>7 DEF IInv

LEMMA TamperBindingStep ==
    ASSUME IInv, NEW n \in Namespaces, NEW b \in Bindings, TamperBinding(n, b)
    PROVE  IInv'
  <1>1. TypeOK'
    <2>1. budget' \in [Hazards -> Nat]
      BY SpendTypes DEF IInv, TypeOK, TamperBinding, Hazards
    <2>2. binding' \in [Namespaces -> [Bindings -> Contents]]
      <3>1. NoBinding \in Contents /\ binding \in [Namespaces -> [Bindings -> Contents]]
        BY DEF IInv, TypeOK, Contents
      <3>2. CASE SetBinding(n, b, NoBinding)
        <4>1. [binding[n] EXCEPT ![b] = NoBinding] \in [Bindings -> Contents]
          BY <3>1
        <4>2. QED
          BY <3>1, <3>2, <4>1 DEF SetBinding
      <3>3. CASE binding[n][b] # NoBinding /\ SetBinding(n, b, binding[n][b] \ {Account})
        <4>1. binding[n][b] \ {Account} \in Contents
          BY <3>1, <3>3 DEF Contents
        <4>2. [binding[n] EXCEPT ![b] = binding[n][b] \ {Account}] \in [Bindings -> Contents]
          BY <3>1, <4>1
        <4>3. QED
          BY <3>1, <3>3, <4>2 DEF SetBinding
      <3>4. QED
        BY <3>2, <3>3 DEF TamperBinding
    <2>3. QED
      BY <2>1, <2>2 DEF IInv, TypeOK, TamperBinding, SetBinding, informers
  <1>2. (budget["tamper"] <= Limits["tamper"])' /\ ~Untampered'
    BY TamperShows DEF IInv, TamperBinding, SetBinding
  <1>3. Informed'
    BY
       DEF IInv, TypeOK, Informed, Running, TamperBinding, SetBinding, api,
           informers, worker
  <1>4. FirstLife'
    BY <1>2
       DEF IInv, TypeOK, FirstLife, TamperBinding, SetBinding, Phases, api,
           informers, worker
  <1>5. Held'
    <2>1. UNCHANGED <<pc, cur, which, held>>
      BY DEF TamperBinding, SetBinding
    <2>2. fresh' => fresh /\ <<n, b>> # <<cur, which>>
      BY DEF TamperBinding, SetBinding
    <2>3. \A m \in Namespaces, c \in Bindings :
             <<m, c>> # <<n, b>> => binding'[m][c] = binding[m][c]
      BY DEF TamperBinding, SetBinding, IInv, TypeOK
    <2>4. QED
      BY <2>1, <2>2, <2>3 DEF IInv, Held, TypeOK
  <1>6. Progress'
    BY <1>2 DEF Progress
  <1>7. NoForgottenNamespace'
    BY <1>2 DEF NoForgottenNamespace
  <1>8. QED
    BY <1>1, <1>2, <1>3, <1>4, <1>5, <1>6, <1>7 DEF IInv

LEMMA AddSubjectStep ==
    ASSUME IInv, NEW n \in Namespaces, NEW b \in Bindings, NEW s \in Others, AddSubject(n, b, s)
    PROVE  IInv'
  <1>1. TypeOK'
    <2>1. budget' \in [Hazards -> Nat]
      BY SpendTypes DEF IInv, TypeOK, AddSubject, Hazards
    <2>2. binding' \in [Namespaces -> [Bindings -> Contents]]
      BY DEF IInv, TypeOK, AddSubject, SetBinding, Contents, Subjects
    <2>3. QED
      BY <2>1, <2>2 DEF IInv, TypeOK, AddSubject, SetBinding, informers
  <1>2. (budget["tamper"] <= Limits["tamper"])' /\ (Untampered' => Untampered)
    BY TamperShows DEF IInv, AddSubject, SetBinding
  <1>3. Informed'
    BY
       DEF IInv, TypeOK, Informed, Running, AddSubject, SetBinding, api,
           informers, worker
  <1>4. FirstLife'
    BY <1>2
       DEF IInv, TypeOK, FirstLife, AddSubject, SetBinding, Phases, api,
           informers, worker
  <1>5. Held'
    BY NowhereType
       DEF IInv, TypeOK, Held, AddSubject, SetBinding, Steps, Bindings, api,
           informers, worker
  <1>6. Progress'
    BY <1>1, <1>2, RBACAssumption
       DEF IInv, TypeOK, Progress, FirstLife, Held, Informed, Running, Coming,
           Bound, UpToDate, AddSubject, SetBinding, Phases, Bindings,
           Contents, Subjects, api, informers, worker
  <1>7. NoForgottenNamespace'
    BY <1>1, <1>2, RBACAssumption
       DEF IInv, TypeOK, NoForgottenNamespace, Progress, FirstLife, Held,
           Informed, Running, Coming, InHand, Bound, UpToDate, AddSubject,
           SetBinding, Phases, Bindings, Contents, Subjects, api, informers,
           worker
  <1>8. QED
    BY <1>1, <1>2, <1>3, <1>4, <1>5, <1>6, <1>7 DEF IInv

\* Users who take their own grants back leave the account's.
LEMMA RemoveSubjectStep ==
    ASSUME IInv, NEW n \in Namespaces, NEW b \in Bindings, NEW s \in Others, RemoveSubject(n, b, s)
    PROVE  IInv'
  <1>1. TypeOK'
    <2>1. budget' \in [Hazards -> Nat]
      BY SpendTypes DEF IInv, TypeOK, RemoveSubject, Hazards
    <2>2. binding' \in [Namespaces -> [Bindings -> Contents]]
      BY DEF IInv, TypeOK, RemoveSubject, SetBinding, Contents, Subjects
    <2>3. QED
      BY <2>1, <2>2 DEF IInv, TypeOK, RemoveSubject, SetBinding, informers
  <1>2. (budget["tamper"] <= Limits["tamper"])' /\ (Untampered' => Untampered)
    BY TamperShows DEF IInv, RemoveSubject, SetBinding
  <1>3. Informed'
    BY
       DEF IInv, TypeOK, Informed, Running, RemoveSubject, SetBinding, api,
           informers, worker
  <1>4. FirstLife'
    BY <1>2
       DEF IInv, TypeOK, FirstLife, RemoveSubject, SetBinding, Phases, api,
           informers, worker
  <1>5. Held'
    BY NowhereType
       DEF IInv, TypeOK, Held, RemoveSubject, SetBinding, Steps, Bindings,
           api, informers, worker
  <1>6. Progress'
    BY <1>1, <1>2, RBACAssumption
       DEF IInv, TypeOK, Progress, FirstLife, Held, Informed, Running, Coming,
           Bound, UpToDate, RemoveSubject, SetBinding, Phases, Bindings,
           Contents, Subjects, api, informers, worker
  <1>7. NoForgottenNamespace'
    BY <1>1, <1>2, RBACAssumption
       DEF IInv, TypeOK, NoForgottenNamespace, Progress, FirstLife, Held,
           Informed, Running, Coming, InHand, Bound, UpToDate, RemoveSubject,
           SetBinding, Phases, Bindings, Contents, Subjects, api, informers,
           worker
  <1>8. QED
    BY <1>1, <1>2, <1>3, <1>4, <1>5, <1>6, <1>7 DEF IInv

LEMMA TamperRoleStep ==
    ASSUME IInv, TamperRole
    PROVE  IInv'
  <1>1. TypeOK'
    <2>1. budget' \in [Hazards -> Nat]
      BY SpendTypes DEF IInv, TamperRole, Hazards
    <2>2. QED
      BY <2>1 DEF IInv, TypeOK, TamperRole, informers, worker
  <1>2. (budget["tamper"] <= Limits["tamper"])' /\ ~Untampered'
    BY TamperShows DEF IInv, TamperRole
  <1>3. Informed'
    BY DEF IInv, TypeOK, Informed, Running, TamperRole, api, informers, worker
  <1>4. FirstLife'
    BY <1>2
       DEF IInv, TypeOK, FirstLife, TamperRole, Phases, api, informers, worker
  <1>5. Held'
    BY NowhereType
       DEF IInv, TypeOK, Held, TamperRole, Steps, Bindings, api, informers,
           worker
  <1>6. Progress'
    BY <1>1, <1>2, RBACAssumption
       DEF IInv, TypeOK, Progress, FirstLife, Held, Informed, Running, Coming,
           Bound, UpToDate, TamperRole, Phases, Bindings, Contents, Subjects,
           api, informers, worker
  <1>7. NoForgottenNamespace'
    BY <1>1, <1>2, RBACAssumption
       DEF IInv, TypeOK, NoForgottenNamespace, Progress, FirstLife, Held,
           Informed, Running, Coming, InHand, Bound, UpToDate, TamperRole,
           Phases, Bindings, Contents, Subjects, api, informers, worker
  <1>8. QED
    BY <1>1, <1>2, <1>3, <1>4, <1>5, <1>6, <1>7 DEF IInv

-----------------------------------------------------------------------------
(* The theorems. *)

LEMMA StepIInv == IInv /\ [Next]_vars => IInv'
  <1> SUFFICES ASSUME IInv, [Next]_vars PROVE IInv'
    OBVIOUS
  <1>1. CASE Handler
    BY <1>1, EnsureAccountStep, EnsureRoleStep, GetBindingStep, CheckRoleStep,
       WriteBindingStep DEF Handler
  <1>2. CASE Start \/ Crash \/ TamperRole
    BY <1>2, StartStep, CrashStep, TamperRoleStep
  <1>3. ASSUME NEW n \in Namespaces, Take(n) \/ Informers(n) PROVE IInv'
    BY <1>3, TakeStep, NamespaceEventStep, ResyncStep, AccountSyncStep
       DEF Informers
  <1>4. ASSUME NEW n \in Namespaces, Environment(n) PROVE IInv'
    BY <1>4, CreateNamespaceStep, DeleteNamespaceStep, EmptyAccountStep,
       FinishNamespaceStep, TamperAccountStep, EmptyBindingStep,
       TamperBindingStep, AddSubjectStep, RemoveSubjectStep DEF Environment
  <1>5. CASE UNCHANGED vars
    BY <1>5
       DEF vars, api, informers, worker, IInv, TypeOK, Informed, FirstLife, Held,
           Progress, NoForgottenNamespace, Untampered, Running, Coming, InHand,
           Bound, UpToDate
  <1>6. QED
    BY <1>1, <1>2, <1>3, <1>4, <1>5 DEF Next

\* The inductive invariant of Reconcile and everything around it.
THEOREM IInvHolds == Spec => []IInv
  BY InitIInv, StepIInv, PTL DEF Spec

\* Every variable keeps its type; in particular no role binding is ever written
\* with anything but subjects (updateRoleBinding).
THEOREM TypeCorrect == Spec => []TypeOK
  <1>1. IInv => TypeOK
    BY DEF IInv
  <1>2. QED
    BY <1>1, IInvHolds, PTL

\* Unless users undo the operator's work, no namespace is left aside by Reconcile
\* before it has what it is due.
THEOREM NothingForgotten == Spec => []NoForgottenNamespace
  <1>1. IInv => NoForgottenNamespace
    BY DEF IInv
  <1>2. QED
    BY <1>1, IInvHolds, PTL

-----------------------------------------------------------------------------
(* The refinement. *)

LEMMA HandlerFollows ==
    ASSUME IInv, Handler
    PROVE  [Access!AccessNext]_(Access!accessVars)
  <1>0. TypeOK /\ Held
    BY DEF IInv
  <1>1. CASE UNCHANGED <<phase, account, binding>>
    BY <1>1 DEF Access!accessVars
  <1>2. CASE EnsureAccount /\ account' # account
    <2>1. /\ phase[cur] = "active" /\ cur \notin account /\ cur \notin Ignored
          /\ account' = account \cup {cur} /\ UNCHANGED <<phase, binding>>
      BY <1>0, <1>2 DEF EnsureAccount, Held
    <2>2. Access!GiveAccount(cur)
      BY <2>1 DEF Access!GiveAccount
    <2>3. QED
      BY <1>0, <2>2 DEF Access!AccessNext, TypeOK
  <1>3. CASE WriteBinding /\ binding' # binding
    <2>1. /\ ~UpToDate /\ Accepted /\ UNCHANGED <<phase, account>>
          /\ binding' = [binding EXCEPT ![cur] = [@ EXCEPT ![which] = Intended]]
          /\ cur \notin Ignored /\ cur \in Namespaces /\ which \in Bindings
      BY <1>0, <1>3 DEF WriteBinding, Held, TypeOK
    <2>2. Access!Grant(cur, which)
      <3>1. CASE held = NoBinding
        BY <2>1, <3>1
           DEF Accepted, Intended, Access!Grant, Access!Exists, Access!SetBinding
      <3>2. CASE held # NoBinding
        BY <1>0, <2>1, <3>2
           DEF Accepted, Intended, UpToDate, Held, Access!Grant, Access!Exists,
               Access!SetBinding
      <3>3. QED
        BY <3>1, <3>2
    <2>3. QED
      BY <2>1, <2>2 DEF Access!AccessNext
  <1>4. QED
    BY <1>1, <1>2, <1>3
       DEF Handler, EnsureAccount, EnsureRole, GetBinding, CheckRole,
           WriteBinding, api

LEMMA EnvironmentFollows ==
    ASSUME IInv, NEW n \in Namespaces, Environment(n)
    PROVE  [Access!AccessNext]_(Access!accessVars)
  <1>1. CASE CreateNamespace(n)
    BY <1>1 DEF CreateNamespace, Enter, Access!Create, Access!AccessNext
  <1>2. CASE DeleteNamespace(n)
    BY <1>2 DEF DeleteNamespace, Enter, Access!Terminate, Access!AccessNext
  <1>3. CASE FinishNamespace(n)
    BY <1>3 DEF FinishNamespace, Enter, Access!Vanish, Access!Exists,
                Access!AccessNext
  <1>4. CASE EmptyAccount(n) \/ TamperAccount(n)
    BY <1>4 DEF EmptyAccount, TamperAccount, RemoveAccount, Access!LoseAccount,
                Access!AccessNext
  <1>5. ASSUME NEW b \in Bindings, EmptyBinding(n, b) \/ TamperBinding(n, b)
        PROVE  Access!AccessNext
    <2>1. Access!LoseBinding(n, b) \/ Access!Dismiss(n, b, Account)
      BY <1>5
         DEF EmptyBinding, TamperBinding, SetBinding, Access!LoseBinding,
             Access!Dismiss, Access!Exists, Access!SetBinding
    <2>2. QED
      BY <2>1 DEF Access!AccessNext, Access!Subjects
  <1>6. ASSUME NEW b \in Bindings, NEW s \in Others,
               AddSubject(n, b, s) \/ RemoveSubject(n, b, s)
        PROVE  Access!AccessNext
    <2>1. Access!Invite(n, b, s) \/ Access!Dismiss(n, b, s)
      BY <1>6
         DEF AddSubject, RemoveSubject, SetBinding, Access!Invite,
             Access!Dismiss, Access!Exists, Access!SetBinding
    <2>2. QED
      BY <2>1 DEF Access!AccessNext, Access!Subjects
  <1>7. QED
    BY <1>1, <1>2, <1>3, <1>4, <1>5, <1>6 DEF Environment

\* Reconcile implements NamespaceAccess: it adds its account to the bindings and
\* the namespaces it is responsible for, and neither loses nor revives a subject.
THEOREM Implements == Spec => FollowsAccess
  <1>1. Init => Access!AccessInit
    BY DEF Init, Access!AccessInit
  <1>2. IInv /\ [Next]_vars => [Access!AccessNext]_(Access!accessVars)
    <2> SUFFICES ASSUME IInv, [Next]_vars
                 PROVE  [Access!AccessNext]_(Access!accessVars)
      OBVIOUS
    <2>1. CASE Handler
      BY <2>1, HandlerFollows
    <2>2. ASSUME NEW n \in Namespaces, Environment(n)
          PROVE  [Access!AccessNext]_(Access!accessVars)
      BY <2>2, EnvironmentFollows
    <2>3. CASE \/ Start \/ Crash \/ TamperRole \/ UNCHANGED vars
               \/ \E n \in Namespaces : Take(n) \/ Informers(n)
      BY <2>3
         DEF Start, Crash, TamperRole, vars, Take, Informers, NamespaceEvent,
             Resync, AccountSync, api, Access!accessVars
    <2>4. QED
      BY <2>1, <2>2, <2>3 DEF Next
  <1>3. QED
    BY <1>1, <1>2, IInvHolds, PTL DEF Spec, FollowsAccess, Access!AccessSpec
=============================================================================
