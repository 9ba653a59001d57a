----------------------- MODULE ConfigControllerProofs -----------------------
(***************************************************************************)
(* Proofs about ConfigController, for every set of builds and namespaces   *)
(* and every budget of the environment.                                    *)
(***************************************************************************)
EXTENDS ConfigController, TLAPS

-----------------------------------------------------------------------------
(* The status codes. *)

\* What the handlers record are codes, and a code is recorded by one outcome of
\* one handler only.
LEMMA CodesOfHandlers ==
    /\ AppliedCode \in [Components -> Codes]
    /\ ApplyErrorCode \in [Components -> Codes]
    /\ ValidatedCode \in [Core -> Codes]
    /\ ValidateErrorCode \in [Core -> Codes]
    /\ \A c, d \in Components :
          /\ AppliedCode[c] = AppliedCode[d] => c = d
          /\ AppliedCode[c] # ApplyErrorCode[d]
    /\ \A c \in Components, d \in Core :
          AppliedCode[c] \notin ValidateOutcomes(d)
    /\ "empty" \in Codes
  BY DEF AppliedCode, ApplyErrorCode, ValidatedCode, ValidateErrorCode,
         ValidateOutcomes, Components, Core, Extras, Codes

LEMMA OutcomesInCodes ==
    /\ \A c \in Components : ApplyOutcomes(c) \subseteq Codes
    /\ \A c \in Core : ValidateOutcomes(c) \subseteq Codes
  BY CodesOfHandlers DEF ApplyOutcomes, ValidateOutcomes, Components

\* Reconcile's dispatch: the outcomes of the handler it picks follow the code.
LEMMA ApplyFollows ==
    ASSUME NEW c \in Components, NEW code \in ApplyOn[c]
    PROVE  ApplyOutcomes(c) \subseteq Successors(code)
  BY OutcomesInCodes DEF Successors

LEMMA ValidateFollows ==
    ASSUME NEW c \in Core, NEW code \in ValidateOn[c]
    PROVE  ValidateOutcomes(c) \subseteq Successors(code)
  BY OutcomesInCodes DEF Successors

LEMMA ReopenFollows ==
    ApplyOutcomes("pipeline") \subseteq Successors("installed")
  BY OutcomesInCodes DEF Successors, Components, Core

\* A handler that brings the status past the apply of a component either just
\* applied it or was dispatched on a status past it already.
LEMMA SuccessorsPastApply ==
    ASSUME NEW code \in Codes, NEW k \in Successors(code), NEW c \in Core,
           k \in PastApply[c]
    PROVE  k = AppliedCode[c] \/ code \in PastApply[c]
  <1>1. CASE \E d \in Components : code \in ApplyOn[d] /\ k \in ApplyOutcomes(d)
    BY <1>1 DEF ApplyOn, ApplyOutcomes, AppliedCode, ApplyErrorCode, PastApply,
                Components, Core, Extras, Codes
  <1>2. CASE \E d \in Core : code \in ValidateOn[d] /\ k \in ValidateOutcomes(d)
    BY <1>2 DEF ValidateOn, ValidateOutcomes, ValidatedCode, ValidateErrorCode,
                PastApply, Core, Codes
  <1>3. CASE code = "installed" /\ k \in ApplyOutcomes("pipeline")
    BY <1>3 DEF ApplyOutcomes, AppliedCode, ApplyErrorCode, PastApply, Core, Codes
  <1>4. QED
    BY <1>1, <1>2, <1>3 DEF Successors

-----------------------------------------------------------------------------
(* The inductive invariant. *)

LEMMA EmptyIsNotPast == \A c \in Core : "empty" \notin PastApply[c]
  BY DEF PastApply, Core

\* A handler that installs works for a Config, in one of the namespaces.
LEMMA HandlerConfig ==
    ASSUME IInv, pc \in Installing
    PROVE  cfg.ns \in Namespaces /\ cfg.uid \in Nat
  <1>1. cfg \in Configs /\ cfg.uid # 0
    BY DEF IInv, TypeOK, Dispatched, Exists
  <1>2. CASE cfg = NoConfig
    BY <1>1, <1>2 DEF NoConfig
  <1>3. CASE cfg # NoConfig
    BY <1>1, <1>3 DEF Configs
  <1>4. QED
    BY <1>2, <1>3

LEMMA IdleTypes == NoConfig \in Configs /\ "pipeline" \in Components
  BY DEF Configs, Components, Core

LEMMA AbsentIsEmpty == \A config \in Configs : ~Exists(config) => config.code = "empty"
  <1> SUFFICES ASSUME NEW config \in Configs, config.uid = 0
               PROVE  config.code = "empty"
    BY DEF Exists
  <1>0. NoConfig.code = "empty"
    BY DEF NoConfig
  <1>1. CASE config = NoConfig
    BY <1>0, <1>1
  <1>2. CASE config # NoConfig
    BY <1>2 DEF Configs
  <1>3. QED
    BY <1>1, <1>2

LEMMA NewConfigType ==
    ASSUME uids \in Nat, NEW ns \in Namespaces
    PROVE  NewConfig(ns) \in Configs
  <1>1. uids + 1 \in Nat \ {0}
    OBVIOUS
  <1>2. QED
    BY <1>1, CodesOfHandlers DEF NewConfig, Configs

LEMMA BudgetType ==
    ASSUME TypeOK, NEW h \in Hazards, Spend(h)
    PROVE  budget' \in [Hazards -> Nat]
  BY DEF TypeOK, Spend

LEMMA WorkloadTypes ==
    /\ NoWorkload \in Workloads
    /\ \A w \in Workloads :
          /\ w.terminating \in BOOLEAN
          /\ [w EXCEPT !.terminating = TRUE] \in Workloads
          /\ build \in Builds /\ cfg.uid \in Nat =>
                /\ Applied(w) \in Workloads
                /\ Applied(w).by = build
                /\ Applied(w).owner = cfg.uid
  BY DEF NoWorkload, Workloads, Statuses, Applied

LEMMA WorkloadStatus ==
    ASSUME NEW w \in Workloads, NEW status \in Statuses
    PROVE  /\ [w EXCEPT !.status = status] \in Workloads
           /\ [w EXCEPT !.status = status].owner = w.owner
           /\ [w EXCEPT !.status = status].by = w.by
  BY DEF Workloads

\* What patches and deletions make of the cluster-scoped objects.
LEMMA RestTypes ==
    ASSUME TypeOK, NEW c \in Core,
           NEW f \in [Parts -> Presence], rest' = [rest EXCEPT ![c] = f]
    PROVE  rest' \in [Core -> [Parts -> Presence]]
  BY DEF TypeOK

LEMMA PatchTypes ==
    ASSUME TypeOK, NEW c \in Core, NEW S, Patch(c, S)
    PROVE  rest' \in [Core -> [Parts -> Presence]]
  BY DEF TypeOK, Patch, Presence

\* An Apply, however far it gets, takes nothing away.
LEMMA PatchKeeps ==
    ASSUME TypeOK, NEW c \in Core, NEW S, Patch(c, S), NEW d \in Core, InPlace(d)
    PROVE  InPlace(d)'
  BY DEF TypeOK, Patch, InPlace

\* And one that gets to its end leaves all of it, unless some of it is being deleted.
LEMMA PatchCompletes ==
    ASSUME TypeOK, NEW c \in Core, Patch(c, Parts), ~Overlaps(c)
    PROVE  InPlace(c)'
  BY DEF TypeOK, Patch, InPlace, Overlaps, Presence

LEMMA HeldUnchanged ==
    UNCHANGED <<rest, overlapped>> => \A c \in Core : Held(c)' <=> Held(c)
  BY DEF Held, InPlace

LEMMA ExtraTypes ==
    /\ NoExtra \in ExtraSets
    /\ \A x \in ExtraSets :
          /\ Partly(x) \in ExtraSets
          /\ Remains(x) \subseteq ExtraSets
          /\ \A roles \in BOOLEAN :
                [Partly(x) EXCEPT !.roles = roles] \in ExtraSets
    /\ \A roles \in BOOLEAN : [NoExtra EXCEPT !.roles = roles] \in ExtraSets
  <1>1. NoExtra \in ExtraSets
    BY DEF NoExtra, ExtraSets
  <1>2. ASSUME NEW x \in ExtraSets
        PROVE  Partly(x) \in ExtraSets
    BY DEF Partly, ExtraSets
  <1>3. ASSUME NEW x \in ExtraSets, NEW roles \in BOOLEAN
        PROVE  [x EXCEPT !.roles = roles] \in ExtraSets
    BY DEF ExtraSets
  <1>4. ASSUME NEW x \in ExtraSets
        PROVE  Remains(x) \subseteq ExtraSets
    <2>1. x.roles \in BOOLEAN
      BY DEF ExtraSets
    <2>2. QED
      BY <1>1, <1>2, <1>3, <2>1 DEF Remains
  <1>5. QED
    BY <1>1, <1>2, <1>3, <1>4

LEMMA WriteExtraTypes ==
    ASSUME TypeOK, comp \in Extras, NEW x \in ExtraSets, WriteExtra(x)
    PROVE  extra' \in [Extras -> ExtraSets]
  BY DEF TypeOK, WriteExtra

LEMMA InitIInv == Init => IInv
  <1> SUFFICES ASSUME Init PROVE IInv
    OBVIOUS
  <1>1. TypeOK
    BY ControllerAssumption DEF Init, TypeOK, NoConfig, Configs, NoWorkload, Workloads, Statuses,
           NoExtra, ExtraSets, Parts, Presence, Steps, Components, Core, Extras,
           Codes
  <1>2. Reads /\ Dispatched /\ Backed /\ NoTeardownOfLiveInstall
    BY DEF Init, Reads, Running, Dispatched, Installing, Applying, Backed,
           NoTeardownOfLiveInstall, NoConfig
  <1>3. ManifestInPlace
    BY EmptyIsNotPast DEF Init, ManifestInPlace, NoConfig
  <1>4. QED
    BY <1>1, <1>2, <1>3 DEF IInv

LEMMA ReconcileIInv == IInv /\ Reconcile => IInv'
  <1> SUFFICES ASSUME IInv, Reconcile PROVE IInv'
    OBVIOUS
  <1> USE DEF IInv
  <1>1. TypeOK'
    BY DEF TypeOK, Reconcile, Goto, FirstStep, Steps, Components, Core, Extras,
           object, cluster, process
  <1>2. Reads'
    BY DEF Reads, Reconcile, Goto, Running, FirstStep,
           object, cluster, process
  <1>3. Dispatched'
    <2>1. CASE ~Exists(cache)
      BY <2>1 DEF Dispatched, Installing, Applying, Reconcile, Goto
    <2>2. ASSUME Exists(cache), NEW c \in Components, cache.code \in ApplyOn[c],
                 Goto(FirstStep(c), c), cfg' = cache
          PROVE  Dispatched'
      <3>1. cache.code # "installed"
        BY <2>2 DEF ApplyOn, Components, Core, Extras
      <3>2. ApplyOutcomes(c) \subseteq Successors(cache.code)
        BY <2>2, ApplyFollows
      <3>3. QED
        BY <2>2, <3>1, <3>2
           DEF Dispatched, Installing, Applying, Goto, FirstStep
    <2>3. ASSUME Exists(cache), NEW c \in Core, cache.code \in ValidateOn[c],
                 Goto("validate", c), cfg' = cache
          PROVE  Dispatched'
      <3>1. cache.code # "installed"
        BY <2>3 DEF ValidateOn, Core
      <3>2. ValidateOutcomes(c) \subseteq Successors(cache.code)
        BY <2>3, ValidateFollows
      <3>3. QED
        BY <2>3, <3>1, <3>2 DEF Dispatched, Installing, Applying, Goto
    <2>4. CASE /\ Exists(cache)
               /\ cache.code = "installed"
               /\ ~UpToDate(cache.by, build)
               /\ Goto("apply_rest", "pipeline")
               /\ cfg' = cache
      BY <2>4, ReopenFollows
         DEF Dispatched, Installing, Applying, Goto, Reconcile, process
    <2>5. CASE UNCHANGED <<pc, comp, cfg, fresh>>
      BY <2>5 DEF Dispatched, Reconcile, process
    <2>6. QED
      BY <2>1, <2>2, <2>3, <2>4, <2>5 DEF Reconcile
  <1>4. Backed'
    BY DEF Backed, Reconcile, Goto, FirstStep
  <1>5. NoTeardownOfLiveInstall'
    BY DEF NoTeardownOfLiveInstall, Reads, Running, Reconcile, Goto, FirstStep,
           object, cluster, process
  <1>6. ManifestInPlace'
    BY HeldUnchanged DEF ManifestInPlace, Reconcile, object, cluster
  <1>7. QED
    BY <1>1, <1>2, <1>3, <1>4, <1>5, <1>6

LEMMA ApplyRestIInv == IInv /\ ApplyRest => IInv'
  <1> SUFFICES ASSUME IInv, ApplyRest PROVE IInv'
    OBVIOUS
  <1> USE DEF IInv
  <1>0. comp \in Core /\ cfg.ns \in Namespaces
    BY HandlerConfig DEF ApplyRest, TypeOK, Installing, Applying
  <1>a. \/ rest' = rest /\ overlapped' = overlapped
        \/ /\ \E S \in SUBSET Parts : Patch(comp, S)
           /\ overlapped' = overlapped
        \/ /\ Patch(comp, Parts)
           /\ overlapped' = IF Overlaps(comp) THEN overlapped \cup {comp}
                                              ELSE overlapped \ {comp}
    BY DEF ApplyRest
  <1>b. /\ comp' = comp
        /\ \/ /\ pc' = "apply_workload" /\ outcome' = outcome
              /\ Patch(comp, Parts)
              /\ overlapped' = IF Overlaps(comp) THEN overlapped \cup {comp}
                                                 ELSE overlapped \ {comp}
              /\ mem' = [mem EXCEPT ![comp] = cfg.ns]
           \/ pc' = "status" /\ outcome' = ApplyErrorCode[comp]
    BY DEF ApplyRest, Goto, Conclude
  <1>c. ASSUME NEW c \in Core, c = comp, Patch(comp, Parts),
               overlapped' = IF Overlaps(comp) THEN overlapped \cup {comp}
                                               ELSE overlapped \ {comp}
        PROVE  Held(c)'
    <2>1. CASE Overlaps(c)
      BY <1>c, <2>1 DEF Held
    <2>2. CASE ~Overlaps(c)
      <3>1. InPlace(c)'
        BY <1>c, <2>2, PatchCompletes
      <3>2. QED
        BY <3>1 DEF Held
    <2>3. QED
      BY <2>1, <2>2
  <1>1. TypeOK'
    <2>1. mem' \in [Core -> Namespaces]
      BY <1>0 DEF ApplyRest, TypeOK
    <2>2. rest' \in [Core -> [Parts -> Presence]]
      <3>1. rest \in [Core -> [Parts -> Presence]]
        BY DEF TypeOK
      <3>2. QED
        BY <1>0, <1>a, <3>1, PatchTypes
    <2>3. overlapped' \subseteq Core
      BY <1>0, <1>a DEF TypeOK
    <2>4. budget' \in [Hazards -> Nat]
      BY DEF ApplyRest, TypeOK, Spend
    <2>5. outcome' \in Codes
      BY <1>0, <1>b, CodesOfHandlers DEF TypeOK, Components
    <2>6. QED
      BY <1>0, <1>b, <2>1, <2>2, <2>3, <2>4, <2>5
         DEF TypeOK, ApplyRest, Steps, object, informers
  <1>2. Reads'
    BY <1>b DEF Reads, ApplyRest, Running, object, informers
  <1>3. Dispatched'
    BY <1>b DEF Dispatched, Installing, Applying, ApplyOutcomes, ApplyRest
  <1>4. Backed'
    <2>1. CASE pc' = "apply_workload"
      <3>1. (\A c \in Core : c = comp => Held(c)') /\ mem'[comp] = cfg.ns
        BY <1>0, <1>b, <1>c, <2>1 DEF TypeOK
      <3>2. QED
        BY <1>0, <1>b, <2>1, <3>1 DEF Backed, ApplyRest
    <2>2. CASE pc' = "status" /\ outcome' = ApplyErrorCode[comp]
      BY <1>0, <2>2, CodesOfHandlers DEF Backed, Components
    <2>3. QED
      BY <1>b, <2>1, <2>2
  <1>5. NoTeardownOfLiveInstall'
    BY <1>b DEF NoTeardownOfLiveInstall
  <1>6. ManifestInPlace'
    <2> SUFFICES ASSUME NEW c \in Core, Held(c)
                 PROVE  Held(c)'
      BY DEF ManifestInPlace, ApplyRest, object
    <2>1. InPlace(c) => InPlace(c)'
      <3>1. CASE rest' = rest
        BY <3>1 DEF InPlace
      <3>2. CASE \E S : Patch(comp, S)
        BY <1>0, <3>2, PatchKeeps
      <3>3. QED
        BY <1>a, <3>1, <3>2
    <2>2. CASE c = comp /\ overlapped' # overlapped
      BY <1>a, <1>c, <2>2
    <2>3. CASE c # comp \/ overlapped' = overlapped
      <3>1. c \in overlapped => c \in overlapped'
        BY <1>a, <2>3
      <3>2. QED
        BY <2>1, <3>1 DEF Held
    <2>4. QED
      BY <2>2, <2>3
  <1>7. QED
    BY <1>1, <1>2, <1>3, <1>4, <1>5, <1>6

LEMMA ApplyWorkloadIInv == IInv /\ ApplyWorkload => IInv'
  <1> SUFFICES ASSUME IInv, ApplyWorkload PROVE IInv'
    OBVIOUS
  <1> USE DEF IInv
  <1> DEFINE w == workload[comp][cfg.ns]
  <1>0. /\ comp \in Core /\ cfg.ns \in Namespaces /\ cfg.uid \in Nat
        /\ build \in Builds /\ w \in Workloads
    BY HandlerConfig DEF ApplyWorkload, TypeOK, Installing, Applying
  <1>a. \/ workload' = workload
        \/ workload' = [workload EXCEPT ![comp] = [@ EXCEPT ![cfg.ns] = Applied(w)]]
    BY DEF ApplyWorkload, WriteWorkload
  <1>b. \/ /\ outcome' = AppliedCode[comp]
           /\ workload' = [workload EXCEPT ![comp] = [@ EXCEPT ![cfg.ns] = Applied(w)]]
        \/ outcome' = ApplyErrorCode[comp]
    BY DEF ApplyWorkload, WriteWorkload, Conclude
  <1>c. pc' = "status" /\ comp' = comp
    BY DEF ApplyWorkload, Conclude, Goto
  <1>1. TypeOK'
    <2>1. workload' \in [Core -> [Namespaces -> Workloads]]
      <3>1. workload \in [Core -> [Namespaces -> Workloads]]
        BY DEF TypeOK
      <3>2. Applied(w) \in Workloads
        BY <1>0, WorkloadTypes
      <3>3. QED
        BY <1>0, <1>a, <3>1, <3>2
    <2>2. budget' \in [Hazards -> Nat]
      BY DEF ApplyWorkload, TypeOK, Spend
    <2>3. outcome' \in Codes
      BY <1>0, <1>b, CodesOfHandlers DEF Components
    <2>4. QED
      BY <1>0, <1>c, <2>1, <2>2, <2>3
         DEF TypeOK, ApplyWorkload, Steps, object, informers, process
  <1>2. Reads'
    BY <1>c DEF Reads, ApplyWorkload, Running, object, informers
  <1>3. Dispatched'
    BY <1>b, <1>c
       DEF Dispatched, Installing, Applying, ApplyOutcomes, ApplyWorkload, process
  <1>4. Backed'
    <2> SUFFICES ASSUME NEW c \in Core, outcome' = AppliedCode[c]
                 PROVE  InHand(c)'
      BY <1>c DEF Backed
    <2>1. c = comp /\ outcome' # ApplyErrorCode[comp]
      BY <1>0, <1>b, CodesOfHandlers DEF Components
    <2>2. /\ workload'[c][cfg.ns] = Applied(w)
          /\ Applied(w).by = build /\ Applied(w).owner = cfg.uid
      <3>1. workload \in [Core -> [Namespaces -> Workloads]]
        BY DEF TypeOK
      <3>2. Applied(w).by = build /\ Applied(w).owner = cfg.uid
        BY <1>0, WorkloadTypes
      <3>3. workload'[c][cfg.ns] = Applied(w)
        BY <1>0, <1>b, <2>1, <3>1
      <3>4. QED
        BY <3>2, <3>3
    <2>3. Held(c)' /\ mem[c] = cfg.ns
      BY <1>0, <2>1, HeldUnchanged DEF Backed, ApplyWorkload
    <2>4. QED
      BY <2>2, <2>3 DEF InHand, ApplyWorkload, process
  <1>5. NoTeardownOfLiveInstall'
    BY <1>c DEF NoTeardownOfLiveInstall
  <1>6. ManifestInPlace'
    BY HeldUnchanged DEF ManifestInPlace, ApplyWorkload, object
  <1>7. QED
    BY <1>1, <1>2, <1>3, <1>4, <1>5, <1>6

LEMMA RecreateDeleteIInv == IInv /\ RecreateDelete => IInv'
  <1> SUFFICES ASSUME IInv, RecreateDelete PROVE IInv'
    OBVIOUS
  <1> USE DEF IInv
  <1> DEFINE w == workload[comp][cfg.ns]
  <1>0. comp \in Core /\ cfg.ns \in Namespaces /\ w \in Workloads
    BY HandlerConfig DEF RecreateDelete, TypeOK, Installing, Applying
  <1>a. \/ workload' = workload
        \/ workload' = [workload EXCEPT ![comp] =
                          [@ EXCEPT ![cfg.ns] = [w EXCEPT !.terminating = TRUE]]]
    BY DEF RecreateDelete, WriteWorkload
  <1>b. /\ comp' = comp
        /\ \/ pc' = "recreate" /\ outcome' = outcome
           \/ pc' = "status" /\ outcome' = ApplyErrorCode[comp]
    BY DEF RecreateDelete, Conclude, Goto
  <1>1. TypeOK'
    <2>1. workload' \in [Core -> [Namespaces -> Workloads]]
      <3>1. workload \in [Core -> [Namespaces -> Workloads]]
        BY DEF TypeOK
      <3>2. [w EXCEPT !.terminating = TRUE] \in Workloads
        BY <1>0, WorkloadTypes
      <3>3. QED
        BY <1>0, <1>a, <3>1, <3>2
    <2>2. budget' \in [Hazards -> Nat]
      BY DEF RecreateDelete, TypeOK, Spend
    <2>3. outcome' \in Codes
      BY <1>0, <1>b, CodesOfHandlers DEF Components, TypeOK
    <2>4. QED
      BY <1>0, <1>b, <2>1, <2>2, <2>3
         DEF TypeOK, RecreateDelete, Steps, object, informers, process
  <1>2. Reads'
    BY <1>b DEF Reads, RecreateDelete, Running, object, informers
  <1>3. Dispatched'
    BY <1>b DEF Dispatched, Installing, Applying, ApplyOutcomes, RecreateDelete,
                process
  <1>4. Backed'
    BY <1>0, <1>b, HeldUnchanged, CodesOfHandlers
       DEF Backed, RecreateDelete, Components, process
  <1>5. NoTeardownOfLiveInstall'
    BY <1>b DEF NoTeardownOfLiveInstall
  <1>6. ManifestInPlace'
    BY HeldUnchanged DEF ManifestInPlace, RecreateDelete, object
  <1>7. QED
    BY <1>1, <1>2, <1>3, <1>4, <1>5, <1>6

LEMMA RecreateApplyIInv == IInv /\ RecreateApply => IInv'
  <1> SUFFICES ASSUME IInv, RecreateApply PROVE IInv'
    OBVIOUS
  <1> USE DEF IInv
  <1> DEFINE w == Applied(NoWorkload)
  <1>0. /\ comp \in Core /\ cfg.ns \in Namespaces /\ cfg.uid \in Nat
        /\ build \in Builds
    BY HandlerConfig DEF RecreateApply, TypeOK, Installing, Applying
  <1>a. \/ workload' = workload
        \/ workload' = [workload EXCEPT ![comp] = [@ EXCEPT ![cfg.ns] = w]]
    BY DEF RecreateApply, WriteWorkload
  <1>b. \/ /\ outcome' = AppliedCode[comp]
           /\ workload' = [workload EXCEPT ![comp] = [@ EXCEPT ![cfg.ns] = w]]
        \/ outcome' = ApplyErrorCode[comp]
    BY DEF RecreateApply, WriteWorkload, Conclude
  <1>c. pc' = "status" /\ comp' = comp
    BY DEF RecreateApply, Conclude, Goto
  <1>1. TypeOK'
    <2>1. workload' \in [Core -> [Namespaces -> Workloads]]
      <3>1. workload \in [Core -> [Namespaces -> Workloads]]
        BY DEF TypeOK
      <3>2. w \in Workloads
        BY <1>0, WorkloadTypes
      <3>3. QED
        BY <1>0, <1>a, <3>1, <3>2
    <2>2. budget' \in [Hazards -> Nat]
      BY DEF RecreateApply, TypeOK, Spend
    <2>3. outcome' \in Codes
      BY <1>0, <1>b, CodesOfHandlers DEF Components
    <2>4. QED
      BY <1>0, <1>c, <2>1, <2>2, <2>3
         DEF TypeOK, RecreateApply, Steps, object, informers, process
  <1>2. Reads'
    BY <1>c DEF Reads, RecreateApply, Running, object, informers
  <1>3. Dispatched'
    BY <1>b, <1>c
       DEF Dispatched, Installing, Applying, ApplyOutcomes, RecreateApply, process
  <1>4. Backed'
    <2> SUFFICES ASSUME NEW c \in Core, outcome' = AppliedCode[c]
                 PROVE  InHand(c)'
      BY <1>c DEF Backed
    <2>1. c = comp /\ outcome' # ApplyErrorCode[comp]
      BY <1>0, <1>b, CodesOfHandlers DEF Components
    <2>2. /\ workload'[c][cfg.ns] = w
          /\ w.by = build /\ w.owner = cfg.uid
      <3>1. workload \in [Core -> [Namespaces -> Workloads]]
        BY DEF TypeOK
      <3>2. w.by = build /\ w.owner = cfg.uid
        BY <1>0, WorkloadTypes
      <3>3. workload'[c][cfg.ns] = w
        BY <1>0, <1>b, <2>1, <3>1
      <3>4. QED
        BY <3>2, <3>3
    <2>3. Held(c)' /\ mem[c] = cfg.ns
      BY <1>0, <2>1, HeldUnchanged DEF Backed, RecreateApply
    <2>4. QED
      BY <2>2, <2>3 DEF InHand, RecreateApply, process
  <1>5. NoTeardownOfLiveInstall'
    BY <1>c DEF NoTeardownOfLiveInstall
  <1>6. ManifestInPlace'
    BY HeldUnchanged DEF ManifestInPlace, RecreateApply, object
  <1>7. QED
    BY <1>1, <1>2, <1>3, <1>4, <1>5, <1>6

LEMMA RecreateTimeoutIInv == IInv /\ RecreateTimeout => IInv'
  <1> SUFFICES ASSUME IInv, RecreateTimeout PROVE IInv'
    OBVIOUS
  <1> USE DEF IInv
  <1>0. comp \in Core
    BY DEF RecreateTimeout, TypeOK
  <1>a. pc' = "status" /\ comp' = comp /\ outcome' = ApplyErrorCode[comp]
    BY DEF RecreateTimeout, Conclude, Goto
  <1>1. TypeOK'
    <2>1. outcome' \in Codes
      BY <1>0, <1>a, CodesOfHandlers DEF Components
    <2>2. budget' \in [Hazards -> Nat]
      BY BudgetType DEF RecreateTimeout, Hazards
    <2>3. QED
      BY <1>a, <2>1, <2>2 DEF TypeOK, RecreateTimeout, Steps,
                              object, cluster, informers, process
  <1>2. Reads'
    BY <1>a DEF Reads, RecreateTimeout, Running, object, informers
  <1>3. Dispatched'
    BY <1>a DEF Dispatched, Installing, Applying, ApplyOutcomes,
                RecreateTimeout, process
  <1>4. Backed'
    BY <1>0, <1>a, CodesOfHandlers DEF Backed, Components
  <1>5. NoTeardownOfLiveInstall'
    BY <1>a DEF NoTeardownOfLiveInstall
  <1>6. ManifestInPlace'
    BY HeldUnchanged DEF ManifestInPlace, RecreateTimeout, object, cluster
  <1>7. QED
    BY <1>1, <1>2, <1>3, <1>4, <1>5, <1>6

LEMMA ValidateIInv == IInv /\ Validate => IInv'
  <1> SUFFICES ASSUME IInv, Validate PROVE IInv'
    OBVIOUS
  <1> USE DEF IInv
  <1>0. comp \in Core
    BY DEF Validate, TypeOK
  <1>a. \/ /\ pc' = "status" /\ comp' = comp
           /\ outcome' \in ValidateOutcomes(comp)
           /\ UNCHANGED <<cfg, fresh, queued>>
        \/ /\ pc' = "idle" /\ comp' = "pipeline" /\ outcome' = "empty"
           /\ cfg' = NoConfig /\ fresh' = FALSE /\ queued' = TRUE
    BY DEF Validate, Conclude, Return, Goto, ValidateOutcomes
  <1>1. TypeOK'
    <2>1. outcome' \in Codes
      BY <1>0, <1>a, OutcomesInCodes, CodesOfHandlers
    <2>2. /\ pc' \in {"status", "idle"} /\ comp' \in Components
          /\ cfg' \in Configs /\ fresh' \in BOOLEAN /\ queued' \in BOOLEAN
      BY <1>a, IdleTypes DEF TypeOK
    <2>3. UNCHANGED <<object, cluster, lag, cache, seen, process, budget>>
      BY DEF Validate
    <2>4. QED
      <3>1. /\ pc' \in Steps
            /\ pc' \notin {"apply_rest", "apply_workload", "recreate",
                         "validate", "extra_delete", "extra_create"}
        BY <2>2 DEF Steps
      <3>2. QED
        BY <2>1, <2>2, <2>3, <3>1 DEF TypeOK, object, cluster, process
  <1>2. Reads'
    BY <1>a DEF Reads, Validate, Running, object
  <1>3. Dispatched'
    BY <1>a DEF Dispatched, Installing, Applying, Validate, process
  <1>4. Backed'
    BY <1>0, <1>a, CodesOfHandlers DEF Backed, Components
  <1>5. NoTeardownOfLiveInstall'
    BY <1>a DEF NoTeardownOfLiveInstall
  <1>6. ManifestInPlace'
    BY HeldUnchanged DEF ManifestInPlace, Validate, object, cluster
  <1>7. QED
    BY <1>1, <1>2, <1>3, <1>4, <1>5, <1>6

LEMMA ExtraDeleteIInv == IInv /\ ExtraDelete => IInv'
  <1> SUFFICES ASSUME IInv, ExtraDelete PROVE IInv'
    OBVIOUS
  <1> USE DEF IInv
  <1>0. comp \in Extras
    BY DEF ExtraDelete, TypeOK
  <1>a. /\ comp' = comp
        /\ \/ pc' = "extra_create" /\ outcome' = outcome
           \/ pc' = "status" /\ outcome' = ApplyErrorCode[comp]
    BY DEF ExtraDelete, Conclude, Goto
  <1>1. TypeOK'
    <2>1. outcome' \in Codes
      BY <1>0, <1>a, CodesOfHandlers DEF Components, TypeOK
    <2>2. extra' \in [Extras -> ExtraSets]
      <3>1. extra[comp] \in ExtraSets
        BY <1>0 DEF TypeOK
      <3>2. PICK x \in ExtraSets : WriteExtra(x)
        BY <3>1, ExtraTypes DEF ExtraDelete
      <3>3. QED
        BY <1>0, <3>2, WriteExtraTypes
    <2>3. budget' \in [Hazards -> Nat]
      BY DEF ExtraDelete, TypeOK, Spend
    <2>4. QED
      BY <1>0, <1>a, <2>1, <2>2, <2>3
         DEF TypeOK, ExtraDelete, Steps, object, informers, process
  <1>2. Reads'
    BY <1>a DEF Reads, ExtraDelete, Running, object, informers
  <1>3. Dispatched'
    BY <1>a DEF Dispatched, Installing, Applying, ApplyOutcomes, ExtraDelete,
                process
  <1>4. Backed'
    BY <1>0, <1>a, CodesOfHandlers DEF Backed, Components
  <1>5. NoTeardownOfLiveInstall'
    BY <1>a DEF NoTeardownOfLiveInstall
  <1>6. ManifestInPlace'
    BY HeldUnchanged DEF ManifestInPlace, ExtraDelete, object
  <1>7. QED
    BY <1>1, <1>2, <1>3, <1>4, <1>5, <1>6

LEMMA ExtraCreateIInv == IInv /\ ExtraCreate => IInv'
  <1> SUFFICES ASSUME IInv, ExtraCreate PROVE IInv'
    OBVIOUS
  <1> USE DEF IInv
  <1>0. comp \in Extras /\ cfg.uid \in Nat /\ build \in Builds
    BY HandlerConfig DEF ExtraCreate, TypeOK, Installing, Applying
  <1>a. /\ pc' = "status" /\ comp' = comp
        /\ outcome' \in ApplyOutcomes(comp)
    BY DEF ExtraCreate, Conclude, Goto, ApplyOutcomes
  <1>1. TypeOK'
    <2>1. outcome' \in Codes
      BY <1>0, <1>a, OutcomesInCodes DEF Components
    <2>2. extra' \in [Extras -> ExtraSets]
      <3>1. Installed(comp) \in ExtraSets
        BY <1>0 DEF Installed, ExtraSets
      <3>2. \/ UNCHANGED extra
            \/ WriteExtra(Installed(comp))
            \/ \E roles \in BOOLEAN :
                  WriteExtra([Partly(Installed(comp)) EXCEPT !.roles = roles])
        BY DEF ExtraCreate
      <3>3. UNCHANGED extra \/ \E x \in ExtraSets : WriteExtra(x)
        BY <3>1, <3>2, ExtraTypes
      <3>4. QED
        BY <1>0, <3>3, WriteExtraTypes DEF TypeOK
    <2>3. budget' \in [Hazards -> Nat]
      BY DEF ExtraCreate, TypeOK, Spend
    <2>4. QED
      BY <1>0, <1>a, <2>1, <2>2, <2>3
         DEF TypeOK, ExtraCreate, Steps, object, informers, process
  <1>2. Reads'
    BY <1>a DEF Reads, ExtraCreate, Running, object, informers
  <1>3. Dispatched'
    BY <1>a DEF Dispatched, Installing, Applying, ExtraCreate, process
  <1>4. Backed'
    <2>1. \A c \in Core : outcome' # AppliedCode[c]
      BY <1>0, <1>a, CodesOfHandlers
         DEF ApplyOutcomes, Components, Core, Extras
    <2>2. QED
      BY <1>a, <2>1 DEF Backed
  <1>5. NoTeardownOfLiveInstall'
    BY <1>a DEF NoTeardownOfLiveInstall
  <1>6. ManifestInPlace'
    BY HeldUnchanged DEF ManifestInPlace, ExtraCreate, object
  <1>7. QED
    BY <1>1, <1>2, <1>3, <1>4, <1>5, <1>6

LEMMA WriteStatusIInv == IInv /\ WriteStatus => IInv'
  <1> SUFFICES ASSUME IInv, WriteStatus PROVE IInv'
    OBVIOUS
  <1> USE DEF IInv
  <1>a. /\ pc' = "idle" /\ comp' = "pipeline" /\ outcome' = "empty"
        /\ cfg' = NoConfig /\ fresh' = FALSE /\ queued' = TRUE
    BY DEF WriteStatus, Return, Goto
  <1>b. CASE UNCHANGED <<cr, lag>>
    <2>1. TypeOK'
      <3>1. budget' \in [Hazards -> Nat]
        BY DEF TypeOK, WriteStatus, Spend
      <3>2. QED
        BY <1>a, <1>b, <3>1, IdleTypes, CodesOfHandlers
           DEF TypeOK, WriteStatus, Steps, cluster, process
    <2>2. Reads' /\ ManifestInPlace'
      BY <1>a, <1>b, HeldUnchanged
         DEF Reads, ManifestInPlace, WriteStatus, Running, cluster
    <2>3. QED
      BY <1>a, <2>1, <2>2
         DEF Dispatched, Installing, Applying, Backed, NoTeardownOfLiveInstall
  <1>c. CASE /\ fresh
             /\ cr' = [cr EXCEPT !.code = outcome, !.by = build]
             /\ lag' = "status" /\ UNCHANGED budget
    <2>0. /\ cr = cfg /\ cache = cr /\ Exists(cr) /\ cr \in Configs
          /\ outcome \in Successors(cr.code) /\ outcome \in Codes
          /\ build \in Builds
      BY <1>c DEF Reads, Dispatched, Installing, TypeOK, WriteStatus
    <2>1. cr \in Configs \ {NoConfig}
      <3>1. NoConfig.uid = 0
        BY DEF NoConfig
      <3>2. QED
        BY <2>0, <3>1 DEF Exists
    <2>2. cr' \in Configs /\ cr'.code = outcome
      BY <1>c, <2>0, <2>1 DEF Configs
    <2>3. TypeOK'
      BY <1>a, <1>c, <2>2, IdleTypes, CodesOfHandlers
         DEF TypeOK, WriteStatus, Steps, cluster, process
    <2>4. Reads'
      BY <1>a, <1>c, <2>0 DEF Reads, WriteStatus, Running, Exists
    <2>5. ManifestInPlace'
      <3> SUFFICES ASSUME NEW c \in Core, outcome \in PastApply[c]
                   PROVE  Held(c)'
        BY <2>2 DEF ManifestInPlace
      <3>1. cr.code \in Codes
        BY <2>1 DEF Configs
      <3>2. outcome = AppliedCode[c] \/ cr.code \in PastApply[c]
        BY <2>0, <3>1, SuccessorsPastApply
      <3>3. Held(c)
        BY <3>2 DEF Backed, InHand, ManifestInPlace, WriteStatus
      <3>4. QED
        BY <3>3, HeldUnchanged DEF WriteStatus, cluster
    <2>6. QED
      BY <1>a, <2>3, <2>4, <2>5
         DEF Dispatched, Installing, Applying, Backed, NoTeardownOfLiveInstall
  <1>d. QED
    BY <1>b, <1>c DEF WriteStatus, MayWrite

LEMMA DeleteManifestIInv == IInv /\ DeleteManifest => IInv'
  <1> SUFFICES ASSUME IInv, DeleteManifest PROVE IInv'
    OBVIOUS
  <1> USE DEF IInv
  <1>0. cr.code = "empty" /\ cr' = cr
    BY DEF NoTeardownOfLiveInstall, DeleteManifest, object
  <1>b. \/ /\ comp \in Core
           /\ \E S \in SUBSET (Parts \cup {"namespaced"}) : Torn(comp, S)
        \/ \E x \in ExtraSets : AddonsTorn(x)
    <2>1. CASE comp \in Core /\ Torn(comp, Parts \cup {"namespaced"})
      BY <2>1
    <2>2. CASE AddonsTorn(NoExtra)
      BY <2>2, ExtraTypes
    <2>3. CASE \E x \in Remains(extra["addons"]) : AddonsTorn(x)
      <3>1. extra["addons"] \in ExtraSets
        BY DEF TypeOK, Extras
      <3>2. QED
        BY <2>3, <3>1, ExtraTypes
    <2>4. QED
      BY <2>1, <2>2, <2>3 DEF DeleteManifest
  <1>a. \/ /\ pc' = "delete" /\ comp' \in Components
           /\ UNCHANGED <<outcome, cfg, fresh, queued>>
        \/ /\ pc' = "idle" /\ comp' = "pipeline" /\ outcome' = "empty"
           /\ cfg' = NoConfig /\ fresh' = FALSE /\ queued' \in BOOLEAN
    <2>1. CASE comp \in Core /\ Goto("delete", NextDeleted[comp])
               /\ UNCHANGED <<outcome, cfg, fresh, queued>>
      BY <2>1 DEF Goto, NextDeleted, Components, Core, Extras
    <2>2. CASE Return(TRUE) \/ Return(FALSE)
      BY <2>2 DEF Return, Goto, TypeOK
    <2>3. QED
      BY <2>1, <2>2 DEF DeleteManifest
  <1>1. TypeOK'
    <2>1. ASSUME comp \in Core, NEW S, Torn(comp, S)
          PROVE  /\ rest' \in [Core -> [Parts -> Presence]]
                 /\ workload' \in [Core -> [Namespaces -> Workloads]]
                 /\ extra' \in [Extras -> ExtraSets]
                 /\ overlapped' \subseteq Core
      <3>1. rest' \in [Core -> [Parts -> Presence]]
        BY <2>1 DEF Torn, TypeOK, Presence
      <3>2. workload' \in [Core -> [Namespaces -> Workloads]]
        <4> DEFINE w == workload[comp][mem[comp]]
        <4>1. /\ workload \in [Core -> [Namespaces -> Workloads]]
              /\ mem[comp] \in Namespaces
          BY <2>1 DEF TypeOK
        <4>2. Deleted(w) \in Workloads
          BY <2>1, <4>1, WorkloadTypes DEF Deleted
        <4>3. \/ workload' = [workload EXCEPT ![comp] =
                                [@ EXCEPT ![mem[comp]] = Deleted(w)]]
              \/ UNCHANGED workload
          BY <2>1 DEF Torn
        <4>4. QED
          BY <2>1, <4>1, <4>2, <4>3
      <3>3. extra' \in [Extras -> ExtraSets] /\ overlapped' \subseteq Core
        BY <2>1 DEF Torn, TypeOK
      <3>4. QED
        BY <3>1, <3>2, <3>3
    <2>2. /\ rest' \in [Core -> [Parts -> Presence]]
          /\ workload' \in [Core -> [Namespaces -> Workloads]]
          /\ extra' \in [Extras -> ExtraSets]
          /\ overlapped' \subseteq Core
      <3>1. CASE \E x \in ExtraSets : AddonsTorn(x)
        BY <3>1 DEF AddonsTorn, TypeOK
      <3>2. QED
        BY <1>b, <2>1, <3>1
    <2>3. budget' \in [Hazards -> Nat]
      <3>1. UNCHANGED budget \/ Spend("fault")
        BY DEF DeleteManifest
      <3>2. QED
        BY <3>1 DEF TypeOK, Spend
    <2>4. QED
      BY <1>a, <2>2, <2>3, IdleTypes, CodesOfHandlers
         DEF TypeOK, DeleteManifest, Steps, object, process
  <1>2. Reads'
    BY <1>0, <1>a DEF Reads, DeleteManifest, Running, object
  <1>3. ManifestInPlace'
    BY <1>0, EmptyIsNotPast DEF ManifestInPlace
  <1>4. QED
    BY <1>0, <1>a, <1>1, <1>2, <1>3
       DEF Dispatched, Installing, Applying, Backed, NoTeardownOfLiveInstall

LEMMA StartIInv == IInv /\ Start => IInv'
  <1> SUFFICES ASSUME IInv, Start PROVE IInv'
    OBVIOUS
  <1> USE DEF IInv
  <1>0. pc' = "listing" /\ ~fresh
    BY DEF Start, Reads, Running
  <1>a. \/ UNCHANGED <<cr, uids>>
        \/ cr' = NewConfig(DefaultNamespace) /\ uids' = uids + 1
    BY DEF Start, object
  <1>1. TypeOK'
    <2>1. cr' \in Configs /\ uids' \in Nat
      <3>1. uids \in Nat /\ cr \in Configs
        BY DEF TypeOK
      <3>2. NewConfig(DefaultNamespace) \in Configs
        BY <3>1, ControllerAssumption, NewConfigType
      <3>3. QED
        BY <1>a, <3>1, <3>2
    <2>2. catalog' \in BOOLEAN /\ budget' \in [Hazards -> Nat]
      BY BudgetType DEF Start, TypeOK, Hazards
    <2>3. QED
      BY <1>0, <2>1, <2>2 DEF TypeOK, Start, Steps, cluster, informers
  <1>2. Reads'
    BY <1>0 DEF Reads, Start, Running, informers
  <1>3. ManifestInPlace'
    BY <1>a, EmptyIsNotPast, HeldUnchanged
       DEF ManifestInPlace, Start, NewConfig, cluster
  <1>4. QED
    BY <1>0, <1>1, <1>2, <1>3
       DEF Dispatched, Installing, Applying, Backed, NoTeardownOfLiveInstall

LEMMA ListenIInv == IInv /\ Listen => IInv'
  <1> SUFFICES ASSUME IInv, Listen PROVE IInv'
    OBVIOUS
  <1> USE DEF IInv
  <1>0. pc' = "idle" /\ cache' = cr /\ lag' = "none" /\ cr' = cr /\ ~fresh
    BY DEF Listen, Reads, Running, object
  <1>1. TypeOK'
    <2>1. seen' \in [Core -> [Namespaces -> Statuses]]
      BY DEF Listen, TypeOK, Workloads
    <2>2. QED
      BY <1>0, <2>1 DEF TypeOK, Listen, Steps, object, cluster, process
  <1>2. Reads'
    <2>1. ~Exists(cr) => cr.code = "empty"
      BY AbsentIsEmpty DEF TypeOK
    <2>2. QED
      BY <1>0, <2>1 DEF Reads, Listen, Running
  <1>3. ManifestInPlace'
    BY <1>0, HeldUnchanged DEF ManifestInPlace, Listen, cluster
  <1>4. QED
    BY <1>0, <1>1, <1>2, <1>3
       DEF Dispatched, Installing, Applying, Backed, NoTeardownOfLiveInstall

\* The end of a process, whatever ends it.
LEMMA ForgetIInv ==
    ASSUME IInv, Forget, UNCHANGED <<object, cluster>>,
           build' \in Builds, budget' \in [Hazards -> Nat]
    PROVE  IInv'
  <1> USE DEF IInv
  <1>1. TypeOK'
    BY ControllerAssumption, IdleTypes, CodesOfHandlers
       DEF TypeOK, Forget, Statuses, Steps, object, cluster
  <1>2. Reads'
    BY DEF Reads, Forget, Running
  <1>3. ManifestInPlace'
    BY HeldUnchanged DEF ManifestInPlace, object, cluster
  <1>4. QED
    BY <1>1, <1>2, <1>3
       DEF Forget, Dispatched, Installing, Applying, Backed,
           NoTeardownOfLiveInstall

LEMMA EndIInv == IInv /\ (Crash \/ Upgrade) => IInv'
  <1> SUFFICES ASSUME IInv, Crash \/ Upgrade PROVE IInv'
    OBVIOUS
  <1>1. build' \in Builds /\ budget' \in [Hazards -> Nat]
    BY BudgetType DEF IInv, TypeOK, Crash, Upgrade, Hazards, process
  <1>2. QED
    BY <1>1, ForgetIInv DEF Crash, Upgrade

LEMMA SyncConfigIInv == IInv /\ SyncConfig => IInv'
  <1> SUFFICES ASSUME IInv, SyncConfig PROVE IInv'
    OBVIOUS
  <1> USE DEF IInv
  <1>0. cache' = cr /\ lag' = "none" /\ UNCHANGED <<cr, pc, fresh, cfg>> /\ ~fresh
    BY DEF SyncConfig, Reads, object, worker
  <1>1. TypeOK'
    BY DEF TypeOK, SyncConfig, object, cluster, process, worker
  <1>2. Reads'
    <2>1. ~Exists(cr) => cr.code = "empty"
      BY AbsentIsEmpty DEF TypeOK
    <2>2. QED
      BY <1>0, <2>1 DEF Reads, Running
  <1>3. Dispatched' /\ Backed'
    BY HeldUnchanged
       DEF Dispatched, Backed, InHand, SyncConfig, TypeOK, cluster, process, worker
  <1>4. NoTeardownOfLiveInstall' /\ ManifestInPlace'
    BY HeldUnchanged
       DEF NoTeardownOfLiveInstall, ManifestInPlace, SyncConfig, object, cluster,
           worker
  <1>5. QED
    BY <1>1, <1>2, <1>3, <1>4

LEMMA SyncWorkloadIInv ==
    ASSUME IInv, NEW c \in Core, NEW ns \in Namespaces, SyncWorkload(c, ns)
    PROVE  IInv'
  <1> USE DEF IInv
  <1>1. TypeOK'
    <2>1. workload[c][ns].status \in Statuses
      BY DEF TypeOK, Workloads
    <2>2. seen' \in [Core -> [Namespaces -> Statuses]]
      BY <2>1 DEF TypeOK, SyncWorkload
    <2>3. QED
      BY <2>2 DEF TypeOK, SyncWorkload, object, cluster, process, worker
  <1>2. Reads'
    BY DEF Reads, Running, SyncWorkload, object, worker
  <1>3. Dispatched' /\ Backed'
    BY HeldUnchanged
       DEF Dispatched, Backed, InHand, SyncWorkload, TypeOK, cluster, process, worker
  <1>4. NoTeardownOfLiveInstall' /\ ManifestInPlace'
    BY HeldUnchanged
       DEF NoTeardownOfLiveInstall, ManifestInPlace, SyncWorkload, object,
           cluster, worker
  <1>5. QED
    BY <1>1, <1>2, <1>3, <1>4

\* The cluster's controllers never hand a workload to another owner or build.
LEMMA SetWorkloadIInv ==
    ASSUME IInv, NEW c \in Core, NEW ns \in Namespaces, NEW w \in Workloads,
           w = NoWorkload \/ (/\ w.owner = workload[c][ns].owner
                              /\ w.by = workload[c][ns].by),
           workload[c][ns] # NoWorkload,
           SetWorkload(c, ns, w), budget' \in [Hazards -> Nat]
    PROVE  IInv'
  <1> USE DEF IInv
  <1>0. workload \in [Core -> [Namespaces -> Workloads]]
    BY DEF TypeOK
  <1>a. workload' = [workload EXCEPT ![c] = [@ EXCEPT ![ns] = w]]
    BY DEF SetWorkload
  <1>1. TypeOK'
    <2>1. workload' \in [Core -> [Namespaces -> Workloads]]
      BY <1>0, <1>a
    <2>2. QED
      BY <2>1 DEF TypeOK, SetWorkload, object, informers, process, worker
  <1>2. Reads' /\ NoTeardownOfLiveInstall' /\ ManifestInPlace'
    BY HeldUnchanged
       DEF Reads, Running, NoTeardownOfLiveInstall, ManifestInPlace, SetWorkload,
           object, informers, worker
  <1>3. Dispatched'
    BY DEF Dispatched, SetWorkload, process, worker
  <1>4. Backed'
    <2>1. ASSUME NEW d \in Core, pc = "status", InHand(d)
          PROVE  InHand(d)'
      <3>1. cfg.ns \in Namespaces
        BY <2>1, HandlerConfig DEF Installing
      <3>2. \/ workload'[d][cfg.ns] = workload[d][cfg.ns]
            \/ workload'[d][cfg.ns] = w /\ d = c /\ cfg.ns = ns
        BY <1>0, <1>a, <3>1
      <3>3. QED
        BY <2>1, <3>2, HeldUnchanged DEF InHand, SetWorkload, process, worker
    <2>2. ASSUME pc \in {"apply_workload", "recreate"}
          PROVE  Held(comp)'
      BY <2>2, HeldUnchanged DEF Backed, SetWorkload, TypeOK, worker
    <2>3. QED
      BY <2>1, <2>2 DEF Backed, SetWorkload, process, worker
  <1>5. QED
    BY <1>1, <1>2, <1>3, <1>4

\* What goes for good was marked as overlapped, or no component in place had it.
LEMMA FinalizeRestIInv ==
    ASSUME IInv, NEW c \in Core, NEW p \in Parts, FinalizeRest(c, p)
    PROVE  IInv'
  <1> USE DEF IInv
  <1>1. TypeOK'
    <2>1. rest' \in [Core -> [Parts -> Presence]]
      BY DEF TypeOK, FinalizeRest, Presence
    <2>2. extra' \in [Extras -> ExtraSets]
      <3>1. \A d \in Extras : extra[d] \in ExtraSets /\ Partly(extra[d]) \in ExtraSets
        BY ExtraTypes DEF TypeOK
      <3>2. QED
        BY <3>1 DEF FinalizeRest
    <2>3. QED
      BY <2>1, <2>2 DEF TypeOK, FinalizeRest, object, informers, process, worker
  <1>2. ASSUME NEW d \in Core, Held(d)
        PROVE  Held(d)'
    <2>1. CASE d = c
      <3>1. ~InPlace(c)
        BY DEF FinalizeRest, InPlace
      <3>2. QED
        BY <1>2, <2>1, <3>1 DEF Held, FinalizeRest
    <2>2. CASE d # c
      <3>1. rest'[d] = rest[d]
        BY <2>2 DEF FinalizeRest, TypeOK
      <3>2. QED
        BY <1>2, <3>1 DEF Held, InPlace, FinalizeRest
    <2>3. QED
      BY <2>1, <2>2
  <1>3. Reads' /\ NoTeardownOfLiveInstall' /\ ManifestInPlace'
    BY <1>2 DEF Reads, Running, NoTeardownOfLiveInstall, ManifestInPlace,
                FinalizeRest, object, informers, worker
  <1>4. Dispatched' /\ Backed'
    BY <1>2 DEF Dispatched, Backed, InHand, FinalizeRest, TypeOK, process, worker
  <1>5. QED
    BY <1>1, <1>3, <1>4

LEMMA KubernetesIInv == IInv /\ Kubernetes => IInv'
  <1> SUFFICES ASSUME IInv, Kubernetes PROVE IInv'
    OBVIOUS
  <1>0. /\ workload \in [Core -> [Namespaces -> Workloads]]
        /\ budget \in [Hazards -> Nat] /\ TypeOK
    BY DEF IInv, TypeOK
  <1>1. ASSUME NEW c \in Core, NEW ns \in Namespaces, Finalize(c, ns)
        PROVE  IInv'
    <2>1. workload[c][ns] # NoWorkload
      BY <1>1 DEF Finalize, NoWorkload
    <2>2. QED
      BY <1>0, <1>1, <2>1, SetWorkloadIInv, WorkloadTypes DEF Finalize
  <1>2. ASSUME NEW c \in Core, NEW ns \in Namespaces, Rollout(c, ns)
        PROVE  IInv'
    <2> DEFINE w == [workload[c][ns] EXCEPT !.status = "available"]
    <2>1. workload[c][ns] # NoWorkload
      BY <1>2 DEF Rollout, NoWorkload
    <2>2. /\ w \in Workloads /\ w.owner = workload[c][ns].owner
          /\ w.by = workload[c][ns].by
      BY <1>0, WorkloadStatus DEF Statuses
    <2>3. SetWorkload(c, ns, w) /\ budget' \in [Hazards -> Nat]
      BY <1>0, <1>2 DEF Rollout
    <2> HIDE DEF w
    <2>4. QED
      BY <2>1, <2>2, <2>3, SetWorkloadIInv
  <1>3. ASSUME NEW c \in Core, NEW ns \in Namespaces, Stall(c, ns)
        PROVE  IInv'
    <2> DEFINE w == [workload[c][ns] EXCEPT !.status = "deadline"]
    <2>1. workload[c][ns] # NoWorkload
      BY <1>3 DEF Stall, NoWorkload
    <2>2. /\ w \in Workloads /\ w.owner = workload[c][ns].owner
          /\ w.by = workload[c][ns].by
      BY <1>0, WorkloadStatus DEF Statuses
    <2>3. SetWorkload(c, ns, w) /\ budget' \in [Hazards -> Nat]
      BY <1>0, <1>3, BudgetType DEF Stall, Hazards
    <2> HIDE DEF w
    <2>4. QED
      BY <2>1, <2>2, <2>3, SetWorkloadIInv
  <1>4. ASSUME NEW c \in Core, NEW ns \in Namespaces, CollectWorkload(c, ns)
        PROVE  IInv'
    BY <1>0, <1>4, SetWorkloadIInv, WorkloadTypes DEF CollectWorkload
  <1>5. ASSUME NEW c \in Extras, CollectExtra(c)
        PROVE  IInv'
    <2> USE DEF IInv
    <2>1. extra' \in [Extras -> ExtraSets]
      <3>1. extra[c].roles \in BOOLEAN
        BY <1>5 DEF TypeOK, ExtraSets
      <3>2. [NoExtra EXCEPT !.roles = extra[c].roles] \in ExtraSets
        BY <3>1, ExtraTypes
      <3>3. QED
        BY <1>5, <3>2 DEF TypeOK, CollectExtra
    <2>2. TypeOK'
      BY <1>5, <2>1 DEF TypeOK, CollectExtra, object, informers, process, worker
    <2>3. Reads' /\ NoTeardownOfLiveInstall' /\ ManifestInPlace'
      BY <1>5, HeldUnchanged
         DEF Reads, Running, NoTeardownOfLiveInstall, ManifestInPlace,
             CollectExtra, object, informers, worker
    <2>4. Dispatched' /\ Backed'
      BY <1>5, HeldUnchanged
         DEF Dispatched, Backed, InHand, CollectExtra, TypeOK, process, worker
    <2>5. QED
      BY <2>2, <2>3, <2>4
  <1>6. ASSUME NEW c \in Core, NEW p \in Parts, FinalizeRest(c, p)
        PROVE  IInv'
    BY <1>6, FinalizeRestIInv
  <1>7. QED
    BY <1>1, <1>2, <1>3, <1>4, <1>5, <1>6 DEF Kubernetes

\* A user's write outdates what the handler holds, and records no progress.
LEMMA OutdateIInv ==
    ASSUME IInv, Outdate, cr' \in Configs, cr'.code \in {cr.code, "empty"},
           uids' \in Nat, budget' \in [Hazards -> Nat]
    PROVE  IInv'
  <1> USE DEF IInv
  <1>1. TypeOK'
    BY DEF TypeOK, Outdate, cluster, process
  <1>2. Reads'
    BY DEF Reads, Running, Outdate
  <1>3. Dispatched' /\ Backed'
    BY HeldUnchanged
       DEF Dispatched, Backed, InHand, Outdate, TypeOK, cluster, process
  <1>4. NoTeardownOfLiveInstall'
    BY DEF NoTeardownOfLiveInstall, Outdate
  <1>5. ManifestInPlace'
    BY EmptyIsNotPast, HeldUnchanged DEF ManifestInPlace, Outdate, cluster
  <1>6. QED
    BY <1>1, <1>2, <1>3, <1>4, <1>5

LEMMA UserIInv == IInv /\ User => IInv'
  <1> SUFFICES ASSUME IInv, User PROVE IInv'
    OBVIOUS
  <1>0. /\ TypeOK /\ cr \in Configs /\ uids \in Nat
        /\ budget \in [Hazards -> Nat]
    BY DEF IInv, TypeOK
  <1>1. ASSUME NEW ns \in Namespaces, CreateConfig(ns)
        PROVE  IInv'
    <2>1. cr' \in Configs /\ cr'.code = "empty" /\ uids' \in Nat
      BY <1>0, <1>1, NewConfigType DEF CreateConfig, NewConfig
    <2>2. budget' \in [Hazards -> Nat]
      BY <1>0, <1>1, BudgetType DEF CreateConfig, Hazards
    <2>3. QED
      BY <1>0, <1>1, <2>1, <2>2, OutdateIInv DEF CreateConfig
  <1>2. ASSUME NEW ns \in Namespaces, SetTargetNamespace(ns)
        PROVE  IInv'
    <2>1. cr # NoConfig
      <3>1. NoConfig.uid = 0
        BY DEF NoConfig
      <3>2. QED
        BY <1>2, <3>1 DEF SetTargetNamespace, Exists
    <2>2. cr' \in Configs /\ cr'.code = cr.code
      BY <1>0, <1>2, <2>1 DEF SetTargetNamespace, Configs
    <2>3. budget' \in [Hazards -> Nat]
      BY <1>0, <1>2, BudgetType DEF SetTargetNamespace, Hazards
    <2>4. QED
      BY <1>0, <1>2, <2>2, <2>3, OutdateIInv DEF SetTargetNamespace
  <1>3. CASE DeleteConfig
    <2>1. cr' \in Configs /\ cr'.code = "empty"
      BY <1>3, IdleTypes DEF DeleteConfig, NoConfig
    <2>2. budget' \in [Hazards -> Nat]
      BY <1>0, <1>3, BudgetType DEF DeleteConfig, Hazards
    <2>3. QED
      BY <1>0, <1>3, <2>1, <2>2, OutdateIInv DEF DeleteConfig
  <1>4. QED
    BY <1>1, <1>2, <1>3 DEF User

LEMMA NextIInv == IInv /\ [Next]_vars => IInv'
  <1> SUFFICES ASSUME IInv, [Next]_vars PROVE IInv'
    OBVIOUS
  <1>1. CASE Handler
    BY <1>1, ReconcileIInv, ApplyRestIInv, ApplyWorkloadIInv, RecreateDeleteIInv,
       RecreateApplyIInv, RecreateTimeoutIInv, ValidateIInv, ExtraDeleteIInv,
       ExtraCreateIInv, WriteStatusIInv, DeleteManifestIInv
       DEF Handler
  <1>2. CASE Operator /\ ~Handler
    BY <1>2, StartIInv, ListenIInv, SyncConfigIInv, SyncWorkloadIInv DEF Operator
  <1>3. CASE Kubernetes
    BY <1>3, KubernetesIInv
  <1>4. CASE User
    BY <1>4, UserIInv
  <1>5. CASE Crash \/ Upgrade
    BY <1>5, EndIInv
  <1>6. CASE UNCHANGED vars
    BY <1>6, HeldUnchanged
       DEF IInv, TypeOK, Reads, Running, Dispatched, Backed, InHand,
           NoTeardownOfLiveInstall, ManifestInPlace,
           vars, object, cluster, informers, process, worker
  <1>7. QED
    BY <1>1, <1>2, <1>3, <1>4, <1>5, <1>6 DEF Next, Operator
-----------------------------------------------------------------------------
(* Theorems. *)

\* The inductive invariant holds in every reachable state of the controller.
THEOREM IInvHolds == Spec => []IInv
  <1>1. Init => IInv
    BY InitIInv
  <1>2. IInv /\ [Next]_vars => IInv'
    BY NextIInv
  <1>3. QED
    BY <1>1, <1>2, PTL DEF Spec

\* Type correctness of the Config controller and of the objects it works on.
THEOREM TypeCorrect == Spec => []TypeOK
  <1>1. IInv => TypeOK
    BY DEF IInv
  <1>2. QED
    BY <1>1, IInvHolds, PTL

\* No progress is ever recorded, or kept, without the cluster-scoped part of the
\* component it tells of, unless the apply went over a deletion that was not yet over
\* (applyPipeline, applyTriggers, reconcileDeletion).
THEOREM ManifestStaysInPlace == Spec => []ManifestInPlace
  <1>1. IInv => ManifestInPlace
    BY DEF IInv
  <1>2. QED
    BY <1>1, IInvHolds, PTL

\* reconcileDeletion never tears down an install whose Config has recorded
\* progress, whatever the informer that sent it there shows.
THEOREM TeardownIsSafe == Spec => []NoTeardownOfLiveInstall
  <1>1. IInv => NoTeardownOfLiveInstall
    BY DEF IInv
  <1>2. QED
    BY <1>1, IInvHolds, PTL

\* The ways in which a step changes the Config: updateStatus of a handler that
\* read the current version, and the user's three.
Recorded ==
    /\ pc = "status" /\ fresh
    /\ cr' = [cr EXCEPT !.code = outcome, !.by = build]
    /\ UNCHANGED <<cluster, process>>
Created == ~Exists(cr) /\ \E ns \in Namespaces : cr' = NewConfig(ns)
Removed == Exists(cr) /\ cr' = NoConfig
Retargeted == Exists(cr) /\ \E ns \in Namespaces : cr' = [cr EXCEPT !.ns = ns]

LEMMA ConfigSteps ==
    ASSUME [Next]_vars
    PROVE  UNCHANGED cr \/ Recorded \/ Created \/ Removed \/ Retargeted
  <1>1. CASE Handler
    <2>1. CASE WriteStatus
      BY <2>1 DEF WriteStatus, MayWrite, Recorded
    <2>2. CASE UNCHANGED object
      BY <2>2 DEF object
    <2>3. QED
      BY <1>1, <2>1, <2>2
         DEF Handler, Reconcile, ApplyRest, ApplyWorkload, RecreateDelete,
             RecreateApply, RecreateTimeout, Validate, ExtraDelete, ExtraCreate,
             DeleteManifest
  <1>2. CASE Start
    BY <1>2, ControllerAssumption DEF Start, Created, object
  <1>3. CASE Listen \/ SyncConfig \/
             \E c \in Core, ns \in Namespaces : SyncWorkload(c, ns)
    BY <1>3 DEF Listen, SyncConfig, SyncWorkload, object
  <1>4. CASE Kubernetes
    BY <1>4 DEF Kubernetes, Finalize, Rollout, Stall, CollectWorkload,
                CollectExtra, FinalizeRest, SetWorkload, object
  <1>5. CASE User
    BY <1>5 DEF User, CreateConfig, SetTargetNamespace, DeleteConfig,
                Created, Removed, Retargeted
  <1>6. CASE Crash \/ Upgrade
    BY <1>6 DEF Crash, Upgrade, object
  <1>7. CASE UNCHANGED vars
    BY <1>7 DEF vars, object
  <1>8. QED
    BY <1>1, <1>2, <1>3, <1>4, <1>5, <1>6, <1>7 DEF Next, Operator

\* A status write starts from the Config the handler was dispatched on.
LEMMA RecordedFromRead ==
    ASSUME IInv, Recorded
    PROVE  /\ cfg = cr /\ Exists(cr) /\ cr \in Configs \ {NoConfig}
           /\ outcome \in Successors(cr.code)
           /\ cr.code = "installed" => ~UpToDate(cr.by, build)
           /\ build \in Builds
           /\ cr'.uid = cr.uid /\ cr'.ns = cr.ns
           /\ cr'.code = outcome /\ cr'.by = build
  <1>1. /\ cfg = cr /\ Exists(cr) /\ outcome \in Successors(cr.code)
        /\ cr.code = "installed" => ~UpToDate(cr.by, build)
        /\ build \in Builds /\ cr \in Configs
    BY DEF IInv, Recorded, Reads, Dispatched, Installing, TypeOK
  <1>2. cr # NoConfig
    <2>1. NoConfig.uid = 0
      BY DEF NoConfig
    <2>2. QED
      BY <1>1, <2>1 DEF Exists
  <1>3. /\ cr'.uid = cr.uid /\ cr'.ns = cr.ns
        /\ cr'.code = outcome /\ cr'.by = build
    BY <1>1, <1>2 DEF Configs, Recorded
  <1>4. QED
    BY <1>1, <1>2, <1>3

\* A recorded success of applyPipeline or applyTriggers is about the namespace
\* the Config names, and about Deployments that are this Config's own.
THEOREM SuccessIsOwned == Spec => OwnedWhenRecorded
  <1> DEFINE A == \A c \in Core :
          cr'.code = AppliedCode[c] /\ cr.code # cr'.code =>
              /\ mem[c] = cr'.ns
              /\ LET w == workload[c][cr'.ns]
                 IN w = NoWorkload \/ (w.owner = cr'.uid /\ w.by = cr'.by)
  <1>1. IInv /\ [Next]_vars => A
    <2> SUFFICES ASSUME IInv, [Next]_vars, NEW c \in Core,
                        cr'.code = AppliedCode[c], cr.code # cr'.code
                 PROVE  /\ mem[c] = cr'.ns
                        /\ LET w == workload[c][cr'.ns]
                           IN w = NoWorkload
                              \/ (w.owner = cr'.uid /\ w.by = cr'.by)
      OBVIOUS
    <2>1. CASE Recorded
      <3>1. /\ cfg = cr /\ cr'.uid = cr.uid /\ cr'.ns = cr.ns
            /\ cr'.code = outcome /\ cr'.by = build
        BY <2>1, RecordedFromRead
      <3>2. InHand(c)
        BY <2>1, <3>1 DEF IInv, Backed, Recorded
      <3>3. QED
        BY <3>1, <3>2 DEF InHand
    <2>2. CASE UNCHANGED cr
      BY <2>2
    <2>3. CASE Created \/ Removed
      <3>1. NoConfig.code = "empty"
        BY DEF NoConfig
      <3>2. CASE Created
        <4>1. PICK ns \in Namespaces : cr' = NewConfig(ns)
          BY <3>2 DEF Created
        <4>2. cr'.code = "empty"
          BY <4>1 DEF NewConfig
        <4>3. QED
          BY <4>2 DEF AppliedCode, Core
      <3>3. CASE Removed
        <4>1. cr'.code = "empty"
          BY <3>1, <3>3 DEF Removed
        <4>2. QED
          BY <4>1 DEF AppliedCode, Core
      <3>4. QED
        BY <2>3, <3>2, <3>3
    <2>4. CASE Retargeted
      <3>1. cr \in Configs /\ cr # NoConfig
        <4>1. NoConfig.uid = 0
          BY DEF NoConfig
        <4>2. QED
          BY <2>4, <4>1 DEF IInv, TypeOK, Retargeted, Exists
      <3>2. cr'.code = cr.code
        BY <2>4, <3>1 DEF Retargeted, Configs
      <3>3. QED
        BY <3>2
    <2>5. QED
      BY <2>1, <2>2, <2>3, <2>4, ConfigSteps
  <1>2. IInv /\ [Next]_vars => [A]_vars
    BY <1>1
  <1>3. QED
    BY <1>2, IInvHolds, PTL DEF Spec, OwnedWhenRecorded

\* The controller implements ConfigLifecycle: every status it records follows the
\* one that is there.
THEOREM Implements == Spec => FollowsLifecycle
  <1>1. Init => Lifecycle!Init
    <2>1. NoConfig.uid = 0 /\ NoConfig.code = "empty" /\ NoConfig.by = NoBuild
      BY DEF NoConfig
    <2>2. QED
      BY <2>1 DEF Init, Lifecycle!Init, Exists
  <1>2. IInv /\ [Next]_vars => [Lifecycle!Next]_(Lifecycle!vars)
    <2> SUFFICES ASSUME IInv, [Next]_vars
                 PROVE  [Lifecycle!Next]_(Lifecycle!vars)
      OBVIOUS
    <2>0. NoConfig.uid = 0 /\ NoConfig.code = "empty" /\ NoConfig.by = NoBuild
      BY DEF NoConfig
    <2>a. /\ cr \in Configs /\ uids \in Nat
          /\ Exists(cr) => cr # NoConfig
          /\ ~Exists(cr) => cr = NoConfig
      <3>1. cr \in Configs /\ uids \in Nat
        BY DEF IInv, TypeOK
      <3>2. cr # NoConfig => cr.uid # 0
        BY <3>1 DEF Configs
      <3>3. QED
        BY <2>0, <3>1, <3>2 DEF Exists
    <2>1. CASE Recorded
      <3>1. Lifecycle!Successors(cr.code) = Successors(cr.code)
        BY DEF Successors, ApplyOutcomes, ValidateOutcomes, Codes, Components,
               Core, Extras, ApplyOn, ValidateOn, AppliedCode, ApplyErrorCode,
               ValidatedCode, ValidateErrorCode,
               Lifecycle!Successors, Lifecycle!ApplyOutcomes,
               Lifecycle!ValidateOutcomes, Lifecycle!Codes,
               Lifecycle!Components, Lifecycle!Core, Lifecycle!Extras,
               Lifecycle!ApplyOn, Lifecycle!ValidateOn, Lifecycle!AppliedCode,
               Lifecycle!ApplyErrorCode, Lifecycle!ValidatedCode,
               Lifecycle!ValidateErrorCode
      <3>2. Lifecycle!UpToDate(cr.by, build) <=> UpToDate(cr.by, build)
        BY DEF UpToDate, Lifecycle!UpToDate
      <3>3. /\ cfg = cr /\ Exists(cr) /\ cr'.uid = cr.uid
            /\ cr'.code \in Successors(cr.code) /\ cr'.by = build
            /\ build \in Builds
            /\ cr.code = "installed" => ~UpToDate(cr.by, build)
        BY <2>1, RecordedFromRead
      <3>4. Lifecycle!Record
        BY <3>1, <3>2, <3>3 DEF Lifecycle!Record, Exists
      <3>5. QED
        BY <3>4 DEF Lifecycle!Next
    <2>2. CASE UNCHANGED cr
      BY <2>2 DEF Lifecycle!vars, Exists
    <2>3. CASE Created
      <3>1. PICK ns \in Namespaces : cr' = NewConfig(ns)
        BY <2>3 DEF Created
      <3>2. cr'.uid = uids + 1 /\ cr'.code = "empty" /\ cr'.by = NoBuild
        BY <3>1 DEF NewConfig
      <3>3. QED
        BY <2>0, <2>a, <2>3, <3>2
           DEF Lifecycle!Next, Lifecycle!Create, Created, Exists
    <2>4. CASE Removed
      BY <2>0, <2>4 DEF Lifecycle!Next, Lifecycle!Delete, Removed, Exists
    <2>5. CASE Retargeted
      <3>1. cr'.uid = cr.uid /\ cr'.code = cr.code /\ cr'.by = cr.by
        BY <2>a, <2>5 DEF Retargeted, Configs
      <3>2. QED
        BY <3>1 DEF Lifecycle!vars, Exists
    <2>6. QED
      BY <2>1, <2>2, <2>3, <2>4, <2>5, ConfigSteps
  <1>3. QED
    BY <1>1, <1>2, IInvHolds, PTL DEF Spec, FollowsLifecycle, Lifecycle!Spec
=============================================================================
