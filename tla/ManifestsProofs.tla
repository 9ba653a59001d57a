-------------------------- MODULE ManifestsProofs --------------------------
(***************************************************************************)
(* Whatever is shipped, for any Configs, namespaces and overrides: what a  *)
(* manifest in memory is after however many transformations, and what is   *)
(* true of it, from what TransformProofs shows of one object.              *)
(***************************************************************************)
EXTENDS TransformProofs

LEMMA ConfigsTyped ==
    ASSUME NEW config \in Configs
    PROVE  config.uid \in Nat \ {0} /\ config.target \in STRING \ {None}
  <1>1. Targets \subseteq STRING \ {None} /\ MaxUid \in Nat
    BY ManifestsAssumption
  <1>2. config.uid \in 1..MaxUid /\ config.target \in Targets
    BY DEF Configs
  <1>3. config.uid \in Nat \ {0}
    BY <1>1, <1>2
  <1>4. config.target \in STRING /\ config.target # None
    BY <1>1, <1>2
  <1>5. QED
    BY <1>3, <1>4

\* transformManifest makes every well-formed object one of its Config.
LEMMA TransformPlaces ==
    ASSUME NEW c \in Components, NEW u, NEW e, NEW config \in Configs,
           WellFormed(u, config.uid)
    PROVE  LET t == TransformObject(c, u, config, e)
           IN WellFormed(t, config.uid) /\ OwnedAndPlaced(t, config)
  <1> DEFINE t == TransformObject(c, u, config, e)
  <1>1. config.uid \in Nat \ {0} /\ config.target \in STRING \ {None}
    BY ConfigsTyped
  <1>2. IsObject(u) /\ u.refs \subseteq Refs
    BY DEF WellFormed
  <1>3. Transformed(c, u, t, config, e)
    BY <1>1, <1>2, TransformedFields
  <1> HIDE DEF t
  <1>4. t.refs \subseteq Refs
    BY <1>1, <1>2, <1>3 DEF Transformed, References, Refs
  <1>5. t.kind \in ClusterScoped <=> u.kind \in ClusterScoped
    BY <1>3 DEF Transformed, KindOf, AppliedKind, ClusterScoped
  <1>6. /\ t.preserveNS = u.preserveNS /\ t.ns = NamespaceIn(u, config.target)
        /\ t.owners = IF u.kind \in ClusterScoped THEN u.owners ELSE {config.uid}
        /\ IsObject(t)
    BY <1>3 DEF Transformed
  <1>7. WellFormed(t, config.uid) /\ OwnedAndPlaced(t, config)
    BY <1>1, <1>4, <1>5, <1>6 DEF WellFormed, OwnedAndPlaced, NamespaceIn, Moves
  <1>8. QED
    BY <1>7 DEF t

LEMMA TransformManifestPlaces ==
    ASSUME NEW c \in Components, NEW objects, NEW e, NEW config \in Configs,
           \A u \in objects : WellFormed(u, config.uid)
    PROVE  \A v \in TransformManifest(c, objects, config, e) :
              WellFormed(v, config.uid) /\ OwnedAndPlaced(v, config)
  BY TransformPlaces DEF TransformManifest

\* The fields of a generated pipeline.
IsGenerated(p, name, params, tasks) ==
    /\ IsObject(p) /\ p.kind = "Pipeline" /\ p.name = name
    /\ p.ns = "openshift" /\ p.preserveNS = TRUE
    /\ p.owners = {} /\ p.refs = {} /\ p.containers = <<>>
    /\ p.params = {[name |-> q, default |-> None] : q \in params}
    /\ p.tasks = tasks

LEMMA GeneratedFields ==
    ASSUME NEW name, NEW params, NEW tasks
    PROVE  IsGenerated(GeneratedPipeline(name, params, tasks), name, params, tasks)
  <1> DEFINE defaults == {[name |-> q, default |-> None] : q \in params}
  <1>1. GeneratedPipeline(name, params, tasks) =
            [Blank EXCEPT !.kind = "Pipeline", !.name = name, !.ns = "openshift",
                          !.preserveNS = TRUE, !.tasks = tasks, !.params = defaults]
    BY DEF GeneratedPipeline, Blank
  <1> HIDE DEF defaults
  <1>2. QED
    BY <1>1 DEF IsGenerated, Blank, IsObject, Fields, defaults

\* For every runtime, environment and style of input there is one.
LEMMA GeneratedPipelines ==
    ASSUME NEW u \in Addons!CreatePipelines
    PROVE  \E style \in Addons!Styles, runtime \in DOMAIN Addons!Runtimes,
             environment \in Addons!Environments :
               IsGenerated(u, Addons!PipelineName(style, runtime, environment),
                           Addons!Template[style].params \cup Addons!VersionParam(runtime),
                           [Addons!Template[style].tasks EXCEPT
                               ![Addons!BuildIndex(style)] = Addons!BuildTask(style, runtime),
                               ![Addons!DeployIndex(style)] =
                                   Addons!DeployTask(style, environment)])
  <1>1. PICK style \in Addons!Styles, runtime \in DOMAIN Addons!Runtimes,
             environment \in Addons!Environments :
                u = Addons!Generate(style, runtime, environment)
    BY DEF Addons!CreatePipelines
  <1>2. QED
    BY <1>1, GeneratedFields DEF Addons!Generate

LEMMA GeneratedAsRead ==
    ASSUME NEW u \in Addons!CreatePipelines
    PROVE  AsRead(u) /\ u.refs = {} /\ u.kind = "Pipeline"
  <1>1. PICK name, params, tasks : IsGenerated(u, name, params, tasks)
    BY GeneratedPipelines
  <1>2. QED
    BY <1>1 DEF IsGenerated, AsRead, ClusterScoped

\* newReconciler reads what is shipped and generates the like.
LEMMA ReadAsRead ==
    ASSUME NEW found
    PROVE  /\ DOMAIN Read(found) = Components
           /\ \A c \in Components : \A u \in Read(found)[c] : AsRead(u)
  <1>1. \A part \in DOMAIN Resources : \A u \in Resources[part] : AsRead(u)
    BY ManifestsAssumption DEF AsShipped, AsRead
  <1>2. DOMAIN Resources = Components \cup {"optional"}
    BY ManifestsAssumption
  <1>3. QED
    BY <1>1, <1>2, GeneratedAsRead DEF Read, Components

LEMMA ReadWellFormed ==
    ASSUME NEW found, NEW uid \in Nat \ {0}
    PROVE  /\ DOMAIN Read(found) = Components
           /\ \A c \in Components : \A u \in Read(found)[c] : WellFormed(u, uid)
  BY ReadAsRead DEF AsRead, WellFormed

-----------------------------------------------------------------------------

LEMMA InitTyped == Init => TypeOK
  <1> SUFFICES ASSUME Init PROVE TypeOK
    OBVIOUS
  <1>1. cfg \in Configs
    BY ManifestsAssumption DEF Init, Configs
  <1>2. mem = Empty /\ up = FALSE /\ based = [c \in Components |-> Raw]
    BY DEF Init
  <1>3. QED
    BY <1>1, <1>2 DEF TypeOK, Empty

LEMMA NextTyped == TypeOK /\ [Next]_vars => TypeOK'
  <1> SUFFICES ASSUME TypeOK, [Next]_vars PROVE TypeOK'
    OBVIOUS
  <1>0. cfg.uid \in Nat \ {0} /\ cfg.uid \in 1..MaxUid /\ cfg.target \in Targets
    BY ManifestsAssumption DEF TypeOK, Configs
  <1>1. CASE Start
    BY <1>0, <1>1, ReadWellFormed DEF Start, TypeOK
  <1>2. CASE Stop
    BY <1>2 DEF Stop, TypeOK, Empty
  <1>3. ASSUME NEW c \in Components, Transform(c) PROVE TypeOK'
    <2>1. \A u \in mem'[c] : WellFormed(u, cfg.uid)
      BY <1>3, TransformManifestPlaces DEF Transform, TypeOK
    <2>2. QED
      BY <1>3, <2>1 DEF Transform, TypeOK
  <1>4. ASSUME NEW t \in Targets, EditTarget(t) PROVE TypeOK'
    BY <1>0, <1>4 DEF EditTarget, TypeOK, Configs
  <1>5. ASSUME NEW t \in Targets, RecreateConfig(t) PROVE TypeOK'
    <2>1. cfg' \in Configs /\ cfg'.uid = cfg.uid + 1
      BY <1>0, <1>5, ManifestsAssumption DEF RecreateConfig, Configs
    <2>2. \A u : WellFormed(u, cfg.uid) => WellFormed(u, cfg'.uid)
      BY <1>0, <2>1, ManifestsAssumption DEF WellFormed
    <2>3. QED
      BY <1>5, <2>1, <2>2 DEF RecreateConfig, TypeOK
  <1>6. CASE UNCHANGED vars
    BY <1>6 DEF vars, TypeOK
  <1>7. QED
    BY <1>1, <1>2, <1>3, <1>4, <1>5, <1>6 DEF Next

\* TypeOK: InjectOwner and InjectNamespace never give a cluster-scoped object an
\* owner or a namespace, whatever the manifests hold and however often they are
\* transformed.
THEOREM ManifestsTyped == Spec => []TypeOK
  BY InitTyped, NextTyped, PTL DEF Spec

LEMMA NextPlaced == TypeOK /\ LatestOwner /\ [Next]_vars => LatestOwner'
  <1> SUFFICES ASSUME TypeOK, LatestOwner, [Next]_vars PROVE LatestOwner'
    OBVIOUS
  <1>1. CASE Start \/ Stop
    <2>1. \/ UNCHANGED based /\ based = [c \in Components |-> Raw]
          \/ based' = [c \in Components |-> Raw]
      BY <1>1 DEF Start, Stop, TypeOK
    <2>2. QED
      BY <2>1 DEF LatestOwner
  <1>2. ASSUME NEW c \in Components, Transform(c) PROVE LatestOwner'
    <2>1. \A u \in mem'[c] : OwnedAndPlaced(u, cfg)
      BY <1>2, TransformManifestPlaces DEF Transform, TypeOK
    <2>2. based' = [based EXCEPT ![c] = cfg]
          /\ \A d \in Components \ {c} : mem'[d] = mem[d]
      BY <1>2 DEF Transform, TypeOK
    <2>3. QED
      BY <2>1, <2>2 DEF LatestOwner, TypeOK
  <1>3. CASE UNCHANGED <<mem, based>>
    BY <1>3 DEF LatestOwner
  <1>4. QED
    BY <1>1, <1>2, <1>3 DEF Next, EditTarget, RecreateConfig, vars

\* LatestOwner: however many Configs came and went, what transformManifest leaves
\* in memory belongs to the last one it was called for and lies in its namespace.
THEOREM ManifestsPlaced == Spec => []LatestOwner
  <1>1. Init => LatestOwner
    BY DEF Init, LatestOwner
  <1>2. QED
    BY <1>1, InitTyped, NextTyped, NextPlaced, PTL DEF Spec

-----------------------------------------------------------------------------
(* Nothing of an earlier Config stays behind. *)

LEMMA TransformManifestTwice ==
    ASSUME NEW c \in Components, NEW found, NEW e,
           NEW config \in Configs, NEW again \in Configs
    PROVE  TransformManifest(c, TransformManifest(c, Read(found)[c], config, e), again, e)
               = TransformManifest(c, Read(found)[c], again, e)
  <1>1. \A u \in Read(found)[c] :
           TransformObject(c, TransformObject(c, u, config, e), again, e)
               = TransformObject(c, u, again, e)
    BY ReadAsRead, ConfigsTyped, TransformTwice
  <1>2. QED
    BY <1>1 DEF TransformManifest

LEMMA NextWithoutResidue == TypeOK /\ NoResidue /\ [Next]_vars => NoResidue'
  <1> SUFFICES ASSUME TypeOK, NoResidue, [Next]_vars PROVE NoResidue'
    OBVIOUS
  <1>1. CASE Start
    <2>1. up' /\ mem' = Read(probe') /\ \A c \in Components : based'[c] = Raw
      BY <1>1 DEF Start, TypeOK
    <2>2. QED
      BY <2>1 DEF NoResidue
  <1>2. CASE Stop
    BY <1>2 DEF Stop, NoResidue
  <1>3. ASSUME NEW c \in Components, Transform(c) PROVE NoResidue'
    <2>1. /\ up /\ up' /\ probe' = probe /\ env' = env
          /\ mem'[c] = TransformManifest(c, mem[c], cfg, env)
          /\ based'[c] = cfg
          /\ \A d \in Components \ {c} : mem'[d] = mem[d] /\ based'[d] = based[d]
      BY <1>3 DEF Transform, TypeOK
    <2>2. cfg \in Configs /\ cfg # Raw
      BY ConfigsTyped DEF TypeOK, Raw
    <2>3. mem'[c] = TransformManifest(c, Read(probe)[c], cfg, env)
      <3>1. CASE based[c] = Raw
        BY <2>1, <3>1 DEF NoResidue
      <3>2. CASE based[c] # Raw
        <4>1. based[c] \in Configs
          BY <3>2 DEF TypeOK
        <4>2. mem[c] = TransformManifest(c, Read(probe)[c], based[c], env)
          BY <2>1, <3>2 DEF NoResidue
        <4>3. QED
          BY <2>1, <2>2, <4>1, <4>2, TransformManifestTwice
      <3>3. QED
        BY <3>1, <3>2
    <2>4. QED
      BY <2>1, <2>2, <2>3 DEF NoResidue
  <1>4. CASE UNCHANGED <<up, env, probe, mem, based>>
    BY <1>4 DEF NoResidue
  <1>5. QED
    BY <1>1, <1>2, <1>3, <1>4 DEF Next, EditTarget, RecreateConfig, vars

LEMMA InitWithoutResidue == Init => NoResidue
  BY DEF Init, NoResidue

\* NoResidue: transformManifest over its own result, however often and for whatever
\* Configs, gives what it gives over the manifest that was read, so that keeping the
\* result in r.pipeline and the like is as good as reading the files again.
THEOREM ManifestsWithoutResidue == Spec => []NoResidue
  BY InitTyped, NextTyped, InitWithoutResidue, NextWithoutResidue, PTL DEF Spec

-----------------------------------------------------------------------------
(* What is in memory, object by object. *)

\* What has become of the object u of a manifest that was read.
Now(c, u) == IF based[c] = Raw THEN u ELSE TransformObject(c, u, based[c], env)

LEMMA InMemory ==
    ASSUME TypeOK, NoResidue, NEW c \in Components, NEW v \in mem[c]
    PROVE  up /\ \E u \in Read(probe)[c] : v = Now(c, u)
  <1>1. up
    BY DEF TypeOK, Empty
  <1>2. CASE based[c] = Raw
    BY <1>1, <1>2 DEF NoResidue, Now
  <1>3. CASE based[c] # Raw
    BY <1>1, <1>3 DEF NoResidue, Now, TransformManifest
  <1>4. QED
    BY <1>1, <1>2, <1>3

LEMMA NowTransformed ==
    ASSUME TypeOK, NEW c \in Components, NEW u \in Read(probe)[c], based[c] # Raw
    PROVE  /\ based[c] \in Configs
           /\ Transformed(c, u, Now(c, u), based[c], env)
  <1>1. based[c] \in Configs
    BY DEF TypeOK
  <1>2. based[c].target # None
    BY <1>1, ConfigsTyped
  <1>3. IsObject(u) /\ u.refs \subseteq Refs
    BY ReadAsRead DEF AsRead
  <1>4. Now(c, u) = TransformObject(c, u, based[c], env)
    BY DEF Now
  <1>5. QED
    BY <1>1, <1>2, <1>3, <1>4, TransformedFields

LEMMA NowNamed ==
    ASSUME TypeOK, NEW c \in Components, NEW u \in Read(probe)[c]
    PROVE  /\ AppliedKind(Now(c, u).kind) = AppliedKind(u.kind)
           /\ u.kind # "Namespace" => Now(c, u).name = u.name
  <1>1. CASE based[c] = Raw
    BY <1>1 DEF Now
  <1>2. CASE based[c] # Raw
    <2>1. Transformed(c, u, Now(c, u), based[c], env)
      BY <1>2, NowTransformed
    <2>2. QED
      BY <2>1 DEF Transformed, KindOf, AppliedKind, NameIn
  <1>3. QED
    BY <1>1, <1>2

-----------------------------------------------------------------------------
(* No two objects become one. *)

ComponentOf(part) == IF part = "optional" THEN "addons" ELSE part

LEMMA ReadFrom ==
    ASSUME NEW found, NEW c \in Components, NEW u \in Read(found)[c]
    PROVE  \/ \E part \in DOMAIN Resources : u \in Resources[part] /\ c = ComponentOf(part)
           \/ c = "addons" /\ u \in Addons!CreatePipelines
  <1>1. DOMAIN Resources = Components \cup {"optional"}
    BY ManifestsAssumption
  <1>2. QED
    BY <1>1 DEF Read, Components, ComponentOf

LEMMA GeneratedNamesDiffer ==
    ASSUME NEW u \in Addons!CreatePipelines, NEW v \in Addons!CreatePipelines,
           u.name = v.name
    PROVE  u = v
  <1>1. PICK s \in Addons!Styles, r \in DOMAIN Addons!Runtimes, e \in Addons!Environments :
                u = Addons!Generate(s, r, e)
    BY DEF Addons!CreatePipelines
  <1>2. PICK t \in Addons!Styles, q \in DOMAIN Addons!Runtimes, f \in Addons!Environments :
                v = Addons!Generate(t, q, f)
    BY DEF Addons!CreatePipelines
  <1>3. ASSUME NEW a, NEW b, NEW d
        PROVE  Addons!Generate(a, b, d).name = Addons!PipelineName(a, b, d)
    <2>1. \E params, tasks :
             IsGenerated(Addons!Generate(a, b, d), Addons!PipelineName(a, b, d), params, tasks)
      BY GeneratedFields DEF Addons!Generate
    <2>2. QED
      BY <2>1 DEF IsGenerated
  <1>4. Addons!PipelineName(s, r, e) = Addons!PipelineName(t, q, f)
    BY <1>1, <1>2, <1>3
  <1> DEFINE Name(x, y, z) ==
                 y \o Addons!EnvironmentSuffix[z] \o Addons!StyleSuffix[x]
  <1>5. \A y, y2 \in DOMAIN Addons!Runtimes, z, z2 \in Addons!Environments,
           x, x2 \in Addons!Styles :
              Name(x, y, z) = Name(x2, y2, z2) => y = y2 /\ z = z2 /\ x = x2
    BY SuffixesAssumption, Zenon
  <1>6. Name(s, r, e) = Name(t, q, f)
    BY <1>4, Zenon DEF Addons!PipelineName
  <1> HIDE DEF Name
  <1>7. s = t /\ r = q /\ e = f
    BY <1>5, <1>6
  <1>8. QED
    BY <1>1, <1>2, <1>7

LEMMA ReadNamesDiffer ==
    ASSUME NEW found, NEW c \in Components, NEW d \in Components,
           NEW u \in Read(found)[c], NEW v \in Read(found)[d],
           AppliedKind(u.kind) = AppliedKind(v.kind), u.name = v.name \/ u.kind = "Namespace"
    PROVE  c = d /\ u = v
  <1>1. \A p \in DOMAIN Resources : \A w \in Resources[p] : w.kind # "Pipeline"
    BY NamesAssumption
  <1>2. \A w \in Addons!CreatePipelines : w.kind = "Pipeline"
    BY GeneratedAsRead
  <1>3. CASE \E p \in DOMAIN Resources : u \in Resources[p] /\ c = ComponentOf(p)
    <2>1. PICK p \in DOMAIN Resources : u \in Resources[p] /\ c = ComponentOf(p)
      BY <1>3
    <2>2. v \notin Addons!CreatePipelines
      BY <1>1, <1>2, <2>1 DEF AppliedKind
    <2>3. PICK q \in DOMAIN Resources : v \in Resources[q] /\ d = ComponentOf(q)
      BY <2>2, ReadFrom
    <2>4. p = q /\ u = v
      BY <2>1, <2>3, NamesAssumption
    <2>5. QED
      BY <2>1, <2>3, <2>4
  <1>4. CASE c = "addons" /\ u \in Addons!CreatePipelines
    <2>1. u.kind = "Pipeline" /\ v.kind = "Pipeline"
      BY <1>2, <1>4 DEF AppliedKind
    <2>2. d = "addons" /\ v \in Addons!CreatePipelines
      BY <1>1, <2>1, ReadFrom
    <2>3. QED
      BY <1>4, <2>1, <2>2, GeneratedNamesDiffer
  <1>5. QED
    BY <1>3, <1>4, ReadFrom

LEMMA NeverCollides == TypeOK /\ NoResidue => NoCollision
  <1> SUFFICES ASSUME TypeOK, NoResidue,
                      NEW c \in Components, NEW d \in Components,
                      NEW x \in mem[c], NEW y \in mem[d], Identity(x) = Identity(y)
               PROVE  x = y /\ c = d
    BY DEF NoCollision
  <1>1. x.kind = y.kind /\ x.name = y.name
    BY DEF Identity
  <1>2. PICK u \in Read(probe)[c] : x = Now(c, u)
    BY InMemory
  <1>3. PICK v \in Read(probe)[d] : y = Now(d, v)
    BY InMemory
  <1>4. AppliedKind(u.kind) = AppliedKind(v.kind)
    BY <1>1, <1>2, <1>3, NowNamed
  <1>5. u.name = v.name \/ u.kind = "Namespace"
    <2>1. CASE u.kind # "Namespace"
      <3>1. v.kind # "Namespace"
        BY <1>4, <2>1 DEF AppliedKind
      <3>2. QED
        BY <1>1, <1>2, <1>3, <2>1, <3>1, NowNamed
    <2>2. QED
      BY <2>1
  <1>6. c = d /\ u = v
    BY <1>4, <1>5, ReadNamesDiffer
  <1>7. QED
    BY <1>2, <1>3, <1>6

\* NoCollision: neither InjectNamespace, for any target and at any time, nor ReplaceKind
\* nor the generator gives two objects of the four manifests one identity.
THEOREM ManifestsApart == Spec => []NoCollision
  BY InitTyped, NextTyped, InitWithoutResidue, NextWithoutResidue, NeverCollides, PTL
     DEF Spec

-----------------------------------------------------------------------------
(* References and referents. *)

\* What the files say of the referents is all there is to a manifest that is read.
LEMMA ReferringAsShipped ==
    ASSUME NEW found, NEW c \in Components, NEW u \in Read(found)[c], NEW r \in u.refs
    PROVE  u \in Resources[c] /\ Resources[c] \subseteq Read(found)[c]
  <1>1. u \notin Addons!CreatePipelines
    BY GeneratedAsRead
  <1>2. u \notin Resources["optional"]
    BY ReferencesAssumption
  <1>3. QED
    BY <1>1, <1>2 DEF Read, Components

LEMMA NowInMemory ==
    ASSUME TypeOK, NoResidue, up, NEW c \in Components, NEW u \in Read(probe)[c]
    PROVE  Now(c, u) \in mem[c]
  <1>1. CASE based[c] = Raw
    BY <1>1 DEF NoResidue, Now
  <1>2. CASE based[c] # Raw
    BY <1>2 DEF NoResidue, Now, TransformManifest
  <1>3. QED
    BY <1>1, <1>2

\* A reference of a transformed object is one of the object's own, redirected or not.
LEMMA NowRefers ==
    ASSUME NEW u, u.refs \subseteq Refs, NEW ns, ns # None,
           NEW t, t.refs = References(u, ns), t.ns = NamespaceIn(u, ns), NEW q \in t.refs
    PROVE  \E r \in u.refs :
              /\ q.at = r.at /\ q.kind = r.kind /\ q.name = r.name
              /\ Referent(t, q) =
                    IF r.kind \notin ClusterScoped /\ Follows(u, r)
                    THEN <<r.kind, ns, r.name>> ELSE Referent(u, r)
  <1>1. PICK r \in u.refs : q = IF Redirected(u, r) THEN [r EXCEPT !.ns = ns] ELSE r
    BY DEF References
  <1>2. r = [at |-> r.at, kind |-> r.kind, name |-> r.name, ns |-> r.ns]
    BY DEF Refs
  <1>3. /\ q.at = r.at /\ q.kind = r.kind /\ q.name = r.name
        /\ q.ns = IF Redirected(u, r) THEN ns ELSE r.ns
    BY <1>1, <1>2
  <1>4. Redirected(u, r) => r.ns # None
    BY DEF Redirected
  <1>5. Referent(t, q) = IF r.kind \notin ClusterScoped /\ Follows(u, r)
                         THEN <<r.kind, ns, r.name>> ELSE Referent(u, r)
    BY <1>3, <1>4 DEF Referent, Follows, NamespaceIn
  <1>6. QED
    BY <1>3, <1>5

LEMMA ReferencesFollow == TypeOK /\ NoResidue => ReferencesResolve
  <1> SUFFICES ASSUME TypeOK, NoResidue, NEW c \in Components, based[c] # Raw,
                      NEW x \in mem[c], NEW q \in x.refs, q.at # ConversionWebhook
               PROVE  Resolves(c, x, q)
    BY DEF ReferencesResolve
  <1> DEFINE ns == based[c].target
  <1>1. PICK u \in Read(probe)[c] : x = Now(c, u)
    BY InMemory
  <1>2. up
    BY InMemory
  <1>3. ns # None
    BY NowTransformed, ConfigsTyped
  <1>4. x.refs = References(u, ns) /\ x.ns = NamespaceIn(u, ns)
    BY <1>1, NowTransformed DEF Transformed
  <1>5. u.refs \subseteq Refs
    BY ReadAsRead DEF AsRead
  <1> HIDE DEF ns
  <1>6. PICK r \in u.refs :
              /\ q.at = r.at /\ q.kind = r.kind /\ q.name = r.name
              /\ Referent(x, q) =
                    IF r.kind \notin ClusterScoped /\ Follows(u, r)
                    THEN <<r.kind, ns, r.name>> ELSE Referent(u, r)
    BY <1>3, <1>4, <1>5, NowRefers
  <1>7. u \in Resources[c] /\ Resources[c] \subseteq Read(probe)[c]
    BY ReferringAsShipped
  <1>8. CASE \E v \in Resources[c] : Together(u, r, v)
    <2>1. PICK v \in Resources[c] : Together(u, r, v)
      BY <1>8
    <2> DEFINE y == Now(c, v)
    <2>2. y \in mem[c]
      BY <1>2, <1>7, NowInMemory
    <2>3. Transformed(c, v, y, based[c], env)
      BY <1>7, NowTransformed
    <2> HIDE DEF y
    <2>4. Identity(y) = <<v.kind, NamespaceIn(v, ns), v.name>>
      BY <2>1, <2>3 DEF Transformed, Together, KindOf, AppliedKind, NameIn, Identity, ns
    <2>5. v.kind \in ClusterScoped => v.ns = None
      BY <1>7, ReadAsRead DEF AsRead
    <2>6. Referent(x, q) = Identity(y)
      BY <1>6, <2>1, <2>4, <2>5 DEF Together, NamespaceIn, Moves, Identity, Referent
    <2>7. QED
      BY <2>2, <2>6 DEF Resolves
  <1>9. CASE /\ r.kind \in ClusterScoped \/ ~Follows(u, r)
             /\ Referent(u, r) \in External
    BY <1>6, <1>9 DEF Resolves
  <1>10. QED
    BY <1>6, <1>7, <1>8, <1>9, ReferencesAssumption

\* ReferencesResolve: wherever the target is and wherever it was before, transformManifest
\* redirects the references that have to follow it and none of the others, if the
\* annotations in the files are right.
THEOREM ManifestsRefer == Spec => []ReferencesResolve
  BY InitTyped, NextTyped, InitWithoutResidue, NextWithoutResidue, ReferencesFollow, PTL
     DEF Spec

-----------------------------------------------------------------------------
(* Overrides. *)

\* A Deployment's containers one by one.
LEMMA RenewedArguments ==
    ASSUME NEW s \in Seq(Containers), NEW images,
           \A i \in DOMAIN s : FlagsApart(s[i].args, images), NEW i \in DOMAIN s
    PROVE  LET args == s[i].args
           IN Renewed(s, images)[i].args =
                 [a \in DOMAIN args |-> ArgumentAsOverridden(args, a, images)]
  <1> DEFINE args == s[i].args
  <1>1. s[i] \in Containers
    OBVIOUS
  <1>2. IsContainer(s[i]) /\ Len(args) \in Nat /\ DOMAIN args = 1..Len(args)
    BY <1>1 DEF Containers, IsContainer
  <1>3. ReplaceContainer(s[i], images).args = ReplaceContainersArgsImage(args, images)
    BY <1>2, ContainerFields
  <1>4. ReplaceContainersArgsImage(args, images)
            = [a \in DOMAIN args |-> ArgumentAsOverridden(args, a, images)]
    BY <1>2, ArgumentsAsOverridden
  <1>5. Renewed(s, images)[i] = ReplaceContainer(s[i], images)
    BY DEF Renewed
  <1>6. QED
    BY <1>3, <1>4, <1>5

LEMMA ArgumentsReadApart ==
    ASSUME TypeOK, up, NEW c \in {"pipeline", "triggers"}, NEW u \in Read(probe)[c],
           NEW i \in DOMAIN u.containers
    PROVE  /\ FlagsApart(u.containers[i].args, Images(c, env))
           /\ u.containers[i] \in Containers
  <1>1. u \in Resources[c] /\ c \in Components
    BY DEF Read, Components
  <1>2. env \in Deployments
    BY DEF TypeOK
  <1>3. u.containers \in Seq(Containers)
    BY <1>1, ReadAsRead DEF AsRead
  <1>4. FlagsApart(u.containers[i].args, Images(c, env))
    BY <1>1, <1>2, ArgumentsAssumption
  <1>5. u.containers[i] \in Containers
    BY <1>3
  <1>6. QED
    BY <1>4, <1>5

LEMMA OverridesFollow == TypeOK /\ NoResidue => OverridesHonoured
  <1> SUFFICES ASSUME TypeOK, NoResidue, NEW c \in {"pipeline", "triggers"}, based[c] # Raw,
                      NEW x \in mem[c], NEW v \in Read(probe)[c],
                      x.kind = "Deployment", v.kind = "Deployment", x.name = v.name,
                      NEW i \in DOMAIN v.containers
               PROVE  LET args == v.containers[i].args
                      IN x.containers[i].args =
                            [a \in DOMAIN args |->
                                ArgumentAsOverridden(args, a, Images(c, env))]
    BY DEF OverridesHonoured
  <1> DEFINE images == Images(c, env)
  <1>1. c \in Components
    BY DEF Components
  <1>2. PICK u \in Read(probe)[c] : x = Now(c, u)
    BY <1>1, InMemory
  <1>3. AppliedKind(u.kind) = AppliedKind(v.kind) /\ u.kind # "Namespace"
    BY <1>1, <1>2, NowNamed DEF AppliedKind
  <1>4. u.name = v.name
    BY <1>1, <1>2, <1>3, NowNamed
  <1>5. u = v
    BY <1>1, <1>3, <1>4, ReadNamesDiffer
  <1>6. x.containers = Renewed(v.containers, images)
    BY <1>1, <1>2, <1>5, NowTransformed DEF Transformed, ContainersOf
  <1>7. \A j \in DOMAIN v.containers : FlagsApart(v.containers[j].args, images)
    BY <1>1, InMemory, ArgumentsReadApart
  <1>8. v.containers \in Seq(Containers)
    BY <1>1, ReadAsRead DEF AsRead
  <1> HIDE DEF images
  <1>9. Renewed(v.containers, images)[i].args =
            [a \in DOMAIN v.containers[i].args |->
                ArgumentAsOverridden(v.containers[i].args, a, images)]
    BY <1>7, <1>8, RenewedArguments
  <1>10. QED
    BY <1>6, <1>9 DEF images

\* OverridesHonoured: replaceContainersArgsImage, rewriting in place what it has
\* rewritten before, replaces the arguments that belong to a flag and no others, for
\* any number of arguments and overrides of which none is mistaken for another.
THEOREM ManifestsOverridden == Spec => []OverridesHonoured
  BY InitTyped, NextTyped, InitWithoutResidue, NextWithoutResidue, OverridesFollow, PTL
     DEF Spec

-----------------------------------------------------------------------------
(* Generated pipelines. *)

\* A task of a pipeline that can run: the pipeline declares the parameters and has
\* tasks of the names.
Runs(t, declared, names) ==
    /\ t.after \subseteq names
    /\ \A q \in t.params : q.params \subseteq declared /\ q.inputs \subseteq t.inputs
    /\ Takes(t.ref, {q.name : q \in t.params})

IsTaskRun(t, name, ref, after, inputs, params) ==
    /\ t.name = name /\ t.ref = ref /\ t.after = after
    /\ t.inputs = inputs /\ t.params = params

FetchTask == Addons!Template["workspace"].tasks[1]
Declared(style, runtime) ==
    Addons!Template[style].params \cup Addons!VersionParam(runtime)

\* What the template of the style has for a task already.
BuildPassed(style) ==
    {Addons!Passed("TLSVERIFY", {})}
    \cup (IF style = "workspace" THEN {Addons!Passed("IMAGE", {"IMAGE_NAME"})} ELSE {})

LEMMA StylesKnown == Addons!Styles = {"workspace", "resource"}
  BY DEF Addons!Styles, Addons!Template

LEMMA TemplateParams ==
    /\ Addons!Template["workspace"].params
           = {"APP_NAME", "GIT_REPO", "GIT_REVISION", "IMAGE_NAME", "PATH_CONTEXT"}
    /\ Addons!Template["resource"].params = {"APP_NAME", "PATH_CONTEXT"}
  BY DEF Addons!Template

LEMMA FetchFields ==
    IsTaskRun(FetchTask, "fetch-repository", "git-clone", {}, {},
              {Addons!Passed("url", {"GIT_REPO"}), Addons!Passed("revision", {"GIT_REVISION"}),
               Addons!Passed("subdirectory", {}), Addons!Passed("deleteExisting", {})})
  BY DEF IsTaskRun, FetchTask, Addons!Template

LEMMA BuildFields ==
    ASSUME NEW style \in Addons!Styles, NEW runtime \in DOMAIN Addons!Runtimes
    PROVE  IsTaskRun(Addons!BuildTask(style, runtime), "build",
                     Addons!TaskRef(style, runtime),
                     IF style = "workspace" THEN {"fetch-repository"} ELSE {},
                     IF style = "workspace" THEN {} ELSE {"source"},
                     BuildPassed(style)
                       \cup {Addons!Passed(Addons!ContextParam(runtime), {"PATH_CONTEXT"})}
                       \cup {Addons!Passed(version, Addons!VersionParam(runtime)) :
                                version \in {Addons!Runtimes[runtime]} \ {""}})
  <1> DEFINE task == Addons!Template[style].tasks[Addons!BuildIndex(style)]
             ref == Addons!TaskRef(style, runtime)
             more == {Addons!Passed(Addons!ContextParam(runtime), {"PATH_CONTEXT"})}
             version == {Addons!Passed(v, Addons!VersionParam(runtime)) :
                           v \in {Addons!Runtimes[runtime]} \ {""}}
             after == IF style = "workspace" THEN {"fetch-repository"} ELSE {}
             inputs == IF style = "workspace" THEN {} ELSE {"source"}
  <1>1. task = [name |-> "build", ref |-> "", after |-> after, inputs |-> inputs,
                params |-> BuildPassed(style)]
    <2>1. CASE style = "workspace"
      BY <2>1 DEF Addons!Template, Addons!BuildIndex, BuildPassed
    <2>2. CASE style = "resource"
      BY <2>2 DEF Addons!Template, Addons!BuildIndex, BuildPassed
    <2>3. QED
      BY <2>1, <2>2, StylesKnown
  <1>2. Addons!BuildTask(style, runtime)
            = [task EXCEPT !.ref = ref, !.params = @ \cup more \cup version]
    BY Zenon DEF Addons!BuildTask
  <1> HIDE DEF task, ref, more, version, after, inputs
  <1>3. IsTaskRun(Addons!BuildTask(style, runtime), "build", ref, after, inputs,
                  BuildPassed(style) \cup more \cup version)
    BY <1>1, <1>2 DEF IsTaskRun
  <1>4. QED
    BY <1>3 DEF ref, more, version, after, inputs

\* The Takes of a build task, in the words of the assumption.
LEMMA BuildTakes ==
    ASSUME NEW style \in Addons!Styles, NEW runtime \in DOMAIN Addons!Runtimes
    PROVE  Takes(Addons!BuildTask(style, runtime).ref,
                 {q.name : q \in Addons!BuildTask(style, runtime).params})
  <1> DEFINE task == Addons!BuildTask(style, runtime)
             version == {Addons!Runtimes[runtime]} \ {""}
             more == Addons!VersionParam(runtime)
             context == Addons!ContextParam(runtime)
             image == IF style = "workspace" THEN {"IMAGE"} ELSE {}
  <1>1. \A name, params : Addons!Passed(name, params).name = name
    BY DEF Addons!Passed
  <1>2. /\ task.ref = Addons!TaskRef(style, runtime)
        /\ task.params = BuildPassed(style)
                           \cup {Addons!Passed(context, {"PATH_CONTEXT"})}
                           \cup {Addons!Passed(v, more) : v \in version}
    BY BuildFields DEF IsTaskRun
  <1>3. {q.name : q \in BuildPassed(style)} = {"TLSVERIFY"} \cup image
    BY <1>1 DEF BuildPassed
  <1>4. Takes(Addons!TaskRef(style, runtime), {"TLSVERIFY", context} \cup image \cup version)
    BY TasksAssumption DEF Addons!ContextParam
  <1> HIDE DEF task, version, more, context, image
  <1>5. {q.name : q \in task.params} = {"TLSVERIFY", context} \cup image \cup version
    BY <1>1, <1>2, <1>3
  <1>6. QED
    BY <1>2, <1>4, <1>5 DEF task

LEMMA BuildRuns ==
    ASSUME NEW style \in Addons!Styles, NEW runtime \in DOMAIN Addons!Runtimes, NEW names,
           style = "workspace" => "fetch-repository" \in names
    PROVE  Runs(Addons!BuildTask(style, runtime), Declared(style, runtime), names)
  <1> DEFINE task == Addons!BuildTask(style, runtime)
             more == Addons!VersionParam(runtime)
  <1>1. \A name, params : /\ Addons!Passed(name, params).params = params
                          /\ Addons!Passed(name, params).inputs = {}
    BY DEF Addons!Passed
  <1>2. task.after \subseteq names
    BY BuildFields DEF IsTaskRun
  <1>3. task.params = BuildPassed(style)
                        \cup {Addons!Passed(Addons!ContextParam(runtime), {"PATH_CONTEXT"})}
                        \cup {Addons!Passed(v, more) : v \in {Addons!Runtimes[runtime]} \ {""}}
    BY BuildFields DEF IsTaskRun
  <1> HIDE DEF task
  <1>4. /\ {"PATH_CONTEXT"} \subseteq Addons!Template[style].params
        /\ style = "workspace" => {"IMAGE_NAME"} \subseteq Addons!Template[style].params
    BY StylesKnown, TemplateParams
  <1>5. \A q \in BuildPassed(style) :
            q.inputs = {} /\ q.params \subseteq Addons!Template[style].params
    BY <1>1, <1>4 DEF BuildPassed
  <1>6. \A q \in task.params : q.params \subseteq Declared(style, runtime)
                               /\ q.inputs \subseteq task.inputs
    <2>1. more \subseteq Declared(style, runtime)
          /\ Addons!Template[style].params \subseteq Declared(style, runtime)
      BY DEF Declared
    <2> HIDE DEF more
    <2>2. ASSUME NEW q \in task.params
          PROVE  q.params \subseteq Declared(style, runtime) /\ q.inputs = {}
      <3>1. CASE q \in BuildPassed(style)
        BY <1>5, <2>1, <3>1
      <3>2. CASE q = Addons!Passed(Addons!ContextParam(runtime), {"PATH_CONTEXT"})
        BY <1>1, <1>4, <2>1, <3>2
      <3>3. CASE \E v : q = Addons!Passed(v, more)
        BY <1>1, <2>1, <3>3
      <3>4. QED
        BY <1>3, <3>1, <3>2, <3>3
    <2>3. QED
      BY <2>2
  <1>7. Takes(task.ref, {q.name : q \in task.params})
    BY BuildTakes DEF task
  <1>8. QED
    BY <1>2, <1>6, <1>7 DEF Runs, task

LEMMA FetchRuns ==
    ASSUME NEW runtime, NEW names
    PROVE  Runs(FetchTask, Declared("workspace", runtime), names)
  <1>1. FetchTask.ref = "git-clone" /\ FetchTask.after = {}
    BY FetchFields DEF IsTaskRun
  <1>2. \A q \in FetchTask.params : /\ q.params \subseteq {"GIT_REPO", "GIT_REVISION"}
                                    /\ q.inputs = {}
    BY FetchFields DEF IsTaskRun, Addons!Passed
  <1>3. {q.name : q \in FetchTask.params} = {"url", "revision", "subdirectory", "deleteExisting"}
    BY FetchFields DEF IsTaskRun, Addons!Passed
  <1>4. {"GIT_REPO", "GIT_REVISION"} \subseteq Declared("workspace", runtime)
    BY TemplateParams DEF Declared
  <1>5. QED
    BY <1>1, <1>2, <1>3, <1>4, TasksAssumption DEF Runs

LEMMA DeployRuns ==
    ASSUME NEW style \in Addons!Styles, NEW environment \in Addons!Environments,
           NEW runtime, NEW names, "build" \in names
    PROVE  Runs(Addons!DeployTask(style, environment), Declared(style, runtime), names)
  <1> DEFINE deploy == Addons!Template[style].tasks[Addons!DeployIndex(style)]
             task == Addons!DeployTask(style, environment)
  <1>1. /\ DOMAIN deploy = {"name", "ref", "after", "inputs", "params"}
        /\ deploy.inputs = {}
    <2>1. CASE style = "workspace"
      BY <2>1 DEF Addons!Template, Addons!DeployIndex
    <2>2. CASE style = "resource"
      BY <2>2 DEF Addons!Template, Addons!DeployIndex
    <2>3. QED
      BY <2>1, <2>2, StylesKnown
  <1>2. /\ "APP_NAME" \in Declared(style, runtime)
        /\ style = "workspace" => "IMAGE_NAME" \in Declared(style, runtime)
    BY StylesKnown, TemplateParams DEF Declared
  <1> DEFINE Runnable ==
                 /\ task.after = {"build"}
                 /\ \/ /\ task.ref = "openshift-client"
                       /\ {q.name : q \in task.params} \subseteq {"SCRIPT", "ARGS"}
                    \/ /\ task.ref = "kn"
                       /\ {q.name : q \in task.params} \subseteq {"ARGS"}
                 /\ \A q \in task.params : /\ q.params \subseteq Declared(style, runtime)
                                           /\ q.inputs \subseteq task.inputs
  <1>3. Runnable
    <2> DEFINE made == [deploy EXCEPT !.after = {"build"}]
    <2>1. /\ DOMAIN made = {"name", "ref", "after", "inputs", "params"}
          /\ made.after = {"build"} /\ made.inputs = {}
      <3> HIDE DEF deploy
      <3>1. QED
        BY <1>1
    <2>2. CASE environment = "openshift"
      <3>1. task = [made EXCEPT !.ref = "openshift-client",
                                !.params = {Addons!Passed("ARGS", {"APP_NAME"})}]
        BY <2>2 DEF Addons!DeployTask
      <3> HIDE DEF made, task
      <3>2. /\ task.after = {"build"} /\ task.ref = "openshift-client" /\ task.inputs = {}
            /\ task.params = {Addons!Passed("ARGS", {"APP_NAME"})}
        BY <2>1, <3>1
      <3>3. \A q \in task.params : q.params \subseteq Declared(style, runtime)
                                   /\ q.inputs \subseteq task.inputs
        BY <1>2, <3>2 DEF Addons!Passed
      <3>4. {q.name : q \in task.params} \subseteq {"SCRIPT", "ARGS"}
        BY <3>2 DEF Addons!Passed
      <3>5. QED
        BY <3>2, <3>3, <3>4
    <2>3. CASE environment = "kubernetes"
      <3>1. task = [made EXCEPT !.ref = "openshift-client",
                                !.params = {Addons!Passed("SCRIPT", {}),
                                            Addons!Passed("ARGS", {"APP_NAME"})}]
        BY <2>3 DEF Addons!DeployTask
      <3> HIDE DEF made, task
      <3>2. /\ task.after = {"build"} /\ task.ref = "openshift-client" /\ task.inputs = {}
            /\ task.params = {Addons!Passed("SCRIPT", {}), Addons!Passed("ARGS", {"APP_NAME"})}
        BY <2>1, <3>1
      <3>3. \A q \in task.params : q.params \subseteq Declared(style, runtime)
                                   /\ q.inputs \subseteq task.inputs
        BY <1>2, <3>2 DEF Addons!Passed
      <3>4. {q.name : q \in task.params} \subseteq {"SCRIPT", "ARGS"}
        BY <3>2 DEF Addons!Passed
      <3>5. QED
        BY <3>2, <3>3, <3>4
    <2>4. CASE environment = "knative" /\ style = "workspace"
      <3>1. task = [made EXCEPT !.name = "kn-service-create", !.ref = "kn",
                                !.params = {Addons!Passed("ARGS", {"APP_NAME", "IMAGE_NAME"})}]
        BY <2>4 DEF Addons!DeployTask
      <3> HIDE DEF made, task
      <3>2. /\ task.after = {"build"} /\ task.ref = "kn" /\ task.inputs = {}
            /\ task.params = {Addons!Passed("ARGS", {"APP_NAME", "IMAGE_NAME"})}
        BY <2>1, <3>1
      <3>3. \A q \in task.params : q.params \subseteq Declared(style, runtime)
                                   /\ q.inputs \subseteq task.inputs
        BY <1>2, <2>4, <3>2 DEF Addons!Passed
      <3>4. {q.name : q \in task.params} \subseteq {"ARGS"}
        BY <3>2 DEF Addons!Passed
      <3>5. QED
        BY <3>2, <3>3, <3>4
    <2>5. CASE environment = "knative" /\ style = "resource"
      <3>1. task = [made EXCEPT !.name = "kn-service-create", !.ref = "kn",
                                !.inputs = {"image"},
                                !.params = {[Addons!Passed("ARGS", {"APP_NAME"})
                                                EXCEPT !.inputs = {"image"}]}]
        BY <2>5 DEF Addons!DeployTask
      <3> HIDE DEF made, task
      <3>2. /\ task.after = {"build"} /\ task.ref = "kn" /\ task.inputs = {"image"}
            /\ task.params = {[Addons!Passed("ARGS", {"APP_NAME"}) EXCEPT !.inputs = {"image"}]}
        BY <2>1, <3>1
      <3>3. \A q \in task.params : q.params \subseteq Declared(style, runtime)
                                   /\ q.inputs \subseteq task.inputs
        BY <1>2, <3>2 DEF Addons!Passed
      <3>4. {q.name : q \in task.params} \subseteq {"ARGS"}
        BY <3>2 DEF Addons!Passed
      <3>5. QED
        BY <3>2, <3>3, <3>4
    <2>6. QED
      BY <2>2, <2>3, <2>4, <2>5, StylesKnown DEF Addons!Environments
  <1> HIDE DEF deploy, task
  <1>4. Takes(task.ref, {q.name : q \in task.params})
    <2>1. \A name, some, all : some \subseteq all /\ Takes(name, all) => Takes(name, some)
      BY DEF Takes
    <2>2. Takes("openshift-client", {"SCRIPT", "ARGS"}) /\ Takes("kn", {"ARGS"})
      BY TasksAssumption
    <2>3. QED
      BY <1>3, <2>1, <2>2
  <1>5. Runs(task, Declared(style, runtime), names)
    BY <1>3, <1>4 DEF Runs
  <1>6. QED
    BY <1>5 DEF task

\* The tasks of the templates, with two of them completed.
Completed(tasks, style, build, deploy) ==
    tasks = [Addons!Template[style].tasks EXCEPT
                ![Addons!BuildIndex(style)] = build, ![Addons!DeployIndex(style)] = deploy]

LEMMA TaskList ==
    ASSUME NEW style \in Addons!Styles, NEW list, NEW b, NEW d, Completed(list, style, b, d)
    PROVE  Range(list) = (IF style = "workspace" THEN {FetchTask} ELSE {}) \cup {b, d}
  <1> DEFINE tasks == Addons!Template[style].tasks
  <1>1. CASE style = "workspace"
    <2>1. \A x, y, z : Range([<<x, y, z>> EXCEPT ![2] = b, ![3] = d]) = {x, b, d}
      BY DEF Range
    <2>2. \E y, z : tasks = <<FetchTask, y, z>>
      BY <1>1 DEF Addons!Template, FetchTask
    <2>3. Addons!BuildIndex(style) = 2 /\ Addons!DeployIndex(style) = 3
      BY <1>1 DEF Addons!BuildIndex, Addons!DeployIndex
    <2> HIDE DEF tasks
    <2>4. Range([tasks EXCEPT ![2] = b, ![3] = d]) = {FetchTask, b, d}
      BY <2>1, <2>2
    <2>5. QED
      BY <1>1, <2>3, <2>4 DEF tasks, Completed
  <1>2. CASE style = "resource"
    <2>1. \A y, z : Range([<<y, z>> EXCEPT ![1] = b, ![2] = d]) = {b, d}
      BY DEF Range
    <2>2. \E y, z : tasks = <<y, z>>
      BY <1>2 DEF Addons!Template
    <2>3. Addons!BuildIndex(style) = 1 /\ Addons!DeployIndex(style) = 2
      BY <1>2 DEF Addons!BuildIndex, Addons!DeployIndex
    <2> HIDE DEF tasks
    <2>4. Range([tasks EXCEPT ![1] = b, ![2] = d]) = {b, d}
      BY <2>1, <2>2
    <2>5. QED
      BY <1>2, <2>3, <2>4 DEF tasks, Completed
  <1>3. QED
    BY <1>1, <1>2, StylesKnown

\* Every task of a generated pipeline can run.
LEMMA GeneratedRuns ==
    ASSUME NEW u \in Addons!CreatePipelines, NEW t \in Range(u.tasks)
    PROVE  Runs(t, {q.name : q \in u.params}, {s.name : s \in Range(u.tasks)})
  <1>1. PICK style \in Addons!Styles, runtime \in DOMAIN Addons!Runtimes,
             environment \in Addons!Environments :
               IsGenerated(u, Addons!PipelineName(style, runtime, environment),
                           Addons!Template[style].params \cup Addons!VersionParam(runtime),
                           [Addons!Template[style].tasks EXCEPT
                               ![Addons!BuildIndex(style)] = Addons!BuildTask(style, runtime),
                               ![Addons!DeployIndex(style)] =
                                   Addons!DeployTask(style, environment)])
    BY GeneratedPipelines
  <1> DEFINE build == Addons!BuildTask(style, runtime)
             deploy == Addons!DeployTask(style, environment)
             declared == Declared(style, runtime)
             names == {s.name : s \in Range(u.tasks)}
  <1>2. Range(u.tasks) = (IF style = "workspace" THEN {FetchTask} ELSE {}) \cup {build, deploy}
    <2>1. Completed(u.tasks, style, build, deploy)
      BY <1>1, Zenon DEF IsGenerated, Completed
    <2> HIDE DEF build, deploy
    <2>2. QED
      BY <2>1, TaskList
  <1>3. {q.name : q \in u.params} = declared
    <2> DEFINE Param(q) == [name |-> q, default |-> None]
    <2>1. u.params = {Param(q) : q \in declared}
      BY <1>1 DEF IsGenerated, Declared
    <2>2. \A q : Param(q).name = q
      OBVIOUS
    <2> HIDE DEF declared, Param
    <2>3. QED
      BY <2>1, <2>2
  <1>4. build.name = "build" /\ FetchTask.name = "fetch-repository"
    BY BuildFields, FetchFields DEF IsTaskRun
  <1>5. "build" \in names /\ (style = "workspace" => "fetch-repository" \in names)
    <2> HIDE DEF build, deploy
    <2>1. QED
      BY <1>2, <1>4
  <1> HIDE DEF names
  <1>6. Runs(build, declared, names) /\ Runs(deploy, declared, names)
    BY <1>5, BuildRuns, DeployRuns
  <1>7. style = "workspace" => Runs(FetchTask, declared, names)
    BY FetchRuns
  <1> HIDE DEF build, deploy, declared
  <1>8. Runs(t, declared, names)
    BY <1>2, <1>6, <1>7
  <1>9. QED
    BY <1>3, <1>8 DEF names

\* The ClusterTasks keep their names and those of their parameters.
LEMMA TaskInMemory ==
    ASSUME TypeOK, NoResidue, up, NEW name, NEW params, Takes(name, params)
    PROVE  \E task \in mem["addons"] :
              /\ task.kind = "ClusterTask" /\ task.name = name
              /\ params \subseteq {q.name : q \in task.params}
  <1>1. PICK u \in Resources["addons"] :
              /\ u.kind = "ClusterTask" /\ u.name = name
              /\ params \subseteq {q.name : q \in u.params}
    BY DEF Takes
  <1>2. "addons" \in Components /\ u \in Read(probe)["addons"]
    BY DEF Components, Read
  <1> DEFINE task == Now("addons", u)
  <1>3. task \in mem["addons"]
    BY <1>2, NowInMemory
  <1>4. /\ task.kind = "ClusterTask" /\ task.name = name
        /\ {q.name : q \in task.params} = {q.name : q \in u.params}
    <2>1. CASE based["addons"] = Raw
      BY <1>1, <2>1 DEF Now
    <2>2. CASE based["addons"] # Raw
      <3>1. Transformed("addons", u, task, based["addons"], env)
        BY <1>2, <2>2, NowTransformed
      <3> HIDE DEF task
      <3>2. task.kind = "ClusterTask" /\ task.name = name
        BY <1>1, <3>1 DEF Transformed, KindOf, NameIn
      <3>3. u.params \in SUBSET Params
        BY <1>1, <1>2, ReadAsRead DEF AsRead
      <3>4. \/ task.params = u.params
            \/ task.params = Defaulted(u.params, Images("addons", env))
        BY <3>1 DEF Transformed, ParamsOf
      <3>5. QED
        BY <3>2, <3>3, <3>4, DefaultedTwice
    <2>3. QED
      BY <2>1, <2>2
  <1>5. QED
    BY <1>1, <1>3, <1>4

LEMMA PipelinesMade == TypeOK /\ NoResidue => PipelinesRun
  <1> SUFFICES ASSUME TypeOK, NoResidue, NEW p \in mem["addons"], p.kind = "Pipeline",
                      NEW t \in Range(p.tasks)
               PROVE  LET Names == {s.name : s \in Range(p.tasks)}
                          Known == {q.name : q \in p.params}
                      IN /\ t.after \subseteq Names
                         /\ \A q \in t.params : /\ q.params \subseteq Known
                                                /\ q.inputs \subseteq t.inputs
                         /\ \E task \in mem["addons"] :
                               /\ task.kind = "ClusterTask" /\ task.name = t.ref
                               /\ {q.name : q \in t.params} \subseteq {q.name : q \in task.params}
    BY DEF PipelinesRun
  <1>1. "addons" \in Components
    BY DEF Components
  <1>2. PICK u \in Read(probe)["addons"] : p = Now("addons", u)
    BY <1>1, InMemory
  <1>3. up
    BY <1>1, InMemory
  <1>4. p.kind = u.kind /\ p.tasks = u.tasks /\ (u.kind = "Pipeline" => p.params = u.params)
    <2>1. CASE based["addons"] = Raw
      BY <1>2, <2>1 DEF Now
    <2>2. CASE based["addons"] # Raw
      <3>1. Transformed("addons", u, p, based["addons"], env)
        BY <1>1, <1>2, <2>2, NowTransformed
      <3>2. QED
        BY <3>1 DEF Transformed, KindOf, ParamsOf, IsTask
    <2>3. QED
      BY <2>1, <2>2
  <1>5. u \in Addons!CreatePipelines
    <2>1. \A part \in DOMAIN Resources : \A v \in Resources[part] : v.kind # "Pipeline"
      BY NamesAssumption
    <2>2. QED
      BY <1>1, <1>4, <2>1, ReadFrom
  <1>6. Runs(t, {q.name : q \in p.params}, {s.name : s \in Range(p.tasks)})
    BY <1>4, <1>5, GeneratedRuns
  <1>7. \E task \in mem["addons"] :
           /\ task.kind = "ClusterTask" /\ task.name = t.ref
           /\ {q.name : q \in t.params} \subseteq {q.name : q \in task.params}
    BY <1>3, <1>6, TaskInMemory DEF Runs
  <1>8. QED
    BY <1>6, <1>7 DEF Runs

\* PipelinesRun: for every runtime, environment and style the generator combines its
\* templates into tasks that are passed what the pipeline declares and what their
\* ClusterTasks take, and no override or target changes that.
THEOREM ManifestsRunnable == Spec => []PipelinesRun
  BY InitTyped, NextTyped, InitWithoutResidue, NextWithoutResidue, PipelinesMade, PTL
     DEF Spec
=============================================================================
