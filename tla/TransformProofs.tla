-------------------------- MODULE TransformProofs --------------------------
(***************************************************************************)
(* What the transformers do to an object, field by field, and that doing   *)
(* it again for another Config leaves nothing of the first time.           *)
(***************************************************************************)
EXTENDS Manifests, TLAPS, WellFoundedInduction

LEMMA LeastNat ==
    ASSUME NEW T, T \subseteq Nat, T # {}
    PROVE  \E x \in T : \A y \in T : ~(y < x)
  <1> DEFINE R == OpToRel(<, Nat)
  <1>1. \E x \in T : \A y \in T : <<y, x>> \notin R
    <2>1. IsWellFoundedOn(R, Nat)
      BY NatLessThanWellFounded
    <2> HIDE DEF R
    <2>2. QED
      BY <2>1, WFMin
  <1>2. \A x, y \in Nat : y < x => <<y, x>> \in R
    BY DEF OpToRel
  <1>3. QED
    BY <1>1, <1>2

-----------------------------------------------------------------------------
(* Arguments: replaceContainersArgsImage. *)

\* f holds what the iterations up to the n-th make of args.
DoneUpTo(f, n, args, images) ==
    f = [i \in 1..n |-> ReplaceArgument(args, f, i, images)]

\* Only the argument before it matters to an argument.
LEMMA ReplaceArgumentLocal ==
    ASSUME NEW args, NEW images, NEW f, NEW g, NEW i,
           i > 1 => f[i - 1] = g[i - 1]
    PROVE  ReplaceArgument(args, f, i, images) = ReplaceArgument(args, g, i, images)
  BY DEF ReplaceArgument

LEMMA DoneExtends ==
    ASSUME NEW args, NEW images, NEW n \in Nat, NEW f, DoneUpTo(f, n, args, images)
    PROVE  \E g : DoneUpTo(g, n + 1, args, images)
  <1> DEFINE Next_(i) == ReplaceArgument(args, f, i, images)
             g == [i \in 1..(n + 1) |-> Next_(i)]
  <1>1. \A i \in 1..n : f[i] = Next_(i)
    BY DEF DoneUpTo
  <1>2. \A i \in 1..n : g[i] = f[i]
    BY <1>1
  <1>3. ASSUME NEW i \in 1..(n + 1)
        PROVE  Next_(i) = ReplaceArgument(args, g, i, images)
    <2>1. i > 1 => f[i - 1] = g[i - 1]
      BY <1>2
    <2> HIDE DEF g
    <2>2. QED
      BY <2>1, ReplaceArgumentLocal
  <1>4. g = [i \in 1..(n + 1) |-> ReplaceArgument(args, g, i, images)]
    <2> DEFINE Again(i) == ReplaceArgument(args, g, i, images)
    <2>1. \A i \in 1..(n + 1) : Next_(i) = Again(i)
      BY <1>3
    <2> HIDE DEF Again, Next_
    <2>2. [i \in 1..(n + 1) |-> Next_(i)] = [i \in 1..(n + 1) |-> Again(i)]
      BY <2>1
    <2>3. QED
      BY <2>2 DEF g, Again
  <1>5. QED
    BY <1>4 DEF DoneUpTo

LEMMA DoneExists ==
    ASSUME NEW args, NEW images, NEW n \in Nat
    PROVE  \E f : DoneUpTo(f, n, args, images)
  <1> DEFINE Bad == {m \in Nat : ~ \E f : DoneUpTo(f, m, args, images)}
  <1>1. ASSUME Bad # {} PROVE FALSE
    <2>1. PICK m \in Bad : \A k \in Bad : ~(k < m)
      <3> HIDE DEF Bad
      <3>1. Bad \subseteq Nat
        BY DEF Bad
      <3>2. QED
        BY <1>1, <3>1, LeastNat
    <2>2. CASE m = 0
      <3>1. DoneUpTo([i \in 1..0 |-> <<>>], 0, args, images)
        BY DEF DoneUpTo
      <3>2. QED
        BY <2>1, <2>2, <3>1
    <2>3. CASE m # 0
      <3>1. m - 1 \in Nat /\ m - 1 < m /\ (m - 1) + 1 = m
        BY <2>1, <2>3
      <3>2. PICK f : DoneUpTo(f, m - 1, args, images)
        BY <2>1, <3>1
      <3>3. \E g : DoneUpTo(g, (m - 1) + 1, args, images)
        BY <3>1, <3>2, DoneExtends
      <3>4. QED
        BY <2>1, <3>1, <3>3
    <2>4. QED
      BY <2>2, <2>3
  <1>2. QED
    BY <1>1

\* The equation that defines the loop holds of what it returns.
LEMMA ArgumentsEquation ==
    ASSUME NEW args, NEW images, NEW n \in Nat, DOMAIN args = 1..n
    PROVE  LET done == ReplaceContainersArgsImage(args, images)
           IN done = [i \in DOMAIN args |-> ReplaceArgument(args, done, i, images)]
  <1>1. PICK f : DoneUpTo(f, n, args, images)
    BY DoneExists
  <1>2. f = [i \in DOMAIN args |-> ReplaceArgument(args, f, i, images)]
    BY <1>1 DEF DoneUpTo
  <1>3. QED
    BY <1>2 DEF ReplaceContainersArgsImage

\* Rewriting an argument that has been rewritten changes nothing.
LEMMA ReplaceArgumentTwice ==
    ASSUME NEW args, NEW images, NEW done, NEW again, NEW i \in Nat,
           done[i] = ReplaceArgument(args, done, i, images),
           i > 1 => again[i - 1] = done[i - 1]
    PROVE  ReplaceArgument(done, again, i, images) = done[i]
  <1>1. CASE i > 1 /\ NamesImage(done[i - 1], images)
    <2>1. \A x : Len(<<x>>) = 1
      OBVIOUS
    <2>2. done[i] = <<images[FormKey("arg_", done[i - 1][1])]>>
      BY <1>1, <2>1 DEF ReplaceArgument
    <2>3. QED
      BY <1>1, <2>1, <2>2 DEF ReplaceArgument
  <1>2. CASE ~(i > 1 /\ NamesImage(done[i - 1], images))
    <2> DEFINE Half(a) ==
                 IF Len(a) = 2 /\ FormKey("arg_", a[1]) \in DOMAIN images
                 THEN <<a[1], images[FormKey("arg_", a[1])]>> ELSE a
    <2>1. done[i] = Half(args[i])
      BY <1>2 DEF ReplaceArgument
    <2>2. ReplaceArgument(done, again, i, images) = Half(done[i])
      BY <1>2 DEF ReplaceArgument
    <2>3. \A a : Half(Half(a)) = Half(a)
      <3>1. \A x, y : Len(<<x, y>>) = 2 /\ <<x, y>>[1] = x
        OBVIOUS
      <3>2. QED
        BY <3>1
    <2>4. QED
      BY <2>1, <2>2, <2>3
  <1>3. QED
    BY <1>1, <1>2

LEMMA ArgumentsTwice ==
    ASSUME NEW args, NEW images, NEW n \in Nat, DOMAIN args = 1..n
    PROVE  LET done == ReplaceContainersArgsImage(args, images)
           IN /\ DOMAIN done = DOMAIN args
              /\ ReplaceContainersArgsImage(done, images) = done
  <1> DEFINE done == ReplaceContainersArgsImage(args, images)
             again == ReplaceContainersArgsImage(done, images)
  <1>1. done = [i \in DOMAIN args |-> ReplaceArgument(args, done, i, images)]
    BY ArgumentsEquation
  <1> HIDE DEF done
  <1>2. DOMAIN done = 1..n
    BY <1>1
  <1>3. again = [i \in DOMAIN done |-> ReplaceArgument(done, again, i, images)]
    BY <1>2, ArgumentsEquation
  <1> HIDE DEF again
  <1> DEFINE Bad == {i \in 1..n : again[i] # done[i]}
  <1>4. ASSUME Bad # {} PROVE FALSE
    <2>1. PICK i \in Bad : \A k \in Bad : ~(k < i)
      <3> HIDE DEF Bad
      <3>1. Bad \subseteq Nat
        BY DEF Bad
      <3>2. QED
        BY <1>4, <3>1, LeastNat
    <2>2. i > 1 => again[i - 1] = done[i - 1]
      BY <2>1
    <2>3. done[i] = ReplaceArgument(args, done, i, images)
      BY <1>1, <1>2, <2>1
    <2>4. again[i] = ReplaceArgument(done, again, i, images)
      BY <1>2, <1>3, <2>1
    <2>5. again[i] = done[i]
      BY <2>1, <2>2, <2>3, <2>4, ReplaceArgumentTwice
    <2>6. QED
      BY <2>1, <2>5
  <1>5. \A i \in 1..n : again[i] = done[i]
    BY <1>4
  <1>6. again = done
    <2>1. \A i \in 1..n : done[i] = ReplaceArgument(args, done, i, images)
      BY <1>1, <1>2
    <2>2. again = [i \in 1..n |-> again[i]] /\ done = [i \in 1..n |-> done[i]]
      BY <1>1, <1>2, <1>3
    <2>3. QED
      BY <1>5, <2>2
  <1>7. QED
    BY <1>1, <1>6 DEF done, again

LEMMA FlagApart ==
    ASSUME NEW args, NEW images, FlagsApart(args, images), NEW i \in Nat,
           i - 1 \in DOMAIN args, NamesImage(args[i - 1], images)
    PROVE  /\ ~NamesImage(args[i], images)
           /\ Len(args[i]) = 2 => FormKey("arg_", args[i][1]) \notin DOMAIN images
           /\ ~NamesImage(<<images[FormKey("arg_", args[i - 1][1])]>>, images)
  <1> DEFINE j == i - 1
  <1>1. j + 1 = i
    OBVIOUS
  <1>2. /\ Len(args[j + 1]) \in {1, 2} => FormKey("arg_", args[j + 1][1]) \notin DOMAIN images
        /\ ~NamesImage(<<images[FormKey("arg_", args[j][1])]>>, images)
    BY DEF FlagsApart
  <1> HIDE DEF j
  <1>3. /\ Len(args[i]) \in {1, 2} => FormKey("arg_", args[i][1]) \notin DOMAIN images
        /\ ~NamesImage(<<images[FormKey("arg_", args[j][1])]>>, images)
    BY <1>1, <1>2
  <1>4. QED
    BY <1>3 DEF j, NamesImage

\* Where flags are apart no rewriting makes or breaks one for those after it.
LEMMA FlagsStay ==
    ASSUME NEW args, NEW images, NEW n \in Nat, DOMAIN args = 1..n,
           FlagsApart(args, images)
    PROVE  LET done == ReplaceContainersArgsImage(args, images)
           IN \A i \in 1..n : /\ NamesImage(done[i], images) <=> NamesImage(args[i], images)
                              /\ NamesImage(args[i], images) => done[i] = args[i]
  <1> DEFINE done == ReplaceContainersArgsImage(args, images)
             Good(i) == /\ NamesImage(done[i], images) <=> NamesImage(args[i], images)
                        /\ NamesImage(args[i], images) => done[i] = args[i]
             Bad == {i \in 1..n : ~Good(i)}
  <1>1. done = [i \in DOMAIN args |-> ReplaceArgument(args, done, i, images)]
    BY ArgumentsEquation
  <1> HIDE DEF done
  <1>2. ASSUME Bad # {} PROVE FALSE
    <2>1. PICK i \in Bad : \A k \in Bad : ~(k < i)
      <3> HIDE DEF Bad
      <3>1. Bad \subseteq Nat
        BY DEF Bad
      <3>2. QED
        BY <1>2, <3>1, LeastNat
    <2>2. i > 1 => i - 1 \in 1..n /\ Good(i - 1)
      BY <2>1
    <2>3. done[i] = ReplaceArgument(args, done, i, images)
      BY <1>1, <2>1
    <2>4. \A x, y : Len(<<x>>) = 1 /\ Len(<<x, y>>) = 2
      OBVIOUS
    <2>5. CASE i > 1 /\ NamesImage(done[i - 1], images)
      <3> DEFINE image == <<images[FormKey("arg_", args[i - 1][1])]>>
      <3>1. NamesImage(args[i - 1], images) /\ done[i - 1] = args[i - 1]
        BY <2>2, <2>5
      <3>2. ~NamesImage(image, images) /\ ~NamesImage(args[i], images)
        BY <2>1, <2>2, <2>5, <3>1, FlagApart
      <3>3. done[i] = image
        BY <2>3, <2>4, <2>5, <3>1 DEF ReplaceArgument
      <3>4. QED
        BY <2>1, <3>2, <3>3
    <2>6. CASE ~(i > 1 /\ NamesImage(done[i - 1], images))
      <3>1. \/ done[i] = args[i]
            \/ Len(args[i]) = 2 /\ \E x, y : done[i] = <<x, y>>
        BY <2>3, <2>6 DEF ReplaceArgument
      <3>2. Good(i)
        BY <2>4, <3>1 DEF NamesImage
      <3>3. QED
        BY <2>1, <3>2
    <2>7. QED
      BY <2>5, <2>6
  <1>3. QED
    BY <1>2 DEF done

LEMMA ArgumentsAsOverridden ==
    ASSUME NEW args, NEW images, NEW n \in Nat, DOMAIN args = 1..n,
           FlagsApart(args, images)
    PROVE  ReplaceContainersArgsImage(args, images) =
               [a \in DOMAIN args |-> ArgumentAsOverridden(args, a, images)]
  <1> DEFINE done == ReplaceContainersArgsImage(args, images)
  <1>1. done = [i \in DOMAIN args |-> ReplaceArgument(args, done, i, images)]
    BY ArgumentsEquation
  <1>2. \A i \in 1..n : /\ NamesImage(done[i], images) <=> NamesImage(args[i], images)
                        /\ NamesImage(args[i], images) => done[i] = args[i]
    BY FlagsStay
  <1> HIDE DEF done
  <1>3. ASSUME NEW i \in 1..n
        PROVE  ReplaceArgument(args, done, i, images) = ArgumentAsOverridden(args, i, images)
    <2>1. \A x : Len(<<x>>) = 1
      OBVIOUS
    <2>2. i > 1 => i - 1 \in 1..n
      OBVIOUS
    <2>3. CASE i > 1 /\ NamesImage(args[i - 1], images)
      <3>1. FormKey("arg_", args[i][1]) \notin DOMAIN images \/ Len(args[i]) # 2
        <4>1. i \in Nat /\ i - 1 \in DOMAIN args /\ NamesImage(args[i - 1], images)
          BY <2>2, <2>3
        <4>2. QED
          BY <4>1, FlagApart
      <3>2. done[i - 1] = args[i - 1] /\ NamesImage(done[i - 1], images)
        BY <1>2, <2>2, <2>3
      <3>3. QED
        BY <2>1, <2>3, <3>1, <3>2 DEF ReplaceArgument, ArgumentAsOverridden, NamesImage
    <2>4. CASE ~(i > 1 /\ NamesImage(args[i - 1], images))
      <3>1. ~(i > 1 /\ NamesImage(done[i - 1], images))
        BY <1>2, <2>2, <2>4
      <3>2. QED
        BY <2>4, <3>1 DEF ReplaceArgument, ArgumentAsOverridden, NamesImage
    <2>5. QED
      BY <2>3, <2>4
  <1>4. QED
    BY <1>1, <1>3 DEF done

-----------------------------------------------------------------------------
(* Containers, steps and parameters. *)

Renewed(s, images) == [i \in DOMAIN s |-> ReplaceContainer(s[i], images)]
Stepped(s, images) == [i \in DOMAIN s |-> ReplaceStep(s[i], images)]
Defaulted(params, images) == {ReplaceParam(p, images) : p \in params}

IsContainer(k) == k = [f \in {"name", "image", "args"} |-> k[f]]

LEMMA ContainersEqual ==
    ASSUME NEW k, NEW l, IsContainer(k), IsContainer(l),
           k.name = l.name, k.image = l.image, k.args = l.args
    PROVE  k = l
  <1>1. \A f \in {"name", "image", "args"} : k[f] = l[f]
    OBVIOUS
  <1>2. QED
    BY <1>1 DEF IsContainer

LEMMA ContainerFields ==
    ASSUME NEW k, IsContainer(k), NEW images
    PROVE  LET l == ReplaceContainer(k, images)
           IN /\ IsContainer(l) /\ l.name = k.name
              /\ l.image = IF FormKey("", k.name) \in DOMAIN images
                           THEN images[FormKey("", k.name)] ELSE k.image
              /\ l.args = ReplaceContainersArgsImage(k.args, images)
  <1> DEFINE image == IF FormKey("", k.name) \in DOMAIN images
                      THEN images[FormKey("", k.name)] ELSE k.image
             args == ReplaceContainersArgsImage(k.args, images)
  <1>1. ReplaceContainer(k, images) = [k EXCEPT !.image = image, !.args = args]
    BY DEF ReplaceContainer
  <1> HIDE DEF image, args
  <1>2. QED
    BY <1>1 DEF IsContainer, image, args

LEMMA ContainerTwice ==
    ASSUME NEW k \in Containers, NEW images
    PROVE  LET once == ReplaceContainer(k, images)
           IN ReplaceContainer(once, images) = once
  <1> DEFINE once == ReplaceContainer(k, images)
             twice == ReplaceContainer(once, images)
  <1>1. IsContainer(k)
    BY DEF Containers, IsContainer
  <1>2. /\ IsContainer(once) /\ once.name = k.name
        /\ once.image = IF FormKey("", k.name) \in DOMAIN images
                        THEN images[FormKey("", k.name)] ELSE k.image
        /\ once.args = ReplaceContainersArgsImage(k.args, images)
    BY <1>1, ContainerFields
  <1> HIDE DEF once
  <1>3. ReplaceContainersArgsImage(once.args, images) = once.args
    <2>1. Len(k.args) \in Nat /\ DOMAIN k.args = 1..Len(k.args)
      BY DEF Containers
    <2>2. ReplaceContainersArgsImage(ReplaceContainersArgsImage(k.args, images), images)
              = ReplaceContainersArgsImage(k.args, images)
      BY <2>1, ArgumentsTwice
    <2>3. QED
      BY <1>2, <2>2
  <1>4. IsContainer(twice) /\ twice.name = once.name /\ twice.args = once.args
    BY <1>2, <1>3, ContainerFields
  <1>5. twice.image = once.image
    BY <1>2, ContainerFields
  <1> HIDE DEF twice
  <1>6. twice = once
    BY <1>2, <1>4, <1>5, ContainersEqual
  <1>7. QED
    BY <1>6 DEF once, twice

LEMMA RenewedTwice ==
    ASSUME NEW s \in Seq(Containers), NEW images
    PROVE  Renewed(Renewed(s, images), images) = Renewed(s, images)
  <1>1. \A i \in DOMAIN s : s[i] \in Containers
    OBVIOUS
  <1>2. \A i \in DOMAIN s : ReplaceContainer(ReplaceContainer(s[i], images), images)
                              = ReplaceContainer(s[i], images)
    BY <1>1, ContainerTwice
  <1>3. QED
    BY <1>2 DEF Renewed

LEMMA StepTwice ==
    ASSUME NEW k \in Containers, NEW images
    PROVE  LET once == ReplaceStep(k, images) IN ReplaceStep(once, images) = once
  BY DEF Containers, ReplaceStep

LEMMA SteppedTwice ==
    ASSUME NEW s \in Seq(Containers), NEW images
    PROVE  /\ Stepped(Stepped(s, images), images) = Stepped(s, images)
           /\ s # <<>> => Stepped(s, images) # <<>>
  <1>1. \A i \in DOMAIN s : s[i] \in Containers
    OBVIOUS
  <1>2. \A i \in DOMAIN s : ReplaceStep(ReplaceStep(s[i], images), images)
                              = ReplaceStep(s[i], images)
    BY <1>1, StepTwice
  <1>3. Stepped(Stepped(s, images), images) = Stepped(s, images)
    BY <1>2 DEF Stepped
  <1>4. DOMAIN Stepped(s, images) = DOMAIN s
    BY DEF Stepped
  <1>5. QED
    BY <1>3, <1>4

LEMMA ParamTwice ==
    ASSUME NEW p \in Params, NEW images
    PROVE  LET once == ReplaceParam(p, images)
           IN ReplaceParam(once, images) = once /\ once.name = p.name
  BY DEF Params, ReplaceParam

LEMMA DefaultedTwice ==
    ASSUME NEW params \in SUBSET Params, NEW images
    PROVE  /\ Defaulted(Defaulted(params, images), images) = Defaulted(params, images)
           /\ {p.name : p \in Defaulted(params, images)} = {p.name : p \in params}
  <1>1. \A p \in params : /\ ReplaceParam(ReplaceParam(p, images), images)
                                 = ReplaceParam(p, images)
                           /\ ReplaceParam(p, images).name = p.name
    BY ParamTwice
  <1>2. QED
    BY <1>1 DEF Defaulted

-----------------------------------------------------------------------------
(* The fields of a transformed object. *)

\* v is u but for some of its fields.
Altered(u, v, fields) ==
    IsObject(v) /\ \A f \in Fields \ fields : v[f] = u[f]

LEMMA Unaltered ==
    ASSUME NEW u, NEW fields, IsObject(u)
    PROVE  Altered(u, u, fields)
  BY DEF Altered

LEMMA InjectOwnerFields ==
    ASSUME NEW u, IsObject(u), NEW uid
    PROVE  LET v == InjectOwner(u, uid)
           IN /\ Altered(u, v, {"owners"})
              /\ v.owners = IF u.kind \in ClusterScoped THEN u.owners ELSE {uid}
  BY DEF InjectOwner, Altered, IsObject, Fields

LEMMA RedirectFields ==
    ASSUME NEW u, IsObject(u), NEW field, NEW ns
    PROVE  LET v == Redirect(u, field, ns)
           IN /\ Altered(u, v, {"refs"})
              /\ v.refs = {IF r.at = field /\ r.ns # None THEN [r EXCEPT !.ns = ns] ELSE r
                            : r \in u.refs}
  <1> DEFINE R == {IF r.at = field /\ r.ns # None THEN [r EXCEPT !.ns = ns] ELSE r
                     : r \in u.refs}
  <1>1. Redirect(u, field, ns) = [u EXCEPT !.refs = R]
    BY DEF Redirect, IsObject, Fields
  <1> HIDE DEF R
  <1>2. QED
    BY <1>1 DEF Altered, IsObject, Fields, R

With(data, key, value) ==
    [k \in DOMAIN data \cup {key} |-> IF k = key THEN value ELSE data[k]]

LEMMA SetDataFields ==
    ASSUME NEW u, IsObject(u), NEW name, NEW key, NEW value
    PROVE  LET v == SetData(u, name, key, value)
           IN /\ Altered(u, v, {"data"})
              /\ v.data = IF u.kind = "ConfigMap" /\ u.name = name
                          THEN With(u.data, key, value) ELSE u.data
  <1>1. SetData(u, name, key, value) =
            IF u.kind = "ConfigMap" /\ u.name = name
            THEN [u EXCEPT !.data = With(u.data, key, value)] ELSE u
    BY DEF SetData, With, IsObject, Fields
  <1>2. QED
    BY <1>1 DEF Altered, IsObject, Fields

LEMMA ReplaceKindFields ==
    ASSUME NEW u, IsObject(u)
    PROVE  LET v == ReplaceKind(u, "Task", "ClusterTask")
           IN Altered(u, v, {"kind"}) /\ v.kind = AppliedKind(u.kind)
  BY DEF ReplaceKind, AppliedKind, Altered, IsObject, Fields

LEMMA InjectProviderFields ==
    ASSUME NEW u, IsObject(u), NEW value, NEW kinds
    PROVE  LET v == InjectProvider(u, value, kinds)
           IN /\ Altered(u, v, {"provider"})
              /\ v.provider = IF kinds = {} \/ u.kind \in kinds THEN value ELSE u.provider
  BY DEF InjectProvider, Altered, IsObject, Fields

LEMMA DeploymentImagesFields ==
    ASSUME NEW u, IsObject(u), NEW images
    PROVE  LET v == DeploymentImages(u, images)
           IN /\ Altered(u, v, {"containers"})
              /\ v.containers = IF u.kind = "Deployment" THEN Renewed(u.containers, images)
                                                        ELSE u.containers
  <1>1. DeploymentImages(u, images) =
            IF u.kind = "Deployment" THEN [u EXCEPT !.containers = Renewed(u.containers, images)]
                                     ELSE u
    BY DEF DeploymentImages, Renewed, IsObject, Fields
  <1>2. QED
    BY <1>1 DEF Altered, IsObject, Fields

LEMMA TaskImagesFields ==
    ASSUME NEW u, IsObject(u), NEW images
    PROVE  LET v == TaskImages(u, images)
               task == u.kind = "ClusterTask" /\ u.containers # <<>>
           IN /\ Altered(u, v, {"containers", "params"})
              /\ v.containers = IF task THEN Stepped(u.containers, images) ELSE u.containers
              /\ v.params = IF task THEN Defaulted(u.params, images) ELSE u.params
  <1>1. TaskImages(u, images) =
            IF u.kind = "ClusterTask" /\ u.containers # <<>>
            THEN [u EXCEPT !.containers = Stepped(u.containers, images),
                           !.params = Defaulted(u.params, images)]
            ELSE u
    BY DEF TaskImages, Stepped, Defaulted, IsObject, Fields
  <1>2. QED
    BY <1>1 DEF Altered, IsObject, Fields

\* The references of u after a transformation for the namespace ns.
References(u, ns) == {IF Redirected(u, r) THEN [r EXCEPT !.ns = ns] ELSE r : r \in u.refs}

NameIn(u, ns) == IF u.kind = "Namespace" /\ ~u.preserveNS THEN ns ELSE u.name
NamespaceIn(u, ns) == IF Moves(u) THEN ns ELSE u.ns

\* Redirecting references one by one, where they are the ones to redirect.
LEMMA RedirectsReferences ==
    ASSUME NEW u, IsObject(u), NEW v, Altered(u, v, {"owners", "ns", "name"}), NEW field, NEW ns,
           \A r \in u.refs : Redirected(u, r) <=> r.at = field /\ r.ns # None
    PROVE  LET w == Redirect(v, field, ns)
           IN /\ Altered(u, w, {"owners", "ns", "name", "refs"})
              /\ w.refs = References(u, ns)
              /\ w.ns = v.ns /\ w.name = v.name /\ w.owners = v.owners
  <1> DEFINE w == Redirect(v, field, ns)
  <1>1. IsObject(v) /\ v.refs = u.refs
    BY DEF Altered, Fields
  <1>2. /\ Altered(v, w, {"refs"})
        /\ w.refs = {IF r.at = field /\ r.ns # None THEN [r EXCEPT !.ns = ns] ELSE r
                      : r \in v.refs}
    BY <1>1, RedirectFields
  <1> HIDE DEF w
  <1>3. w.refs = References(u, ns)
    BY <1>1, <1>2 DEF References
  <1>4. w.ns = v.ns /\ w.name = v.name /\ w.owners = v.owners
    BY <1>2 DEF Altered, Fields
  <1>5. Altered(u, w, {"owners", "ns", "name", "refs"})
    BY <1>2 DEF Altered
  <1>6. QED
    BY <1>3, <1>4, <1>5 DEF w

\* References that were led to a namespace can be led to another one.
LEMMA ReferencesTwice ==
    ASSUME NEW u, u.refs \subseteq Refs, NEW v, NEW ns, ns # None, NEW again,
           v.refs = References(u, ns),
           \A r \in Refs \cup {[r EXCEPT !.ns = ns] : r \in Refs} :
               Redirected(v, r) <=> Redirected(u, r)
    PROVE  References(v, again) = References(u, again)
  <1> DEFINE To(r, n) == [r EXCEPT !.ns = n]
             Lead(w, r, n) == IF Redirected(w, r) THEN To(r, n) ELSE r
  <1>1. \A r \in Refs : \A n : /\ To(r, n).at = r.at /\ To(r, n).ns = n
                               /\ To(To(r, n), again) = To(r, again)
    BY DEF Refs
  <1>2. \A r \in u.refs : Lead(v, Lead(u, r, ns), again) = Lead(u, r, again)
    <2> SUFFICES ASSUME NEW r \in u.refs
                 PROVE  Lead(v, Lead(u, r, ns), again) = Lead(u, r, again)
      OBVIOUS
    <2>1. r \in Refs
      OBVIOUS
    <2>2. CASE Redirected(u, r)
      <3>1. Redirected(u, To(r, ns))
        BY <1>1, <2>1, <2>2 DEF Redirected
      <3>2. Redirected(v, To(r, ns))
        BY <2>1, <3>1
      <3> HIDE DEF To
      <3>3. QED
        BY <1>1, <2>1, <2>2, <3>2
    <2>3. CASE ~Redirected(u, r)
      BY <2>1, <2>3
    <2>4. QED
      BY <2>2, <2>3
  <1>3. v.refs = {Lead(u, r, ns) : r \in u.refs}
    BY DEF References
  <1>4. /\ References(v, again) = {Lead(v, r, again) : r \in v.refs}
        /\ References(u, again) = {Lead(u, r, again) : r \in u.refs}
    BY DEF References
  <1> HIDE DEF Lead
  <1>5. QED
    BY <1>2, <1>3, <1>4

\* v is u owned by uid and put into the namespace ns, references and all.
Placed(u, v, uid, ns) ==
    /\ Altered(u, v, {"owners", "ns", "name", "refs"})
    /\ v.owners = IF u.kind \in ClusterScoped THEN u.owners ELSE {uid}
    /\ v.ns = NamespaceIn(u, ns) /\ v.name = NameIn(u, ns)
    /\ v.refs = References(u, ns)

\* Owner and namespace of everything but a role binding: InjectOwner,
\* InjectNamespaceConditional and InjectNamespaceCRDWebhookClientConfig.
LEMMA PlacedFields ==
    ASSUME NEW u, IsObject(u), u.refs \subseteq Refs, u.kind # "RoleBinding",
           NEW uid, NEW ns, ns # None
    PROVE  Placed(u, InjectNamespaceCRDWebhookClientConfig(
                        InjectNamespaceConditional(InjectOwner(u, uid), ns), ns), uid, ns)
  <1> DEFINE Crd == "CustomResourceDefinition"
             webhook == "spec.conversion.webhookClientConfig"
             w == InjectOwner(u, uid)
             x == InjectNamespaceConditional(w, ns)
             y == InjectNamespaceCRDWebhookClientConfig(x, ns)
             owners == IF u.kind \in ClusterScoped THEN u.owners ELSE {uid}
             Good(v) == /\ Altered(u, v, {"owners", "ns", "name", "refs"})
                        /\ v.owners = owners
                        /\ v.ns = NamespaceIn(u, ns) /\ v.name = NameIn(u, ns)
                        /\ v.refs = References(u, ns)
  <1>0. \A v : Good(v) => Placed(u, v, uid, ns)
    BY DEF Placed
  <1>1. Altered(u, w, {"owners"}) /\ w.owners = owners /\ IsObject(w)
    BY InjectOwnerFields DEF Altered
  <1>2. /\ w.kind = u.kind /\ w.preserveNS = u.preserveNS
        /\ w.ns = u.ns /\ w.name = u.name /\ w.refs = u.refs
    BY <1>1 DEF Altered, Fields
  <1> HIDE DEF w, owners
  <1>3. u.kind # Crd \/ ~u.preserveNS => Good(x)
    <2>1. CASE u.preserveNS
      <3>1. x = w
        BY <1>2, <2>1 DEF InjectNamespaceConditional
      <3>2. u.kind # Crd => \A r \in u.refs : ~Redirected(u, r)
        BY <2>1 DEF Redirected
      <3>3. u.kind # Crd => References(u, ns) = u.refs
        BY <3>2 DEF References
      <3>4. QED
        BY <1>1, <1>2, <2>1, <3>1, <3>3 DEF NamespaceIn, NameIn, Moves, Altered
    <2>2. CASE ~u.preserveNS
      <3> DEFINE Moved == IF u.kind \in ClusterScoped THEN w ELSE [w EXCEPT !.ns = ns]
                 Named == IF u.kind = "Namespace" THEN [Moved EXCEPT !.name = ns] ELSE Moved
      <3>1. Altered(u, Moved, {"owners", "ns"}) /\ Moved.ns = NamespaceIn(u, ns)
            /\ Moved.owners = owners /\ Moved.name = u.name
        BY <1>1, <1>2, <2>2 DEF Altered, IsObject, Fields, NamespaceIn, Moves
      <3>2. x = IF u.kind \in DOMAIN RedirectedField
                THEN Redirect(Named, RedirectedField[u.kind], ns)
                ELSE Named
        BY <1>2, <2>2 DEF InjectNamespaceConditional, InjectNamespace
      <3> HIDE DEF Moved
      <3>3. Altered(u, Named, {"owners", "ns", "name"}) /\ Named.ns = NamespaceIn(u, ns)
            /\ Named.owners = owners /\ Named.name = NameIn(u, ns)
        BY <2>2, <3>1 DEF Altered, IsObject, Fields, NameIn
      <3> HIDE DEF Named
      <3>4. CASE u.kind \in DOMAIN RedirectedField
        <4>1. \A r \in u.refs :
                 Redirected(u, r) <=> r.at = RedirectedField[u.kind] /\ r.ns # None
          BY <2>2, <3>4 DEF Redirected
        <4>2. QED
          BY <3>2, <3>3, <3>4, <4>1, RedirectsReferences
      <3>5. CASE u.kind \notin DOMAIN RedirectedField
        <4>1. References(u, ns) = u.refs
          BY <3>5 DEF References, Redirected
        <4>2. x = Named /\ x.refs = u.refs
          BY <3>2, <3>3, <3>5 DEF Altered, Fields
        <4>3. QED
          BY <3>3, <4>1, <4>2 DEF Altered
      <3>6. QED
        BY <3>4, <3>5
    <2>3. QED
      BY <2>1, <2>2
  <1>4. u.kind = Crd /\ u.preserveNS => x = w
    BY <1>2 DEF InjectNamespaceConditional
  <1>5. x.kind = u.kind /\ IsObject(x)
    BY <1>1, <1>2, <1>3, <1>4 DEF Altered, Fields
  <1> HIDE DEF x
  <1>6. CASE u.kind # Crd
    <2>1. y = x
      BY <1>5, <1>6 DEF InjectNamespaceCRDWebhookClientConfig
    <2>2. QED
      BY <1>0, <1>3, <1>6, <2>1 DEF x, w
  <1>7. CASE u.kind = Crd
    <2>1. y = Redirect(x, webhook, ns)
      BY <1>5, <1>7 DEF InjectNamespaceCRDWebhookClientConfig
    <2>2. \A v, r : v.kind = Crd => (Redirected(v, r) <=> r.at = webhook /\ r.ns # None)
      BY DEF Redirected, RedirectedField
    <2>3. CASE u.preserveNS
      <3>1. Altered(u, x, {"owners", "ns", "name"})
        BY <1>1, <1>4, <1>7, <2>3 DEF Altered
      <3>2. Good(y)
        BY <1>1, <1>2, <1>4, <1>7, <2>1, <2>2, <2>3, <3>1, RedirectsReferences
           DEF NamespaceIn, NameIn, Moves
      <3>3. QED
        BY <1>0, <3>2 DEF x, w
    <2>4. CASE ~u.preserveNS
      <3>1. Good(x)
        BY <1>3, <2>4
      <3>2. References(x, ns) = References(u, ns)
        BY <1>5, <1>7, <2>2, <3>1, ReferencesTwice
      <3>3. Altered(x, x, {"owners", "ns", "name"})
        BY <1>5, Unaltered
      <3>4. /\ Altered(x, y, {"owners", "ns", "name", "refs"})
            /\ y.refs = References(x, ns)
            /\ y.ns = x.ns /\ y.name = x.name /\ y.owners = x.owners
        BY <1>5, <1>7, <2>1, <2>2, <3>3, RedirectsReferences
      <3>5. Good(y)
        BY <3>1, <3>2, <3>4 DEF Altered
      <3>6. QED
        BY <1>0, <3>5 DEF x, w
    <2>5. QED
      BY <2>3, <2>4
  <1>8. QED
    BY <1>6, <1>7

\* The same of a role binding.
LEMMA RoleBindingFields ==
    ASSUME NEW u, IsObject(u), u.kind = "RoleBinding", NEW config, config.target # None
    PROVE  Placed(u, TransformRoleBinding(u, config), config.uid, config.target)
  <1> DEFINE ns == config.target
             w == InjectOwner(u, config.uid)
             Moved == IF w.preserveNS THEN w ELSE [w EXCEPT !.ns = ns]
             v == TransformRoleBinding(u, config)
  <1>1. Altered(u, w, {"owners"}) /\ w.owners = {config.uid} /\ IsObject(w)
        /\ w.kind = u.kind
    <2>1. u.kind \notin ClusterScoped
      BY DEF ClusterScoped
    <2>2. Altered(u, w, {"owners"}) /\ w.owners = {config.uid}
      BY <2>1, InjectOwnerFields
    <2>3. QED
      BY <2>2 DEF Altered, Fields
  <1> HIDE DEF w
  <1>2. /\ Altered(u, Moved, {"owners", "ns", "name"})
        /\ Moved.owners = {config.uid} /\ Moved.ns = NamespaceIn(u, ns)
        /\ Moved.name = NameIn(u, ns)
    BY <1>1 DEF Altered, IsObject, Fields, NamespaceIn, NameIn, Moves, ClusterScoped
  <1>3. v = IF w.preserveRBSubjectNS THEN Moved ELSE Redirect(Moved, "subjects", ns)
    BY DEF TransformRoleBinding, InjectNamespaceRoleBindingConditional, w
  <1>4. w.preserveRBSubjectNS = u.preserveRBSubjectNS /\ u.kind \notin ClusterScoped
    BY <1>1 DEF Altered, Fields, ClusterScoped
  <1> HIDE DEF Moved
  <1>5. \A r : Redirected(u, r) <=>
                 ~u.preserveRBSubjectNS /\ r.at = "subjects" /\ r.ns # None
    BY DEF Redirected, RedirectedField
  <1>6. CASE u.preserveRBSubjectNS
    <2>1. References(u, ns) = u.refs
      BY <1>5, <1>6 DEF References
    <2>2. v = Moved /\ Moved.refs = u.refs
      BY <1>2, <1>3, <1>4, <1>6 DEF Altered, Fields
    <2>3. QED
      BY <1>2, <1>4, <2>1, <2>2 DEF Altered, Placed
  <1>7. CASE ~u.preserveRBSubjectNS
    <2>1. v = Redirect(Moved, "subjects", ns)
      BY <1>3, <1>4, <1>7
    <2> HIDE DEF v
    <2>2. QED
      BY <1>2, <1>4, <1>5, <1>7, <2>1, RedirectsReferences DEF v, Placed
  <1>8. QED
    BY <1>6, <1>7

\* What the transformers of a component leave of kind, label, images, defaults.
KindOf(c, u) == IF c = "community" THEN AppliedKind(u.kind) ELSE u.kind
ProviderOf(c, u) ==
    IF u.kind = "RoleBinding" THEN u.provider
    ELSE IF c = "community" THEN "community"
    ELSE IF c = "addons" /\ u.kind = "ClusterTask" THEN "redhat" ELSE u.provider
IsTask(c, u) ==
    c \in {"addons", "community"} /\ KindOf(c, u) = "ClusterTask" /\ u.containers # <<>>
ContainersOf(c, u, e) ==
    IF c \in {"pipeline", "triggers"} /\ u.kind = "Deployment"
    THEN Renewed(u.containers, Images(c, e))
    ELSE IF IsTask(c, u) THEN Stepped(u.containers, Images(c, e)) ELSE u.containers
ParamsOf(c, u, e) ==
    IF IsTask(c, u) THEN Defaulted(u.params, Images(c, e)) ELSE u.params

Rewritten == {"kind", "provider", "containers", "params"}

LEMMA AdditionalFields ==
    ASSUME NEW c \in Components, NEW u, IsObject(u), u.kind # "RoleBinding", NEW e
    PROVE  LET v == AdditionalTransformers(c, u, e)
           IN /\ Altered(u, v, Rewritten)
              /\ v.kind = KindOf(c, u) /\ v.provider = ProviderOf(c, u)
              /\ v.containers = ContainersOf(c, u, e) /\ v.params = ParamsOf(c, u, e)
  <1> DEFINE images == Images(c, e)
             v == AdditionalTransformers(c, u, e)
  <1>1. CASE c \in {"pipeline", "triggers"}
    <2>1. v = DeploymentImages(u, images)
      BY <1>1 DEF AdditionalTransformers
    <2> HIDE DEF v, images
    <2>2. /\ Altered(u, v, {"containers"})
          /\ v.containers = IF u.kind = "Deployment" THEN Renewed(u.containers, images)
                                                     ELSE u.containers
      BY <2>1, DeploymentImagesFields
    <2>3. /\ Altered(u, v, Rewritten) /\ v.kind = u.kind /\ v.provider = u.provider
          /\ v.params = u.params
      BY <2>2 DEF Altered, Rewritten, Fields
    <2>4. ~IsTask(c, u)
      BY <1>1 DEF IsTask
    <2>5. QED
      BY <1>1, <2>2, <2>3, <2>4
         DEF KindOf, ProviderOf, ContainersOf, ParamsOf, v, images
  <1>2. CASE c \in {"addons", "community"}
    <2> DEFINE w == IF c = "community" THEN ReplaceKind(u, "Task", "ClusterTask") ELSE u
               x == IF c = "community" THEN InjectProvider(w, "community", {})
                                       ELSE InjectProvider(w, "redhat", {"ClusterTask"})
    <2>1. v = TaskImages(x, images)
      BY <1>2 DEF AdditionalTransformers
    <2>2. Altered(u, w, {"kind"}) /\ w.kind = KindOf(c, u)
      BY ReplaceKindFields, Unaltered DEF KindOf
    <2> HIDE DEF w
    <2>3. /\ Altered(w, x, {"provider"})
          /\ x.provider = IF c = "community" THEN "community"
                          ELSE IF w.kind = "ClusterTask" THEN "redhat" ELSE w.provider
      BY <2>2, InjectProviderFields DEF Altered
    <2> HIDE DEF x, images, v
    <2>4. /\ Altered(u, x, {"kind", "provider"}) /\ x.kind = KindOf(c, u)
          /\ x.provider = ProviderOf(c, u)
          /\ x.containers = u.containers /\ x.params = u.params
      BY <1>2, <2>2, <2>3 DEF Altered, Fields, KindOf, ProviderOf
    <2>5. /\ Altered(x, v, {"containers", "params"})
          /\ v.containers = IF IsTask(c, u) THEN Stepped(u.containers, images)
                                            ELSE u.containers
          /\ v.params = IF IsTask(c, u) THEN Defaulted(u.params, images) ELSE u.params
      <3>1. IsObject(x) /\ (IsTask(c, u) <=> x.kind = "ClusterTask" /\ x.containers # <<>>)
        BY <1>2, <2>4 DEF IsTask, Altered
      <3>2. QED
        BY <2>1, <2>4, <3>1, TaskImagesFields
    <2>6. /\ Altered(u, v, Rewritten) /\ v.kind = x.kind /\ v.provider = x.provider
      BY <2>4, <2>5 DEF Altered, Rewritten, Fields
    <2>7. QED
      BY <1>2, <2>4, <2>5, <2>6 DEF ContainersOf, ParamsOf, v, images
  <1>3. QED
    BY <1>1, <1>2 DEF Components

DataOf(u) ==
    IF u.kind = "ConfigMap" /\ u.name = "config-defaults"
    THEN With(u.data, "default-service-account", "pipeline")
    ELSE IF u.kind = "ConfigMap" /\ u.name = "feature-flags"
         THEN With(u.data, "disable-affinity-assistant", "true") ELSE u.data

LEMMA SettingsFields ==
    ASSUME NEW u, IsObject(u)
    PROVE  LET v == SetDisableAffinityAssistant(InjectDefaultSA(u))
           IN Altered(u, v, {"data"}) /\ v.data = DataOf(u)
  <1> DEFINE w == InjectDefaultSA(u)
             v == SetDisableAffinityAssistant(w)
  <1>1. /\ Altered(u, w, {"data"})
        /\ w.data = IF u.kind = "ConfigMap" /\ u.name = "config-defaults"
                    THEN With(u.data, "default-service-account", "pipeline") ELSE u.data
    BY SetDataFields DEF InjectDefaultSA
  <1> HIDE DEF w
  <1>2. IsObject(w) /\ w.kind = u.kind /\ w.name = u.name
    BY <1>1 DEF Altered, Fields
  <1>3. /\ Altered(w, v, {"data"})
        /\ v.data = IF w.kind = "ConfigMap" /\ w.name = "feature-flags"
                    THEN With(w.data, "disable-affinity-assistant", "true") ELSE w.data
    BY <1>2, SetDataFields DEF SetDisableAffinityAssistant
  <1> HIDE DEF v
  <1>4. Altered(u, v, {"data"})
    BY <1>1, <1>3 DEF Altered
  <1>5. v.data = DataOf(u)
    BY <1>1, <1>2, <1>3 DEF DataOf
  <1>6. QED
    BY <1>4, <1>5 DEF v, w

LEMMA DataTwice ==
    ASSUME NEW u, NEW v, v.data = DataOf(u),
           u.kind = "ConfigMap" <=> v.kind = "ConfigMap",
           u.kind = "ConfigMap" => v.name = u.name
    PROVE  DataOf(v) = DataOf(u)
  <1>1. \A d, k, x : With(With(d, k, x), k, x) = With(d, k, x)
    BY DEF With
  <1>2. QED
    BY <1>1 DEF DataOf

\* All a transformation makes of an object.
Transformed(c, u, t, config, e) ==
    /\ IsObject(t)
    /\ t.kind = KindOf(c, u) /\ t.name = NameIn(u, config.target)
    /\ t.ns = NamespaceIn(u, config.target)
    /\ t.owners = IF u.kind \in ClusterScoped THEN u.owners ELSE {config.uid}
    /\ t.provider = ProviderOf(c, u)
    /\ t.preserveNS = u.preserveNS /\ t.preserveRBSubjectNS = u.preserveRBSubjectNS
    /\ t.refs = References(u, config.target)
    /\ t.data = DataOf(u)
    /\ t.containers = ContainersOf(c, u, e) /\ t.params = ParamsOf(c, u, e)
    /\ t.tasks = u.tasks

LEMMA TransformedFields ==
    ASSUME NEW c \in Components, NEW u, IsObject(u), u.refs \subseteq Refs, NEW e,
           NEW config, config.target # None
    PROVE  Transformed(c, u, TransformObject(c, u, config, e), config, e)
  <1> DEFINE ns == config.target
  <1>1. CASE u.kind = "RoleBinding"
    <2> DEFINE v == TransformRoleBinding(u, config)
    <2>1. Placed(u, v, config.uid, ns)
      BY <1>1, RoleBindingFields
    <2>2. TransformObject(c, u, config, e) = v
      BY <1>1 DEF TransformObject
    <2> HIDE DEF v
    <2>3. /\ KindOf(c, u) = u.kind /\ ProviderOf(c, u) = u.provider /\ DataOf(u) = u.data
          /\ ContainersOf(c, u, e) = u.containers /\ ParamsOf(c, u, e) = u.params
      BY <1>1 DEF KindOf, AppliedKind, ProviderOf, DataOf, ContainersOf, ParamsOf, IsTask
    <2>4. /\ IsObject(v) /\ v.kind = u.kind /\ v.provider = u.provider
          /\ v.preserveNS = u.preserveNS /\ v.preserveRBSubjectNS = u.preserveRBSubjectNS
          /\ v.data = u.data /\ v.containers = u.containers /\ v.params = u.params
          /\ v.tasks = u.tasks
      BY <2>1 DEF Placed, Altered, Fields
    <2>5. QED
      BY <2>1, <2>2, <2>3, <2>4 DEF Placed, Transformed
  <1>2. CASE u.kind # "RoleBinding"
    <2> DEFINE x == InjectNamespaceCRDWebhookClientConfig(
                        InjectNamespaceConditional(InjectOwner(u, config.uid), ns), ns)
               y == SetDisableAffinityAssistant(InjectDefaultSA(x))
               v == AdditionalTransformers(c, y, e)
    <2>1. Placed(u, x, config.uid, ns)
      BY <1>2, PlacedFields
    <2>2. TransformObject(c, u, config, e) = v
      BY <1>2 DEF TransformObject, TransformOther
    <2> HIDE DEF x
    <2>3. Altered(x, y, {"data"}) /\ y.data = DataOf(x)
      BY <2>1, SettingsFields DEF Placed, Altered
    <2> HIDE DEF y
    <2>4. /\ IsObject(x) /\ x.kind = u.kind /\ x.provider = u.provider
          /\ x.preserveNS = u.preserveNS /\ x.preserveRBSubjectNS = u.preserveRBSubjectNS
          /\ x.data = u.data /\ x.containers = u.containers /\ x.params = u.params
          /\ x.tasks = u.tasks
      BY <2>1 DEF Placed, Altered, Fields
    <2>5. /\ IsObject(y) /\ y.kind = u.kind /\ y.provider = u.provider
          /\ y.preserveNS = u.preserveNS /\ y.preserveRBSubjectNS = u.preserveRBSubjectNS
          /\ y.containers = u.containers /\ y.params = u.params
          /\ y.tasks = u.tasks /\ y.name = x.name /\ y.ns = x.ns
          /\ y.refs = x.refs /\ y.owners = x.owners
      BY <2>3, <2>4 DEF Altered, Fields
    <2>6. DataOf(x) = DataOf(u)
      BY <2>1, <2>4 DEF Placed, DataOf, NameIn
    <2>7. /\ Altered(y, v, Rewritten)
          /\ v.kind = KindOf(c, y) /\ v.provider = ProviderOf(c, y)
          /\ v.containers = ContainersOf(c, y, e) /\ v.params = ParamsOf(c, y, e)
      BY <1>2, <2>5, AdditionalFields
    <2> HIDE DEF v
    <2>8. /\ KindOf(c, y) = KindOf(c, u) /\ ProviderOf(c, y) = ProviderOf(c, u)
          /\ ContainersOf(c, y, e) = ContainersOf(c, u, e) /\ ParamsOf(c, y, e) = ParamsOf(c, u, e)
      BY <2>5 DEF KindOf, ProviderOf, ContainersOf, ParamsOf, IsTask
    <2>9. /\ IsObject(v) /\ v.name = y.name /\ v.ns = y.ns /\ v.owners = y.owners
          /\ v.preserveNS = y.preserveNS /\ v.preserveRBSubjectNS = y.preserveRBSubjectNS
          /\ v.refs = y.refs /\ v.data = y.data /\ v.tasks = y.tasks
      BY <2>7 DEF Altered, Rewritten, Fields
    <2>10. QED
      BY <2>1, <2>2, <2>3, <2>5, <2>6, <2>7, <2>8, <2>9 DEF Placed, Transformed
  <1>3. QED
    BY <1>1, <1>2

\* What is shipped, and what is generated like it.
AsRead(u) ==
    /\ IsObject(u)
    /\ u.owners = {} /\ (u.kind \in ClusterScoped => u.ns = None)
    /\ u.refs \subseteq Refs
    /\ u.containers \in Seq(Containers)
    /\ u.kind # "Pipeline" => u.params \in SUBSET Params

\* A second transformation, for whatever Config, leaves nothing of the first.
LEMMA TransformTwice ==
    ASSUME NEW c \in Components, NEW u, AsRead(u), NEW e,
           NEW config, config.target \in STRING \ {None},
           NEW again, again.target # None
    PROVE  TransformObject(c, TransformObject(c, u, config, e), again, e)
               = TransformObject(c, u, again, e)
  <1> DEFINE t == TransformObject(c, u, config, e)
             v == TransformObject(c, t, again, e)
             w == TransformObject(c, u, again, e)
             images == Images(c, e)
  <1>1. IsObject(u) /\ u.refs \subseteq Refs /\ u.containers \in Seq(Containers)
    BY DEF AsRead
  <1>2. Transformed(c, u, t, config, e) /\ Transformed(c, u, w, again, e)
    BY <1>1, TransformedFields
  <1> HIDE DEF t, w
  <1>3. t.refs \subseteq Refs
    BY <1>1, <1>2 DEF Transformed, References, Refs
  <1>4. Transformed(c, t, v, again, e)
    BY <1>2, <1>3, TransformedFields DEF Transformed
  <1> HIDE DEF v, images
  <1>5. /\ t.kind = KindOf(c, u) /\ t.preserveNS = u.preserveNS
        /\ t.preserveRBSubjectNS = u.preserveRBSubjectNS
    BY <1>2 DEF Transformed
  <1>6. /\ \A k \in ClusterScoped \cup DOMAIN RedirectedField
                        \cup {"ConfigMap", "Deployment"} :
             t.kind = k <=> u.kind = k
        /\ KindOf(c, t) = KindOf(c, u)
    BY <1>5 DEF KindOf, AppliedKind, ClusterScoped, RedirectedField
  <1>7. v.kind = w.kind
    BY <1>2, <1>4, <1>6 DEF Transformed
  <1>8. v.name = w.name /\ v.ns = w.ns /\ v.owners = w.owners
    <2>1. /\ t.kind \in ClusterScoped <=> u.kind \in ClusterScoped
          /\ t.kind = "Namespace" <=> u.kind = "Namespace"
      BY <1>6 DEF ClusterScoped
    <2>2. /\ t.name = NameIn(u, config.target) /\ t.ns = NamespaceIn(u, config.target)
          /\ t.owners = IF u.kind \in ClusterScoped THEN u.owners ELSE {config.uid}
      BY <1>2 DEF Transformed
    <2>3. /\ v.name = NameIn(t, again.target) /\ w.name = NameIn(u, again.target)
          /\ v.ns = NamespaceIn(t, again.target) /\ w.ns = NamespaceIn(u, again.target)
          /\ v.owners = IF t.kind \in ClusterScoped THEN t.owners ELSE {again.uid}
          /\ w.owners = IF u.kind \in ClusterScoped THEN u.owners ELSE {again.uid}
      BY <1>2, <1>4 DEF Transformed
    <2>4. QED
      BY <1>5, <2>1, <2>2, <2>3 DEF NameIn, NamespaceIn, Moves
  <1>9. v.provider = w.provider /\ v.tasks = w.tasks
        /\ v.preserveNS = w.preserveNS /\ v.preserveRBSubjectNS = w.preserveRBSubjectNS
    <2>1. t.provider = ProviderOf(c, u) /\ v.provider = ProviderOf(c, t)
          /\ w.provider = ProviderOf(c, u)
      BY <1>2, <1>4 DEF Transformed
    <2>2. t.kind = "RoleBinding" <=> u.kind = "RoleBinding"
      BY <1>6 DEF RedirectedField
    <2>3. c = "addons" => t.kind = u.kind
      BY <1>5 DEF KindOf
    <2>4. QED
      BY <1>2, <1>4, <2>1, <2>2, <2>3 DEF Transformed, ProviderOf
  <1>10. v.refs = w.refs
    <2>1. \A r : Redirected(t, r) <=> Redirected(u, r)
      BY <1>5, <1>6 DEF Redirected, RedirectedField
    <2>2. t.refs = References(u, config.target)
      BY <1>2 DEF Transformed
    <2>3. References(t, again.target) = References(u, again.target)
      <3>1. ASSUME NEW n, n # None, t.refs = References(u, n)
            PROVE  References(t, again.target) = References(u, again.target)
        BY <1>1, <2>1, <3>1, ReferencesTwice
      <3>2. QED
        BY <2>2, <3>1
    <2>4. QED
      BY <1>2, <1>4, <2>3 DEF Transformed
  <1>11. v.data = w.data
    <2>1. /\ t.kind = "ConfigMap" <=> u.kind = "ConfigMap"
          /\ u.kind = "ConfigMap" => t.name = u.name
          /\ t.data = DataOf(u)
      BY <1>2, <1>6 DEF Transformed, NameIn
    <2>2. DataOf(t) = DataOf(u)
      BY <2>1, DataTwice
    <2>3. QED
      BY <1>2, <1>4, <2>2 DEF Transformed
  <1>12. v.containers = w.containers /\ v.params = w.params
    <2>1. /\ t.containers = ContainersOf(c, u, e) /\ t.params = ParamsOf(c, u, e)
          /\ v.containers = ContainersOf(c, t, e) /\ v.params = ParamsOf(c, t, e)
          /\ w.containers = ContainersOf(c, u, e) /\ w.params = ParamsOf(c, u, e)
      BY <1>2, <1>4 DEF Transformed
    <2>2. t.kind = "Deployment" <=> u.kind = "Deployment"
      BY <1>6
    <2>3. CASE IsTask(c, u)
      <3>1. /\ ContainersOf(c, u, e) = Stepped(u.containers, images)
            /\ ParamsOf(c, u, e) = Defaulted(u.params, images)
        BY <2>3 DEF ContainersOf, ParamsOf, IsTask, images
      <3>2. t.containers # <<>>
        BY <1>1, <2>1, <2>3, <3>1, SteppedTwice DEF IsTask
      <3>3. IsTask(c, t)
        BY <1>6, <2>3, <3>2 DEF IsTask
      <3>4. /\ ContainersOf(c, t, e) = Stepped(t.containers, images)
            /\ ParamsOf(c, t, e) = Defaulted(t.params, images)
        BY <3>3 DEF ContainersOf, ParamsOf, IsTask, images
      <3>5. QED
        <4>1. u.params \in SUBSET Params
          BY <2>3 DEF IsTask, KindOf, AppliedKind, AsRead
        <4>2. QED
          BY <1>1, <2>1, <3>1, <3>4, <4>1, SteppedTwice, DefaultedTwice
    <2>4. CASE ~IsTask(c, u) /\ c \in {"pipeline", "triggers"} /\ u.kind = "Deployment"
      <3>1. /\ ContainersOf(c, u, e) = Renewed(u.containers, images)
            /\ ContainersOf(c, t, e) = Renewed(t.containers, images)
            /\ ~IsTask(c, t)
        BY <2>2, <2>4 DEF ContainersOf, IsTask, images
      <3>2. Renewed(t.containers, images) = Renewed(u.containers, images)
        BY <1>1, <2>1, <3>1, RenewedTwice
      <3>3. QED
        BY <2>1, <2>4, <3>1, <3>2 DEF ParamsOf
    <2>5. CASE ~IsTask(c, u) /\ ~(c \in {"pipeline", "triggers"} /\ u.kind = "Deployment")
      <3>1. t.containers = u.containers /\ t.params = u.params
        BY <2>1, <2>5 DEF ContainersOf, ParamsOf
      <3>2. ~IsTask(c, t)
        BY <1>6, <2>5, <3>1 DEF IsTask
      <3>3. QED
        BY <2>1, <2>2, <2>5, <3>1, <3>2 DEF ContainersOf, ParamsOf
    <2>6. QED
      BY <2>3, <2>4, <2>5
  <1>13. IsObject(v) /\ IsObject(w)
    BY <1>2, <1>4 DEF Transformed
  <1>14. v = w
    <2>1. \A f \in Fields : v[f] = w[f]
      BY <1>7, <1>8, <1>9, <1>10, <1>11, <1>12 DEF Fields
    <2>2. QED
      BY <1>13, <2>1 DEF IsObject
  <1>15. QED
    BY <1>14 DEF v, w, t
=============================================================================
