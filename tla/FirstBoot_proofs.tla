-------------------------- MODULE FirstBoot_proofs --------------------------
(***************************************************************************)
(* Proofs about what the synth command's definition comes to on the host:  *)
(* the root planned for an image made of it, and the first boot of that    *)
(* image, for definitions of any length.                                   *)
(***************************************************************************)
EXTENDS DurableFiles_proofs, FiniteSetTheorems

-----------------------------------------------------------------------------
(* The planned root: an entry that is added stays as it is, whatever is    *)
(* added after it.                                                         *)

Extends(after, plan) ==
  after # NoPlan =>
    /\ plan # NoPlan /\ DOMAIN plan \subseteq DOMAIN after
    /\ \A path \in DOMAIN plan : after[path] = plan[path]

LEMMA ExtendsItself == \A plan : Extends(plan, plan)
BY DEF Extends

LEMMA ExtendsAll ==
  ASSUME NEW first, NEW second, NEW third, Extends(second, first), Extends(third, second)
  PROVE  Extends(third, first)
BY DEF Extends

LEMMA AddExtends ==
  ASSUME NEW plan, NEW path, NEW entry
  PROVE  /\ Extends(Add(plan, path, entry), plan)
         /\ Add(plan, path, entry) # NoPlan =>
              /\ path \in DOMAIN Add(plan, path, entry)
              /\ Add(plan, path, entry)[path] = entry
<1> DEFINE after == [other \in DOMAIN plan \cup {path} |->
                       IF other = path THEN entry ELSE plan[other]]
<1>1. CASE plan # NoPlan /\ Compatible(plan, path, entry)
  <2>1. Add(plan, path, entry) = after
    BY <1>1 DEF Add
  <2>2. path \in DOMAIN plan => entry = plan[path]
    BY <1>1 DEF Compatible
  <2> QED
    BY <1>1, <2>1, <2>2 DEF Extends
<1>2. CASE ~(plan # NoPlan /\ Compatible(plan, path, entry))
  BY <1>2 DEF Add, Extends
<1> QED
  BY <1>1, <1>2

LEMMA LevelExtends ==
  ASSUME NEW plan, NEW path, NEW i, NEW leaf, NEW ancestor
  PROVE  Extends(AddLevel(plan, path, i, leaf, ancestor), plan)
BY AddExtends, ExtendsItself DEF AddLevel

(* What the recursive definitions of the plan define.                      *)
LEMMA DirectoryBuilt ==
  ASSUME NEW plan, NEW path, Len(path) \in Nat, NEW leaf, NEW ancestor
  PROVE  \E built :
           /\ built = [i \in 0..Len(path) |->
                IF i = 0 THEN plan ELSE AddLevel(built[i - 1], path, i, leaf, ancestor)]
           /\ AddDirectory(plan, path, leaf, ancestor) = built[Len(path)]
<1> DEFINE N == Len(path)
           Step(under, i) == AddLevel(under, path, i, leaf, ancestor)
           Steps(f, n) == \A i \in 0..n : f[i] = IF i = 0 THEN plan ELSE Step(f[i - 1], i)
           Partial == {n \in Nat : \E f : DOMAIN f = 0..n /\ Steps(f, n)}
           built == CHOOSE f : f = [i \in 0..N |-> IF i = 0 THEN plan ELSE Step(f[i - 1], i)]
<1>1. \A n \in Nat : n \in Partial
  <2>1. 0 \in Partial
    <3> DEFINE f == [i \in 0..0 |-> plan]
    <3>1. DOMAIN f = 0..0 /\ Steps(f, 0)
      OBVIOUS
    <3> QED
      BY <3>1
  <2>2. ASSUME NEW n \in Nat, n \in Partial
        PROVE  n + 1 \in Partial
    <3>1. PICK f : DOMAIN f = 0..n /\ Steps(f, n)
      BY <2>2
    <3> DEFINE last == Step(f[n], n + 1)
               g == [i \in 0..(n + 1) |-> IF i \in 0..n THEN f[i] ELSE last]
    <3> HIDE DEF Step
    <3>2. ASSUME NEW i \in 0..(n + 1)
          PROVE  g[i] = IF i = 0 THEN plan ELSE Step(g[i - 1], i)
      <4>1. CASE i \in 0..n
        <5>1. g[i] = f[i] /\ (i # 0 => g[i - 1] = f[i - 1])
          BY <4>1
        <5> QED
          BY <3>1, <4>1, <5>1
      <4>2. CASE i = n + 1
        <5>1. g[i] = last /\ g[i - 1] = f[n] /\ i # 0
          BY <4>2
        <5> QED
          BY <4>2, <5>1
      <4> QED
        BY <4>1, <4>2
    <3>3. DOMAIN g = 0..(n + 1) /\ Steps(g, n + 1)
      BY <3>2
    <3> HIDE DEF g, Steps
    <3>4. n + 1 \in Nat /\ \E h : DOMAIN h = 0..(n + 1) /\ Steps(h, n + 1)
      BY <3>3
    <3> QED
      BY <3>4
  <2> HIDE DEF Partial
  <2> QED
    BY <2>1, <2>2, Induction
<1>2. \E f : f = [i \in 0..N |-> IF i = 0 THEN plan ELSE Step(f[i - 1], i)]
  <2>1. PICK f : DOMAIN f = 0..N /\ Steps(f, N)
    BY <1>1
  <2> DEFINE g == [i \in 0..N |-> f[i]]
  <2> HIDE DEF Step
  <2>2. g = [i \in 0..N |-> IF i = 0 THEN plan ELSE Step(g[i - 1], i)]
    BY <2>1
  <2> QED
    BY <2>2
<1>3. built = [i \in 0..N |-> IF i = 0 THEN plan ELSE Step(built[i - 1], i)]
  BY <1>2
<1>4. AddDirectory(plan, path, leaf, ancestor) = built[N]
  BY DEF AddDirectory
<1> HIDE DEF built
<1> QED
  BY <1>3, <1>4

LEMMA DirectoryExtends ==
  ASSUME NEW plan, NEW path, Len(path) \in Nat, NEW leaf, NEW ancestor
  PROVE  Extends(AddDirectory(plan, path, leaf, ancestor), plan)
<1> DEFINE N == Len(path)
           Step(under, i) == AddLevel(under, path, i, leaf, ancestor)
<1>1. PICK built :
        /\ built = [i \in 0..N |-> IF i = 0 THEN plan ELSE Step(built[i - 1], i)]
        /\ AddDirectory(plan, path, leaf, ancestor) = built[N]
  BY DirectoryBuilt
<1> DEFINE Good == {n \in Nat : n <= N => Extends(built[n], plan)}
<1>2. \A n \in Nat : n \in Good
  <2>1. 0 \in Good
    BY <1>1, ExtendsItself
  <2>2. ASSUME NEW n \in Nat, n \in Good
        PROVE  n + 1 \in Good
    <3> SUFFICES ASSUME n + 1 <= N
                 PROVE  Extends(built[n + 1], plan)
      OBVIOUS
    <3>1. built[n + 1] = Step(built[n], n + 1)
      <4>1. n + 1 \in 0..N /\ n + 1 # 0 /\ (n + 1) - 1 = n
        OBVIOUS
      <4> HIDE DEF Step, N
      <4> QED
        BY <1>1, <4>1
    <3>2. Extends(built[n], plan)
      BY <2>2
    <3>3. Extends(Step(built[n], n + 1), built[n])
      BY LevelExtends
    <3> QED
      BY <3>1, <3>2, <3>3, ExtendsAll
  <2> HIDE DEF Good
  <2> QED
    BY <2>1, <2>2, Induction
<1> QED
  BY <1>1, <1>2

IsSeq(list) == list \in Seq(Range(list))
LEMMA SeqJoined ==
  ASSUME NEW first, NEW second, IsSeq(first), IsSeq(second)
  PROVE  /\ IsSeq(first \o second)
         /\ Range(first \o second) = Range(first) \cup Range(second)
<1> DEFINE T == Range(first) \cup Range(second)
<1>1. first \in Seq(T) /\ second \in Seq(T)
  <2>1. Range(first) \subseteq T /\ Range(second) \subseteq T
    OBVIOUS
  <2> HIDE DEF T
  <2> QED
    BY <2>1, WidenSeq DEF IsSeq
<1> HIDE DEF T
<1>2. first \o second \in Seq(T) /\ Range(first \o second) = Range(first) \cup Range(second)
  <2>1. first \o second \in Seq(T)
    BY <1>1, ConcatProperties
  <2> QED
    BY <1>1, <2>1, RangeConcatenation
<1> QED
  BY <1>2 DEF IsSeq, T

LEMMA SeqByIndex ==
  ASSUME NEW n \in Nat, NEW list, list = [i \in 1..n |-> list[i]]
  PROVE  IsSeq(list)
<1>1. list \in [1..n -> Range(list)]
  BY DEF Range
<1> HIDE DEF Range
<1> QED
  BY <1>1, SeqDef DEF IsSeq

LEMMA FrontLength ==
  ASSUME NEW path, IsSeq(path)
  PROVE  Len(path) \in Nat /\ Len(Front(path)) \in Nat
<1> DEFINE T == Range(path)
           n == Len(path)
<1>1. path \in Seq(T) /\ n \in Nat
  BY LenProperties DEF IsSeq
<1> HIDE DEF T, n
<1>2. \A i \in 1..(n - 1) : path[i] \in T
  BY <1>1, ElementOfSeq DEF n
<1>3. Len(SubSeq(path, 1, n - 1)) = IF 1 <= n - 1 THEN (n - 1) - 1 + 1 ELSE 0
  <2>1. 1 \in Int /\ n - 1 \in Int
    BY <1>1
  <2> QED
    BY <1>2, <2>1, SubSeqProperties
<1>4. Len(SubSeq(path, 1, n - 1)) \in Nat
  BY <1>1, <1>3
<1> QED
  BY <1>1, <1>4 DEF Front, n

LEMMA FileExtends ==
  ASSUME NEW plan, NEW path, IsSeq(path), NEW entry
  PROVE  /\ Extends(AddFile(plan, path, entry), plan)
         /\ AddFile(plan, path, entry) # NoPlan =>
              /\ path \in DOMAIN AddFile(plan, path, entry)
              /\ AddFile(plan, path, entry)[path] = entry
<1> DEFINE leaf == Directory("0755", "root")
           parents == Parents(plan, path)
<1>1. Extends(parents, plan)
  <2>1. Extends(AddDirectory(plan, Front(path), leaf, leaf), plan)
    <3> HIDE DEF leaf
    <3> QED
      BY FrontLength, DirectoryExtends
  <2> QED
    BY <2>1, ExtendsItself DEF Parents
<1>2. Extends(AddFile(plan, path, entry), plan)
  <2>1. Extends(Add(parents, path, entry), parents)
    BY AddExtends
  <2> HIDE DEF parents
  <2>2. Extends(Add(parents, path, entry), plan)
    BY <1>1, <2>1, ExtendsAll
  <2> QED
    BY <2>2 DEF AddFile, parents
<1> QED
  BY <1>2, AddExtends DEF AddFile

LEMMA ApplyExtends ==
  ASSUME NEW plan, NEW addition, IsSeq(addition.path)
  PROVE  /\ Extends(Apply(plan, addition), plan)
         /\ Apply(plan, addition) # NoPlan /\ addition.entry.kind # "directory" =>
              /\ addition.path \in DOMAIN Apply(plan, addition)
              /\ Apply(plan, addition)[addition.path] = addition.entry
<1> DEFINE path == addition.path
           entry == addition.entry
<1>1. CASE plan = NoPlan
  BY <1>1 DEF Apply, Extends
<1>2. CASE plan # NoPlan /\ entry.kind = "directory"
  <2>1. Apply(plan, addition) = AddDirectory(plan, path, entry, addition.above)
    BY <1>2 DEF Apply
  <2>2. Len(path) \in Nat
    BY FrontLength
  <2> HIDE DEF path, entry
  <2>3. Extends(AddDirectory(plan, path, entry, addition.above), plan)
    BY <2>2, DirectoryExtends
  <2> QED
    BY <1>2, <2>1, <2>3 DEF entry
<1>3. CASE plan # NoPlan /\ entry.kind # "directory"
  <2>1. Apply(plan, addition) = AddFile(plan, path, entry)
    BY <1>3 DEF Apply
  <2> QED
    BY <2>1, FileExtends
<1> QED
  BY <1>1, <1>2, <1>3

(* A plan that was made of additions has every file that was added, as it  *)
(* was added: what is added later never replaces it.                       *)
LEMMA PlannedBuilt ==
  ASSUME NEW additions, Len(additions) \in Nat
  PROVE  \E plan :
           /\ plan = [n \in 0..Len(additions) |->
                IF n = 0 THEN <<>> ELSE Apply(plan[n - 1], additions[n])]
           /\ Planned(additions) = plan[Len(additions)]
<1> DEFINE N == Len(additions)
           Step(under, i) == Apply(under, additions[i])
           Steps(f, n) == \A i \in 0..n : f[i] = IF i = 0 THEN <<>> ELSE Step(f[i - 1], i)
           Partial == {n \in Nat : \E f : DOMAIN f = 0..n /\ Steps(f, n)}
           plan == CHOOSE f : f = [n \in 0..N |-> IF n = 0 THEN <<>> ELSE Step(f[n - 1], n)]
<1>1. \A n \in Nat : n \in Partial
  <2>1. 0 \in Partial
    <3> DEFINE f == [i \in 0..0 |-> <<>>]
    <3>1. DOMAIN f = 0..0 /\ Steps(f, 0)
      OBVIOUS
    <3> QED
      BY <3>1
  <2>2. ASSUME NEW n \in Nat, n \in Partial
        PROVE  n + 1 \in Partial
    <3>1. PICK f : DOMAIN f = 0..n /\ Steps(f, n)
      BY <2>2
    <3> DEFINE last == Step(f[n], n + 1)
               g == [i \in 0..(n + 1) |-> IF i \in 0..n THEN f[i] ELSE last]
    <3> HIDE DEF Step
    <3>2. ASSUME NEW i \in 0..(n + 1)
          PROVE  g[i] = IF i = 0 THEN <<>> ELSE Step(g[i - 1], i)
      <4>1. CASE i \in 0..n
        <5>1. g[i] = f[i] /\ (i # 0 => g[i - 1] = f[i - 1])
          BY <4>1
        <5> QED
          BY <3>1, <4>1, <5>1
      <4>2. CASE i = n + 1
        <5>1. g[i] = last /\ g[i - 1] = f[n] /\ i # 0
          BY <4>2
        <5> QED
          BY <4>2, <5>1
      <4> QED
        BY <4>1, <4>2
    <3>3. DOMAIN g = 0..(n + 1) /\ Steps(g, n + 1)
      BY <3>2
    <3> HIDE DEF g, Steps
    <3>4. n + 1 \in Nat /\ \E h : DOMAIN h = 0..(n + 1) /\ Steps(h, n + 1)
      BY <3>3
    <3> QED
      BY <3>4
  <2> HIDE DEF Partial
  <2> QED
    BY <2>1, <2>2, Induction
<1>2. \E f : f = [n \in 0..N |-> IF n = 0 THEN <<>> ELSE Step(f[n - 1], n)]
  <2>1. PICK f : DOMAIN f = 0..N /\ Steps(f, N)
    BY <1>1
  <2> DEFINE g == [i \in 0..N |-> f[i]]
  <2> HIDE DEF Step
  <2>2. g = [n \in 0..N |-> IF n = 0 THEN <<>> ELSE Step(g[n - 1], n)]
    BY <2>1
  <2> QED
    BY <2>2
<1>3. plan = [n \in 0..N |-> IF n = 0 THEN <<>> ELSE Step(plan[n - 1], n)]
  BY <1>2
<1>4. Planned(additions) = plan[N]
  BY DEF Planned
<1> HIDE DEF plan
<1> QED
  BY <1>3, <1>4

LEMMA PlannedFiles ==
  ASSUME NEW additions, Len(additions) \in Nat,
         \A i \in 1..Len(additions) : IsSeq(additions[i].path),
         Planned(additions) # NoPlan, NEW k \in 1..Len(additions),
         additions[k].entry.kind # "directory"
  PROVE  /\ additions[k].path \in DOMAIN Planned(additions)
         /\ Planned(additions)[additions[k].path] = additions[k].entry
<1> DEFINE N == Len(additions)
           Step(under, i) == Apply(under, additions[i])
<1>1. PICK plan :
        /\ plan = [n \in 0..N |-> IF n = 0 THEN <<>> ELSE Step(plan[n - 1], n)]
        /\ Planned(additions) = plan[N]
  BY PlannedBuilt
<1> DEFINE this == additions[k]
           Has1(after) == after # NoPlan => this.path \in DOMAIN after
                                            /\ after[this.path] = this.entry
           Good == {n \in Nat : k <= n /\ n <= N => Has1(plan[n])}
<1>2. \A n \in Nat : n \in Good
  <2>1. 0 \in Good
    OBVIOUS
  <2>2. ASSUME NEW n \in Nat, n \in Good
        PROVE  n + 1 \in Good
    <3> SUFFICES ASSUME k <= n + 1, n + 1 <= N
                 PROVE  Has1(plan[n + 1])
      OBVIOUS
    <3>1. plan[n + 1] = Step(plan[n], n + 1)
      <4>1. n + 1 \in 0..N /\ n + 1 # 0 /\ (n + 1) - 1 = n
        OBVIOUS
      <4> HIDE DEF Step, N
      <4> QED
        BY <1>1, <4>1
    <3>2. IsSeq(additions[n + 1].path)
      OBVIOUS
    <3>3. CASE k = n + 1
      <4>1. IsSeq(this.path) /\ this.entry.kind # "directory"
        OBVIOUS
      <4>2. plan[n + 1] = Apply(plan[n], this)
        BY <3>1, <3>3
      <4> HIDE DEF this
      <4> QED
        BY <4>1, <4>2, ApplyExtends
    <3>4. CASE k # n + 1
      <4>1. k <= n /\ n <= N
        BY <3>4
      <4>2. Has1(plan[n])
        BY <2>2, <4>1
      <4>3. Extends(Step(plan[n], n + 1), plan[n])
        BY <3>2, ApplyExtends
      <4> HIDE DEF Step, this
      <4> QED
        BY <3>1, <4>2, <4>3 DEF Extends
    <3> QED
      BY <3>3, <3>4
  <2> HIDE DEF Good
  <2> QED
    BY <2>1, <2>2, Induction
<1>3. Has1(plan[N])
  BY <1>2
<1> QED
  BY <1>1, <1>3

(* The additions: a list of them, and what a list that is put together of  *)
(* several holds.                                                          *)
Planable(list) == IsSeq(list) /\ \A addition \in Range(list) : IsSeq(addition.path)

LEMMA PlanableJoined ==
  ASSUME NEW first, NEW second, Planable(first), Planable(second)
  PROVE  /\ Planable(first \o second)
         /\ Range(first) \subseteq Range(first \o second)
         /\ Range(second) \subseteq Range(first \o second)
<1>1. IsSeq(first \o second) /\ Range(first \o second) = Range(first) \cup Range(second)
  BY SeqJoined DEF Planable
<1> QED
  BY <1>1 DEF Planable

LEMMA PlanableByIndex ==
  ASSUME NEW n \in Nat, NEW list, list = [i \in 1..n |-> list[i]],
         \A i \in 1..n : IsSeq(list[i].path)
  PROVE  Planable(list) /\ \A i \in 1..n : list[i] \in Range(list)
<1>1. IsSeq(list)
  BY SeqByIndex
<1>2. Range(list) = {list[i] : i \in 1..n}
  BY DEF Range
<1> QED
  BY <1>1, <1>2 DEF Planable

LEMMA AdditionFields ==
  ASSUME NEW path, NEW entry
  PROVE  Addition(path, entry).path = path /\ Addition(path, entry).entry = entry
BY DEF Addition

LEMMA ShortPaths ==
  /\ \A a : IsSeq(<<a>>)
  /\ \A a, b : IsSeq(<<a, b>>)
  /\ \A a, b, c : IsSeq(<<a, b, c>>)
  /\ \A a, b, c, d : IsSeq(<<a, b, c, d>>)
  /\ \A a, b, c, d, e : IsSeq(<<a, b, c, d, e>>)
<1>1. \A a : <<a>> \in Seq(Range(<<a>>))
  BY DEF Range
<1>2. \A a, b : <<a, b>> \in Seq(Range(<<a, b>>))
  BY DEF Range
<1>3. \A a, b, c : <<a, b, c>> \in Seq(Range(<<a, b, c>>))
  BY DEF Range
<1>4. \A a, b, c, d : <<a, b, c, d>> \in Seq(Range(<<a, b, c, d>>))
  BY DEF Range
<1>5. \A a, b, c, d, e : <<a, b, c, d, e>> \in Seq(Range(<<a, b, c, d, e>>))
  BY DEF Range
<1> QED
  BY <1>1, <1>2, <1>3, <1>4, <1>5 DEF IsSeq

LEMMA NothingPlanable == Planable(<<>>)
<1>1. \A T : <<>> \in Seq(T)
  OBVIOUS
<1>2. \A x : x \notin Range(<<>>)
  BY DEF Range
<1> QED
  BY <1>1, <1>2 DEF Planable, IsSeq

LEMMA OnePlanable ==
  ASSUME NEW addition, IsSeq(addition.path)
  PROVE  Planable(<<addition>>) /\ Range(<<addition>>) = {addition}
<1>1. Range(<<addition>>) = {addition}
  BY DEF Range
<1> QED
  BY <1>1, ShortPaths DEF Planable

LEMMA TwoPlanable ==
  ASSUME NEW one, NEW two, IsSeq(one.path), IsSeq(two.path)
  PROVE  Planable(<<one, two>>) /\ Range(<<one, two>>) = {one, two}
<1>1. Range(<<one, two>>) = {one, two}
  BY DEF Range
<1> QED
  BY <1>1, ShortPaths DEF Planable

PathList(paths) ==
  /\ Len(paths) \in Nat /\ DOMAIN paths = 1..Len(paths)
  /\ \A i \in DOMAIN paths : IsSeq(paths[i])

LEMMA ListPlanable ==
  ASSUME NEW paths, PathList(paths), NEW list, list = [i \in DOMAIN paths |-> list[i]],
         \A i \in DOMAIN paths : list[i].path = paths[i]
  PROVE  Planable(list)
<1> DEFINE n == Len(paths)
<1>1. n \in Nat /\ list = [i \in 1..n |-> list[i]] /\ \A i \in 1..n : IsSeq(list[i].path)
  BY DEF PathList
<1> HIDE DEF n
<1> QED
  BY <1>1, PlanableByIndex

LEMMA KnownPaths ==
  /\ IsSeq(Optdir) /\ IsSeq(Etcdir) /\ IsSeq(Rundir) /\ IsSeq(BundleScripts)
  /\ IsSeq(BootstrapSecrets) /\ IsSeq(RunSecrets) /\ IsSeq(ServicePath)
<1>1. IsSeq(Optdir) /\ IsSeq(Etcdir) /\ IsSeq(Rundir) /\ IsSeq(ServicePath)
  BY ShortPaths DEF Optdir, Etcdir, Rundir, ServicePath
<1>2. \A a : IsSeq(<<a>>)
  BY ShortPaths
<1>3. IsSeq(BundleScripts)
  BY <1>1, <1>2, SeqJoined DEF BundleScripts
<1>4. IsSeq(BootstrapSecrets)
  BY <1>1, <1>2, SeqJoined DEF BootstrapSecrets
<1>5. IsSeq(RunSecrets)
  BY <1>1, <1>2, SeqJoined DEF RunSecrets
<1> QED
  BY <1>1, <1>3, <1>4, <1>5

LEMMA PublicPaths == PathList(BundlePublic)
<1> DEFINE a == Optdir
           b == Optdir \o <<"runtime">>
           c == BundleScripts
           d == BundleScripts \o <<"bin">>
           e == BundleScripts \o <<"node_modules">>
           f == BundleScripts \o <<"node_modules", "@agent-boot">>
           g == Optdir \o <<"assets">>
           h == Optdir \o <<"prompts">>
           k == <<"etc", "systemd", "system">>
           l == <<"usr", "local", "sbin">>
<1>1. /\ \A x : IsSeq(<<x>>)
      /\ \A x : \A y : IsSeq(<<x, y>>)
      /\ IsSeq(a) /\ IsSeq(c) /\ IsSeq(k) /\ IsSeq(l)
  BY ShortPaths, KnownPaths
<1>2. IsSeq(b) /\ IsSeq(g) /\ IsSeq(h)
  BY <1>1, SeqJoined
<1>3. IsSeq(d) /\ IsSeq(e) /\ IsSeq(f)
  BY <1>1, SeqJoined
<1>4. BundlePublic = <<a, b, c, d, e, f, g, h, k, l>>
  BY DEF BundlePublic
<1> HIDE DEF a, b, c, d, e, f, g, h, k, l
<1> QED
  BY <1>1, <1>2, <1>3, <1>4 DEF PathList

LEMMA PrivatePaths == PathList(BundlePrivate)
<1> DEFINE a == BootstrapSecrets
           b == <<"var", "lib", "agent-boot">>
           c == Rundir
           d == Rundir \o <<"prompts">>
           e == RunSecrets
<1>1. /\ \A x : IsSeq(<<x>>)
      /\ IsSeq(a) /\ IsSeq(b) /\ IsSeq(c) /\ IsSeq(e)
  BY ShortPaths, KnownPaths
<1>2. IsSeq(d)
  BY <1>1, SeqJoined
<1>3. BundlePrivate = <<a, b, c, d, e>>
  BY DEF BundlePrivate
<1> HIDE DEF a, b, c, d, e
<1> QED
  BY <1>1, <1>2, <1>3 DEF PathList

LEMMA LinkPaths == PathList(BundleLinks)
<1> DEFINE a == <<"usr", "local", "sbin", "agent-boot-network">>
           b == <<"usr", "local", "sbin", "agent-boot-prompt-jobs">>
<1>1. IsSeq(a) /\ IsSeq(b)
  BY ShortPaths
<1>2. BundleLinks = <<a, b>>
  BY DEF BundleLinks
<1> HIDE DEF a, b
<1> QED
  BY <1>1, <1>2 DEF PathList

LEMMA ProgramPaths == PathList(BundleFiles)
<1> DEFINE program(name) == BundleScripts \o <<"bin", name>>
           a == Optdir \o <<"runtime", "bin", "node">>
           b == program("agent-boot-runner")
           c == program("agent-boot-codex")
           d == program("agent-boot-network")
           e == program("agent-boot-prompt-jobs")
<1>1. IsSeq(a) /\ \A name : IsSeq(program(name))
  BY ShortPaths, KnownPaths, SeqJoined
<1>2. IsSeq(b) /\ IsSeq(c) /\ IsSeq(d) /\ IsSeq(e)
  BY <1>1
<1>3. BundleFiles = <<a, b, c, d, e>>
  BY DEF BundleFiles
<1> HIDE DEF a, b, c, d, e
<1> QED
  BY <1>1, <1>2, <1>3 DEF PathList

LEMMA BundlePlanable == Planable(Bundle)
<1> DEFINE public == [i \in DOMAIN BundlePublic |->
                        Addition(BundlePublic[i], Directory("0755", BundleOwner(BundlePublic[i])))]
           etc == <<Addition(Etcdir, Directory("0750", BundleOwner(Etcdir)))>>
           private == [i \in DOMAIN BundlePrivate |->
                         Addition(BundlePrivate[i],
                                  Directory("0700", BundleOwner(BundlePrivate[i])))]
           programs == [i \in DOMAIN BundleFiles |->
                          Addition(BundleFiles[i], Plain("0755", BundleOwner(BundleFiles[i])))]
           links == [i \in DOMAIN BundleLinks |-> Addition(BundleLinks[i], Symlink)]
           service == <<Addition(ServicePath, Plain("0644", "root"))>>
<1>1. Bundle = public \o etc \o private \o programs \o links \o service
  BY DEF Bundle
<1>2. \A i \in DOMAIN BundlePublic : public[i].path = BundlePublic[i]
  BY DEF Addition
<1>3. \A i \in DOMAIN BundlePrivate : private[i].path = BundlePrivate[i]
  BY DEF Addition
<1>4. \A i \in DOMAIN BundleFiles : programs[i].path = BundleFiles[i]
  BY DEF Addition
<1>5. \A i \in DOMAIN BundleLinks : links[i].path = BundleLinks[i]
  BY DEF Addition
<1>6. Planable(etc) /\ Planable(service)
  BY AdditionFields, KnownPaths, OnePlanable
<1>7. /\ public = [i \in DOMAIN BundlePublic |-> public[i]]
      /\ private = [i \in DOMAIN BundlePrivate |-> private[i]]
      /\ programs = [i \in DOMAIN BundleFiles |-> programs[i]]
      /\ links = [i \in DOMAIN BundleLinks |-> links[i]]
  OBVIOUS
<1> HIDE DEF public, etc, private, programs, links, service
<1>8. Planable(public)
  BY <1>2, <1>7, PublicPaths, ListPlanable
<1>9. Planable(private)
  BY <1>3, <1>7, PrivatePaths, ListPlanable
<1>10. Planable(programs)
  BY <1>4, <1>7, ProgramPaths, ListPlanable
<1>11. Planable(links)
  BY <1>5, <1>7, LinkPaths, ListPlanable
<1>12. Planable(public \o etc)
  BY <1>6, <1>8, PlanableJoined
<1>13. Planable(public \o etc \o private)
  BY <1>9, <1>12, PlanableJoined
<1>14. Planable(public \o etc \o private \o programs)
  BY <1>10, <1>13, PlanableJoined
<1>15. Planable(public \o etc \o private \o programs \o links)
  BY <1>11, <1>14, PlanableJoined
<1>16. Planable(public \o etc \o private \o programs \o links \o service)
  BY <1>6, <1>15, PlanableJoined
<1> QED
  BY <1>1, <1>16

LEMMA HomePlanable ==
  ASSUME NEW home, IsSeq(home)
  PROVE  Planable(HomeAdditions(home))
<1> DEFINE list == HomeAdditions(home)
           under(name) == home \o <<name>>
           below(one, two) == home \o <<one, two>>
           etc(name) == Etcdir \o <<name>>
<1>1. \A name : IsSeq(under(name)) /\ IsSeq(etc(name))
  BY ShortPaths, KnownPaths, SeqJoined
<1>2. \A one, two : IsSeq(below(one, two))
  BY ShortPaths, SeqJoined
<1>3. list = <<AccountDirectory(home, "0750"), AccountDirectory(under("workspace"), "0750"),
               AccountDirectory(under(".local"), "0750"),
               AccountDirectory(below(".local", "bin"), "0750"),
               AccountDirectory(below(".local", "lib"), "0750"),
               AccountDirectory(under(".npm"), "0700"),
               Addition(under(".profile"), Plain("0644", "account")),
               Addition(under(".bashrc"), Plain("0644", "account")),
               Addition(under(".npmrc"), Plain("0600", "account")),
               Addition(etc("manifest.json"), Plain("0644", "root")),
               Addition(etc("plan.json"), Plain("0644", "root"))>>
  BY DEF HomeAdditions
<1>4. \A path, mode : AccountDirectory(path, mode).path = path
  BY AdditionFields DEF AccountDirectory
<1> HIDE DEF list, under, below, etc
<1>5. list = [i \in 1..11 |-> list[i]]
  BY <1>3
<1>6. \A i \in 1..11 : IsSeq(list[i].path)
  <2>1. /\ list[1].path = home /\ list[2].path = under("workspace")
        /\ list[3].path = under(".local") /\ list[4].path = below(".local", "bin")
        /\ list[5].path = below(".local", "lib") /\ list[6].path = under(".npm")
        /\ list[7].path = under(".profile") /\ list[8].path = under(".bashrc")
        /\ list[9].path = under(".npmrc") /\ list[10].path = etc("manifest.json")
        /\ list[11].path = etc("plan.json")
    BY <1>3, <1>4, AdditionFields
  <2>2. \A i \in 1..11 : \/ i = 1 \/ i = 2 \/ i = 3 \/ i = 4 \/ i = 5 \/ i = 6
                         \/ i = 7 \/ i = 8 \/ i = 9 \/ i = 10 \/ i = 11
    OBVIOUS
  <2> QED
    BY <1>1, <1>2, <2>1, <2>2
<1>7. Planable(list)
  BY <1>5, <1>6, PlanableByIndex
<1> QED
  BY <1>7 DEF list

LEMMA SystemPlanable ==
  ASSUME NEW manifest
  PROVE  Planable(SystemAdditions(manifest))
<1> DEFINE RootFile(path) == Addition(path, Plain("0644", "root"))
           ssh == RootFile(<<"etc", "ssh", "sshd_config.d", "20-agent-boot.conf">>)
           sudoers == Addition(<<"etc", "sudoers.d", "90-agent-boot-unattended">>,
                               Plain("0440", "root"))
           fstab == RootFile(<<"etc", "fstab">>)
           manager == RootFile(<<"var", "lib", "NetworkManager", "NetworkManager.state">>)
           wifi == Addition(<<"etc", "NetworkManager", "system-connections",
                              "agent-boot-wifi.nmconnection">>, Plain("0600", "root"))
           journal == RootFile(<<"etc", "systemd", "journald.conf.d", "20-agent-boot.conf">>)
           first == Addition(<<"etc", "systemd", "system", "getty@tty1.service">>, Symlink)
           second == Addition(<<"etc", "systemd", "system", "getty.target.wants",
                                "getty@tty2.service">>, Symlink)
           runner == Addition(<<"etc", "systemd", "system", "multi-user.target.wants",
                                "agent-boot-runner.service">>, Symlink)
           hostname == RootFile(<<"etc", "hostname">>)
           hosts == RootFile(<<"etc", "hosts">>)
           a == <<ssh, sudoers, fstab, manager>>
           b == IF Has(manifest.bootstrap, "network") /\ Has(manifest.bootstrap.network, "wifi")
                THEN <<wifi>> ELSE <<>>
           c == <<journal, first, second, runner>>
           d == IF Has(manifest.bootstrap, "network") THEN <<hostname, hosts>> ELSE <<>>
<1>1. SystemAdditions(manifest) = a \o b \o c \o d
  BY DEF SystemAdditions
<1>2. /\ IsSeq(ssh.path) /\ IsSeq(sudoers.path) /\ IsSeq(fstab.path) /\ IsSeq(manager.path)
  BY AdditionFields, ShortPaths
<1>3. /\ IsSeq(journal.path) /\ IsSeq(first.path) /\ IsSeq(second.path) /\ IsSeq(runner.path)
  BY AdditionFields, ShortPaths
<1>4. IsSeq(wifi.path) /\ IsSeq(hostname.path) /\ IsSeq(hosts.path)
  BY AdditionFields, ShortPaths
<1> HIDE DEF ssh, sudoers, fstab, manager, wifi, journal, first, second, runner, hostname, hosts
<1>5. \A x, y, z, u : IsSeq(x.path) /\ IsSeq(y.path) /\ IsSeq(z.path) /\ IsSeq(u.path) =>
        Planable(<<x, y, z, u>>)
  <2>1. \A x, y, z, u : Range(<<x, y, z, u>>) = {x, y, z, u}
    BY DEF Range
  <2> QED
    BY <2>1, ShortPaths DEF Planable
<1>6. Planable(a) /\ Planable(c)
  BY <1>2, <1>3, <1>5
<1>7. Planable(b)
  BY <1>4, OnePlanable, NothingPlanable
<1>8. Planable(d)
  BY <1>4, TwoPlanable, NothingPlanable
<1> HIDE DEF a, b, c, d
<1>9. Planable(a \o b)
  BY <1>6, <1>7, PlanableJoined
<1>10. Planable(a \o b \o c)
  BY <1>6, <1>9, PlanableJoined
<1>11. Planable(a \o b \o c \o d)
  BY <1>8, <1>10, PlanableJoined
<1> QED
  BY <1>1, <1>11

LEMMA OwnRange ==
  ASSUME NEW T, NEW list \in Seq(T)
  PROVE  /\ IsSeq(list) /\ Range(list) \subseteq T
         /\ Len(list) \in Nat /\ DOMAIN list = 1..Len(list)
         /\ \A i \in 1..Len(list) : list[i] \in Range(list)
<1> DEFINE n == Len(list)
<1>1. n \in Nat /\ DOMAIN list = 1..n /\ \A i \in 1..n : list[i] \in T
  BY LenProperties, ElementOfSeq
<1>2. list \in [1..n -> T]
  BY <1>1, SeqDef, LenProperties
<1> HIDE DEF n
<1>3. list = [i \in 1..n |-> list[i]]
  BY <1>2
<1>4. IsSeq(list)
  BY <1>1, <1>3, SeqByIndex
<1> QED
  BY <1>1, <1>4 DEF Range, n

(* What an asset of the manifest adds.                                     *)
PlacedApart(resource, installation) ==
  Has(resource, "placement") /\ resource.id \notin Range(installation)

LEMMA AssetPlanable ==
  ASSUME NEW resource, NEW installation, NEW home, IsSeq(home), IsSeq(resource.path),
         Has(resource, "placement") => IsSeq(resource.placement.path)
  PROVE  /\ Planable(AssetAdditions(resource, installation, home))
         /\ PlacedApart(resource, installation) /\ resource.placement.scope = "system" =>
              Addition(resource.placement.path, Plain(AssetMode(resource.path), "root"))
                \in Range(AssetAdditions(resource, installation, home))
<1> DEFINE file1 == Addition(Optdir \o resource.path, Plain(AssetMode(resource.path), "root"))
           target == Target(resource, home)
           there == Addition(target, Plain(AssetMode(resource.path), "root"))
           parent == [path |-> Front(target), entry |-> Directory("0750", "account"),
                      above |-> Directory("0750", "account")]
           own == Addition(target, Plain("0600", "account"))
           first == <<file1>>
           second == CASE ~Has(resource, "placement") \/ resource.id \in Range(installation) -> <<>>
                       [] Has(resource, "placement") /\ resource.id \notin Range(installation)
                            /\ resource.placement.scope = "system" -> <<there>>
                       [] OTHER -> <<parent, own>>
           added == AssetAdditions(resource, installation, home)
<1>1. added = first \o second
  BY DEF AssetAdditions
<1>2. IsSeq(file1.path)
  BY KnownPaths, SeqJoined, AdditionFields
<1>3. Has(resource, "placement") => IsSeq(target)
  BY SeqJoined DEF Target
<1>4. there.path = target /\ own.path = target /\ parent.path = Front(target)
  BY AdditionFields
<1>5. IsSeq(target) => IsSeq(Front(target))
  <2> SUFFICES ASSUME IsSeq(target) PROVE IsSeq(Front(target))
    OBVIOUS
  <2> HIDE DEF target
  <2> DEFINE T == Range(target)
             n == Len(target)
  <2>1. target \in Seq(T) /\ n \in Nat
    BY FrontLength DEF IsSeq
  <2> HIDE DEF T, n
  <2>2. \A i \in 1..(n - 1) : target[i] \in T
    BY <2>1, ElementOfSeq DEF n
  <2>3. SubSeq(target, 1, n - 1) \in Seq(T)
    <3>1. 1 \in Int /\ n - 1 \in Int
      BY <2>1
    <3> QED
      BY <2>2, <3>1, SubSeqProperties
  <2>4. Front(target) \in Seq(T)
    BY <2>3 DEF Front, n
  <2> QED
    BY <2>4, OwnRange
<1>6. resource.placement.scope = "system" => target = resource.placement.path
  BY DEF Target
<1> HIDE DEF file1, there, parent, own, target, added
<1>7. Planable(first)
  BY <1>2, OnePlanable
<1>8. CASE ~Has(resource, "placement") \/ resource.id \in Range(installation)
  <2>1. second = <<>>
    BY <1>8
  <2> HIDE DEF second, first
  <2>2. Planable(added)
    BY <1>1, <1>7, <2>1, NothingPlanable, PlanableJoined
  <2> QED
    BY <1>8, <2>2 DEF PlacedApart, added
<1>9. CASE PlacedApart(resource, installation) /\ resource.placement.scope = "system"
  <2>1. second = <<there>>
    BY <1>9 DEF PlacedApart
  <2>2. IsSeq(there.path)
    BY <1>3, <1>4, <1>9 DEF PlacedApart
  <2>3. Planable(<<there>>) /\ there \in Range(<<there>>)
    BY <2>2, OnePlanable
  <2> HIDE DEF second, first
  <2>4. Planable(added) /\ there \in Range(added)
    BY <1>1, <1>7, <2>1, <2>3, PlanableJoined
  <2> QED
    BY <1>6, <1>9, <2>4 DEF added, there
<1>10. CASE PlacedApart(resource, installation) /\ resource.placement.scope # "system"
  <2>1. second = <<parent, own>>
    BY <1>10 DEF PlacedApart
  <2>2. Planable(<<parent, own>>)
    BY <1>3, <1>4, <1>5, <1>10, TwoPlanable DEF PlacedApart
  <2> HIDE DEF second, first
  <2>3. Planable(added)
    BY <1>1, <1>7, <2>1, <2>2, PlanableJoined
  <2> QED
    BY <1>10, <2>3 DEF added
<1> QED
  BY <1>8, <1>9, <1>10 DEF PlacedApart

LEMMA FlattenedPlanable ==
  ASSUME NEW lists, Len(lists) \in Nat, lists = [i \in 1..Len(lists) |-> lists[i]],
         \A i \in 1..Len(lists) : Planable(lists[i])
  PROVE  /\ Planable(FlattenSeq(lists))
         /\ \A i \in 1..Len(lists) : Range(lists[i]) \subseteq Range(FlattenSeq(lists))
<1> DEFINE n == Len(lists)
           T == UNION {Range(lists[i]) : i \in 1..n}
<1>1. \A i \in 1..n : lists[i] \in Seq(T)
  <2> TAKE i \in 1..n
  <2>1. Range(lists[i]) \subseteq T /\ lists[i] \in Seq(Range(lists[i]))
    BY DEF Planable, IsSeq
  <2> HIDE DEF T
  <2> QED
    BY <2>1, WidenSeq
<1>2. n \in Nat /\ lists = [i \in 1..n |-> lists[i]] /\ DOMAIN lists = 1..n
  OBVIOUS
<1> HIDE DEF T, n
<1>3. lists \in Seq(Seq(T))
  <2>1. lists \in [1..n -> Seq(T)]
    BY <1>1, <1>2
  <2> QED
    BY <1>2, <2>1, SeqDef
<1>4. /\ FlattenSeq(lists) \in Seq(T)
      /\ Range(FlattenSeq(lists)) = UNION {Range(lists[i]) : i \in DOMAIN lists}
  BY <1>3, FlattenedRange
<1>5. IsSeq(FlattenSeq(lists))
  BY <1>4, OwnRange
<1> QED
  BY <1>2, <1>4, <1>5 DEF Planable, n

(* The secrets a plan requires are finitely many, so they can be listed.   *)
LEMMA FiniteRange ==
  ASSUME NEW S, IsFiniteSet(S), NEW f, f = [x \in S |-> f[x]]
  PROVE  IsFiniteSet(Range(f))
<1>1. f \in Surjection(S, Range(f))
  <2>1. f \in [S -> Range(f)]
    BY DEF Range
  <2>2. \A y \in Range(f) : \E x \in S : f[x] = y
    BY DEF Range
  <2> QED
    BY <2>1, <2>2 DEF Surjection
<1> QED
  BY <1>1, FS_Surjection

LEMMA SetListed ==
  ASSUME NEW S, IsFiniteSet(S)
  PROVE  LET list == SetToSeq(S) IN
         /\ Len(list) \in Nat /\ DOMAIN list = 1..Len(list)
         /\ \A x \in S : \E i \in DOMAIN list : list[i] = x
         /\ \A i \in DOMAIN list : list[i] \in S
         /\ \A i, j \in DOMAIN list : list[i] = list[j] => i = j
<1> DEFINE n == Cardinality(S)
           list == SetToSeq(S)
<1>1. n \in Nat /\ ExistsBijection(1..n, S)
  BY FS_CardinalityType
<1>2. \E f \in [1..n -> S] : IsInjective(f)
  <2>1. PICK f : f \in Bijection(1..n, S)
    BY <1>1 DEF ExistsBijection
  <2>2. f \in [1..n -> S] /\ IsInjective(f)
    BY <2>1 DEF Bijection, Injection, IsInjective
  <2> QED
    BY <2>2
<1>3. list \in [1..n -> S] /\ IsInjective(list)
  BY <1>2 DEF SetToSeq
<1> HIDE DEF list
<1>4. list \in Surjection(1..n, S)
  <2>1. list \in Injection(1..n, S)
    BY <1>3 DEF Injection, IsInjective
  <2>2. Cardinality(1..n) = n
    <3>1. 1 \in Int /\ n \in Int
      BY <1>1
    <3> HIDE DEF n
    <3>2. Cardinality(1..n) = IF 1 > n THEN 0 ELSE n - 1 + 1
      BY <3>1, FS_Interval
    <3> QED
      BY <1>1, <3>2
  <2>3. Cardinality(1..n) = Cardinality(S) <=> list \in Surjection(1..n, S)
    BY <2>1, FS_Injection
  <2> QED
    BY <2>2, <2>3
<1>5. Len(list) = n
  <2>1. list \in Seq(S)
    BY <1>1, <1>3, SeqDef
  <2> QED
    BY <1>1, <1>3, <2>1, LenProperties
<1>6. \A x \in S : \E i \in 1..n : list[i] = x
  BY <1>4 DEF Surjection
<1>7. \A i, j \in 1..n : list[i] = list[j] => i = j
  BY <1>3 DEF IsInjective
<1> QED
  BY <1>1, <1>3, <1>5, <1>6, <1>7 DEF list

(* The additions of an assembly: that every one has a path, and what they  *)
(* hold of its prompts, scripts and secrets (plan.ts: createPiPlan).       *)
PlanableManifest(manifest) ==
  /\ PathList([i \in DOMAIN manifest.prompts |-> manifest.prompts[i].path])
  /\ PathList([i \in DOMAIN manifest.assets |-> manifest.assets[i].path])
  /\ \A i \in DOMAIN manifest.assets :
       Has(manifest.assets[i], "placement") => IsSeq(manifest.assets[i].placement.path)

PromptFile(template) == Addition(Optdir \o template.path, Plain("0644", "root"))
PlacedFile(resource) ==
  Addition(resource.placement.path, Plain(AssetMode(resource.path), "root"))
SecretFile(secretId) == Addition(BootstrapSecrets \o <<secretId>>, Plain("0600", "account"))

LEMMA PathListDomain ==
  ASSUME NEW list, PathList([i \in DOMAIN list |-> list[i].path])
  PROVE  \E n \in Nat : DOMAIN list = 1..n /\ \A i \in 1..n : IsSeq(list[i].path)
<1> DEFINE paths == [i \in DOMAIN list |-> list[i].path]
<1>1. /\ Len(paths) \in Nat /\ DOMAIN paths = 1..Len(paths)
      /\ \A i \in DOMAIN paths : IsSeq(paths[i])
  BY DEF PathList
<1>2. DOMAIN paths = DOMAIN list /\ \A i \in DOMAIN list : paths[i] = list[i].path
  OBVIOUS
<1> HIDE DEF paths
<1> QED
  BY <1>1, <1>2

LEMMA AdditionsPlanable ==
  ASSUME NEW assembly, PlanableManifest(assembly.manifest),
         IsFiniteSet(RequiredSecrets(assembly.plan))
  PROVE  LET manifest == assembly.manifest
             all == Range(Additions(assembly))
         IN /\ Planable(Additions(assembly))
            /\ \A i \in DOMAIN manifest.prompts : PromptFile(manifest.prompts[i]) \in all
            /\ \A i \in DOMAIN manifest.assets :
                 /\ PlacedApart(manifest.assets[i], manifest.bootstrap.runnerInstallation)
                 /\ manifest.assets[i].placement.scope = "system"
                 => PlacedFile(manifest.assets[i]) \in all
            /\ \A secretId \in RequiredSecrets(assembly.plan) : SecretFile(secretId) \in all
<1> DEFINE manifest == assembly.manifest
           home == Home(manifest)
           installation == manifest.bootstrap.runnerInstallation
           required == RequiredSecrets(assembly.plan)
           listed == SetToSeq(required)
           prompts == [i \in DOMAIN manifest.prompts |->
                         Addition(Optdir \o manifest.prompts[i].path, Plain("0644", "root"))]
           lists == [i \in DOMAIN manifest.assets |->
                       AssetAdditions(manifest.assets[i], installation, home)]
           assets == FlattenSeq(lists)
           directory == <<AccountDirectory(BootstrapSecrets, "0700")>>
           secrets == [i \in DOMAIN listed |->
                         Addition(BootstrapSecrets \o <<listed[i]>>, Plain("0600", "account"))]
           system == SystemAdditions(manifest)
<1>1. Additions(assembly) = Bundle \o HomeAdditions(home) \o prompts \o assets
                              \o directory \o secrets \o system
  BY DEF Additions
<1>2. IsSeq(home)
  BY ShortPaths DEF Home
<1>3. PICK n \in Nat : DOMAIN manifest.prompts = 1..n
                       /\ \A i \in 1..n : IsSeq(manifest.prompts[i].path)
  BY PathListDomain DEF PlanableManifest
<1>4. PICK m \in Nat : DOMAIN manifest.assets = 1..m
                       /\ \A i \in 1..m : IsSeq(manifest.assets[i].path)
  BY PathListDomain DEF PlanableManifest
<1>5. /\ Planable(prompts)
      /\ \A i \in DOMAIN manifest.prompts : PromptFile(manifest.prompts[i]) \in Range(prompts)
  <2>1. prompts = [i \in 1..n |-> prompts[i]]
    BY <1>3
  <2>2. \A i \in 1..n : prompts[i] = PromptFile(manifest.prompts[i])
    BY <1>3 DEF PromptFile
  <2>3. \A i \in 1..n : IsSeq(PromptFile(manifest.prompts[i]).path)
    BY <1>3, KnownPaths, SeqJoined, AdditionFields DEF PromptFile
  <2> HIDE DEF prompts
  <2>4. Planable(prompts) /\ \A i \in 1..n : prompts[i] \in Range(prompts)
    BY <2>1, <2>2, <2>3, PlanableByIndex
  <2> QED
    BY <1>3, <2>2, <2>4
<1>6. /\ Planable(assets)
      /\ \A i \in DOMAIN manifest.assets :
           PlacedApart(manifest.assets[i], installation) /\ manifest.assets[i].placement.scope = "system"
             => PlacedFile(manifest.assets[i]) \in Range(assets)
  <2>1. \A i \in 1..m :
          /\ Planable(lists[i])
          /\ PlacedApart(manifest.assets[i], installation)
             /\ manifest.assets[i].placement.scope = "system"
             => PlacedFile(manifest.assets[i]) \in Range(lists[i])
    <3> TAKE i \in 1..m
    <3> DEFINE resource == manifest.assets[i]
    <3>1. IsSeq(resource.path) /\ (Has(resource, "placement") => IsSeq(resource.placement.path))
      BY <1>4 DEF PlanableManifest
    <3>2. lists[i] = AssetAdditions(resource, installation, home)
      BY <1>4
    <3> HIDE DEF resource, installation, home, lists
    <3>3. /\ Planable(AssetAdditions(resource, installation, home))
          /\ PlacedApart(resource, installation) /\ resource.placement.scope = "system" =>
               Addition(resource.placement.path, Plain(AssetMode(resource.path), "root"))
                 \in Range(AssetAdditions(resource, installation, home))
      BY <1>2, <3>1, AssetPlanable
    <3> QED
      BY <3>2, <3>3 DEF PlacedFile, resource
  <2>2. lists = [i \in 1..m |-> lists[i]] /\ Len(lists) = m
    <3>1. lists = [i \in 1..m |-> lists[i]]
      BY <1>4
    <3> HIDE DEF lists
    <3>2. IsSeq(lists) /\ DOMAIN lists = 1..m
      BY <3>1, SeqByIndex
    <3> QED
      BY <3>1, <3>2, LenProperties DEF IsSeq
  <2> HIDE DEF lists, installation
  <2>3. /\ Planable(FlattenSeq(lists))
        /\ \A i \in 1..m : Range(lists[i]) \subseteq Range(FlattenSeq(lists))
    BY <2>1, <2>2, FlattenedPlanable
  <2> QED
    BY <1>4, <2>1, <2>3
<1>7. Planable(directory)
  BY KnownPaths, AdditionFields, OnePlanable DEF AccountDirectory
<1>8. /\ Planable(secrets)
      /\ \A secretId \in required : SecretFile(secretId) \in Range(secrets)
  <2>1. /\ Len(listed) \in Nat /\ DOMAIN listed = 1..Len(listed)
        /\ \A x \in required : \E i \in DOMAIN listed : listed[i] = x
    BY SetListed
  <2> DEFINE k == Len(listed)
  <2> HIDE DEF listed, required
  <2>2. secrets = [i \in 1..k |-> secrets[i]]
    BY <2>1
  <2>3. \A i \in 1..k : secrets[i] = SecretFile(listed[i])
    BY <2>1 DEF SecretFile
  <2>4. \A i \in 1..k : IsSeq(SecretFile(listed[i]).path)
    BY ShortPaths, KnownPaths, SeqJoined, AdditionFields DEF SecretFile
  <2>5. k \in Nat /\ DOMAIN listed = 1..k
    BY <2>1
  <2> HIDE DEF k, secrets
  <2>6. Planable(secrets) /\ \A i \in 1..k : secrets[i] \in Range(secrets)
    BY <2>2, <2>3, <2>4, <2>5, PlanableByIndex
  <2> QED
    BY <2>1, <2>3, <2>5, <2>6
<1>9. Planable(Bundle) /\ Planable(HomeAdditions(home)) /\ Planable(system)
  BY <1>2, BundlePlanable, HomePlanable, SystemPlanable
<1> DEFINE a == Bundle \o HomeAdditions(home)
           b == a \o prompts
           c == b \o assets
           d == c \o directory
           e == d \o secrets
           f == e \o system
<1> HIDE DEF home, required, listed, prompts, lists, assets, directory, secrets, system
<1>10. Planable(a)
  BY <1>9, PlanableJoined
<1> HIDE DEF a
<1>11. Planable(b) /\ Range(prompts) \subseteq Range(b)
  BY <1>5, <1>10, PlanableJoined
<1> HIDE DEF b
<1>12. Planable(c) /\ Range(b) \subseteq Range(c) /\ Range(assets) \subseteq Range(c)
  BY <1>6, <1>11, PlanableJoined
<1> HIDE DEF c
<1>13. Planable(d) /\ Range(c) \subseteq Range(d)
  BY <1>7, <1>12, PlanableJoined
<1> HIDE DEF d
<1>14. Planable(e) /\ Range(d) \subseteq Range(e) /\ Range(secrets) \subseteq Range(e)
  BY <1>8, <1>13, PlanableJoined
<1> HIDE DEF e
<1>15. Planable(f) /\ Range(e) \subseteq Range(f)
  BY <1>9, <1>14, PlanableJoined
<1>16. Additions(assembly) = f
  BY <1>1 DEF a, b, c, d, e
<1> HIDE DEF f
<1> QED
  BY <1>5, <1>6, <1>8, <1>11, <1>12, <1>13, <1>14, <1>15, <1>16 DEF required

(* What is made of a parsed definition can be planned in this sense.       *)
PathsInOrder == \A path \in RelativePath : IsSeq(path)

LEMMA LongPaths ==
  /\ \A id : IsSeq(AssetPath(id)) /\ IsSeq(ScriptPath(id)) /\ IsSeq(PromptPath(id))
  /\ \A id : IsSeq(ScriptTarget(id))
BY ShortPaths DEF AssetPath, ScriptPath, PromptPath, ScriptTarget

(* The path of a resource and that of its place.                           *)
LyingInOrder(resource) ==
  /\ IsSeq(resource.path)
  /\ Has(resource, "placement") => IsSeq(resource.placement.path)

LEMMA RunnerAssetsInOrder == \A resource \in Range(RunnerAssets) : LyingInOrder(resource)
<1> DEFINE one == [id |-> "runner-runtime", path |-> RuntimePath,
                   placement |-> Placed(<<"opt", "agent-boot", "runtime", "node">>)]
           two == [id |-> "runner-entrypoint", path |-> EntrypointPath,
                   placement |-> Placed(<<"opt", "agent-boot", "runner.mjs">>)]
<1>1. RunnerAssets = <<one, two>>
  BY DEF RunnerAssets
<1>2. /\ one.path = RuntimePath /\ two.path = EntrypointPath
      /\ one.placement.path = <<"opt", "agent-boot", "runtime", "node">>
      /\ two.placement.path = <<"opt", "agent-boot", "runner.mjs">>
  BY DEF Placed
<1>3. IsSeq(RuntimePath) /\ IsSeq(EntrypointPath)
  BY ShortPaths DEF RuntimePath, EntrypointPath
<1> HIDE DEF one, two
<1>4. LyingInOrder(one) /\ LyingInOrder(two)
  BY <1>2, <1>3, ShortPaths DEF LyingInOrder
<1>5. Range(<<one, two>>) = {one, two}
  BY DEF Range
<1> QED
  BY <1>1, <1>4, <1>5

LEMMA AssetInOrder ==
  ASSUME PathsInOrder, NEW value, ParsesAsset(value)
  PROVE  LyingInOrder(AssetDescriptor(value))
<1> DEFINE base == [id |-> value.id, path |-> AssetPath(value.id)]
           rest == IF Has(value, "placement") THEN [placement |-> value.placement] ELSE <<>>
           described == AssetDescriptor(value)
<1>1. /\ DOMAIN base = {"id", "path"} /\ base.path = AssetPath(value.id)
      /\ DOMAIN rest = IF Has(value, "placement") THEN {"placement"} ELSE {}
      /\ Has(value, "placement") => rest.placement = value.placement
  OBVIOUS
<1>2. described = Joined(base, rest)
  BY DEF AssetDescriptor
<1> HIDE DEF base, rest, described
<1>3. /\ DOMAIN described = DOMAIN base \cup DOMAIN rest
      /\ \A field \in DOMAIN base : described[field] = base[field]
      /\ \A field \in DOMAIN rest \ DOMAIN base : described[field] = rest[field]
  BY <1>2, JoinedFields
<1>4. described.path = AssetPath(value.id)
  BY <1>1, <1>3
<1>5. Has(described, "placement") => /\ Has(value, "placement")
                                     /\ described.placement = value.placement
  BY <1>1, <1>3 DEF Has
<1>6. Has(value, "placement") => IsSeq(value.placement.path)
  BY DEF ParsesAsset, ParsesTarget, PathsInOrder
<1> QED
  BY <1>4, <1>5, <1>6, LongPaths DEF LyingInOrder, described

LEMMA ScriptFields ==
  ASSUME NEW value
  PROVE  LET described == ScriptDescriptor(value) IN
         /\ LyingInOrder(described) /\ Has(described, "placement")
         /\ described.id = ScriptAssetId(value.id)
         /\ described.placement.scope = "system"
         /\ described.placement.path = ScriptTarget(value.id)
         /\ AssetMode(described.path) = "0755"
<1> DEFINE described == ScriptDescriptor(value)
           path == ScriptPath(value.id)
           target == ScriptTarget(value.id)
           id == ScriptAssetId(value.id)
<1>1. described = [id |-> id, path |-> path, placement |-> Placed(target)]
  BY DEF ScriptDescriptor
<1>2. AssetMode(path) = "0755"
  <2>1. IsPrefix(<<"assets", "scripts">>, path)
    BY DEF ScriptPath, IsPrefix
  <2> QED
    BY <2>1 DEF AssetMode
<1>3. IsSeq(path) /\ IsSeq(target)
  BY LongPaths
<1> HIDE DEF described, path, target, id
<1>4. /\ DOMAIN described = {"id", "path", "placement"} /\ described.id = id
      /\ described.path = path /\ described.placement = Placed(target)
  BY <1>1
<1>5. Placed(target).scope = "system" /\ Placed(target).path = target
  BY DEF Placed
<1> QED
  BY <1>2, <1>3, <1>4, <1>5 DEF LyingInOrder, Has, described, target, id

LEMMA AssetsInOrder ==
  ASSUME PathsInOrder, NEW input, Normal(input)
  PROVE  /\ IsSeq(Assets(input))
         /\ \A resource \in Range(Assets(input)) : LyingInOrder(resource)
         /\ \A i \in DOMAIN input.scripts :
              ScriptDescriptor(input.scripts[i]) \in Range(Assets(input))
<1> DEFINE listed == [i \in DOMAIN input.assets |-> AssetDescriptor(input.assets[i])]
           scripts == [i \in DOMAIN input.scripts |-> ScriptDescriptor(input.scripts[i])]
           n == Len(input.assets)
           m == Len(input.scripts)
<1>1. /\ n \in Nat /\ DOMAIN input.assets = 1..n /\ m \in Nat /\ DOMAIN input.scripts = 1..m
      /\ \A i \in 1..n : ParsesAsset(input.assets[i])
  BY NormalFields
<1>2. /\ \A i \in 1..n : LyingInOrder(listed[i])
      /\ listed = [i \in 1..n |-> listed[i]]
  BY <1>1, AssetInOrder
<1>3. /\ \A i \in 1..m : scripts[i] = ScriptDescriptor(input.scripts[i])
      /\ \A i \in 1..m : LyingInOrder(ScriptDescriptor(input.scripts[i]))
      /\ scripts = [i \in 1..m |-> scripts[i]]
  BY <1>1, ScriptFields
<1>4. Assets(input) = (RunnerAssets \o listed) \o scripts
  BY DEF Assets
<1> HIDE DEF listed, scripts, n, m
<1>5. IsSeq(listed) /\ IsSeq(scripts)
  BY <1>1, <1>2, <1>3, SeqByIndex
<1>6. IsSeq(RunnerAssets)
  BY ShortPaths DEF RunnerAssets
<1> DEFINE first == RunnerAssets \o listed
<1>7. IsSeq(first) /\ Range(first) = Range(RunnerAssets) \cup Range(listed)
  BY <1>5, <1>6, SeqJoined
<1> HIDE DEF first
<1>8. IsSeq(first \o scripts) /\ Range(first \o scripts) = Range(first) \cup Range(scripts)
  BY <1>5, <1>7, SeqJoined
<1>9. Range(listed) = {listed[i] : i \in 1..n} /\ Range(scripts) = {scripts[i] : i \in 1..m}
  BY <1>2, <1>3 DEF Range
<1>10. Assets(input) = first \o scripts
  BY <1>4 DEF first
<1>11. \A resource \in Range(first \o scripts) : LyingInOrder(resource)
  BY <1>2, <1>3, <1>7, <1>8, <1>9, RunnerAssetsInOrder
<1>12. \A i \in DOMAIN input.scripts : ScriptDescriptor(input.scripts[i]) \in Range(first \o scripts)
  BY <1>1, <1>3, <1>8, <1>9
<1> QED
  BY <1>8, <1>10, <1>11, <1>12

LEMMA IndexOf ==
  ASSUME NEW list, IsSeq(list)
  PROVE  /\ Len(list) \in Nat /\ DOMAIN list = 1..Len(list)
         /\ \A x \in Range(list) : \E i \in DOMAIN list : x = list[i]
         /\ \A i \in DOMAIN list : list[i] \in Range(list)
BY LenProperties DEF IsSeq, Range

LEMMA ManifestPlanable ==
  ASSUME PathsInOrder, NEW input, Normal(input)
  PROVE  PlanableManifest(Manifest(input))
<1> DEFINE manifest == Manifest(input)
           assets == Assets(input)
           prompts == [i \in DOMAIN input.prompts |-> PromptDescriptor(input.prompts[i])]
           n == Len(input.prompts)
           Paths1(list) == [i \in DOMAIN list |-> list[i].path]
<1>1. manifest.assets = assets /\ manifest.prompts = prompts
  BY DEF Manifest
<1>2. n \in Nat /\ DOMAIN input.prompts = 1..n
  BY NormalFields
<1>3. ASSUME NEW list, NEW k \in Nat, DOMAIN list = 1..k, \A i \in 1..k : IsSeq(list[i].path)
      PROVE  PathList(Paths1(list))
  <2> DEFINE paths == Paths1(list)
  <2>1. paths = [i \in 1..k |-> paths[i]] /\ \A i \in 1..k : paths[i] = list[i].path
    BY <1>3
  <2> HIDE DEF paths
  <2>2. IsSeq(paths)
    BY <2>1, SeqByIndex
  <2>3. Len(paths) = k
    BY <2>1, <2>2, LenProperties DEF IsSeq
  <2>4. PathList(paths)
    BY <1>3, <2>1, <2>3 DEF PathList
  <2> QED
    BY <2>4 DEF paths
<1>4. \A i \in 1..n : prompts[i].path = PromptPath(input.prompts[i].id)
  BY <1>2 DEF PromptDescriptor
<1>5. DOMAIN prompts = 1..n
  BY <1>2
<1> HIDE DEF prompts, assets, n, manifest
<1>6. PathList(Paths1(prompts))
  BY <1>2, <1>3, <1>4, <1>5, LongPaths
<1>7. /\ Len(assets) \in Nat /\ DOMAIN assets = 1..Len(assets)
      /\ \A i \in DOMAIN assets : LyingInOrder(assets[i])
  BY AssetsInOrder, IndexOf DEF assets
<1>8. PathList(Paths1(assets))
  BY <1>3, <1>7 DEF LyingInOrder
<1>9. PlanableManifest(manifest)
  BY <1>1, <1>6, <1>7, <1>8 DEF PlanableManifest, LyingInOrder
<1> QED
  BY <1>9 DEF manifest

(* The secrets one step requires.                                          *)
StepSecrets(step) ==
  CASE step.kind = "install-user-secret" -> {step.secretId}
    [] step.kind = "prompt" ->
         {binding.source.secretId : binding \in
            {b \in Range(step.variables) : b.source.kind = "secret"}}
    [] OTHER -> {}

LEMMA StepSecretsFinite ==
  ASSUME NEW step, step.kind = "prompt" => Array(step.variables)
  PROVE  IsFiniteSet(StepSecrets(step))
<1>1. CASE step.kind = "install-user-secret"
  BY <1>1, FS_Singleton DEF StepSecrets
<1>2. CASE step.kind = "prompt"
  <2> DEFINE variables == step.variables
             S == {b \in Range(variables) : b.source.kind = "secret"}
             f == [b \in S |-> b.source.secretId]
  <2>1. StepSecrets(step) = {b.source.secretId : b \in S}
    BY <1>2 DEF StepSecrets
  <2>2. IsFiniteSet(Range(variables))
    <3> HIDE DEF variables
    <3>1. Len(variables) \in Nat /\ variables = [i \in 1..Len(variables) |-> variables[i]]
      BY <1>2, ArrayFields DEF variables
    <3> DEFINE n == Len(variables)
    <3>2. n \in Nat /\ variables = [i \in 1..n |-> variables[i]]
      BY <3>1
    <3> HIDE DEF n
    <3>3. IsFiniteSet(1..n)
      BY <3>2, FS_Interval
    <3> QED
      BY <3>2, <3>3, FiniteRange
  <2>3. IsFiniteSet(S)
    BY <2>2, FS_Subset
  <2>4. Range(f) = {b.source.secretId : b \in S}
    BY DEF Range
  <2>5. f = [b \in S |-> f[b]]
    OBVIOUS
  <2> HIDE DEF f, S
  <2>6. IsFiniteSet(Range(f))
    BY <2>3, <2>5, FiniteRange
  <2> QED
    BY <2>1, <2>4, <2>6
<1>3. CASE step.kind \notin {"install-user-secret", "prompt"}
  BY <1>3, FS_EmptySet DEF StepSecrets
<1> QED
  BY <1>1, <1>2, <1>3

LEMMA RequiredFinite ==
  ASSUME NEW plan, NEW n \in Nat, plan.steps = [i \in 1..n |-> plan.steps[i]],
         \A i \in 1..n : plan.steps[i].kind = "prompt" => Array(plan.steps[i].variables)
  PROVE  /\ IsFiniteSet(RequiredSecrets(plan))
         /\ \A i \in 1..n : StepSecrets(plan.steps[i]) \subseteq RequiredSecrets(plan)
<1> DEFINE steps == plan.steps
           sets == [i \in 1..n |-> StepSecrets(steps[i])]
<1>1. RequiredSecrets(plan) = UNION {StepSecrets(step) : step \in Range(steps)}
  BY DEF RequiredSecrets, StepSecrets
<1>2. \A i \in 1..n : IsFiniteSet(StepSecrets(steps[i]))
  BY StepSecretsFinite
<1>3. Range(steps) = {steps[i] : i \in 1..n}
  BY DEF Range
<1>4. Range(sets) = {StepSecrets(steps[i]) : i \in 1..n}
  BY DEF Range
<1>5. sets = [i \in 1..n |-> sets[i]]
  OBVIOUS
<1> HIDE DEF sets, steps
<1>6. RequiredSecrets(plan) = UNION Range(sets)
  BY <1>1, <1>3, <1>4
<1>7. IsFiniteSet(Range(sets))
  <2>1. IsFiniteSet(1..n)
    BY FS_Interval
  <2> QED
    BY <1>5, <2>1, FiniteRange
<1>8. \A S \in Range(sets) : IsFiniteSet(S)
  BY <1>2, <1>4
<1>9. IsFiniteSet(UNION Range(sets))
  BY <1>7, <1>8, FS_UNION
<1>10. \A i \in 1..n : StepSecrets(steps[i]) \subseteq RequiredSecrets(plan)
  BY <1>4, <1>6
<1> QED
  BY <1>6, <1>9, <1>10 DEF steps

LEMMA RootFiles ==
  ASSUME NEW additions, Planable(additions), Planned(additions) # NoPlan,
         NEW addition \in Range(additions), addition.entry.kind # "directory"
  PROVE  /\ addition.path \in DOMAIN Planned(additions)
         /\ Planned(additions)[addition.path] = addition.entry
<1>1. /\ Len(additions) \in Nat /\ DOMAIN additions = 1..Len(additions)
      /\ \E i \in DOMAIN additions : addition = additions[i]
      /\ \A i \in DOMAIN additions : IsSeq(additions[i].path)
  BY IndexOf DEF Planable
<1>2. PICK i \in 1..Len(additions) : addition = additions[i]
  BY <1>1
<1> QED
  BY <1>1, <1>2, PlannedFiles

LEMMA RangesApart ==
  ASSUME NEW T, NEW first \in Seq(T), NEW second \in Seq(T), IsInjective(first \o second)
  PROVE  Range(first) \cap Range(second) = {}
<1> DEFINE A == Len(first)
           B == Len(second)
           both == first \o second
<1>1. A \in Nat /\ B \in Nat /\ DOMAIN first = 1..A /\ DOMAIN second = 1..B
  BY LenProperties
<1>2. /\ both \in Seq(T) /\ Len(both) = A + B
      /\ \A i \in 1..A + B : both[i] = IF i <= A THEN first[i] ELSE second[i - A]
  BY ConcatProperties
<1>3. DOMAIN both = 1..A + B
  BY <1>2, LenProperties
<1>4. IsInjective(both)
  OBVIOUS
<1> HIDE DEF A, B, both
<1>5. ASSUME NEW i \in 1..A, NEW j \in 1..B, first[i] = second[j]
      PROVE  FALSE
  <2>1. i \in 1..A + B /\ A + j \in 1..A + B /\ ~(A + j <= A) /\ i <= A /\ (A + j) - A = j
    BY <1>1
  <2>2. both[i] = both[A + j]
    BY <1>2, <1>5, <2>1
  <2>3. i = A + j
    BY <1>3, <1>4, <2>1, <2>2 DEF IsInjective
  <2> QED
    BY <1>1, <2>3
<1> QED
  BY <1>1, <1>5 DEF Range

(* No script takes the id of one of the runner's own assets.               *)
LEMMA ScriptsApart ==
  ASSUME NoArray, NEW input, Normal(input), IsInjective(AssetIds(input))
  PROVE  \A i \in DOMAIN input.scripts : ScriptAssetId(input.scripts[i].id) \notin RunnerNames
<1> DEFINE runner == RunnerAssetIds
           listed == Ids(input.assets)
           scripts == [i \in DOMAIN input.scripts |-> ScriptAssetId(input.scripts[i].id)]
           n == Len(input.assets)
           m == Len(input.scripts)
<1>1. AssetIds(input) = (runner \o listed) \o scripts
  BY DEF AssetIds
<1>2. n \in Nat /\ DOMAIN input.assets = 1..n /\ m \in Nat /\ DOMAIN input.scripts = 1..m
  BY NormalFields
<1>3. listed = [i \in 1..n |-> listed[i]]
  BY <1>2 DEF Ids
<1>4. scripts = [i \in 1..m |-> scripts[i]]
  BY <1>2
<1>5. IsSeq(runner) /\ Range(runner) = RunnerNames
  <2>1. IsSeq(runner)
    BY ShortPaths DEF RunnerAssetIds
  <2>2. Range(runner) = RunnerNames
    BY DEF Range, RunnerAssetIds, RunnerNames
  <2> QED
    BY <2>1, <2>2
<1>6. \A i \in 1..m : scripts[i] = ScriptAssetId(input.scripts[i].id)
  BY <1>2
<1> HIDE DEF runner, listed, scripts, n, m
<1>7. IsSeq(listed) /\ IsSeq(scripts)
  BY <1>2, <1>3, <1>4, SeqByIndex
<1> DEFINE first == runner \o listed
<1>8. IsSeq(first) /\ RunnerNames \subseteq Range(first)
  BY <1>5, <1>7, SeqJoined
<1>9. IsInjective(first \o scripts)
  BY <1>1
<1> HIDE DEF first
<1> DEFINE T == Range(first) \cup Range(scripts)
<1>10. first \in Seq(T) /\ scripts \in Seq(T)
  <2>1. Range(first) \subseteq T /\ Range(scripts) \subseteq T
    OBVIOUS
  <2>2. first \in Seq(Range(first)) /\ scripts \in Seq(Range(scripts))
    BY <1>7, <1>8 DEF IsSeq
  <2> HIDE DEF T
  <2>3. first \in Seq(T)
    BY <2>1, <2>2, WidenSeq
  <2>4. scripts \in Seq(T)
    BY <2>1, <2>2, WidenSeq
  <2> QED
    BY <2>3, <2>4
<1> HIDE DEF T
<1>11. Range(first) \cap Range(scripts) = {}
  BY <1>9, <1>10, RangesApart
<1>12. \A i \in 1..m : scripts[i] \in Range(scripts)
  BY <1>4 DEF Range
<1> QED
  BY <1>2, <1>6, <1>8, <1>11, <1>12

(* The steps of the runner's plan, as far as they are those of the         *)
(* definition.                                                             *)
LEMMA PlanSteps ==
  ASSUME SomePath, NEW input, Normal(input)
  PROVE  LET plan == RunnerPlan(input)
             n == Len(input.steps)
         IN /\ n \in Nat /\ DOMAIN input.steps = 1..n
            /\ plan.steps = [i \in 1..n |-> plan.steps[i]]
            /\ \A i \in 1..n : /\ plan.steps[i] = RunnerStep(input.steps[i])
                               /\ plan.steps[i].kind = input.steps[i].kind
                               /\ AcceptsStep(plan.steps[i])
                               /\ plan.steps[i].kind \in {"prompt", "provider"} =>
                                    plan.steps[i] = input.steps[i]
                               /\ plan.steps[i].kind = "prompt" => Array(plan.steps[i].variables)
<1> DEFINE steps == input.steps
           n == Len(steps)
           plan == RunnerPlan(input)
<1>1. /\ n \in Nat /\ DOMAIN steps = 1..n
      /\ \A i \in DOMAIN steps : ParsesStep(steps[i])
      /\ \A i \in DOMAIN steps : ParsedStep(steps[i]) = steps[i]
  BY NormalFields
<1>2. plan.steps = [i \in DOMAIN steps |-> RunnerStep(steps[i])]
  BY DEF RunnerPlan
<1>3. \A i \in 1..n : Written(steps[i])
  BY <1>1, EveryStepWritten
<1> HIDE DEF steps, n, plan
<1>4. \A i \in 1..n : plan.steps[i] = RunnerStep(steps[i])
  BY <1>1, <1>2
<1>5. plan.steps = [i \in 1..n |-> plan.steps[i]]
  BY <1>1, <1>2
<1>6. \A i \in 1..n : steps[i].kind = "prompt" => Array(steps[i].variables)
  BY <1>1 DEF ParsesStep, ParsesEnvironment, ParsesAutomatic, ParsesManual,
     ParsesFireAndForget, ParsesPromptStep, ParsesProviderStep, ParsesInstallUserSecret
<1>7. ASSUME NEW i \in 1..n
      PROVE  /\ plan.steps[i] = RunnerStep(steps[i])
             /\ plan.steps[i].kind = steps[i].kind
             /\ AcceptsStep(plan.steps[i])
             /\ plan.steps[i].kind \in {"prompt", "provider"} => plan.steps[i] = steps[i]
             /\ plan.steps[i].kind = "prompt" => Array(plan.steps[i].variables)
  <2>1. plan.steps[i] = RunnerStep(steps[i]) /\ Written(steps[i])
    BY <1>3, <1>4
  <2>2. steps[i].kind = "prompt" => Array(steps[i].variables)
    BY <1>6
  <2> QED
    BY <2>1, <2>2 DEF Written
<1> QED
  BY <1>1, <1>5, <1>7 DEF steps, n, plan

(* An assembly that was made of a parsed definition and of files it takes, *)
(* and that can be planned.                                                *)
Taken(input, lock, files) ==
  /\ Normal(input) /\ ResourceRefusal(input, files) = 0
  /\ RootPlan(Assembly(input, lock, files)) # NoPlan

LEMMA AssemblyFields ==
  ASSUME NEW input, NEW lock, NEW files
  PROVE  LET assembly == Assembly(input, lock, files) IN
         /\ assembly.manifest = Manifest(input) /\ assembly.plan = RunnerPlan(input)
         /\ assembly.lock = lock
BY DEF Assembly

LEMMA PlannedRoot ==
  ASSUME NEW assembly, RootPlan(assembly) # NoPlan
  PROVE  /\ RootPlan(assembly) = Planned(Additions(assembly))
         /\ AcceptsDocuments(assembly.manifest, assembly.plan, assembly.lock)
BY DEF RootPlan

LEMMA RunFiles ==
  ASSUME NoArray, SomePath, PathsInOrder, NEW input, NEW lock, NEW files,
         Taken(input, lock, files)
  PROVE  LET root == RootPlan(Assembly(input, lock, files))
             plan == RunnerPlan(input)
         IN /\ \A template \in Range(Manifest(input).prompts) :
                 HasFile(root, Optdir \o template.path)
            /\ \A i \in DOMAIN input.scripts :
                 /\ HasFile(root, ScriptTarget(input.scripts[i].id))
                 /\ root[ScriptTarget(input.scripts[i].id)].mode = "0755"
            /\ \A i \in DOMAIN plan.steps : \A secretId \in StepSecrets(plan.steps[i]) :
                 HasFile(root, BootstrapSecrets \o <<secretId>>)
<1> DEFINE assembly == Assembly(input, lock, files)
           root == RootPlan(assembly)
           manifest == Manifest(input)
           plan == RunnerPlan(input)
           additions == Additions(assembly)
<1>1. assembly.manifest = manifest /\ assembly.plan = plan
  BY AssemblyFields
<1>2. root # NoPlan /\ root = Planned(additions) /\ Normal(input)
  BY PlannedRoot DEF Taken
<1>3. PlanableManifest(manifest)
  BY ManifestPlanable DEF Taken
<1>4. PICK n \in Nat : /\ plan.steps = [i \in 1..n |-> plan.steps[i]]
                       /\ \A i \in 1..n : plan.steps[i].kind = "prompt" =>
                                            Array(plan.steps[i].variables)
  BY <1>2, PlanSteps
<1>5. /\ IsFiniteSet(RequiredSecrets(plan))
      /\ \A i \in 1..n : StepSecrets(plan.steps[i]) \subseteq RequiredSecrets(plan)
  <2> HIDE DEF plan
  <2> QED
    BY <1>4, RequiredFinite
<1>6. manifest.bootstrap.runnerInstallation =
        [runtimeAssetId |-> "runner-runtime", entrypointAssetId |-> "runner-entrypoint"]
  <2> DEFINE base == [account |-> input.account,
                      runnerInstallation |-> [runtimeAssetId |-> "runner-runtime",
                                              entrypointAssetId |-> "runner-entrypoint"]]
             rest == IF Has(input, "network") THEN [network |-> input.network] ELSE <<>>
  <2>1. manifest.bootstrap = Joined(base, rest)
    BY DEF Manifest
  <2>2. "runnerInstallation" \in DOMAIN base
        /\ base.runnerInstallation = [runtimeAssetId |-> "runner-runtime",
                                      entrypointAssetId |-> "runner-entrypoint"]
    OBVIOUS
  <2> HIDE DEF base, rest, manifest
  <2>3. \A field \in DOMAIN base : Joined(base, rest)[field] = base[field]
    BY DEF Joined, Has
  <2> QED
    BY <2>1, <2>2, <2>3
<1>7. Range(manifest.bootstrap.runnerInstallation) = RunnerNames
  <2>1. Range([runtimeAssetId |-> "runner-runtime",
               entrypointAssetId |-> "runner-entrypoint"]) = RunnerNames
    BY DEF Range, RunnerNames
  <2> QED
    BY <1>6, <2>1
<1>8. manifest.assets = Assets(input)
  BY DEF Manifest
<1> HIDE DEF assembly, manifest, additions, root
<1> DEFINE all == Range(additions)
<1>9. /\ Planable(additions)
      /\ \A i \in DOMAIN manifest.prompts : PromptFile(manifest.prompts[i]) \in all
      /\ \A i \in DOMAIN manifest.assets :
           PlacedApart(manifest.assets[i], manifest.bootstrap.runnerInstallation)
           /\ manifest.assets[i].placement.scope = "system"
           => PlacedFile(manifest.assets[i]) \in all
      /\ \A secretId \in RequiredSecrets(plan) : SecretFile(secretId) \in all
  <2>1. PlanableManifest(assembly.manifest) /\ IsFiniteSet(RequiredSecrets(assembly.plan))
    BY <1>1, <1>3, <1>5
  <2> HIDE DEF plan
  <2> QED
    BY <1>1, <2>1, AdditionsPlanable DEF additions
<1>10. \A addition \in all : addition.entry.kind # "directory" =>
         addition.path \in DOMAIN root /\ root[addition.path] = addition.entry
  BY <1>2, <1>9, RootFiles
<1>11. \A mode, owner : Plain(mode, owner).kind = "file" /\ Plain(mode, owner).mode = mode
  BY DEF Plain
<1>12. \A template \in Range(manifest.prompts) : HasFile(root, Optdir \o template.path)
  <2> TAKE template \in Range(manifest.prompts)
  <2>1. PromptFile(template) \in all
    BY <1>9 DEF Range
  <2> DEFINE one == PromptFile(template)
             path == Optdir \o template.path
  <2>2. one.path = path /\ one.entry.kind = "file"
    <3>1. one.path = path /\ one.entry = Plain("0644", "root")
      BY AdditionFields DEF PromptFile
    <3>2. Plain("0644", "root").kind = "file"
      BY DEF Plain
    <3> QED
      BY <3>1, <3>2
  <2> HIDE DEF one, path, all
  <2>3. path \in DOMAIN root /\ root[path] = one.entry
    BY <1>10, <2>1, <2>2 DEF one
  <2> QED
    BY <2>2, <2>3 DEF HasFile, path
<1>13. ASSUME NEW i \in DOMAIN input.scripts
       PROVE  /\ HasFile(root, ScriptTarget(input.scripts[i].id))
              /\ root[ScriptTarget(input.scripts[i].id)].mode = "0755"
  <2> DEFINE resource == ScriptDescriptor(input.scripts[i])
             target == ScriptTarget(input.scripts[i].id)
  <2>1. resource \in Range(manifest.assets)
    BY <1>2, <1>8, AssetsInOrder
  <2>2. PICK k \in DOMAIN manifest.assets : resource = manifest.assets[k]
    <3> HIDE DEF resource
    <3> QED
      BY <2>1 DEF Range
  <2>3. /\ Has(resource, "placement") /\ resource.id = ScriptAssetId(input.scripts[i].id)
        /\ resource.placement.scope = "system" /\ resource.placement.path = target
        /\ AssetMode(resource.path) = "0755"
    BY ScriptFields
  <2>4. ScriptAssetId(input.scripts[i].id) \notin RunnerNames
    BY ScriptsApart, ResourcesApart DEF Taken
  <2> HIDE DEF resource, target
  <2>5. PlacedApart(resource, manifest.bootstrap.runnerInstallation)
    BY <1>7, <2>3, <2>4 DEF PlacedApart
  <2>6. PlacedFile(resource) \in all
    BY <1>9, <2>2, <2>3, <2>5
  <2>7. PlacedFile(resource).path = target /\ PlacedFile(resource).entry = Plain("0755", "root")
    BY <2>3, AdditionFields DEF PlacedFile
  <2>8. HasFile(root, target) /\ root[target].mode = "0755"
    BY <1>10, <1>11, <2>6, <2>7 DEF HasFile
  <2> QED
    BY <2>8 DEF target
<1>14. ASSUME NEW i \in DOMAIN plan.steps, NEW secretId \in StepSecrets(plan.steps[i])
       PROVE  HasFile(root, BootstrapSecrets \o <<secretId>>)
  <2>1. SecretFile(secretId) \in all
    <3>1. i \in 1..n
      BY <1>4
    <3> HIDE DEF plan
    <3> QED
      BY <1>5, <1>9, <3>1
  <2> DEFINE one == SecretFile(secretId)
             path == BootstrapSecrets \o <<secretId>>
  <2>2. one.path = path /\ one.entry.kind = "file"
    <3>1. one.path = path /\ one.entry = Plain("0600", "account")
      BY AdditionFields DEF SecretFile
    <3>2. Plain("0600", "account").kind = "file"
      BY DEF Plain
    <3> QED
      BY <3>1, <3>2
  <2> HIDE DEF one, path, all
  <2>3. path \in DOMAIN root /\ root[path] = one.entry
    BY <1>10, <2>1, <2>2 DEF one
  <2> QED
    BY <2>2, <2>3 DEF HasFile, path
<1> QED
  BY <1>12, <1>13, <1>14 DEF root, assembly, manifest

(* Every script and every secret that a step uses is declared.             *)
LEMMA StepUsesDeclared ==
  ASSUME NoArray, NEW input, Normal(input), NEW k \in DOMAIN input.steps,
         NEW use \in Range(StepUses(input.steps[k])), use.kind = "script"
  PROVE  \E i \in DOMAIN input.scripts : input.scripts[i].id = use.id
<1> DEFINE providers == Listed(input, "providers")
           n == Len(providers)
           m == Len(input.steps)
<1>1. ParsesParts(input) /\ (Has(input, "network") => ParsesNetwork(input.network))
      /\ Registers(Uses(input))
  BY DEF Normal, Parses
<1>2. /\ n \in Nat /\ DOMAIN providers = 1..n
      /\ \A i \in 1..n : input.providers[i] = providers[i] /\ ParsesProvider(providers[i])
  <2>1. Array(providers)
    BY <1>1 DEF ParsesParts
  <2> QED
    BY <1>1, <2>1, ListedFields DEF ParsesParts
<1>3. /\ m \in Nat /\ DOMAIN input.steps = 1..m /\ \A i \in 1..m : ParsesStep(input.steps[i])
  BY NormalFields
<1> HIDE DEF providers, n, m
<1> DEFINE commands == [i \in 1..n |-> CommandUses(providers[i].command)]
           steps == [i \in 1..m |-> StepUses(input.steps[i])]
           account == AccountUses(input.account)
<1>4. BodyUses(input) = (account \o FlattenSeq(commands)) \o FlattenSeq(steps)
  <2>1. [i \in DOMAIN Listed(input, "providers") |-> CommandUses(input.providers[i].command)]
          = commands
    BY <1>2 DEF providers
  <2>2. [i \in DOMAIN input.steps |-> StepUses(input.steps[i])] = steps
    BY <1>3
  <2> QED
    BY <2>1, <2>2 DEF BodyUses, AccountUses
<1>5. account \in Seq(AnyUse)
  <2>1. ParsesAccount(input.account)
    BY <1>1 DEF ParsesParts
  <2>2. Restates(AccountUses(ParsedAccount(input.account)), AccountUses(input.account))
    BY <2>1, AccountAgain
  <2> QED
    BY <2>2 DEF Restates
<1>6. commands \in Seq(Seq(AnyUse))
  <2>1. \A i \in 1..n : commands[i] \in Seq(AnyUse)
    <3> TAKE i \in 1..n
    <3>1. Restates(CommandUses(ParsedProvider(providers[i]).command),
                   CommandUses(providers[i].command))
      BY <1>2, ProviderAgain
    <3> QED
      BY <3>1 DEF Restates
  <2>2. commands = [i \in 1..n |-> commands[i]]
    OBVIOUS
  <2> HIDE DEF commands
  <2>3. commands \in [1..n -> Seq(AnyUse)]
    BY <2>1, <2>2
  <2> QED
    BY <1>2, <2>3, SeqDef
<1>7. steps \in Seq(Seq(AnyUse)) /\ DOMAIN steps = 1..m
  <2>1. \A i \in 1..m : steps[i] \in Seq(AnyUse)
    <3> TAKE i \in 1..m
    <3>1. StepAgain(input.steps[i])
      BY <1>3, EveryStepAgain
    <3>2. Restates(StepUses(ParsedStep(input.steps[i])), StepUses(input.steps[i]))
      BY <3>1 DEF StepAgain
    <3> QED
      BY <3>2 DEF Restates
  <2>2. steps = [i \in 1..m |-> steps[i]]
    OBVIOUS
  <2> HIDE DEF steps
  <2>3. steps \in [1..m -> Seq(AnyUse)]
    BY <2>1, <2>2
  <2> QED
    BY <1>3, <2>3, SeqDef
<1>8. use \in Range(steps[k])
  BY <1>3
<1> HIDE DEF commands, steps, account
<1>9. FlattenSeq(commands) \in Seq(AnyUse)
  BY <1>6, FlattenedRange
<1>10. FlattenSeq(steps) \in Seq(AnyUse) /\ use \in Range(FlattenSeq(steps))
  <2>1. /\ FlattenSeq(steps) \in Seq(AnyUse)
        /\ Range(FlattenSeq(steps)) = UNION {Range(steps[i]) : i \in DOMAIN steps}
    BY <1>7, FlattenedRange
  <2> QED
    BY <1>3, <1>7, <1>8, <2>1
<1>11. use \in Range(BodyUses(input))
  <2> DEFINE first == account \o FlattenSeq(commands)
             second == FlattenSeq(steps)
  <2>1. first \in Seq(AnyUse)
    BY <1>5, <1>9, ConcatProperties
  <2>2. second \in Seq(AnyUse) /\ use \in Range(second)
    BY <1>10
  <2>3. BodyUses(input) = first \o second
    BY <1>4
  <2> HIDE DEF first, second
  <2>4. Range(first \o second) = Range(first) \cup Range(second)
    BY <2>1, <2>2, RangeConcatenation
  <2> QED
    BY <2>2, <2>3, <2>4
<1>12. Uses(input) \in Seq(AnyUse) /\ use \in Range(Uses(input))
  <2>1. /\ Uses(input) \in Seq(AnyUse)
        /\ Range(Uses(input)) =
             Range(ListedUses(input)) \cup Range(BodyUses(input)) \cup Range(NetworkUses(input))
    BY <1>1, UsesTyped
  <2> QED
    BY <1>11, <2>1
<1>13. use.id \in Range(Ids(Registry("script", Uses(input))))
  BY <1>1, <1>12, DeclaredUses
<1>14. input.scripts = Registry("script", Uses(input))
  BY ParsedFields DEF Normal
<1> QED
  BY <1>13, <1>14 DEF Range, Ids

(* The scripts of a definition, as files the runner can run.               *)
ScriptsPresent(entries, scripts) ==
  \A i \in DOMAIN scripts : /\ HasFile(entries, ScriptTarget(scripts[i].id))
                            /\ entries[ScriptTarget(scripts[i].id)].mode = "0755"

LEMMA CommandExecutable ==
  ASSUME NEW value, ParsesCommand(value), ParsedCommand(value) = value,
         NEW scripts, NEW entries, ScriptsPresent(entries, scripts),
         \A use \in Range(CommandUses(value)) :
           \E i \in DOMAIN scripts : scripts[i].id = use.id
  PROVE  Executable(entries, CommandDescriptor(value))
<1> DEFINE executable == value.executable
           again == CommandDescriptor(value)
<1>1. /\ "executable" \in DOMAIN value
      /\ \/ Object(executable, {"program"}, {})
         \/ ParsesUse(executable, "script", "scriptId")
  BY DEF ParsesCommand, Object
<1>2. again.executable = IF Has(executable, "program") THEN executable
                         ELSE [path |-> ScriptTarget(executable.scriptId)]
  BY <1>1 DEF CommandDescriptor
<1>3. CASE Has(executable, "program")
  <2>1. ~Has(executable, "path")
    BY <1>1, <1>3 DEF Has, Object, ParsesUse, ParsesReference
  <2> QED
    BY <1>2, <1>3, <2>1 DEF Executable
<1>4. CASE ~Has(executable, "program")
  <2>1. ParsedCommand(value) = [value EXCEPT !.executable =
                                  Named("script", "scriptId", executable)]
    BY <1>4 DEF ParsedCommand
  <2>2. executable = Named("script", "scriptId", executable)
    BY <1>1, <2>1
  <2>3. Has(executable, "scriptId")
    BY <2>2 DEF Named, Has
  <2>4. CommandUses(value) = <<Use("script", "scriptId", executable)>>
    BY <1>4 DEF CommandUses
  <2>5. Use("script", "scriptId", executable).id = executable.scriptId
    BY <2>3 DEF Use
  <2>6. Use("script", "scriptId", executable) \in Range(CommandUses(value))
    BY <2>4 DEF Range
  <2>7. PICK i \in DOMAIN scripts : scripts[i].id = executable.scriptId
    BY <2>5, <2>6
  <2> DEFINE target == ScriptTarget(executable.scriptId)
  <2>8. HasFile(entries, target) /\ entries[target].mode = "0755"
    BY <2>7 DEF ScriptsPresent
  <2>9. again.executable.path = target
    BY <1>2, <1>4
  <2> QED
    BY <2>8, <2>9 DEF Executable
<1> QED
  BY <1>3, <1>4

LEMMA CommandsPresent ==
  ASSUME NoArray, NEW input, Normal(input), NEW k \in DOMAIN input.steps,
         NEW entries, ScriptsPresent(entries, input.scripts)
  PROVE  LET step == RunnerStep(input.steps[k]) IN
         /\ input.steps[k].kind \in {"automatic", "fire-and-forget"} =>
              Executable(entries, step.command)
         /\ input.steps[k].kind = "manual" =>
              Executable(entries, step.command) /\ Executable(entries, step.completionCheck)
<1> DEFINE step == input.steps[k]
           written == RunnerStep(step)
<1>1. ParsesStep(step) /\ ParsedStep(step) = step
  BY NormalFields
<1>2. \A use \in Range(StepUses(step)) : use.kind = "script" =>
        \E i \in DOMAIN input.scripts : input.scripts[i].id = use.id
  BY StepUsesDeclared
<1>3. \A stepCommand : \A use \in Range(CommandUses(stepCommand)) : use.kind = "script"
  <2> TAKE stepCommand
  <2>1. CASE Has(stepCommand.executable, "program")
    <3>1. CommandUses(stepCommand) = <<>>
      BY <2>1 DEF CommandUses
    <3> QED
      BY <3>1 DEF Range
  <2>2. CASE ~Has(stepCommand.executable, "program")
    <3> DEFINE use == Use("script", "scriptId", stepCommand.executable)
    <3>1. CommandUses(stepCommand) = <<use>>
      BY <2>2 DEF CommandUses
    <3>2. use.kind = "script"
      BY DEF Use
    <3> HIDE DEF use
    <3> QED
      BY <3>1, <3>2 DEF Range
  <2> QED
    BY <2>1, <2>2
<1> HIDE DEF step
<1>4. ASSUME NEW stepCommand, ParsesCommand(stepCommand),
             ParsedCommand(stepCommand) = stepCommand,
             Range(CommandUses(stepCommand)) \subseteq Range(StepUses(step))
      PROVE  Executable(entries, CommandDescriptor(stepCommand))
  <2>1. \A use \in Range(CommandUses(stepCommand)) :
          \E i \in DOMAIN input.scripts : input.scripts[i].id = use.id
    BY <1>2, <1>3, <1>4
  <2> QED
    BY <1>4, <2>1, CommandExecutable
<1>5. CASE step.kind \in {"automatic", "fire-and-forget"}
  <2>1. ParsesCommand(step.command) /\ "command" \in DOMAIN step
    BY <1>1, <1>5 DEF ParsesStep, ParsesEnvironment, ParsesAutomatic, ParsesManual,
       ParsesFireAndForget, ParsesPromptStep, ParsesProviderStep, ParsesInstallUserSecret, Object
  <2>2. ParsedStep(step) = [step EXCEPT !.command = ParsedCommand(step.command)]
    BY <1>5 DEF ParsedStep
  <2>3. ParsedCommand(step.command) = step.command
    BY <1>1, <2>1, <2>2
  <2>4. StepUses(step) = CommandUses(step.command)
    BY <1>5 DEF StepUses
  <2>5. Executable(entries, CommandDescriptor(step.command))
    BY <1>4, <2>1, <2>3, <2>4
  <2>6. written.command = CommandDescriptor(step.command)
    BY <1>5, <2>1 DEF RunnerStep
  <2> QED
    BY <1>5, <2>5, <2>6 DEF step
<1>6. CASE step.kind = "manual"
  <2> DEFINE first == CommandUses(step.command)
             second == CommandUses(step.completionCheck)
  <2>1. /\ ParsesCommand(step.command) /\ "command" \in DOMAIN step
        /\ ParsesCommand(step.completionCheck) /\ "completionCheck" \in DOMAIN step
    BY <1>1, <1>6 DEF ParsesStep, ParsesEnvironment, ParsesAutomatic, ParsesManual,
       ParsesFireAndForget, ParsesPromptStep, ParsesProviderStep, ParsesInstallUserSecret, Object
  <2>2. ParsedStep(step) = [step EXCEPT !.command = ParsedCommand(step.command),
                                        !.completionCheck = ParsedCommand(step.completionCheck)]
    BY <1>6 DEF ParsedStep
  <2>3. /\ ParsedStep(step).command = ParsedCommand(step.command)
        /\ ParsedStep(step).completionCheck = ParsedCommand(step.completionCheck)
    BY <2>1, <2>2
  <2>4. /\ ParsedCommand(step.command) = step.command
        /\ ParsedCommand(step.completionCheck) = step.completionCheck
    BY <1>1, <2>3
  <2>5. StepUses(step) = first \o second
    BY <1>6 DEF StepUses
  <2>6. first \in Seq(AnyUse) /\ second \in Seq(AnyUse)
    <3>1. /\ Restates(CommandUses(ParsedCommand(step.command)), CommandUses(step.command))
          /\ Restates(CommandUses(ParsedCommand(step.completionCheck)),
                      CommandUses(step.completionCheck))
      BY <2>1, CommandAgain
    <3> QED
      BY <3>1 DEF Restates
  <2>7. Range(first \o second) = Range(first) \cup Range(second)
    <3> HIDE DEF first, second
    <3> QED
      BY <2>6, RangeConcatenation
  <2>8. Range(first) \subseteq Range(StepUses(step)) /\ Range(second) \subseteq Range(StepUses(step))
    BY <2>5, <2>7
  <2>9. /\ Executable(entries, CommandDescriptor(step.command))
        /\ Executable(entries, CommandDescriptor(step.completionCheck))
    BY <1>4, <2>1, <2>4, <2>8
  <2>10. written = [step EXCEPT !.command = CommandDescriptor(step.command),
                                !.completionCheck = CommandDescriptor(step.completionCheck)]
    BY <1>6 DEF RunnerStep
  <2>11. /\ written.command = CommandDescriptor(step.command)
         /\ written.completionCheck = CommandDescriptor(step.completionCheck)
    BY <2>1, <2>10
  <2> QED
    BY <1>6, <2>9, <2>11 DEF step
<1> QED
  BY <1>5, <1>6 DEF step

LEMMA PromptContents ==
  ASSUME NoArray, NEW input, Normal(input), NEW files, NEW k \in DOMAIN input.prompts
  PROVE  LET path == PromptPath(input.prompts[k].id) IN
         /\ \E content \in Range(ContentFiles(input, files)) : content.path = path
         /\ ContentsAt(input, files, path) = files[input.prompts[k].source.url]
<1> DEFINE Read(one, contents) == [path |-> one, contents |-> contents]
           assets == [i \in DOMAIN input.assets |->
                        Read(AssetPath(input.assets[i].id), files[input.assets[i].source.url])]
           scripts == [i \in DOMAIN input.scripts |->
                        Read(ScriptPath(input.scripts[i].id), files[input.scripts[i].source.url])]
           prompts == [i \in DOMAIN input.prompts |->
                        Read(PromptPath(input.prompts[i].id), files[input.prompts[i].source.url])]
           content == ContentFiles(input, files)
           path == PromptPath(input.prompts[k].id)
           mine == files[input.prompts[k].source.url]
<1>1. NormalIds(input.assets) /\ NormalIds(input.scripts) /\ NormalIds(input.prompts)
  BY NormalNames
<1>2. content = (assets \o scripts) \o prompts
  BY DEF ContentFiles
<1>3. IsSeq(assets) /\ IsSeq(scripts) /\ IsSeq(prompts)
  <2> DEFINE a == Len(input.assets)
             s == Len(input.scripts)
             p == Len(input.prompts)
  <2>1. a \in Nat /\ s \in Nat /\ p \in Nat
    BY <1>1 DEF NormalIds
  <2>2. assets = [i \in 1..a |-> assets[i]]
    BY <1>1 DEF NormalIds
  <2>3. scripts = [i \in 1..s |-> scripts[i]]
    BY <1>1 DEF NormalIds
  <2>4. prompts = [i \in 1..p |-> prompts[i]]
    BY <1>1 DEF NormalIds
  <2> HIDE DEF assets, scripts, prompts, a, s, p
  <2> QED
    BY <2>1, <2>2, <2>3, <2>4, SeqByIndex
<1>4. /\ \A i \in DOMAIN assets : assets[i].path = AssetPath(input.assets[i].id)
      /\ \A i \in DOMAIN scripts : scripts[i].path = ScriptPath(input.scripts[i].id)
      /\ \A i \in DOMAIN prompts :
           /\ i \in DOMAIN input.prompts /\ prompts[i].path = PromptPath(input.prompts[i].id)
           /\ prompts[i].contents = files[input.prompts[i].source.url]
      /\ k \in DOMAIN prompts
  OBVIOUS
<1> HIDE DEF assets, scripts, prompts, content, path
<1>5. /\ \A one \in Range(assets) : \E id : one.path = AssetPath(id)
      /\ \A one \in Range(scripts) : \E id : one.path = ScriptPath(id)
      /\ \A one \in Range(prompts) : \E i \in DOMAIN input.prompts :
           /\ one.path = PromptPath(input.prompts[i].id)
           /\ one.contents = files[input.prompts[i].source.url]
      /\ \E one \in Range(prompts) : one.path = path
  BY <1>4 DEF Range, path
<1>6. IsSeq(content) /\ Range(content) = Range(assets) \cup Range(scripts) \cup Range(prompts)
  <2> DEFINE both == assets \o scripts
  <2>1. IsSeq(both) /\ Range(both) = Range(assets) \cup Range(scripts)
    BY <1>3, SeqJoined
  <2> HIDE DEF both
  <2>2. IsSeq(both \o prompts) /\ Range(both \o prompts) = Range(both) \cup Range(prompts)
    BY <1>3, <2>1, SeqJoined
  <2> QED
    BY <1>2, <2>1, <2>2 DEF both
<1>7. \A one \in Range(content) : one.path = path => one.contents = mine
  <2> TAKE one \in Range(content)
  <2> HAVE one.path = path
  <2>1. one \in Range(prompts)
    <3>1. one \notin Range(assets) /\ one \notin Range(scripts)
      BY <1>5, PathsApart DEF path
    <3> QED
      BY <1>6, <3>1
  <2>2. PICK i \in DOMAIN input.prompts : /\ one.path = PromptPath(input.prompts[i].id)
                                          /\ one.contents = files[input.prompts[i].source.url]
    BY <1>5, <2>1
  <2>3. input.prompts[i].id = input.prompts[k].id
    BY <2>2, PathsApart DEF path
  <2>4. i = k
    BY <1>1, <2>3 DEF NormalIds, IsInjective, Ids
  <2> QED
    BY <2>2, <2>4
<1>8. \E i \in DOMAIN content : content[i].path = path
  <2>1. PICK one \in Range(content) : one.path = path
    BY <1>5, <1>6
  <2> QED
    BY <2>1 DEF Range
<1> DEFINE found == CHOOSE i \in DOMAIN content : content[i].path = path
<1>9. found \in DOMAIN content /\ content[found].path = path
  BY <1>8
<1>10. ContentsAt(input, files, path) = content[found].contents
  BY DEF ContentsAt, content
<1> HIDE DEF found
<1>11. content[found] \in Range(content)
  BY <1>9 DEF Range
<1>12. ContentsAt(input, files, path) = mine
  BY <1>7, <1>9, <1>10, <1>11
<1>13. \E one \in Range(content) : one.path = path
  BY <1>5, <1>6
<1> QED
  BY <1>12, <1>13 DEF path, content

(* Every prompt of an assembly that can be planned is a file of it, and    *)
(* the template that was read for it.                                      *)
LEMMA PromptRenders ==
  ASSUME NoArray, NEW input, NEW lock, NEW files, Taken(input, lock, files),
         NEW template \in Range(Manifest(input).prompts)
  PROVE  Renders(Assembly(input, lock, files).files[template.path], Range(template.variables))
<1> DEFINE assembly == Assembly(input, lock, files)
           prompts == input.prompts
           described == [i \in DOMAIN prompts |-> PromptDescriptor(prompts[i])]
<1>1. Normal(input) /\ ResourceRefusal(input, files) = 0 /\ RootPlan(assembly) # NoPlan
  BY DEF Taken
<1>2. Manifest(input).prompts = described
  BY DEF Manifest
<1>3. PICK k \in DOMAIN prompts : template = PromptDescriptor(prompts[k])
  BY <1>2 DEF Range
<1> DEFINE path == PromptPath(prompts[k].id)
           contents == files[prompts[k].source.url]
<1>4. template.path = path /\ template.variables = prompts[k].variables
  BY <1>3 DEF PromptDescriptor
<1>5. path \in DOMAIN assembly.files
  <2>1. \A i \in DOMAIN assembly.manifest.prompts :
          assembly.manifest.prompts[i].path \in DOMAIN assembly.files
    BY <1>1 DEF RootPlan
  <2>2. assembly.manifest.prompts = described
    BY <1>2, AssemblyFields
  <2>3. DOMAIN described = DOMAIN prompts /\ described[k].path = path
    BY <1>3, <1>4
  <2> HIDE DEF assembly, described, path
  <2> QED
    BY <2>1, <2>2, <2>3
<1>6. assembly.files[path] = contents
  <2>1. /\ \E content \in Range(ContentFiles(input, files)) : content.path = path
        /\ ContentsAt(input, files, path) = contents
    BY <1>1, PromptContents
  <2> HIDE DEF path, contents
  <2>2. assembly.files[path] = ContentsAt(input, files, path)
    BY <1>5, <2>1 DEF Assembly
  <2> QED
    BY <2>1, <2>2
<1>7. TemplateRefusal(prompts[k], contents) = 0
  <2> DEFINE refusals == [i \in DOMAIN prompts |->
                            TemplateRefusal(prompts[i], files[prompts[i].source.url])]
  <2>1. FirstOf(refusals) = 0
    BY <1>1 DEF ResourceRefusal
  <2>2. DOMAIN prompts = 1..Len(prompts) /\ Len(prompts) \in Nat
    BY <1>1, NormalFields
  <2>3. DOMAIN refusals = DOMAIN prompts /\ DOMAIN refusals \subseteq Nat
    BY <2>2
  <2>4. refusals[k] = TemplateRefusal(prompts[k], contents)
    OBVIOUS
  <2> HIDE DEF refusals
  <2>5. \A i \in DOMAIN refusals : refusals[i] = 0
    BY <2>1, <2>3, FirstOfNone
  <2> QED
    BY <2>3, <2>4, <2>5
<1> HIDE DEF assembly, path, contents
<1>8. Renders(contents, Range(template.variables))
  BY <1>4, <1>7 DEF TemplateRefusal, Renders
<1> QED
  BY <1>4, <1>6, <1>8 DEF assembly

LEMMA PromptHydrates ==
  ASSUME NoArray, SomePath, PathsInOrder, NEW input, NEW lock, NEW files,
         Taken(input, lock, files),
         NEW k \in DOMAIN RunnerPlan(input).steps, RunnerPlan(input).steps[k].kind = "prompt",
         ~Unset(RunnerPlan(input).steps, k)
  PROVE  Hydrates(RootPlan(Assembly(input, lock, files)), Assembly(input, lock, files), k)
<1> DEFINE assembly == Assembly(input, lock, files)
           root == RootPlan(assembly)
           plan == RunnerPlan(input)
           manifest == Manifest(input)
           bindings == plan.steps[k].variables
           names == Range(BoundNames(bindings))
<1>1. assembly.manifest = manifest /\ assembly.plan = plan
  BY AssemblyFields
<1>2. AcceptsDocuments(manifest, plan, lock)
  <2>1. root # NoPlan
    BY DEF Taken
  <2>2. AcceptsDocuments(assembly.manifest, assembly.plan, assembly.lock)
    BY <2>1, PlannedRoot
  <2> QED
    BY <2>2, AssemblyFields
<1>3. \A template \in Range(manifest.prompts) :
        /\ HasFile(root, Optdir \o template.path)
        /\ Renders(assembly.files[template.path], Range(template.variables))
  <2>1. \A template \in Range(manifest.prompts) : HasFile(root, Optdir \o template.path)
    BY RunFiles
  <2>2. \A template \in Range(manifest.prompts) :
          Renders(assembly.files[template.path], Range(template.variables))
    BY PromptRenders
  <2> QED
    BY <2>1, <2>2
<1>4. AcceptsStep(plan.steps[k])
  BY <1>2 DEF AcceptsDocuments, AcceptsPlan
<1>5. plan.steps[k].kind = "prompt" /\ ~Unset(plan.steps, k) /\ k \in DOMAIN plan.steps
  OBVIOUS
<1> HIDE DEF assembly, root, plan, manifest
<1>6. PICK template \in Range(manifest.prompts) :
        template.id = plan.steps[k].templateId /\ Range(template.variables) = names
  BY <1>2, <1>5 DEF AcceptsDocuments, PromptReferencesHold
<1>7. \A b \in DOMAIN bindings : AcceptsVariableSource(bindings[b].source)
  BY <1>4, <1>5 DEF AcceptsStep, AcceptsEnvironmentStep, AcceptsAutomaticStep, AcceptsManualStep,
     AcceptsFireAndForgetStep, AcceptsPromptStep, AcceptsProviderStep, AcceptsSecretStep
<1>8. ASSUME NEW b \in DOMAIN bindings
      PROVE  Resolves(root, plan.steps, k, bindings[b].source)
  <2>1. bindings[b].source.kind \in {"environment", "secret"}
    BY <1>7 DEF AcceptsVariableSource
  <2>2. bindings[b] \in Range(plan.steps[k].variables)
    BY DEF Range
  <2>3. /\ bindings[b].source.kind # "secret"
        /\ bindings[b].source.kind = "environment" =>
             IsSet(plan.steps, k, bindings[b].source.key)
    BY <1>5, <2>2 DEF Unset
  <2> QED
    BY <2>1, <2>3 DEF Resolves
<1> HIDE DEF bindings
<1>9. /\ HasFile(root, Optdir \o template.path)
      /\ Renders(assembly.files[template.path], names)
  BY <1>3, <1>6
<1>10. Hydrates(root, assembly, k)
  BY <1>1, <1>6, <1>8, <1>9 DEF Hydrates, bindings
<1> QED
  BY <1>10 DEF assembly, root

LEMMA SliceCommand ==
  LET sliceCommand == Slice(<<>>).provider.command IN
  /\ Has(sliceCommand, "workingDirectory") /\ sliceCommand.arguments = ProviderArguments
  /\ sliceCommand.executable = Program("codex")
<1> DEFINE base == [executable |-> Program("codex"), arguments |-> ProviderArguments]
           workspace == [scope |-> "user-home", path |-> <<"workspace">>]
           more == [workingDirectory |-> workspace]
<1>1. Slice(<<>>).provider.command = Joined(base, more)
  BY DEF Slice, codexProvider, provider, commandIn, command
<1>2. /\ DOMAIN base = {"executable", "arguments"} /\ base.executable = Program("codex")
      /\ base.arguments = ProviderArguments /\ DOMAIN more = {"workingDirectory"}
  OBVIOUS
<1> HIDE DEF base, more
<1>3. /\ "workingDirectory" \in DOMAIN Joined(base, more)
      /\ Joined(base, more).executable = base.executable
      /\ Joined(base, more).arguments = base.arguments
  BY <1>2 DEF Joined, Has
<1> QED
  BY <1>1, <1>2, <1>3 DEF Has

LEMMA ProviderProvides ==
  ASSUME NoArray, SomePath, PathsInOrder, NEW input, NEW lock, NEW files,
         Taken(input, lock, files), Gated(RunnerPlan(input)),
         NEW k \in DOMAIN RunnerPlan(input).steps, RunnerPlan(input).steps[k].kind = "provider",
         ~Excused(RunnerPlan(input), k)
  PROVE  Provides(RootPlan(Assembly(input, lock, files)), Assembly(input, lock, files), k)
<1> DEFINE assembly == Assembly(input, lock, files)
           root == RootPlan(assembly)
           plan == RunnerPlan(input)
<1>1. assembly.plan = plan /\ Normal(input)
  BY AssemblyFields DEF Taken
<1>2. AcceptsPlan(plan)
  <2>1. root # NoPlan
    BY DEF Taken
  <2>2. AcceptsDocuments(assembly.manifest, assembly.plan, assembly.lock)
    BY <2>1, PlannedRoot
  <2> QED
    BY <2>2, AssemblyFields DEF AcceptsDocuments
<1>3. \A j \in DOMAIN plan.steps : plan.steps[j].kind = "prompt" /\ ~Unset(plan.steps, j) =>
        Hydrates(root, assembly, j)
  BY PromptHydrates
<1>4. /\ plan.steps[k].kind = "provider" /\ Gated(plan) /\ ~Excused(plan, k)
      /\ k \in DOMAIN plan.steps
  OBVIOUS
<1>5. \E n \in Nat : DOMAIN plan.steps = 1..n
  <2>1. \E n \in Nat : plan.steps = [i \in 1..n |-> plan.steps[i]]
    BY <1>1, PlanSteps
  <2> HIDE DEF plan
  <2> QED
    BY <2>1
<1> HIDE DEF assembly, root, plan
<1>6. /\ plan.steps[k].providerId \in Range(Ids(plan.providers))
      /\ plan.steps[k].renderedPromptId \in
           {plan.steps[j].renderedPromptId : j \in {i \in 1..(k - 1) : plan.steps[i].kind = "prompt"}}
  BY <1>2, <1>4 DEF AcceptsPlan, StepReferencesHold
<1>7. PICK p \in DOMAIN plan.providers : plan.providers[p].id = plan.steps[k].providerId
  BY <1>6 DEF Range, Ids
<1>8. PICK j \in 1..(k - 1) : /\ plan.steps[j].kind = "prompt"
                              /\ plan.steps[j].renderedPromptId = plan.steps[k].renderedPromptId
  BY <1>6
<1>9. j \in DOMAIN plan.steps
  BY <1>4, <1>5, <1>8
<1>10. ~Unset(plan.steps, j)
  BY <1>4, <1>8 DEF Excused
<1>11. Hydrates(root, assembly, j)
  BY <1>3, <1>8, <1>9, <1>10
<1>12. /\ Has(plan.providers[p].command, "workingDirectory")
       /\ plan.providers[p].command.arguments = ProviderArguments
  BY <1>4, <1>7, SliceCommand DEF Gated
<1>13. Provides(root, assembly, k)
  BY <1>1, <1>7, <1>8, <1>9, <1>11, <1>12 DEF Provides
<1> QED
  BY <1>13 DEF assembly, root

LEMMA SecretInstalls ==
  ASSUME NoArray, SomePath, PathsInOrder, NEW input, NEW lock, NEW files,
         Taken(input, lock, files),
         NEW k \in DOMAIN RunnerPlan(input).steps,
         RunnerPlan(input).steps[k].kind = "install-user-secret",
         ~Excused(RunnerPlan(input), k)
  PROVE  Installs(RootPlan(Assembly(input, lock, files)), RunnerPlan(input).steps, k)
<1> DEFINE root == RootPlan(Assembly(input, lock, files))
           plan == RunnerPlan(input)
<1>1. \A secretId \in StepSecrets(plan.steps[k]) :
        HasFile(root, BootstrapSecrets \o <<secretId>>)
  BY RunFiles
<1>2. plan.steps[k].kind = "install-user-secret" /\ ~Excused(plan, k)
  OBVIOUS
<1> HIDE DEF root, plan
<1>3. HasFile(root, BootstrapSecrets \o <<plan.steps[k].secretId>>)
  BY <1>1, <1>2 DEF StepSecrets
<1>4. Installs(root, plan.steps, k)
  BY <1>2, <1>3 DEF Installs, Excused
<1> QED
  BY <1>4 DEF root, plan

(* What a builder makes of a command and of the directory it runs in.      *)
LEMMA CommandIn ==
  ASSUME NEW executable, NEW arguments, NEW workingDirectory
  PROVE  LET built == commandIn(executable, arguments, workingDirectory) IN
         /\ built.executable = executable /\ built.arguments = arguments
         /\ Has(built, "workingDirectory")
<1> DEFINE base == [executable |-> executable, arguments |-> arguments]
           more == [workingDirectory |-> workingDirectory]
<1>1. commandIn(executable, arguments, workingDirectory) = Joined(base, more)
  BY DEF commandIn, command
<1>2. /\ DOMAIN base = {"executable", "arguments"} /\ base.executable = executable
      /\ base.arguments = arguments /\ DOMAIN more = {"workingDirectory"}
  OBVIOUS
<1> HIDE DEF base, more
<1>3. /\ "workingDirectory" \in DOMAIN Joined(base, more)
      /\ Joined(base, more).executable = base.executable
      /\ Joined(base, more).arguments = base.arguments
  BY <1>2 DEF Joined, Has
<1> QED
  BY <1>1, <1>2, <1>3 DEF Has

(* A step with the gate of another agrees with it in every other field.    *)
LEMMA SameGate ==
  ASSUME NEW steps, NEW others, Gates(steps) \subseteq Gates(others),
         NEW step \in steps, Has(step, "command")
  PROVE  \E other \in others :
           \A field \in DOMAIN step \ {"id", "pollIntervalSeconds"} : other[field] = step[field]
<1>1. Gate(step) \in Gates(others)
  BY DEF Gates
<1>2. PICK other \in others : Gate(other) = Gate(step)
  BY <1>1 DEF Gates
<1> DEFINE D == DOMAIN step \ {"id", "pollIntervalSeconds"}
           E == DOMAIN other \ {"id", "pollIntervalSeconds"}
<1>3. [field \in E |-> other[field]] = [field \in D |-> step[field]]
  BY <1>2 DEF Gate
<1>4. \A field \in D : other[field] = step[field]
  <2> DEFINE f == [field \in E |-> other[field]]
             g == [field \in D |-> step[field]]
  <2>1. /\ DOMAIN f = E /\ DOMAIN g = D /\ \A field \in E : f[field] = other[field]
        /\ \A field \in D : g[field] = step[field]
    OBVIOUS
  <2>2. f = g
    BY <1>3
  <2> HIDE DEF f, g, D, E
  <2> QED
    BY <2>1, <2>2
<1> QED
  BY <1>4

LEMMA VersionPinned ==
  ASSUME NEW stepCommand, stepCommand.executable = Program("agent-boot-codex"),
         stepCommand.arguments = VerifyVersion
  PROVE  PinsVersion(stepCommand)
<1>1. Len(VerifyVersion) = 3
  BY DEF VerifyVersion
<1>2. Front(VerifyVersion) = <<"verify-version", "--expected">>
  <2> DEFINE version == VerifyVersion
             front == SubSeq(version, 1, 2)
  <2>1. version[1] = "verify-version" /\ version[2] = "--expected"
    BY DEF VerifyVersion
  <2> HIDE DEF version
  <2>2. \A i \in 1..2 : version[i] \in {"verify-version", "--expected"}
    <3>1. \A i \in 1..2 : i = 1 \/ i = 2
      OBVIOUS
    <3> QED
      BY <2>1, <3>1
  <2>3. /\ front \in Seq({"verify-version", "--expected"}) /\ Len(front) = IF 1 <= 2 THEN 2 - 1 + 1 ELSE 0
        /\ \A i \in 1..2 - 1 + 1 : front[i] = version[1 + i - 1]
    BY <2>1, <2>2, SubSeqProperties
  <2>4. Len(front) = 2 /\ front[1] = version[1] /\ front[2] = version[2]
    BY <2>3
  <2> HIDE DEF front
  <2>5. front = <<front[1], front[2]>>
    BY <2>3, <2>4
  <2>6. Front(version) = front
    BY <1>1 DEF Front, front, version
  <2> QED
    BY <2>1, <2>4, <2>5, <2>6 DEF version
<1>3. IsPrefix(<<"verify-version", "--expected">>, VerifyVersion)
  BY DEF IsPrefix, VerifyVersion
<1> QED
  BY <1>1, <1>2, <1>3 DEF PinsVersion

(* The gates of a slice: the check of the version, and the login, at the   *)
(* device or from credentials.                                             *)
SliceRoot == [scope |-> "user-home", path |-> <<"workspace">>]
VersionGate(id) ==
  automatic(id, commandIn(Program("agent-boot-codex"), VerifyVersion, SliceRoot))
DeviceGate(id) ==
  manual(id, commandIn(Program("codex"), DeviceAuth, SliceRoot),
         commandIn(Program("codex"), LoginStatus, SliceRoot), 2)
LoginGate(id) == automatic(id, commandIn(Program("codex"), LoginStatus, SliceRoot))

LEMMA SliceGates ==
  /\ \A credentials : \E id : VersionGate(id) \in Range(Slice(credentials).bootstrapSteps)
  /\ \E id : DeviceGate(id) \in Range(Slice(<<>>).bootstrapSteps)
  /\ \A credential : \E id : LoginGate(id) \in Range(Slice(<<credential>>).bootstrapSteps)
<1> DEFINE Run(id, name, arguments) ==
             automatic(id, commandIn(Program(name), arguments, SliceRoot))
           one == Run("codex" \o "-install", "npm", <<"install", "--global">>)
           two == VersionGate("codex" \o "-verify-version")
           three == Run("codex" \o "-configure-profile", "agent-boot-codex", <<"configure-profile">>)
           four == Run("codex" \o "-verify-profile", "agent-boot-codex", <<"verify-profile">>)
           first == <<one, two, three, four>>
           Rest(credentials) ==
             IF credentials = <<>> THEN <<DeviceGate("codex" \o "-authenticate-device")>>
             ELSE <<installUserSecret("codex" \o "-install-credentials", credentials[1],
                                      <<".codex", "auth.json">>),
                    LoginGate("codex" \o "-verify-authentication")>>
<1>1. ASSUME NEW credentials
      PROVE  Slice(credentials).bootstrapSteps = first \o Rest(credentials)
  BY DEF Slice, codexProvider, VersionGate, DeviceGate, LoginGate, SliceRoot
<1>2. IsSeq(first) /\ two \in Range(first)
  <2>1. IsSeq(first)
    BY ShortPaths
  <2> HIDE DEF one, two, three, four
  <2>2. two \in Range(first)
    BY DEF Range
  <2> QED
    BY <2>1, <2>2 DEF one, two, three, four
<1>3. ASSUME NEW credentials
      PROVE  IsSeq(Rest(credentials))
  BY ShortPaths
<1>4. DeviceGate("codex" \o "-authenticate-device") \in Range(Rest(<<>>))
  <2> DEFINE gate == DeviceGate("codex" \o "-authenticate-device")
  <2>1. Rest(<<>>) = <<gate>>
    OBVIOUS
  <2> HIDE DEF gate, Rest
  <2>2. gate \in Range(Rest(<<>>))
    BY <2>1 DEF Range
  <2> QED
    BY <2>2 DEF gate
<1>5. ASSUME NEW credential
      PROVE  LoginGate("codex" \o "-verify-authentication") \in Range(Rest(<<credential>>))
  <2> DEFINE gate == LoginGate("codex" \o "-verify-authentication")
             other == installUserSecret("codex" \o "-install-credentials", credential,
                                        <<".codex", "auth.json">>)
  <2>1. <<credential>> # <<>> /\ <<credential>>[1] = credential
    OBVIOUS
  <2>2. Rest(<<credential>>) = <<other, gate>>
    BY <2>1
  <2> HIDE DEF gate, other, Rest
  <2>3. gate \in Range(Rest(<<credential>>))
    BY <2>2 DEF Range
  <2> QED
    BY <2>3 DEF gate
<1> HIDE DEF two, first, Rest
<1>6. ASSUME NEW credentials
      PROVE  Range(Slice(credentials).bootstrapSteps) = Range(first) \cup Range(Rest(credentials))
  BY <1>1, <1>2, <1>3, SeqJoined
<1>7. \A credentials : \E id : VersionGate(id) \in Range(Slice(credentials).bootstrapSteps)
  BY <1>2, <1>6 DEF two
<1>8. \E id : DeviceGate(id) \in Range(Slice(<<>>).bootstrapSteps)
  BY <1>4, <1>6
<1>9. \A credential : \E id : LoginGate(id) \in Range(Slice(<<credential>>).bootstrapSteps)
  BY <1>5, <1>6
<1> QED
  BY <1>7, <1>8, <1>9

LEMMA GateFields ==
  ASSUME NEW id
  PROVE  /\ VersionGate(id).kind = "automatic" /\ Has(VersionGate(id), "command")
         /\ Has(VersionGate(id), "kind") /\ VersionGate(id).command =
              commandIn(Program("agent-boot-codex"), VerifyVersion, SliceRoot)
         /\ DeviceGate(id).kind = "manual" /\ Has(DeviceGate(id), "command")
         /\ Has(DeviceGate(id), "kind") /\ Has(DeviceGate(id), "completionCheck")
         /\ DeviceGate(id).command = commandIn(Program("codex"), DeviceAuth, SliceRoot)
         /\ DeviceGate(id).completionCheck = commandIn(Program("codex"), LoginStatus, SliceRoot)
         /\ LoginGate(id).kind = "automatic" /\ Has(LoginGate(id), "command")
         /\ Has(LoginGate(id), "kind")
         /\ LoginGate(id).command = commandIn(Program("codex"), LoginStatus, SliceRoot)
BY DEF VersionGate, DeviceGate, LoginGate, automatic, manual, Has

LEMMA GatedStarts ==
  ASSUME NEW plan, Gated(plan)
  PROVE  StartsUp(plan)
<1> DEFINE ahead == Earlier(plan.steps, FirstProvider(plan.steps))
<1>1. \A i \in DOMAIN plan.providers : plan.providers[i].command.executable = Program("codex")
  BY SliceCommand DEF Gated
<1>2. PICK credentials :
        /\ credentials = <<>> \/ \E credential : credentials = <<credential>>
        /\ Gates(Range(Slice(credentials).bootstrapSteps)) \subseteq Gates(ahead)
  BY DEF Gated
<1> HIDE DEF ahead
<1> DEFINE slice == Range(Slice(credentials).bootstrapSteps)
<1>3. \A step \in slice : Has(step, "command") =>
        \E other \in ahead :
          \A field \in DOMAIN step \ {"id", "pollIntervalSeconds"} : other[field] = step[field]
  <2> HIDE DEF slice
  <2> TAKE step \in slice
  <2> HAVE Has(step, "command")
  <2>1. Gates(slice) \subseteq Gates(ahead)
    BY <1>2 DEF slice
  <2> QED
    BY <2>1, SameGate
<1>4. \E step \in ahead : step.kind = "automatic" /\ PinsVersion(step.command)
  <2>1. PICK id : VersionGate(id) \in slice
    BY SliceGates
  <2> DEFINE gate == VersionGate(id)
             built == commandIn(Program("agent-boot-codex"), VerifyVersion, SliceRoot)
  <2>2. /\ gate.kind = "automatic" /\ Has(gate, "command") /\ Has(gate, "kind")
        /\ gate.command = built
    BY GateFields
  <2>3. built.executable = Program("agent-boot-codex") /\ built.arguments = VerifyVersion
    BY CommandIn
  <2> HIDE DEF gate, built, slice
  <2>4. PICK other \in ahead : other.kind = gate.kind /\ other.command = gate.command
    BY <1>3, <2>1, <2>2 DEF Has, gate
  <2>5. PinsVersion(built)
    BY <2>3, VersionPinned
  <2> QED
    BY <2>2, <2>4, <2>5
<1>5. CASE credentials = <<>>
  <2>1. PICK id : DeviceGate(id) \in slice
    BY <1>5, SliceGates
  <2> DEFINE gate == DeviceGate(id)
             auth == commandIn(Program("codex"), DeviceAuth, SliceRoot)
             status == commandIn(Program("codex"), LoginStatus, SliceRoot)
  <2>2. /\ gate.kind = "manual" /\ Has(gate, "command") /\ Has(gate, "kind")
        /\ Has(gate, "completionCheck") /\ gate.command = auth /\ gate.completionCheck = status
    BY GateFields
  <2>3. /\ auth.executable = Program("codex") /\ auth.arguments = DeviceAuth
        /\ status.executable = Program("codex") /\ status.arguments = LoginStatus
    BY CommandIn
  <2> HIDE DEF gate, auth, status, slice
  <2>4. PICK other \in ahead : /\ other.kind = gate.kind /\ other.command = gate.command
                                /\ other.completionCheck = gate.completionCheck
    BY <1>3, <2>1, <2>2 DEF Has, gate
  <2>5. IsCommand(auth, "codex", DeviceAuth) /\ IsCommand(status, "codex", LoginStatus)
    BY <2>3 DEF IsCommand
  <2>6. \E step \in ahead : /\ step.kind = "manual" /\ IsCommand(step.command, "codex", DeviceAuth)
                             /\ IsCommand(step.completionCheck, "codex", LoginStatus)
    BY <2>2, <2>4, <2>5
  <2> QED
    BY <1>1, <1>4, <2>6 DEF StartsUp, ahead
<1>6. CASE \E credential : credentials = <<credential>>
  <2>1. PICK id : LoginGate(id) \in slice
    BY <1>6, SliceGates
  <2> DEFINE gate == LoginGate(id)
             status == commandIn(Program("codex"), LoginStatus, SliceRoot)
  <2>2. /\ gate.kind = "automatic" /\ Has(gate, "command") /\ Has(gate, "kind")
        /\ gate.command = status
    BY GateFields
  <2>3. status.executable = Program("codex") /\ status.arguments = LoginStatus
    BY CommandIn
  <2> HIDE DEF gate, status, slice
  <2>4. PICK other \in ahead : other.kind = gate.kind /\ other.command = gate.command
    BY <1>3, <2>1, <2>2 DEF Has, gate
  <2>5. IsCommand(status, "codex", LoginStatus)
    BY <2>3 DEF IsCommand
  <2>6. \E step \in ahead : step.kind = "automatic" /\ IsCommand(step.command, "codex", LoginStatus)
    BY <2>2, <2>4, <2>5
  <2> QED
    BY <1>1, <1>4, <2>6 DEF StartsUp, ahead
<1> QED
  BY <1>2, <1>5, <1>6

LEMMA StepsWork ==
  ASSUME NoArray, SomePath, PathsInOrder, NEW input, NEW lock, NEW files,
         Taken(input, lock, files),
         NEW k \in DOMAIN RunnerPlan(input).steps, ~Excused(RunnerPlan(input), k)
  PROVE  StepWorks(RootPlan(Assembly(input, lock, files)), Assembly(input, lock, files), k)
<1> DEFINE assembly == Assembly(input, lock, files)
           root == RootPlan(assembly)
           plan == RunnerPlan(input)
<1>1. assembly.plan = plan /\ Normal(input) /\ k \in DOMAIN plan.steps /\ ~Excused(plan, k)
  BY AssemblyFields DEF Taken
<1>2. /\ k \in DOMAIN input.steps /\ plan.steps[k] = RunnerStep(input.steps[k])
      /\ plan.steps[k].kind = input.steps[k].kind /\ AcceptsStep(plan.steps[k])
  <2>1. /\ DOMAIN input.steps = 1..Len(input.steps)
        /\ plan.steps = [i \in 1..Len(input.steps) |-> plan.steps[i]]
        /\ \A i \in 1..Len(input.steps) :
             /\ plan.steps[i] = RunnerStep(input.steps[i])
             /\ plan.steps[i].kind = input.steps[i].kind /\ AcceptsStep(plan.steps[i])
    BY <1>1, PlanSteps
  <2>2. k \in 1..Len(input.steps)
    <3> HIDE DEF plan
    <3> QED
      BY <1>1, <2>1
  <2> HIDE DEF plan
  <2> QED
    BY <2>1, <2>2
<1>3. ScriptsPresent(root, input.scripts)
  BY RunFiles DEF ScriptsPresent
<1>4. /\ input.steps[k].kind \in {"automatic", "fire-and-forget"} =>
           Executable(root, plan.steps[k].command)
      /\ input.steps[k].kind = "manual" =>
           Executable(root, plan.steps[k].command) /\ Executable(root, plan.steps[k].completionCheck)
  <2>1. LET step == RunnerStep(input.steps[k]) IN
        /\ input.steps[k].kind \in {"automatic", "fire-and-forget"} =>
             Executable(root, step.command)
        /\ input.steps[k].kind = "manual" =>
             Executable(root, step.command) /\ Executable(root, step.completionCheck)
    <3> HIDE DEF root
    <3> QED
      BY <1>1, <1>2, <1>3, CommandsPresent
  <2> HIDE DEF plan, root
  <2> QED
    BY <1>2, <2>1
<1>5. plan.steps[k].kind = "prompt" => Hydrates(root, assembly, k)
  <2> HAVE plan.steps[k].kind = "prompt"
  <2>1. ~Unset(plan.steps, k)
    <3> HIDE DEF plan
    <3> QED
      BY <1>1 DEF Excused
  <2> QED
    BY <2>1, PromptHydrates
<1>6. plan.steps[k].kind = "provider" => Provides(root, assembly, k)
  <2> HAVE plan.steps[k].kind = "provider"
  <2>1. Gated(plan)
    <3> HIDE DEF plan
    <3> QED
      BY <1>1 DEF Excused
  <2> QED
    BY <2>1, ProviderProvides
<1>7. plan.steps[k].kind = "install-user-secret" => Installs(root, plan.steps, k)
  BY SecretInstalls
<1> HIDE DEF assembly, root, plan
<1>8. plan.steps[k].kind \in {"environment", "automatic", "manual", "fire-and-forget", "prompt",
                              "provider", "install-user-secret"}
  BY <1>2 DEF AcceptsStep, AcceptsEnvironmentStep, AcceptsAutomaticStep, AcceptsManualStep,
     AcceptsFireAndForgetStep, AcceptsPromptStep, AcceptsProviderStep, AcceptsSecretStep
<1>9. StepWorks(root, assembly, k)
  BY <1>1, <1>2, <1>4, <1>5, <1>6, <1>7, <1>8 DEF StepWorks
<1> QED
  BY <1>9 DEF assembly, root

(* The first boot of an assembly that can be planned stops only where the  *)
(* plan excuses it.                                                        *)
LEMMA BootStops ==
  ASSUME NoArray, SomePath, PathsInOrder, NEW input, NEW lock, NEW files,
         Taken(input, lock, files)
  PROVE  LET assembly == Assembly(input, lock, files)
             stop == StopsAt(RootPlan(assembly), assembly)
         IN /\ stop = NotStarted => ~Gated(assembly.plan)
            /\ stop > 0 => Excused(assembly.plan, stop)
<1> DEFINE assembly == Assembly(input, lock, files)
           root == RootPlan(assembly)
           plan == RunnerPlan(input)
           stop == StopsAt(root, assembly)
           failing == {i \in DOMAIN plan.steps : ~StepWorks(root, assembly, i)}
<1>1. assembly.plan = plan /\ Normal(input)
  BY AssemblyFields DEF Taken
<1>2. \A i \in failing : Excused(plan, i)
  BY StepsWork
<1>3. \E n \in Nat : DOMAIN plan.steps = 1..n
  <2>1. \E n \in Nat : plan.steps = [i \in 1..n |-> plan.steps[i]]
    BY <1>1, PlanSteps
  <2> HIDE DEF plan
  <2> QED
    BY <2>1
<1>4. failing \in SUBSET (Nat \ {0})
  BY <1>3
<1> HIDE DEF assembly, root, plan
<1>5. stop = CASE ~StartsUp(plan) -> NotStarted
               [] StartsUp(plan) /\ failing = {} -> Finished
               [] OTHER -> CHOOSE i \in failing : \A j \in failing : i <= j
  BY <1>1 DEF StopsAt
<1> HIDE DEF failing, stop
<1>6. CASE ~StartsUp(plan)
  <2>1. stop = -1 /\ ~Gated(plan)
    BY <1>5, <1>6, GatedStarts DEF NotStarted
  <2> QED
    BY <1>1, <2>1 DEF stop, root, assembly
<1>7. CASE StartsUp(plan) /\ failing = {}
  <2>1. stop = 0
    BY <1>5, <1>7 DEF Finished
  <2>2. stop # NotStarted /\ ~(stop > 0)
    BY <2>1 DEF NotStarted
  <2> QED
    BY <2>2 DEF stop, root, assembly
<1>8. CASE StartsUp(plan) /\ failing # {}
  <2> DEFINE least == CHOOSE i \in failing : \A j \in failing : i <= j
  <2>1. least \in failing
    <3>1. \E i \in failing : \A j \in failing : i <= j
      <4>1. failing \in SUBSET Nat
        BY <1>4
      <4> QED
        BY <1>8, <4>1, Least
    <3> QED
      BY <3>1
  <2>2. stop = least
    BY <1>5, <1>8
  <2> HIDE DEF least
  <2>3. stop \in Nat \ {0} /\ Excused(plan, stop)
    BY <1>2, <1>4, <2>1, <2>2
  <2>4. stop # NotStarted
    BY <2>3 DEF NotStarted
  <2> QED
    BY <1>1, <2>3, <2>4 DEF stop, root, assembly
<1> QED
  BY <1>6, <1>7, <1>8

-----------------------------------------------------------------------------
(* The planned root again: when nothing is in the way, everything is added.*)
(* First, paths and their prefixes.                                        *)

LEMMA PathFacts ==
  ASSUME NEW path, IsSeq(path)
  PROVE  /\ Len(path) \in Nat /\ DOMAIN path = 1..Len(path)
         /\ path = [k \in 1..Len(path) |-> path[k]]
         /\ path # <<>> => Len(path) >= 1
         /\ \A i \in 0..Len(path) :
              /\ IsSeq(SubSeq(path, 1, i)) /\ Len(SubSeq(path, 1, i)) = i
              /\ \A k \in 1..i : SubSeq(path, 1, i)[k] = path[k]
<1>1. path \in Seq(Range(path))
  BY DEF IsSeq
<1>2. /\ Len(path) \in Nat /\ DOMAIN path = 1..Len(path)
      /\ path = [k \in 1..Len(path) |-> path[k]] /\ \A k \in 1..Len(path) : path[k] \in Range(path)
  BY <1>1, LenProperties DEF Range
<1>3. path # <<>> => Len(path) >= 1
  BY <1>1, <1>2, EmptySeq
<1>4. ASSUME NEW i \in 0..Len(path)
      PROVE  /\ IsSeq(SubSeq(path, 1, i)) /\ Len(SubSeq(path, 1, i)) = i
             /\ \A k \in 1..i : SubSeq(path, 1, i)[k] = path[k]
  <2>1. /\ 1 \in Int /\ i \in Int /\ \A k \in 1..i : path[k] \in Range(path)
        /\ i - 1 + 1 = i /\ (IF 1 <= i THEN i - 1 + 1 ELSE 0) = i /\ \A k \in 1..i : 1 + k - 1 = k
    BY <1>2
  <2>2. /\ SubSeq(path, 1, i) \in Seq(Range(path)) /\ Len(SubSeq(path, 1, i)) = i
        /\ \A k \in 1..i : SubSeq(path, 1, i)[k] = path[k]
    BY <2>1, SubSeqProperties
  <2>3. IsSeq(SubSeq(path, 1, i))
    BY <2>2, OwnRange
  <2> QED
    BY <2>2, <2>3
<1> QED
  BY <1>2, <1>3, <1>4

LEMMA SamePath ==
  ASSUME NEW one, NEW other, IsSeq(one), IsSeq(other), Len(one) = Len(other),
         \A k \in 1..Len(one) : one[k] = other[k]
  PROVE  one = other
<1> DEFINE n == Len(one)
<1>1. one = [k \in 1..n |-> one[k]] /\ other = [k \in 1..n |-> other[k]]
  BY PathFacts
<1>2. [k \in 1..n |-> one[k]] = [k \in 1..n |-> other[k]]
  OBVIOUS
<1> QED
  BY <1>1, <1>2

LEMMA PrefixMeans ==
  ASSUME NEW path, NEW other, IsSeq(path), IsSeq(other)
  PROVE  /\ IsPrefix(path, other) <=>
              Len(path) <= Len(other) /\ \A k \in 1..Len(path) : path[k] = other[k]
         /\ Above(path, other) <=> IsPrefix(path, other) /\ Len(path) < Len(other)
<1> DEFINE n == Len(path)
<1>1. n \in Nat /\ Len(other) \in Nat
  BY PathFacts
<1>2. SubSeq(path, 1, n) = path
  BY SubSeqFull DEF IsSeq
<1>3. CASE n <= Len(other)
  <2>1. /\ IsSeq(SubSeq(other, 1, n)) /\ Len(SubSeq(other, 1, n)) = n
        /\ \A k \in 1..n : SubSeq(other, 1, n)[k] = other[k]
    BY <1>1, <1>3, PathFacts
  <2>2. path = SubSeq(other, 1, n) <=> \A k \in 1..n : path[k] = other[k]
    BY <2>1, SamePath
  <2> QED
    BY <1>2, <1>3, <2>2 DEF IsPrefix, Above
<1>4. CASE ~(n <= Len(other))
  BY <1>4 DEF IsPrefix, Above
<1> QED
  BY <1>3, <1>4

LEMMA PrefixItself == \A path : IsSeq(path) => IsPrefix(path, path)
BY PrefixMeans, PathFacts

LEMMA PrefixAll ==
  ASSUME NEW one, NEW two, NEW three, IsSeq(one), IsSeq(two), IsSeq(three),
         IsPrefix(one, two), IsPrefix(two, three)
  PROVE  IsPrefix(one, three)
<1>1. Len(one) \in Nat /\ Len(two) \in Nat /\ Len(three) \in Nat
  BY PathFacts
<1>2. /\ Len(one) <= Len(two) /\ \A k \in 1..Len(one) : one[k] = two[k]
      /\ Len(two) <= Len(three) /\ \A k \in 1..Len(two) : two[k] = three[k]
  BY PrefixMeans
<1>3. Len(one) <= Len(three) /\ \A k \in 1..Len(one) : one[k] = three[k]
  BY <1>1, <1>2
<1> QED
  BY <1>3, PrefixMeans

(* The prefixes of a path are what SubSeq makes of it.                     *)
LEMMA PrefixCuts ==
  ASSUME NEW path, IsSeq(path)
  PROVE  /\ SubSeq(path, 1, Len(path)) = path
         /\ \A i \in 0..Len(path) : IsPrefix(SubSeq(path, 1, i), path)
         /\ \A i, j \in 0..Len(path) :
              i <= j => IsPrefix(SubSeq(path, 1, i), SubSeq(path, 1, j))
         /\ \A other : IsSeq(other) /\ IsPrefix(other, path) =>
              Len(other) \in 0..Len(path) /\ other = SubSeq(path, 1, Len(other))
<1>1. SubSeq(path, 1, Len(path)) = path
  BY SubSeqFull DEF IsSeq
<1>2. ASSUME NEW i \in 0..Len(path), NEW j \in 0..Len(path), i <= j
      PROVE  IsPrefix(SubSeq(path, 1, i), SubSeq(path, 1, j))
  <2>1. /\ IsSeq(SubSeq(path, 1, i)) /\ Len(SubSeq(path, 1, i)) = i
        /\ IsSeq(SubSeq(path, 1, j)) /\ Len(SubSeq(path, 1, j)) = j
        /\ \A k \in 1..i : SubSeq(path, 1, i)[k] = path[k]
        /\ \A k \in 1..j : SubSeq(path, 1, j)[k] = path[k]
    BY PathFacts
  <2>2. \A k \in 1..i : k \in 1..j
    BY <1>2
  <2> QED
    BY <1>2, <2>1, <2>2, PrefixMeans
<1>3. Len(path) \in Nat
  BY PathFacts
<1>4. ASSUME NEW other, IsSeq(other), IsPrefix(other, path)
      PROVE  Len(other) \in 0..Len(path) /\ other = SubSeq(path, 1, Len(other))
  <2>1. Len(other) \in 0..Len(path) /\ \A k \in 1..Len(other) : other[k] = path[k]
    BY <1>3, <1>4, PathFacts, PrefixMeans
  <2>2. /\ IsSeq(SubSeq(path, 1, Len(other))) /\ Len(SubSeq(path, 1, Len(other))) = Len(other)
        /\ \A k \in 1..Len(other) : SubSeq(path, 1, Len(other))[k] = path[k]
    BY <2>1, PathFacts
  <2> QED
    BY <1>4, <2>1, <2>2, SamePath
<1>5. \A i \in 0..Len(path) : i <= Len(path) /\ Len(path) \in 0..Len(path)
  BY <1>3
<1> QED
  BY <1>1, <1>2, <1>4, <1>5

-----------------------------------------------------------------------------
(* Every directory of the plan, given or made above another entry, is as   *)
(* this says of its path.                                                  *)
Rule(home, path) ==
  CASE path = home \o <<".npm">> -> Directory("0700", "account")
    [] path # home \o <<".npm">> /\ IsPrefix(home, path) -> Directory("0750", "account")
    [] ~IsPrefix(home, path) /\ path = Etcdir -> Directory("0750", "group")
    [] ~IsPrefix(home, path) /\ path # Etcdir /\ path \in Range(BundlePrivate) ->
         Directory("0700", "account")
    [] OTHER -> Directory("0755", "root")

Leaf(addition) == addition.entry.kind # "directory"

Under(path, additions) ==
  /\ IsSeq(path) /\ path # <<>>
  /\ \E addition \in additions : IsPrefix(path, addition.path)

LeafPaths(additions) == {addition.path : addition \in {a \in additions : Leaf(a)}}

(* The plan that all of `additions` were added to, and nothing else.       *)
Held(plan, additions, home) ==
  /\ plan # NoPlan
  /\ \A path : path \in DOMAIN plan <=> Under(path, additions)
  /\ \A path \in DOMAIN plan :
       IF path \in LeafPaths(additions) THEN plan[path].kind # "directory"
       ELSE plan[path] = Rule(home, path)

PathsOf(additions) == \A addition \in additions : IsSeq(addition.path)

(* No leaf is in the way of another addition.                              *)
Clear(one, other) ==
  /\ Leaf(one) => ~IsPrefix(one.path, other.path)
  /\ Leaf(other) => ~IsPrefix(other.path, one.path)

(* An addition of the plan's own making, and what it leaves to be made.    *)
Ruled(addition, home) ==
  /\ IsSeq(addition.path) /\ addition.path # <<>>
  /\ IF Leaf(addition) THEN addition.above = Directory("0755", "root")
     ELSE addition.entry = Rule(home, addition.path)

Grounded(additions, addition, home) ==
  \A i \in 1..(Len(addition.path) - 1) :
    LET path == SubSeq(addition.path, 1, i) IN
    Under(path, additions) \/ addition.above = Rule(home, path)

(* Planned from nothing, every plan is a function, and no plan is none.    *)
NoneIsNoPlan == \A S, T : NoPlan \notin [S -> T]

LEMMA RuleKind == \A home, path : Rule(home, path).kind = "directory"
BY DEF Rule, Directory

LEMMA NoPlanApart ==
  ASSUME NoneIsNoPlan, NEW S, NEW f, f = [x \in S |-> f[x]]
  PROVE  f # NoPlan
<1> DEFINE T == {f[x] : x \in S}
<1>1. f \in [S -> T]
  OBVIOUS
<1> HIDE DEF T
<1>2. NoPlan \notin [S -> T]
  BY DEF NoneIsNoPlan
<1> QED
  BY <1>1, <1>2

(* What is held depends on the prefixes and the leaves alone.              *)
LEMMA HeldAlike ==
  ASSUME NEW plan, NEW one, NEW other, NEW home, Held(plan, one, home),
         \A path : Under(path, one) <=> Under(path, other),
         LeafPaths(one) = LeafPaths(other)
  PROVE  Held(plan, other, home)
BY DEF Held

LEMMA UnderJoined ==
  ASSUME NEW additions, NEW addition
  PROVE  /\ \A path : Under(path, additions \cup {addition}) <=>
              Under(path, additions) \/ (IsSeq(path) /\ path # <<>> /\ IsPrefix(path, addition.path))
         /\ LeafPaths(additions \cup {addition}) =
              LeafPaths(additions) \cup (IF Leaf(addition) THEN {addition.path} ELSE {})
<1>1. \A path : Under(path, additions \cup {addition}) <=>
              Under(path, additions) \/ (IsSeq(path) /\ path # <<>> /\ IsPrefix(path, addition.path))
  BY DEF Under
<1>2. {a \in additions \cup {addition} : Leaf(a)} =
        {a \in additions : Leaf(a)} \cup (IF Leaf(addition) THEN {addition} ELSE {})
  OBVIOUS
<1> QED
  BY <1>1, <1>2 DEF LeafPaths

(* One entry is added where its parents are.                               *)
LEMMA AddOne ==
  ASSUME NoneIsNoPlan, NEW plan, NEW additions, PathsOf(additions), NEW home,
         Held(plan, additions, home), NEW addition,
         IsSeq(addition.path), addition.path # <<>>,
         Leaf(addition) \/ addition.entry = Rule(home, addition.path),
         \A i \in 1..(Len(addition.path) - 1) : Under(SubSeq(addition.path, 1, i), additions),
         \A other \in additions : Clear(other, addition)
  PROVE  Held(Add(plan, addition.path, addition.entry), additions \cup {addition}, home)
<1> DEFINE path == addition.path
           entry == addition.entry
           after == [other \in DOMAIN plan \cup {path} |->
                       IF other = path THEN entry ELSE plan[other]]
           all == additions \cup {addition}
<1>1. Compatible(plan, path, entry)
  <2>1. ASSUME NEW other \in DOMAIN plan, Above(other, path)
        PROVE  plan[other].kind = "directory"
    <3>1. Under(other, additions) /\ IsPrefix(other, path)
      BY <2>1 DEF Held, Above
    <3>2. other \notin LeafPaths(additions)
      BY <3>1 DEF LeafPaths, Clear
    <3> QED
      BY <3>2, RuleKind DEF Held
  <2>2. ASSUME NEW other \in DOMAIN plan, IsPrefix(path, other)
        PROVE  ~Leaf(addition)
    <3>1. PICK b \in additions : IsSeq(other) /\ IsPrefix(other, b.path)
      BY DEF Held, Under
    <3>2. IsPrefix(path, b.path)
      BY <2>2, <3>1, PrefixAll DEF PathsOf
    <3> QED
      BY <3>2 DEF Clear
  <2>3. ASSUME path \in DOMAIN plan
        PROVE  ~Leaf(addition) /\ plan[path] = entry
    <3>1. ~Leaf(addition)
      BY <2>2, <2>3, PrefixItself
    <3>2. path \notin LeafPaths(additions)
      BY PrefixItself DEF LeafPaths, Clear
    <3> QED
      BY <2>3, <3>1, <3>2 DEF Held
  <2> QED
    BY <2>1, <2>2, <2>3 DEF Compatible, Above, Leaf
<1>2. Add(plan, path, entry) = after /\ after # NoPlan
  <2>1. after = [x \in DOMAIN plan \cup {path} |-> after[x]]
    OBVIOUS
  <2> HIDE DEF after
  <2>2. after # NoPlan
    BY <2>1, NoPlanApart
  <2> QED
    BY <1>1, <2>2 DEF Add, Held, after
<1>3. \A other : other \in DOMAIN after <=> Under(other, all)
  <2>1. ASSUME NEW other, IsSeq(other), other # <<>>, IsPrefix(other, path)
        PROVE  other = path \/ Under(other, additions)
    <3>1. /\ Len(other) \in 0..Len(path) /\ other = SubSeq(path, 1, Len(other))
          /\ SubSeq(path, 1, Len(path)) = path
      BY <2>1, PrefixCuts
    <3>2. Len(other) >= 1 /\ Len(path) \in Nat
      BY <2>1, PathFacts
    <3>3. CASE Len(other) = Len(path)
      BY <3>1, <3>3
    <3>4. CASE Len(other) # Len(path)
      <4>1. Len(other) \in 1..(Len(path) - 1)
        BY <3>1, <3>2, <3>4
      <4> QED
        BY <3>1, <4>1
    <3> QED
      BY <3>3, <3>4
  <2>2. DOMAIN after = DOMAIN plan \cup {path}
    OBVIOUS
  <2>3. IsPrefix(path, path)
    BY PrefixItself
  <2> HIDE DEF after, all
  <2> QED
    BY <2>1, <2>2, <2>3, UnderJoined DEF Held, all
<1>4. ASSUME NEW other \in DOMAIN after
      PROVE  IF other \in LeafPaths(all) THEN after[other].kind # "directory"
             ELSE after[other] = Rule(home, other)
  <2>1. LeafPaths(all) = LeafPaths(additions) \cup (IF Leaf(addition) THEN {path} ELSE {})
    BY UnderJoined
  <2>2. CASE other = path
    <3>1. path \notin LeafPaths(additions)
      BY PrefixItself DEF LeafPaths, Clear
    <3>2. after[other] = entry
      BY <2>2
    <3> QED
      BY <2>1, <2>2, <3>1, <3>2 DEF Leaf
  <2>3. CASE other # path
    <3>1. other \in DOMAIN plan /\ after[other] = plan[other]
      BY <2>3
    <3> HIDE DEF after
    <3> QED
      BY <2>1, <2>3, <3>1 DEF Held
  <2> QED
    BY <2>2, <2>3
<1> HIDE DEF after, all
<1> QED
  BY <1>2, <1>3, <1>4 DEF Held, all

(* A directory is added level by level.                                    *)
Made(home, path) == Addition(path, Rule(home, path))

LEMMA MadeFields ==
  ASSUME NEW home, NEW path
  PROVE  /\ Made(home, path).path = path /\ Made(home, path).entry = Rule(home, path)
         /\ ~Leaf(Made(home, path))
BY AdditionFields, RuleKind DEF Made, Leaf

(* What is made above an addition goes without saying.                     *)
LEMMA MadeAbove ==
  ASSUME NEW plan, NEW additions, NEW home, NEW one, IsSeq(one),
         NEW addition, IsSeq(addition.path), IsPrefix(one, addition.path),
         Held(plan, (additions \cup {Made(home, one)}) \cup {addition}, home)
  PROVE  Held(plan, additions \cup {addition}, home)
<1> DEFINE up == Made(home, one)
           other == addition.path
           first == additions \cup {up}
           both == first \cup {addition}
           last == additions \cup {addition}
<1>1. up.path = one /\ ~Leaf(up)
  BY MadeFields
<1>2. Held(plan, both, home)
  OBVIOUS
<1> HIDE DEF up
<1>3. \A path : IsSeq(path) /\ IsPrefix(path, one) => IsPrefix(path, other)
  BY PrefixAll
<1>4. /\ \A path : Under(path, first) <=>
           Under(path, additions) \/ (IsSeq(path) /\ path # <<>> /\ IsPrefix(path, one))
      /\ LeafPaths(first) = LeafPaths(additions)
  BY <1>1, UnderJoined
<1>5. /\ \A path : Under(path, last) <=>
           Under(path, additions) \/ (IsSeq(path) /\ path # <<>> /\ IsPrefix(path, other))
      /\ LeafPaths(last) = LeafPaths(additions) \cup (IF Leaf(addition) THEN {other} ELSE {})
  BY UnderJoined
<1> HIDE DEF first
<1>6. /\ \A path : Under(path, both) <=>
           Under(path, first) \/ (IsSeq(path) /\ path # <<>> /\ IsPrefix(path, other))
      /\ LeafPaths(both) = LeafPaths(first) \cup (IF Leaf(addition) THEN {other} ELSE {})
  BY UnderJoined
<1> HIDE DEF both, last, other
<1>7. Held(plan, last, home)
  BY <1>2, <1>3, <1>4, <1>5, <1>6, HeldAlike
<1> QED
  BY <1>7 DEF last

(* What is there already is as if it were made.                            *)
LEMMA MadeAlready ==
  ASSUME NEW plan, NEW additions, PathsOf(additions), NEW home, Held(plan, additions, home),
         NEW path, IsSeq(path), path \in DOMAIN plan
  PROVE  Held(plan, additions \cup {Made(home, path)}, home)
<1> DEFINE made == Made(home, path)
<1>1. made.path = path /\ ~Leaf(made)
  BY MadeFields
<1>2. PICK b \in additions : IsPrefix(path, b.path)
  BY DEF Held, Under
<1>3. \A other : IsSeq(other) /\ IsPrefix(other, path) => IsPrefix(other, b.path)
  BY <1>2, PrefixAll DEF PathsOf
<1> HIDE DEF made
<1>4. \A other : Under(other, additions) <=> Under(other, additions \cup {made})
  BY <1>1, <1>3, UnderJoined DEF Under
<1>5. LeafPaths(additions) = LeafPaths(additions \cup {made})
  BY <1>1, UnderJoined
<1>6. Held(plan, additions \cup {made}, home)
  BY <1>4, <1>5, HeldAlike
<1> QED
  BY <1>6 DEF made

(* One level: made, there already, or given.                               *)
LEMMA LevelHeld ==
  ASSUME NoneIsNoPlan, NEW plan, NEW additions, PathsOf(additions), NEW home,
         Held(plan, additions, home), NEW path, IsSeq(path), path # <<>>,
         NEW leaf, leaf = Rule(home, path), NEW ancestor,
         NEW i \in 1..Len(path),
         i < Len(path) /\ ~Under(SubSeq(path, 1, i), additions) =>
           ancestor = Rule(home, SubSeq(path, 1, i)),
         \A k \in 1..(i - 1) : Under(SubSeq(path, 1, k), additions),
         \A other \in additions : Leaf(other) => ~IsPrefix(other.path, path)
  PROVE  Held(AddLevel(plan, path, i, leaf, ancestor),
              additions \cup {Made(home, SubSeq(path, 1, i))}, home)
<1> DEFINE here == SubSeq(path, 1, i)
           made == Made(home, here)
<1>1. /\ IsSeq(here) /\ Len(here) = i /\ IsPrefix(here, path) /\ SubSeq(path, 1, Len(path)) = path
      /\ i \in Nat /\ i >= 1 /\ Len(path) \in Nat
  <2>1. i \in 0..Len(path) /\ i \in Nat /\ i >= 1 /\ Len(path) \in Nat
    BY PathFacts
  <2> QED
    BY <2>1, PathFacts, PrefixCuts
<1>2. here # <<>>
  <2>1. Len(<<>>) = 0
    BY EmptySeq
  <2> QED
    BY <1>1, <2>1
<1>3. made.path = here /\ made.entry = Rule(home, here) /\ ~Leaf(made)
  BY MadeFields
<1>4. \A k \in 1..(i - 1) : SubSeq(here, 1, k) = SubSeq(path, 1, k)
  <2> TAKE k \in 1..(i - 1)
  <2>1. k \in 0..Len(path) /\ i \in 0..Len(path) /\ k <= i /\ k \in 0..Len(here) /\ k \in Nat
    BY <1>1
  <2>2. /\ IsSeq(SubSeq(path, 1, k)) /\ Len(SubSeq(path, 1, k)) = k
        /\ \A j \in 1..k : SubSeq(path, 1, k)[j] = path[j]
        /\ IsSeq(SubSeq(here, 1, k)) /\ Len(SubSeq(here, 1, k)) = k
        /\ \A j \in 1..k : SubSeq(here, 1, k)[j] = here[j]
        /\ \A j \in 1..i : here[j] = path[j]
    <3> HIDE DEF here
    <3>1. \A j \in 1..i : here[j] = path[j]
      BY <2>1, PathFacts DEF here
    <3> QED
      BY <1>1, <2>1, <3>1, PathFacts
  <2>3. \A j \in 1..k : SubSeq(here, 1, k)[j] = SubSeq(path, 1, k)[j]
    <3>1. \A j \in 1..k : j \in 1..i
      BY <2>1
    <3> HIDE DEF here
    <3> QED
      BY <2>2, <3>1
  <2> HIDE DEF here
  <2> QED
    BY <2>2, <2>3, SamePath
<1>5. Held(Add(plan, here, Rule(home, here)), additions \cup {made}, home)
  <2>1. \A k \in 1..(Len(here) - 1) : Under(SubSeq(here, 1, k), additions)
    BY <1>1, <1>4
  <2>2. \A other \in additions : Clear(other, made)
    <3> TAKE other \in additions
    <3>1. IsPrefix(other.path, here) => IsPrefix(other.path, path)
      BY <1>1, PrefixAll DEF PathsOf
    <3> HIDE DEF made, here
    <3> QED
      BY <1>3, <3>1 DEF Clear
  <2> HIDE DEF made, here
  <2> QED
    BY <1>1, <1>2, <1>3, <2>1, <2>2, AddOne
<1>6. CASE i = Len(path)
  <2>1. here = path
    BY <1>1, <1>6
  <2>2. AddLevel(plan, path, i, leaf, ancestor) = Add(plan, path, leaf)
    BY <1>6 DEF AddLevel
  <2> HIDE DEF here, made
  <2>3. Held(Add(plan, path, leaf), additions \cup {made}, home)
    BY <1>5, <2>1
  <2> QED
    BY <2>2, <2>3 DEF made, here
<1>7. CASE i # Len(path) /\ here \in DOMAIN plan
  <2>1. AddLevel(plan, path, i, leaf, ancestor) = plan
    BY <1>1, <1>7 DEF AddLevel
  <2> HIDE DEF here
  <2>2. Held(plan, additions \cup {Made(home, here)}, home)
    BY <1>1, <1>7, MadeAlready
  <2> QED
    BY <2>1, <2>2 DEF here
<1>8. CASE i # Len(path) /\ here \notin DOMAIN plan
  <2>1. plan # NoPlan /\ i < Len(path)
    <3>1. plan # NoPlan
      BY DEF Held
    <3>2. i < Len(path)
      <4>1. Len(path) \in Nat
        BY <1>1
      <4>2. i # Len(path)
        BY <1>8
      <4> QED
        BY <4>1, <4>2
    <3> QED
      BY <3>1, <3>2
  <2>2. AddLevel(plan, path, i, leaf, ancestor) = Add(plan, here, ancestor)
    BY <1>8, <2>1 DEF AddLevel
  <2>3. ancestor = Rule(home, here)
    BY <1>8, <2>1 DEF Held
  <2> HIDE DEF here, made
  <2>4. Held(AddLevel(plan, path, i, leaf, ancestor), additions \cup {made}, home)
    BY <1>5, <2>2, <2>3
  <2> QED
    BY <2>4 DEF made, here
<1> QED
  BY <1>6, <1>7, <1>8

LEMMA DirectoryHeld ==
  ASSUME NoneIsNoPlan, NEW plan, NEW additions, PathsOf(additions), NEW home,
         Held(plan, additions, home), NEW path, IsSeq(path), path # <<>>,
         NEW leaf, leaf = Rule(home, path), NEW ancestor,
         \A i \in 1..(Len(path) - 1) :
           Under(SubSeq(path, 1, i), additions) \/ ancestor = Rule(home, SubSeq(path, 1, i)),
         \A other \in additions : Leaf(other) => ~IsPrefix(other.path, path)
  PROVE  Held(AddDirectory(plan, path, leaf, ancestor), additions \cup {Made(home, path)}, home)
<1>1. Len(path) \in Nat /\ Len(path) >= 1
  BY PathFacts
<1>0. PICK built :
        /\ built = [i \in 0..Len(path) |->
             IF i = 0 THEN plan ELSE AddLevel(built[i - 1], path, i, leaf, ancestor)]
        /\ AddDirectory(plan, path, leaf, ancestor) = built[Len(path)]
  <2>1. Len(path) \in Nat
    BY <1>1
  <2> QED
    BY ONLY <2>1, DirectoryBuilt
<1> DEFINE N == Len(path)
           here(i) == SubSeq(path, 1, i)
           made(i) == Made(home, here(i))
           so(i) == additions \cup {made(i)}
           Step(under, i) == AddLevel(under, path, i, leaf, ancestor)
<1>2. /\ built = [i \in 0..N |-> IF i = 0 THEN plan ELSE Step(built[i - 1], i)]
      /\ AddDirectory(plan, path, leaf, ancestor) = built[N] /\ N \in Nat /\ N >= 1
  BY <1>0, <1>1
<1>3. \A i \in 1..N : built[i] = Step(built[i - 1], i)
  <2> TAKE i \in 1..N
  <2>1. i \in 0..N /\ i # 0
    BY <1>2
  <2> HIDE DEF Step, N
  <2> QED
    BY <1>2, <2>1
<1>4. \A i \in 1..N : /\ made(i).path = here(i) /\ ~Leaf(made(i)) /\ IsSeq(here(i))
                      /\ here(i) # <<>>
                      /\ \A k \in 1..i : IsPrefix(here(k), here(i))
  <2> TAKE i \in 1..N
  <2>1. i \in 0..N /\ i >= 1 /\ \A k \in 1..i : k \in 0..N /\ k <= i
    BY <1>1
  <2>2. Len(here(i)) = i /\ IsSeq(here(i)) /\ \A k \in 1..i : IsPrefix(here(k), here(i))
    BY <2>1, PathFacts, PrefixCuts
  <2>3. Len(<<>>) = 0
    BY EmptySeq
  <2>4. made(i).path = here(i) /\ ~Leaf(made(i))
    BY MadeFields
  <2> HIDE DEF made, here
  <2> QED
    BY <2>1, <2>2, <2>3, <2>4
<1> DEFINE Good == {n \in Nat : n + 1 <= N => Held(built[n + 1], so(n + 1), home)}
<1>5. \A n \in Nat : n \in Good
  <2>1. 0 \in Good
    <3>1. built[1] = Step(plan, 1)
      <4>1. 1 \in 1..N /\ 0 \in 0..N /\ 1 - 1 = 0
        BY <1>2
      <4> HIDE DEF Step, N
      <4> QED
        BY <1>2, <1>3, <4>1
    <3>2. 1 \in 1..Len(path) /\ 1 < Len(path) => 1 \in 1..(Len(path) - 1)
      BY <1>1
    <3>3. \A k \in 1..(1 - 1) : Under(SubSeq(path, 1, k), additions)
      OBVIOUS
    <3>4. 1 \in 1..Len(path)
      BY <1>1
    <3>5. 1 < Len(path) /\ ~Under(SubSeq(path, 1, 1), additions) =>
            ancestor = Rule(home, SubSeq(path, 1, 1))
      BY <3>2, <3>4
    <3>6. Held(AddLevel(plan, path, 1, leaf, ancestor),
               additions \cup {Made(home, SubSeq(path, 1, 1))}, home)
      BY <3>3, <3>4, <3>5, LevelHeld
    <3> QED
      BY <3>1, <3>6
  <2>2. ASSUME NEW n \in Nat, n \in Good
        PROVE  n + 1 \in Good
    <3> SUFFICES ASSUME (n + 1) + 1 <= N
                 PROVE  Held(built[(n + 1) + 1], so((n + 1) + 1), home)
      OBVIOUS
    <3> DEFINE i == n + 1
               j == (n + 1) + 1
               at1 == built[i]
    <3>1. i \in 1..N /\ j \in 1..N /\ j - 1 = i /\ i <= j
      BY <1>2
    <3>2. Held(at1, so(i), home)
      BY <2>2, <3>1
    <3>3. built[j] = Step(at1, j)
      BY <1>3, <3>1
    <3> HIDE DEF i, j, Good, at1, so, N
    <3>4. PathsOf(so(i))
      BY <1>4, <3>1 DEF PathsOf, so
    <3>5. \A k \in 1..(j - 1) : Under(SubSeq(path, 1, k), so(i))
      <4> TAKE k \in 1..(j - 1)
      <4>1. k \in 1..i /\ k \in 1..N
        BY <1>2, <3>1
      <4>2. made(i) \in so(i)
        BY DEF so
      <4> HIDE DEF made, here
      <4>3. Under(here(k), so(i))
        BY <1>4, <3>1, <4>1, <4>2 DEF Under
      <4> QED
        BY <4>3 DEF here
    <3>6. j < Len(path) /\ ~Under(SubSeq(path, 1, j), so(i)) =>
            ancestor = Rule(home, SubSeq(path, 1, j))
      <4>1. j < Len(path) => j \in 1..(Len(path) - 1)
        BY <1>1, <3>1 DEF N
      <4>2. Under(SubSeq(path, 1, j), additions) => Under(SubSeq(path, 1, j), so(i))
        BY DEF Under, so
      <4> QED
        BY <4>1, <4>2
    <3>7. \A other \in so(i) : Leaf(other) => ~IsPrefix(other.path, path)
      <4> HIDE DEF made
      <4> QED
        BY <1>4, <3>1 DEF so
    <3>8. j \in 1..Len(path)
      BY <3>1 DEF N
    <3>9. Held(AddLevel(at1, path, j, leaf, ancestor),
               so(i) \cup {Made(home, SubSeq(path, 1, j))}, home)
      BY <3>2, <3>4, <3>5, <3>6, <3>7, <3>8, LevelHeld
    <3>10. IsPrefix(here(i), here(j)) /\ IsSeq(here(i)) /\ IsSeq(here(j))
      <4>1. i \in 1..j
        BY <1>1, <3>1
      <4> HIDE DEF here
      <4> QED
        BY <1>4, <3>1, <4>1
    <3>11. Held(built[j], (additions \cup {Made(home, here(i))}) \cup {Made(home, here(j))}, home)
      BY <3>3, <3>9 DEF so
    <3>12. Held(built[j], additions \cup {Made(home, here(j))}, home)
      <4>1. Made(home, here(j)).path = here(j)
        BY MadeFields
      <4> HIDE DEF here
      <4> QED
        BY <3>10, <3>11, <4>1, MadeAbove
    <3> QED
      BY <3>12 DEF so, j
  <2> HIDE DEF Good
  <2> QED
    BY <2>1, <2>2, Induction
<1>6. N - 1 \in Nat /\ (N - 1) + 1 = N
  BY <1>1
<1>7. Held(built[N], so(N), home)
  <2>1. N - 1 \in Good
    BY <1>5, <1>6
  <2> HIDE DEF N, so
  <2> QED
    BY <1>1, <1>6, <2>1
<1>8. here(N) = path
  BY PrefixCuts
<1> QED
  BY <1>2, <1>7, <1>8

(* A file is added after what is missing above it.                         *)
LEMMA FileHeld ==
  ASSUME NoneIsNoPlan, NEW plan, NEW additions, PathsOf(additions), NEW home,
         Held(plan, additions, home), NEW addition, Ruled(addition, home), Leaf(addition),
         Grounded(additions, addition, home), \A other \in additions : Clear(other, addition)
  PROVE  Held(AddFile(plan, addition.path, addition.entry), additions \cup {addition}, home)
<1> DEFINE path == addition.path
           entry == addition.entry
           parent == Front(path)
           ordinary == Directory("0755", "root")
           made == Made(home, parent)
           before1 == Parents(plan, path)
<1>1. IsSeq(path) /\ path # <<>> /\ Len(path) \in Nat /\ Len(path) >= 1
  BY PathFacts DEF Ruled
<1>2. CASE Len(path) = 1
  <2>1. before1 = plan
    BY <1>2 DEF Parents
  <2>2. \A i \in 1..(Len(path) - 1) : Under(SubSeq(path, 1, i), additions)
    BY <1>2
  <2>3. Held(Add(plan, path, entry), additions \cup {addition}, home)
    BY <1>1, <2>2, AddOne
  <2> QED
    BY <2>1, <2>3 DEF AddFile
<1>3. CASE Len(path) # 1
  <2> DEFINE n == Len(path) - 1
  <2>1. n \in 1..(Len(path) - 1) /\ n \in 0..Len(path) /\ n \in Nat
    <3>1. Len(path) \in Nat /\ Len(path) >= 1
      BY <1>1
    <3>2. Len(path) # 1
      BY <1>3
    <3>3. \A k \in Nat : k >= 1 /\ k # 1 =>
            k - 1 \in 1..(k - 1) /\ k - 1 \in 0..k /\ k - 1 \in Nat
      OBVIOUS
    <3> HIDE DEF path
    <3> QED
      BY <3>1, <3>2, <3>3
  <2>2. parent = SubSeq(path, 1, n)
    BY DEF Front
  <2> HIDE DEF n, parent
  <2>3. /\ IsSeq(parent) /\ Len(parent) = n /\ IsPrefix(parent, path)
        /\ \A i \in 1..n : IsPrefix(SubSeq(path, 1, i), parent) /\ IsSeq(SubSeq(path, 1, i))
                           /\ Len(SubSeq(path, 1, i)) = i
    <3>1. \A i \in 1..n : i \in 0..Len(path) /\ i <= n
      BY <1>1, <2>1
    <3> QED
      BY <1>1, <2>1, <2>2, <3>1, PathFacts, PrefixCuts
  <2>4. Len(<<>>) = 0 /\ parent # <<>>
    BY <2>1, <2>3, EmptySeq
  <2>5. Held(before1, additions \cup {made}, home)
    <3>1. CASE parent \in DOMAIN plan
      <4>1. before1 = plan
        BY <1>3, <3>1 DEF Parents, parent
      <4> QED
        BY <2>3, <3>1, <4>1, MadeAlready
    <3>2. CASE parent \notin DOMAIN plan
      <4>1. before1 = AddDirectory(plan, parent, ordinary, ordinary)
        BY <1>3, <3>2 DEF Parents, parent, Held
      <4>2. addition.above = ordinary
        BY DEF Ruled
      <4>3. ordinary = Rule(home, parent)
        <5>1. ~Under(parent, additions)
          BY <3>2 DEF Held
        <5> QED
          BY <2>1, <2>2, <4>2, <5>1 DEF Grounded
      <4>4. \A i \in 1..(Len(parent) - 1) :
              Under(SubSeq(parent, 1, i), additions) \/ ordinary = Rule(home, SubSeq(parent, 1, i))
        <5> TAKE i \in 1..(Len(parent) - 1)
        <5>1. i \in 1..n /\ i \in 1..(Len(path) - 1) /\ i \in 0..n
          BY <2>1, <2>3
        <5>2. SubSeq(path, 1, i) = SubSeq(parent, 1, i)
          <6>1. /\ IsPrefix(SubSeq(path, 1, i), parent) /\ IsSeq(SubSeq(path, 1, i))
                /\ Len(SubSeq(path, 1, i)) = i
            BY <2>3, <5>1
          <6>2. \A other : IsSeq(other) /\ IsPrefix(other, parent) =>
                  other = SubSeq(parent, 1, Len(other))
            BY <2>3, PrefixCuts
          <6>3. SubSeq(path, 1, i) = SubSeq(parent, 1, Len(SubSeq(path, 1, i)))
            BY <6>1, <6>2
          <6> QED
            BY <6>1, <6>3
        <5> QED
          BY <4>2, <5>1, <5>2 DEF Grounded
      <4>5. \A other \in additions : Leaf(other) => ~IsPrefix(other.path, parent)
        <5> TAKE other \in additions
        <5>1. IsPrefix(other.path, parent) => IsPrefix(other.path, path)
          BY <1>1, <2>3, PrefixAll DEF PathsOf
        <5> QED
          BY <5>1 DEF Clear
      <4> HIDE DEF ordinary
      <4>6. Held(AddDirectory(plan, parent, ordinary, ordinary), additions \cup {made}, home)
        BY <2>3, <2>4, <4>3, <4>4, <4>5, DirectoryHeld
      <4> QED
        BY <4>1, <4>6
    <3> QED
      BY <3>1, <3>2
  <2>6. made.path = parent /\ ~Leaf(made)
    BY MadeFields
  <2> DEFINE so == additions \cup {made}
             before2 == before1
  <2>7. Held(before2, so, home)
    BY <2>5
  <2> HIDE DEF made, before2
  <2>8. PathsOf(so)
    BY <2>3, <2>6 DEF PathsOf
  <2>9. \A i \in 1..(Len(path) - 1) : Under(SubSeq(path, 1, i), so)
    <3> TAKE i \in 1..(Len(path) - 1)
    <3>1. i \in 1..n /\ i # 0
      BY <1>1 DEF n
    <3>2. /\ IsPrefix(SubSeq(path, 1, i), made.path) /\ IsSeq(SubSeq(path, 1, i))
          /\ Len(SubSeq(path, 1, i)) = i
      BY <2>3, <2>6, <3>1
    <3>3. SubSeq(path, 1, i) # <<>>
      BY <2>4, <3>1, <3>2
    <3> QED
      BY <3>2, <3>3 DEF Under
  <2>10. \A other \in so : Clear(other, addition)
    <3>1. ~IsPrefix(path, parent)
      <4>1. ~(Len(path) <= Len(parent))
        BY <1>1, <2>3 DEF n
      <4> QED
        BY <4>1, <1>1, <2>3, PrefixMeans
    <3>2. Clear(made, addition)
      BY <2>6, <3>1 DEF Clear
    <3> QED
      BY <3>2
  <2> HIDE DEF so
  <2>11. Held(Add(before2, path, entry), so \cup {addition}, home)
    BY <1>1, <2>7, <2>8, <2>9, <2>10, AddOne
  <2>12. Held(Add(before2, path, entry), additions \cup {addition}, home)
    BY <1>1, <2>3, <2>11, MadeAbove DEF so, made
  <2> QED
    BY <2>12 DEF AddFile, before2
<1> QED
  BY <1>2, <1>3

LEMMA ApplyHeld ==
  ASSUME NoneIsNoPlan, NEW plan, NEW additions, PathsOf(additions), NEW home,
         Held(plan, additions, home), NEW addition, Ruled(addition, home),
         Grounded(additions, addition, home), \A other \in additions : Clear(other, addition)
  PROVE  Held(Apply(plan, addition), additions \cup {addition}, home)
<1> DEFINE path == addition.path
           made == Made(home, path)
<1>1. plan # NoPlan /\ IsSeq(path) /\ path # <<>>
  BY DEF Held, Ruled
<1>2. CASE Leaf(addition)
  <2>1. Apply(plan, addition) = AddFile(plan, path, addition.entry)
    BY <1>1, <1>2 DEF Apply, Leaf
  <2> QED
    BY <1>2, <2>1, FileHeld
<1>3. CASE ~Leaf(addition)
  <2>1. Apply(plan, addition) = AddDirectory(plan, path, addition.entry, addition.above)
    BY <1>1, <1>3 DEF Apply, Leaf
  <2>2. addition.entry = Rule(home, path)
    BY <1>3 DEF Ruled
  <2>3. \A i \in 1..(Len(path) - 1) :
          Under(SubSeq(path, 1, i), additions) \/ addition.above = Rule(home, SubSeq(path, 1, i))
    BY DEF Grounded
  <2>4. \A other \in additions : Leaf(other) => ~IsPrefix(other.path, path)
    BY DEF Clear
  <2>5. Held(Apply(plan, addition), additions \cup {made}, home)
    BY <1>1, <2>1, <2>2, <2>3, <2>4, DirectoryHeld
  <2>6. made.path = path /\ ~Leaf(made)
    BY MadeFields
  <2> HIDE DEF made
  <2>7. /\ \A other : Under(other, additions \cup {made}) <=> Under(other, additions \cup {addition})
        /\ LeafPaths(additions \cup {made}) = LeafPaths(additions \cup {addition})
    BY <1>3, <2>6, UnderJoined
  <2> QED
    BY <2>5, <2>7, HeldAlike
<1> QED
  BY <1>2, <1>3

-----------------------------------------------------------------------------
(* A list all of which can be added where `additions` were: every entry is *)
(* of the plan's making, what is made above it too, and nothing before it  *)
(* is in its way.                                                          *)
Before(additions, list, i) == additions \cup {list[j] : j \in 1..(i - 1)}

FitsAt(known, addition, home) ==
  /\ Ruled(addition, home) /\ Grounded(known, addition, home)
  /\ \A other \in known : Clear(other, addition)

Fits(additions, list, home) ==
  /\ IsSeq(list)
  /\ \A i \in DOMAIN list : FitsAt(Before(additions, list, i), list[i], home)

LEMMA NothingHeld == ASSUME NoneIsNoPlan, NEW home PROVE Held(<<>>, {}, home)
<1>1. <<>> # NoPlan
  <2>1. <<>> = [x \in {} |-> <<>>[x]]
    OBVIOUS
  <2> QED
    BY <2>1, NoPlanApart
<1>2. DOMAIN <<>> = {} /\ \A path : ~Under(path, {})
  BY DEF Under
<1> QED
  BY <1>1, <1>2 DEF Held

(* Such a list is planned.                                                 *)
LEMMA PlannedHeld ==
  ASSUME NoneIsNoPlan, NEW list, NEW home, Fits({}, list, home)
  PROVE  Held(Planned(list), Range(list), home)
<1> DEFINE N == Len(list)
           known(n) == {list[j] : j \in 1..n}
           Good(plan) == {n \in Nat : n <= N => Held(plan[n], known(n), home)}
<1>1. N \in Nat /\ DOMAIN list = 1..N /\ Range(list) = known(N)
  BY IndexOf DEF Fits, Range
<1>2. PICK plan :
        /\ plan = [n \in 0..N |-> IF n = 0 THEN <<>> ELSE Apply(plan[n - 1], list[n])]
        /\ Planned(list) = plan[N]
  <2>1. Len(list) \in Nat
    BY <1>1
  <2> QED
    BY ONLY <2>1, PlannedBuilt
<1>3. plan[0] = <<>> /\ \A n \in 1..N : plan[n] = Apply(plan[n - 1], list[n])
  <2>1. 0 \in 0..N /\ \A n \in 1..N : n \in 0..N /\ n # 0
    BY <1>1
  <2> HIDE DEF N
  <2> QED
    BY <1>2, <2>1
<1>4. \A n \in 1..N : FitsAt(known(n - 1), list[n], home)
  <2>1. \A n \in 1..N : FitsAt(Before({}, list, n), list[n], home)
    BY <1>1 DEF Fits
  <2>2. \A n : Before({}, list, n) = known(n - 1)
    BY DEF Before
  <2> HIDE DEF known, N
  <2> QED
    BY <2>1, <2>2
<1>5. \A n \in Nat : n \in Good(plan)
  <2>1. 0 \in Good(plan)
    <3>1. known(0) = {}
      OBVIOUS
    <3> HIDE DEF known, N
    <3>2. Held(plan[0], known(0), home)
      BY <1>3, <3>1, NothingHeld
    <3> QED
      BY <3>2
  <2>2. ASSUME NEW n \in Nat, n \in Good(plan)
        PROVE  n + 1 \in Good(plan)
    <3> SUFFICES ASSUME n + 1 <= N
                 PROVE  Held(plan[n + 1], known(n + 1), home)
      OBVIOUS
    <3>1. n + 1 \in 1..N /\ (n + 1) - 1 = n /\ n <= N
      BY <1>1
    <3>2. Held(plan[n], known(n), home)
      BY <2>2, <3>1
    <3>3. known(n + 1) = known(n) \cup {list[n + 1]}
      <4>1. 1..(n + 1) = 1..n \cup {n + 1}
        OBVIOUS
      <4> QED
        BY <4>1, Zenon
    <3>4. \A j \in 1..n : j \in 1..N
      BY <3>1, <1>1
    <3>5. PathsOf(known(n))
      BY <1>4, <3>4 DEF PathsOf, FitsAt, Ruled
    <3> DEFINE addition == list[n + 1]
               here == known(n)
               at1 == plan[n]
    <3>6. FitsAt(here, addition, home)
      BY <1>4, <3>1
    <3>7. plan[n + 1] = Apply(at1, addition)
      BY <1>3, <3>1
    <3> HIDE DEF known, N, Good, addition, here, at1
    <3>8. Held(at1, here, home) /\ PathsOf(here)
      BY <3>2, <3>5 DEF at1, here
    <3>9. Held(Apply(at1, addition), here \cup {addition}, home)
      BY <3>6, <3>8, ApplyHeld DEF FitsAt
    <3> QED
      BY <3>3, <3>7, <3>9 DEF here, addition
  <2> HIDE DEF Good
  <2> QED
    BY <2>1, <2>2, Induction
<1>6. Held(plan[N], known(N), home)
  <2> HIDE DEF known
  <2> QED
    BY <1>1, <1>5
<1> QED
  BY <1>1, <1>2, <1>6

LEMMA FitsSame ==
  ASSUME NEW one, NEW list, NEW home, Fits(one, list, home), NEW other, one = other
  PROVE  Fits(other, list, home)
OBVIOUS

LEMMA NothingFits == \A additions, home : Fits(additions, <<>>, home)
BY NothingPlanable DEF Fits, Planable

LEMMA FitsJoined ==
  ASSUME NEW additions, NEW first, NEW second, NEW home,
         Fits(additions, first, home), Fits(additions \cup Range(first), second, home)
  PROVE  Fits(additions, first \o second, home)
<1> DEFINE n == Len(first)
           m == Len(second)
           both == first \o second
<1>1. /\ n \in Nat /\ DOMAIN first = 1..n /\ Range(first) = {first[i] : i \in 1..n}
      /\ m \in Nat /\ DOMAIN second = 1..m
  BY IndexOf DEF Fits, Range
<1>2. /\ IsSeq(both) /\ DOMAIN both = 1..(n + m)
      /\ \A i \in 1..n : both[i] = first[i]
      /\ \A i \in 1..m : both[n + i] = second[i]
  <2>1. IsSeq(both)
    BY SeqJoined DEF Fits
  <2>2. IsSeq(first) /\ IsSeq(second)
    BY DEF Fits
  <2> QED
    BY <1>1, <2>1, <2>2, ConcatProperties DEF IsSeq
<1> HIDE DEF both, n, m
<1>3. \A i \in 1..n : FitsAt(Before(additions, both, i), both[i], home)
  <2> TAKE i \in 1..n
  <2>1. \A j \in 1..(i - 1) : both[j] = first[j]
    BY <1>1, <1>2
  <2>2. Before(additions, both, i) = Before(additions, first, i)
    BY <2>1 DEF Before
  <2> QED
    BY <1>1, <1>2, <2>2 DEF Fits
<1>4. \A i \in 1..m : FitsAt(Before(additions, both, n + i), both[n + i], home)
  <2> TAKE i \in 1..m
  <2>1. 1..((n + i) - 1) = 1..n \cup {n + j : j \in 1..(i - 1)}
    <3>1. \A k \in 1..((n + i) - 1) : k \notin 1..n => k - n \in 1..(i - 1) /\ k = n + (k - n)
      BY <1>1
    <3>2. \A j \in 1..(i - 1) : n + j \in 1..((n + i) - 1)
      BY <1>1
    <3>3. \A k \in 1..n : k \in 1..((n + i) - 1)
      BY <1>1
    <3> QED
      BY <3>1, <3>2, <3>3
  <2>2. \A j \in 1..(i - 1) : both[n + j] = second[j]
    BY <1>1, <1>2
  <2>3. {both[k] : k \in 1..((n + i) - 1)}
          = {both[k] : k \in 1..n} \cup {both[n + j] : j \in 1..(i - 1)}
    BY <2>1, Zenon
  <2>4. {both[k] : k \in 1..n} = Range(first)
    BY <1>1, <1>2
  <2>5. {both[n + j] : j \in 1..(i - 1)} = {second[j] : j \in 1..(i - 1)}
    BY <2>2
  <2>6. Before(additions, both, n + i) = Before(additions \cup Range(first), second, i)
    BY <2>3, <2>4, <2>5 DEF Before
  <2> QED
    BY <1>1, <1>2, <2>6 DEF Fits
<1>5. \A i \in 1..(n + m) : i \in 1..n \/ (i - n \in 1..m /\ i = n + (i - n))
  BY <1>1
<1>6. \A i \in 1..(n + m) : FitsAt(Before(additions, both, i), both[i], home)
  BY <1>3, <1>4, <1>5
<1>7. Fits(additions, both, home)
  BY <1>2, <1>6 DEF Fits
<1> QED
  BY <1>7 DEF both

LEMMA FitsFlattened ==
  ASSUME NEW additions, NEW home, NEW N \in Nat, NEW lists, lists = [i \in 1..N |-> lists[i]],
         \A i \in 1..N :
           Fits(additions \cup UNION {Range(lists[j]) : j \in 1..(i - 1)}, lists[i], home)
  PROVE  /\ Fits(additions, FlattenSeq(lists), home)
         /\ \A x : x \in Range(FlattenSeq(lists)) <=> \E i \in 1..N : x \in Range(lists[i])
<1> DEFINE Upto(n) == UNION {Range(lists[i]) : i \in 1..n}
           T == Upto(N)
<1>1. \A i \in 1..N : lists[i] \in Seq(T)
  <2> TAKE i \in 1..N
  <2>1. Range(lists[i]) \subseteq T /\ lists[i] \in Seq(Range(lists[i]))
    BY DEF Fits, IsSeq
  <2> HIDE DEF T
  <2> QED
    BY <2>1, WidenSeq
<1>2. DOMAIN lists = 1..N /\ \A i \in 1..N : Fits(additions \cup Upto(i - 1), lists[i], home)
  OBVIOUS
<1> HIDE DEF T
<1>3. lists \in Seq(Seq(T)) /\ Len(lists) = N
  <2>1. lists \in [1..N -> Seq(T)]
    BY <1>1, <1>2
  <2>2. lists \in Seq(Seq(T))
    BY <2>1, SeqDef
  <2> QED
    BY <1>2, <2>2, LenProperties
<1>4. Range(FlattenSeq(lists)) = Upto(N)
  BY <1>2, <1>3, FlattenedRange
<1>5. CASE lists = <<>>
  <2>1. FlattenSeq(lists) = <<>>
    BY <1>5 DEF FlattenSeq
  <2> QED
    BY <1>4, <2>1, NothingFits
<1>6. CASE lists # <<>>
  <2>1. PICK F \in [1..N -> Seq(T)] :
          /\ FlattenSeq(lists) = F[N]
          /\ F[1] = lists[1]
          /\ \A i \in 2..N : F[i] = F[i - 1] \o lists[i]
    <3>1. \E F \in [1..Len(lists) -> Seq(T)] :
          /\ FlattenSeq(lists) = F[Len(lists)]
          /\ F[1] = lists[1]
          /\ \A i \in 2..Len(lists) : F[i] = F[i - 1] \o lists[i]
      BY <1>3, <1>6, Flattened
    <3> QED
      BY <1>3, <3>1
  <2> DEFINE Good == {n \in Nat : n \in 1..N =>
                        Fits(additions, F[n], home) /\ Range(F[n]) = Upto(n)}
  <2>2. N \in 1..N
    BY <1>3, <1>6, EmptySeq
  <2>3. \A n \in Nat : n \in Good
    <3>1. 0 \in Good
      OBVIOUS
    <3>2. ASSUME NEW n \in Nat, n \in Good
          PROVE  n + 1 \in Good
      <4> SUFFICES ASSUME n + 1 \in 1..N
                   PROVE  Fits(additions, F[n + 1], home) /\ Range(F[n + 1]) = Upto(n + 1)
        OBVIOUS
      <4>1. CASE n = 0
        <5>1. 1..(n + 1) = {1} /\ n + 1 = 1 /\ 1..((n + 1) - 1) = {}
          BY <4>1
        <5>2. Upto((n + 1) - 1) = {} /\ Upto(n + 1) = Range(lists[1])
          BY <5>1
        <5> HIDE DEF Upto
        <5>3. Fits(additions \cup {}, lists[n + 1], home)
          BY <1>2, <5>2
        <5>4. additions \cup {} = additions
          OBVIOUS
        <5> QED
          BY <5>1, <5>2, <5>3, <5>4, <2>1
      <4>2. CASE n # 0
        <5>1. n \in 1..N /\ n + 1 \in 2..N /\ (n + 1) - 1 = n
          BY <4>2, <2>2
        <5>2. F[n + 1] = F[n] \o lists[n + 1]
          BY <5>1, <2>1
        <5>3. Fits(additions, F[n], home) /\ Range(F[n]) = Upto(n)
          BY <5>1, <3>2
        <5>4. Fits(additions \cup Range(F[n]), lists[n + 1], home)
          <6> HIDE DEF Upto
          <6> QED
            BY <1>2, <5>1, <5>3
        <5>5. Fits(additions, F[n] \o lists[n + 1], home)
          BY <5>3, <5>4, FitsJoined
        <5>6. Range(F[n] \o lists[n + 1]) = Range(F[n]) \cup Range(lists[n + 1])
          BY <5>3, <5>4, SeqJoined DEF Fits
        <5>7. 1..(n + 1) = 1..n \cup {n + 1}
          BY <5>1
        <5>8. Upto(n + 1) = Upto(n) \cup Range(lists[n + 1])
          BY <5>7, Zenon
        <5> HIDE DEF Upto
        <5> QED
          BY <5>2, <5>3, <5>5, <5>6, <5>8
      <4> QED
        BY <4>1, <4>2
    <3> HIDE DEF Good
    <3> QED
      BY <3>1, <3>2, Induction
  <2>4. Fits(additions, F[N], home)
    <3> HIDE DEF Upto
    <3> QED
      BY <2>2, <2>3
  <2> QED
    BY <1>4, <2>1, <2>4
<1> QED
  BY <1>5, <1>6

-----------------------------------------------------------------------------
(* The paths of the plan that do not depend on where assets are placed,    *)
(* read word by word, for the home of the user u.                          *)

LeafWords(u, path) ==
  /\ IsSeq(path)
  /\ \/ /\ Len(path) = 5 /\ path[1] = "opt" /\ path[2] = "agent-boot"
        /\ \/ path[3] = "runtime"
           \/ path[3] = "scripts" /\ path[4] = "bin"
           \/ path[3] = "assets"
     \/ Len(path) = 4 /\ path[1] = "opt" /\ path[2] = "agent-boot" /\ path[3] = "prompts"
     \/ Len(path) = 4 /\ path[1] = "usr"
     \/ /\ Len(path) = 3 /\ path[1] = "home" /\ path[2] = u
        /\ path[3] \in {".profile", ".bashrc", ".npmrc"}
     \/ /\ Len(path) = 3 /\ path[1] = "etc" /\ path[2] = "agent-boot"
        /\ path[3] \in {"manifest.json", "plan.json"}
     \/ /\ Len(path) = 4 /\ path[1] = "etc" /\ path[2] = "agent-boot"
        /\ path[3] = "bootstrap-secrets"
     \/ Len(path) = 2 /\ path[1] = "etc" /\ path[2] \in {"fstab", "hostname", "hosts"}
     \/ Len(path) = 3 /\ path[1] = "etc" /\ path[2] = "sudoers.d"
     \/ Len(path) = 4 /\ path[1] = "etc" /\ path[2] \in {"ssh", "NetworkManager"}
     \/ /\ Len(path) = 4 /\ path[1] = "etc" /\ path[2] = "systemd"
        /\ \/ path[3] = "journald.conf.d"
           \/ /\ path[3] = "system"
              /\ path[4] \in {"agent-boot-runner.service", "getty@tty1.service"}
     \/ /\ Len(path) = 5 /\ path[1] = "etc" /\ path[2] = "systemd" /\ path[3] = "system"
        /\ path[4] \in {"getty.target.wants", "multi-user.target.wants"}
     \/ /\ Len(path) = 4 /\ path[1] = "var" /\ path[2] = "lib" /\ path[3] = "NetworkManager"

DirectoryWords(u, path) ==
  /\ IsSeq(path)
  /\ \/ Len(path) = 2 /\ path[1] \in {"opt", "etc", "run"} /\ path[2] = "agent-boot"
     \/ Len(path) = 2 /\ path[1] = "home" /\ path[2] = u
     \/ Len(path) = 3 /\ path[1] \in {"opt", "run", "usr"}
     \/ /\ Len(path) = 3 /\ path[1] = "etc"
        /\ \/ path[2] = "systemd"
           \/ path[2] = "agent-boot" /\ path[3] = "bootstrap-secrets"
     \/ Len(path) = 3 /\ path[1] = "var" /\ path[3] = "agent-boot"
     \/ /\ Len(path) = 3 /\ path[1] = "home" /\ path[2] = u
        /\ path[3] \in {"workspace", ".local", ".npm"}
     \/ /\ Len(path) = 4 /\ path[1] = "home" /\ path[2] = u /\ path[3] = ".local"
     \/ Len(path) = 4 /\ path[1] = "opt" /\ path[3] = "scripts"
     \/ Len(path) = 5 /\ path[1] = "opt" /\ path[3] = "scripts" /\ path[4] = "node_modules"

LEMMA PrefixWords ==
  ASSUME NEW one, NEW other, IsSeq(one), IsSeq(other), IsPrefix(one, other)
  PROVE  /\ Len(one) <= Len(other)
         /\ 1 <= Len(one) => one[1] = other[1]
         /\ 2 <= Len(one) => one[2] = other[2]
         /\ 3 <= Len(one) => one[3] = other[3]
         /\ 4 <= Len(one) => one[4] = other[4]
         /\ 5 <= Len(one) => one[5] = other[5]
<1>1. Len(one) \in Nat /\ \A k \in 1..Len(one) : one[k] = other[k]
  BY PathFacts, PrefixMeans
<1> QED
  BY <1>1, PrefixMeans

(* None of these leaves is a prefix of another of these paths.             *)
LEMMA LeavesAlone ==
  ASSUME NEW u, NEW one, LeafWords(u, one), NEW other,
         LeafWords(u, other) \/ DirectoryWords(u, other), IsPrefix(one, other)
  PROVE  one = other /\ ~DirectoryWords(u, other)
<1>1. /\ Len(one) <= Len(other)
      /\ 1 <= Len(one) => one[1] = other[1]
      /\ 2 <= Len(one) => one[2] = other[2]
      /\ 3 <= Len(one) => one[3] = other[3]
      /\ 4 <= Len(one) => one[4] = other[4]
      /\ 5 <= Len(one) => one[5] = other[5]
  <2>1. IsSeq(one) /\ IsSeq(other)
    BY DEF LeafWords, DirectoryWords
  <2> QED
    BY <2>1, PrefixWords
<1>4. Len(other) \in Nat
  BY PathFacts DEF LeafWords, DirectoryWords
<1>2. ~DirectoryWords(u, other)
  <2> SUFFICES ASSUME DirectoryWords(u, other) PROVE FALSE
    OBVIOUS
  <2>1. one[1] \in {"opt", "usr", "home", "etc", "var"} /\ one[1] = other[1]
    BY <1>1, LeafWords(u, one) DEF LeafWords
  <2>2. CASE one[1] = "opt"
    <3>1. /\ Len(one) \in {4, 5}
          /\ Len(one) = 5 => \/ one[3] \in {"runtime", "assets"}
                             \/ one[3] = "scripts" /\ one[4] = "bin"
          /\ Len(one) = 4 => one[3] = "prompts"
      BY ONLY <2>2, LeafWords(u, one) DEF LeafWords
    <3>2. other[1] = "opt"
      BY <2>1, <2>2
    <3>3. Len(other) >= 4 => other[3] = "scripts"
      BY ONLY <3>2, DirectoryWords(u, other) DEF DirectoryWords
    <3>4. Len(other) >= 5 => other[4] = "node_modules"
      BY ONLY <3>2, DirectoryWords(u, other) DEF DirectoryWords
    <3>5. CASE Len(one) = 4
      <4>1. one[3] = "prompts" /\ one[3] = other[3] /\ Len(other) >= 4
        BY <1>1, <1>4, <3>1, <3>5
      <4> QED
        BY <3>3, <4>1
    <3>6. CASE Len(one) = 5
      <4>1. one[3] = other[3] /\ one[4] = other[4] /\ Len(other) >= 5 /\ Len(other) >= 4
        BY <1>1, <1>4, <3>6
      <4> QED
        BY <3>1, <3>3, <3>4, <3>6, <4>1
    <3> QED
      BY <3>1, <3>5, <3>6
  <2>3. CASE one[1] = "home"
    BY ONLY <1>1, <2>1, <2>3, LeafWords(u, one), DirectoryWords(u, other) DEF LeafWords, DirectoryWords
  <2>4. CASE one[1] = "etc"
    BY ONLY <1>1, <2>1, <2>4, LeafWords(u, one), DirectoryWords(u, other) DEF LeafWords, DirectoryWords
  <2>5. CASE one[1] \in {"usr", "var"}
    BY ONLY <1>1, <2>1, <2>5, LeafWords(u, one), DirectoryWords(u, other) DEF LeafWords, DirectoryWords
  <2> QED
    BY <2>1, <2>2, <2>3, <2>4, <2>5
<1>3. Len(one) = Len(other)
  <2>1. LeafWords(u, other)
    BY <1>2
  <2> QED
    BY ONLY <1>1, <2>1, LeafWords(u, one) DEF LeafWords
<1> QED
  <2>1. IsSeq(one) /\ IsSeq(other) /\ \A k \in 1..Len(one) : one[k] = other[k]
    BY <1>2, PrefixMeans DEF LeafWords
  <2> QED
    BY <1>2, <1>3, <2>1, SamePath

CoreAt(u, addition) ==
  IF Leaf(addition) THEN LeafWords(u, addition.path) ELSE DirectoryWords(u, addition.path)

LEMMA CoreClear ==
  ASSUME NEW u, NEW one, NEW other, CoreAt(u, one), CoreAt(u, other),
         Leaf(one) /\ Leaf(other) => one.path # other.path
  PROVE  Clear(one, other)
<1>1. Leaf(one) => ~IsPrefix(one.path, other.path)
  BY LeavesAlone DEF CoreAt
<1>2. Leaf(other) => ~IsPrefix(other.path, one.path)
  BY LeavesAlone DEF CoreAt
<1> QED
  BY <1>1, <1>2 DEF Clear

(* The paths whose directories are root's, and so are those above them.    *)
Common(path) ==
  /\ IsSeq(path) /\ path # <<>> /\ path[1] # "home"
  /\ path[1] = "etc" /\ Len(path) >= 2 => path[2] # "agent-boot"
  /\ path[1] = "var" /\ Len(path) >= 3 => path[3] # "agent-boot"
  /\ path[1] = "run" => Len(path) < 2

LEMMA CommonAbove ==
  ASSUME NEW path, Common(path), NEW i \in 1..Len(path)
  PROVE  Common(SubSeq(path, 1, i))
<1> DEFINE here == SubSeq(path, 1, i)
<1>1. Len(path) \in Nat /\ i \in 0..Len(path) /\ i \in Nat /\ i >= 1 /\ i <= Len(path)
  BY PathFacts DEF Common
<1>2. /\ IsSeq(here) /\ Len(here) = i /\ here[1] = path[1]
      /\ i >= 2 => here[2] = path[2]
      /\ i >= 3 => here[3] = path[3]
  <2>1. IsSeq(here) /\ Len(here) = i /\ \A k \in 1..i : here[k] = path[k]
    BY <1>1, PathFacts DEF Common
  <2>2. 1 \in 1..i /\ (i >= 2 => 2 \in 1..i) /\ (i >= 3 => 3 \in 1..i)
    BY <1>1
  <2> HIDE DEF here
  <2> QED
    BY <2>1, <2>2
<1>3. Len(<<>>) = 0
  BY EmptySeq
<1> HIDE DEF here
<1>4. here # <<>>
  BY <1>1, <1>2, <1>3
<1>5. Common(here)
  BY <1>1, <1>2, <1>4 DEF Common
<1> QED
  BY <1>5 DEF here

LEMMA Appended ==
  ASSUME NEW path, IsSeq(path), NEW rest, IsSeq(rest)
  PROVE  /\ IsSeq(path \o rest) /\ Len(path \o rest) = Len(path) + Len(rest)
         /\ \A k \in 1..Len(path) : (path \o rest)[k] = path[k]
         /\ \A k \in 1..Len(rest) : (path \o rest)[Len(path) + k] = rest[k]
<1>1. IsSeq(path \o rest)
  BY SeqJoined
<1> QED
  BY <1>1, ConcatProperties DEF IsSeq

LEMMA Tuples ==
  /\ \A a : IsSeq(<<a>>) /\ Len(<<a>>) = 1 /\ <<a>>[1] = a
  /\ \A a, b : IsSeq(<<a, b>>) /\ Len(<<a, b>>) = 2 /\ <<a, b>>[1] = a /\ <<a, b>>[2] = b
  /\ \A a, b, c : /\ IsSeq(<<a, b, c>>) /\ Len(<<a, b, c>>) = 3
                 /\ <<a, b, c>>[1] = a /\ <<a, b, c>>[2] = b /\ <<a, b, c>>[3] = c
  /\ \A a, b, c, d : /\ IsSeq(<<a, b, c, d>>) /\ Len(<<a, b, c, d>>) = 4
                    /\ <<a, b, c, d>>[1] = a /\ <<a, b, c, d>>[2] = b
                    /\ <<a, b, c, d>>[3] = c /\ <<a, b, c, d>>[4] = d
  /\ \A a, b, c, d, e : /\ IsSeq(<<a, b, c, d, e>>) /\ Len(<<a, b, c, d, e>>) = 5
                       /\ <<a, b, c, d, e>>[1] = a /\ <<a, b, c, d, e>>[2] = b
                       /\ <<a, b, c, d, e>>[3] = c /\ <<a, b, c, d, e>>[4] = d
                       /\ <<a, b, c, d, e>>[5] = e
BY ShortPaths

LEMMA Joins ==
  ASSUME NEW path, IsSeq(path), NEW rest, IsSeq(rest), NEW whole, IsSeq(whole),
         Len(whole) = Len(path) + Len(rest), \A k \in 1..Len(path) : whole[k] = path[k],
         \A k \in 1..Len(rest) : whole[Len(path) + k] = rest[k]
  PROVE  path \o rest = whole
<1> DEFINE n == Len(path)
           m == Len(rest)
           both == path \o rest
<1>1. n \in Nat /\ m \in Nat
  BY PathFacts
<1>2. /\ IsSeq(both) /\ Len(both) = n + m
      /\ \A k \in 1..n : both[k] = path[k]
      /\ \A k \in 1..m : both[n + k] = rest[k]
  BY Appended
<1>3. ASSUME NEW k \in 1..(n + m)
      PROVE  both[k] = whole[k]
  <2>1. CASE k \in 1..n
    BY <1>2, <2>1
  <2>2. CASE k \notin 1..n
    <3>1. k - n \in 1..m /\ n + (k - n) = k
      BY <1>1, <1>3, <2>2
    <3> HIDE DEF both
    <3> QED
      BY <1>2, <3>1
  <2> QED
    BY <2>1, <2>2
<1> HIDE DEF both
<1>4. both = whole
  BY <1>2, <1>3, SamePath
<1> QED
  BY <1>4 DEF both

LEMMA Longer ==
  /\ \A a, b, c : <<a, b>> \o <<c>> = <<a, b, c>>
  /\ \A a, b, c, d : <<a, b>> \o <<c, d>> = <<a, b, c, d>>
  /\ \A a, b, c, d : <<a, b, c>> \o <<d>> = <<a, b, c, d>>
  /\ \A a, b, c, d, e : <<a, b, c>> \o <<d, e>> = <<a, b, c, d, e>>
  /\ \A a, b, c, d, e : <<a, b>> \o <<c, d, e>> = <<a, b, c, d, e>>
<1>1. ASSUME NEW a, NEW b, NEW c
      PROVE  <<a, b>> \o <<c>> = <<a, b, c>>
  <2> DEFINE path == <<a, b>>
             rest == <<c>>
             whole == <<a, b, c>>
  <2>1. IsSeq(path) /\ IsSeq(rest) /\ IsSeq(whole)
    BY ShortPaths
  <2>2. /\ Len(path) = 2 /\ Len(rest) = 1 /\ Len(whole) = 3
        /\ 1..2 = {1, 2} /\ 1..1 = {1}
    OBVIOUS
  <2>3. whole[1] = path[1] /\ whole[2] = path[2]
    OBVIOUS
  <2>4. whole[2 + 1] = rest[1]
    OBVIOUS
  <2> HIDE DEF path, rest, whole
  <2>5. \A k \in 1..Len(path) : whole[k] = path[k]
    BY <2>2, <2>3
  <2>6. \A k \in 1..Len(rest) : whole[Len(path) + k] = rest[k]
    BY <2>2, <2>4
  <2>7. Len(whole) = Len(path) + Len(rest)
    BY <2>2
  <2>8. path \o rest = whole
    BY <2>1, <2>5, <2>6, <2>7, Joins
  <2> QED
    BY <2>8 DEF path, rest, whole
<1>2. ASSUME NEW a, NEW b, NEW c, NEW d
      PROVE  <<a, b>> \o <<c, d>> = <<a, b, c, d>>
  <2> DEFINE path == <<a, b>>
             rest == <<c, d>>
             whole == <<a, b, c, d>>
  <2>1. IsSeq(path) /\ IsSeq(rest) /\ IsSeq(whole)
    BY ShortPaths
  <2>2. /\ Len(path) = 2 /\ Len(rest) = 2 /\ Len(whole) = 4
        /\ 1..2 = {1, 2} /\ 1..2 = {1, 2}
    OBVIOUS
  <2>3. whole[1] = path[1] /\ whole[2] = path[2]
    OBVIOUS
  <2>4. whole[2 + 1] = rest[1] /\ whole[2 + 2] = rest[2]
    OBVIOUS
  <2> HIDE DEF path, rest, whole
  <2>5. \A k \in 1..Len(path) : whole[k] = path[k]
    BY <2>2, <2>3
  <2>6. \A k \in 1..Len(rest) : whole[Len(path) + k] = rest[k]
    BY <2>2, <2>4
  <2>7. Len(whole) = Len(path) + Len(rest)
    BY <2>2
  <2>8. path \o rest = whole
    BY <2>1, <2>5, <2>6, <2>7, Joins
  <2> QED
    BY <2>8 DEF path, rest, whole
<1>3. ASSUME NEW a, NEW b, NEW c, NEW d
      PROVE  <<a, b, c>> \o <<d>> = <<a, b, c, d>>
  <2> DEFINE path == <<a, b, c>>
             rest == <<d>>
             whole == <<a, b, c, d>>
  <2>1. IsSeq(path) /\ IsSeq(rest) /\ IsSeq(whole)
    BY ShortPaths
  <2>2. /\ Len(path) = 3 /\ Len(rest) = 1 /\ Len(whole) = 4
        /\ 1..3 = {1, 2, 3} /\ 1..1 = {1}
    OBVIOUS
  <2>3. whole[1] = path[1] /\ whole[2] = path[2] /\ whole[3] = path[3]
    OBVIOUS
  <2>4. whole[3 + 1] = rest[1]
    OBVIOUS
  <2> HIDE DEF path, rest, whole
  <2>5. \A k \in 1..Len(path) : whole[k] = path[k]
    BY <2>2, <2>3
  <2>6. \A k \in 1..Len(rest) : whole[Len(path) + k] = rest[k]
    BY <2>2, <2>4
  <2>7. Len(whole) = Len(path) + Len(rest)
    BY <2>2
  <2>8. path \o rest = whole
    BY <2>1, <2>5, <2>6, <2>7, Joins
  <2> QED
    BY <2>8 DEF path, rest, whole
<1>4. ASSUME NEW a, NEW b, NEW c, NEW d, NEW e
      PROVE  <<a, b, c>> \o <<d, e>> = <<a, b, c, d, e>>
  <2> DEFINE path == <<a, b, c>>
             rest == <<d, e>>
             whole == <<a, b, c, d, e>>
  <2>1. IsSeq(path) /\ IsSeq(rest) /\ IsSeq(whole)
    BY ShortPaths
  <2>2. /\ Len(path) = 3 /\ Len(rest) = 2 /\ Len(whole) = 5
        /\ 1..3 = {1, 2, 3} /\ 1..2 = {1, 2}
    OBVIOUS
  <2>3. whole[1] = path[1] /\ whole[2] = path[2] /\ whole[3] = path[3]
    OBVIOUS
  <2>4. whole[3 + 1] = rest[1] /\ whole[3 + 2] = rest[2]
    OBVIOUS
  <2> HIDE DEF path, rest, whole
  <2>5. \A k \in 1..Len(path) : whole[k] = path[k]
    BY <2>2, <2>3
  <2>6. \A k \in 1..Len(rest) : whole[Len(path) + k] = rest[k]
    BY <2>2, <2>4
  <2>7. Len(whole) = Len(path) + Len(rest)
    BY <2>2
  <2>8. path \o rest = whole
    BY <2>1, <2>5, <2>6, <2>7, Joins
  <2> QED
    BY <2>8 DEF path, rest, whole
<1>5. ASSUME NEW a, NEW b, NEW c, NEW d, NEW e
      PROVE  <<a, b>> \o <<c, d, e>> = <<a, b, c, d, e>>
  <2> DEFINE path == <<a, b>>
             rest == <<c, d, e>>
             whole == <<a, b, c, d, e>>
  <2>1. IsSeq(path) /\ IsSeq(rest) /\ IsSeq(whole)
    BY ShortPaths
  <2>2. /\ Len(path) = 2 /\ Len(rest) = 3 /\ Len(whole) = 5
        /\ 1..2 = {1, 2} /\ 1..3 = {1, 2, 3}
    OBVIOUS
  <2>3. whole[1] = path[1] /\ whole[2] = path[2]
    OBVIOUS
  <2>4. whole[2 + 1] = rest[1] /\ whole[2 + 2] = rest[2] /\ whole[2 + 3] = rest[3]
    OBVIOUS
  <2> HIDE DEF path, rest, whole
  <2>5. \A k \in 1..Len(path) : whole[k] = path[k]
    BY <2>2, <2>3
  <2>6. \A k \in 1..Len(rest) : whole[Len(path) + k] = rest[k]
    BY <2>2, <2>4
  <2>7. Len(whole) = Len(path) + Len(rest)
    BY <2>2
  <2>8. path \o rest = whole
    BY <2>1, <2>5, <2>6, <2>7, Joins
  <2> QED
    BY <2>8 DEF path, rest, whole
<1> QED
  BY <1>1, <1>2, <1>3, <1>4, <1>5

LEMMA Specials ==
  /\ Etcdir = <<"etc", "agent-boot">> /\ Rundir = <<"run", "agent-boot">>
  /\ Optdir = <<"opt", "agent-boot">> /\ BundleScripts = <<"opt", "agent-boot", "scripts">>
  /\ BootstrapSecrets = <<"etc", "agent-boot", "bootstrap-secrets">>
  /\ RunSecrets = <<"run", "agent-boot", "secrets">>
  /\ BundlePrivate = <<<<"etc", "agent-boot", "bootstrap-secrets">>,
                       <<"var", "lib", "agent-boot">>, <<"run", "agent-boot">>,
                       <<"run", "agent-boot", "prompts">>, <<"run", "agent-boot", "secrets">>>>
<1>1. \A a, b, c : <<a, b>> \o <<c>> = <<a, b, c>>
  BY Longer
<1>2. /\ Etcdir = <<"etc", "agent-boot">> /\ Rundir = <<"run", "agent-boot">>
      /\ Optdir = <<"opt", "agent-boot">>
  BY DEF Etcdir, Rundir, Optdir
<1>3. /\ BootstrapSecrets = <<"etc", "agent-boot", "bootstrap-secrets">>
      /\ RunSecrets = <<"run", "agent-boot", "secrets">>
      /\ Rundir \o <<"prompts">> = <<"run", "agent-boot", "prompts">>
      /\ BundleScripts = <<"opt", "agent-boot", "scripts">>
  BY <1>1, <1>2 DEF BootstrapSecrets, RunSecrets, BundleScripts
<1> QED
  BY <1>2, <1>3 DEF BundlePrivate

LEMMA SpecialRange ==
  Range(BundlePrivate) = {<<"etc", "agent-boot", "bootstrap-secrets">>,
                          <<"var", "lib", "agent-boot">>, <<"run", "agent-boot">>,
                          <<"run", "agent-boot", "prompts">>, <<"run", "agent-boot", "secrets">>}
<1>1. \A a, b, c, d, e : Range(<<a, b, c, d, e>>) = {a, b, c, d, e}
  BY DEF Range
<1> QED
  BY <1>1, Specials

LEMMA CommonRule ==
  ASSUME NEW u, NEW path, Common(path)
  PROVE  /\ Rule(<<"home", u>>, path) = Directory("0755", "root")
         /\ BundleOwner(path) = "root"
<1> DEFINE home == <<"home", u>>
<1>1. Len(path) \in Nat /\ Len(path) >= 1 /\ IsSeq(path)
  BY PathFacts DEF Common
<1>2. \A a, b, c : Len(<<a, b>>) = 2 /\ Len(<<a, b, c>>) = 3
                   /\ <<a, b>>[1] = a /\ <<a, b>>[2] = b
                   /\ <<a, b, c>>[1] = a /\ <<a, b, c>>[2] = b /\ <<a, b, c>>[3] = c
                   /\ IsSeq(<<a, b>>) /\ IsSeq(<<a, b, c>>)
  BY ShortPaths
<1>3. ~IsPrefix(home, path)
  <2> SUFFICES ASSUME IsPrefix(home, path) PROVE FALSE
    OBVIOUS
  <2>1. \A one : IsSeq(one) /\ IsPrefix(one, path) /\ Len(one) = 2 =>
          one[1] = path[1] /\ 2 <= Len(path)
    BY <1>1, PrefixWords
  <2>2. IsSeq(home) /\ Len(home) = 2 /\ home[1] = "home"
    BY Tuples
  <2>3. "home" = path[1] /\ 2 <= Len(path)
    BY <2>1, <2>2
  <2> QED
    BY <1>1, <2>3 DEF Common
<1>4. ~IsPrefix(<<"run", "agent-boot">>, path)
  <2> SUFFICES ASSUME IsPrefix(<<"run", "agent-boot">>, path) PROVE FALSE
    OBVIOUS
  <2>1. \A one : IsSeq(one) /\ IsPrefix(one, path) /\ Len(one) = 2 =>
          one[1] = path[1] /\ 2 <= Len(path)
    BY <1>1, PrefixWords
  <2>2. IsSeq(<<"run", "agent-boot">>) /\ Len(<<"run", "agent-boot">>) = 2 /\ <<"run", "agent-boot">>[1] = "run"
    BY Tuples
  <2>3. "run" = path[1] /\ 2 <= Len(path)
    BY <2>1, <2>2
  <2> QED
    BY <1>1, <2>3 DEF Common
<1>5. ~IsPrefix(<<"var", "lib", "agent-boot">>, path)
  <2> SUFFICES ASSUME IsPrefix(<<"var", "lib", "agent-boot">>, path) PROVE FALSE
    OBVIOUS
  <2>1. \A one : IsSeq(one) /\ IsPrefix(one, path) /\ Len(one) = 3 =>
          one[1] = path[1] /\ one[3] = path[3] /\ 3 <= Len(path)
    BY <1>1, PrefixWords
  <2>2. /\ IsSeq(<<"var", "lib", "agent-boot">>) /\ Len(<<"var", "lib", "agent-boot">>) = 3
        /\ <<"var", "lib", "agent-boot">>[1] = "var"
        /\ <<"var", "lib", "agent-boot">>[3] = "agent-boot"
    BY Tuples
  <2>3. "var" = path[1] /\ "agent-boot" = path[3] /\ 3 <= Len(path)
    BY <2>1, <2>2
  <2> QED
    BY <1>1, <2>3 DEF Common
<1>6. path # <<"etc", "agent-boot">> /\ path # <<"etc", "agent-boot", "bootstrap-secrets">>
  BY <1>2 DEF Common
<1>7. \A other : IsSeq(other) /\ path = other => IsPrefix(other, path)
  BY PrefixItself
<1>8. /\ path # <<"var", "lib", "agent-boot">> /\ path # <<"run", "agent-boot">>
      /\ path # <<"run", "agent-boot", "prompts">> /\ path # <<"run", "agent-boot", "secrets">>
  BY <1>2 DEF Common
<1>9. path \notin Range(BundlePrivate) /\ path # Etcdir
  BY <1>6, <1>8, SpecialRange, Specials
<1>10. IsSeq(home) /\ \A x : IsSeq(<<x>>)
  BY ShortPaths
<1>11. path # home \o <<".npm">>
  <2>1. home \o <<".npm">> = <<"home", u, ".npm">>
    BY Longer
  <2> QED
    BY <2>1, <1>2 DEF Common
<1>12. Rule(home, path) = Directory("0755", "root")
  BY <1>3, <1>9, <1>11 DEF Rule
<1>13. BundleOwner(path) = "root"
  BY <1>4, <1>5, <1>6, Specials DEF BundleOwner
<1> QED
  BY <1>12, <1>13

LEMMA AdditionAbove ==
  ASSUME NEW path, NEW entry
  PROVE  Addition(path, entry).above = Directory("0755", "root")
BY DEF Addition

LEMMA GroundedIn ==
  ASSUME NEW u, NEW known, NEW addition, addition.above = Directory("0755", "root"),
         \A i \in 1..(Len(addition.path) - 1) :
           Common(SubSeq(addition.path, 1, i)) \/ Under(SubSeq(addition.path, 1, i), known)
  PROVE  Grounded(known, addition, <<"home", u>>)
BY CommonRule DEF Grounded

LEMMA GroundedCommonly ==
  ASSUME NEW u, NEW known, NEW addition, addition.above = Directory("0755", "root"),
         Common(addition.path)
  PROVE  Grounded(known, addition, <<"home", u>>)
<1>1. Len(addition.path) \in Nat
  BY PathFacts DEF Common
<1>2. \A i \in 1..(Len(addition.path) - 1) : i \in 1..Len(addition.path)
  BY <1>1
<1>3. \A i \in 1..(Len(addition.path) - 1) : Common(SubSeq(addition.path, 1, i))
  BY <1>2, CommonAbove
<1> QED
  BY <1>3, GroundedIn

(* Leaves of different groups are at different paths.                      *)
Group(path) ==
  CASE path[1] = "usr" -> "link"
    [] path[1] = "home" -> "home"
    [] path[1] = "opt" ->
         IF path[3] = "assets" THEN "asset" ELSE IF path[3] = "prompts" THEN "prompt" ELSE "program"
    [] path[1] = "etc" /\ path[2] = "agent-boot" ->
         IF path[3] = "bootstrap-secrets" THEN "secret" ELSE "home"
    [] path[1] = "etc" /\ path[2] = "NetworkManager" -> "wifi"
    [] path[1] = "etc" /\ path[2] = "systemd" ->
         IF Len(path) = 4 /\ path[4] = "agent-boot-runner.service" THEN "service" ELSE "unit"
    [] path[1] = "etc" /\ path[2] \in {"hostname", "hosts"} -> "name"
    [] OTHER -> "system"

(* Additions of the core, whose leaves are of these groups.                *)
CoreSet(u, additions, groups) ==
  \A addition \in additions :
    CoreAt(u, addition) /\ (Leaf(addition) => Group(addition.path) \in groups)

(* A list of the core that fits where others of it are, entry by entry.    *)
CoreBlock(u, known, list, group) ==
  /\ IsSeq(list)
  /\ \A i \in DOMAIN list :
       /\ CoreAt(u, list[i]) /\ Ruled(list[i], <<"home", u>>)
       /\ Grounded(Before(known, list, i), list[i], <<"home", u>>)
       /\ Leaf(list[i]) => Group(list[i].path) = group
  /\ \A i, j \in DOMAIN list :
       j < i /\ Leaf(list[i]) /\ Leaf(list[j]) => list[j].path # list[i].path

LEMMA CoreBlockFits ==
  ASSUME NEW u, NEW known, NEW groups, CoreSet(u, known, groups), NEW group, group \notin groups,
         NEW list, CoreBlock(u, known, list, group)
  PROVE  /\ Fits(known, list, <<"home", u>>)
         /\ CoreSet(u, known \cup Range(list), groups \cup {group})
<1>1. /\ Len(list) \in Nat /\ DOMAIN list = 1..Len(list)
      /\ \A x \in Range(list) : \E i \in DOMAIN list : x = list[i]
  BY IndexOf DEF CoreBlock
<1>2. ASSUME NEW i \in DOMAIN list, NEW other \in Before(known, list, i)
      PROVE  Clear(other, list[i])
  <2>1. CASE other \in known
    BY <2>1, CoreClear DEF CoreBlock, CoreSet
  <2>2. CASE other \notin known
    <3>1. PICK j \in 1..(i - 1) : other = list[j]
      BY <2>2 DEF Before
    <3>2. j \in DOMAIN list /\ j < i
      BY <1>1
    <3> QED
      BY <3>1, <3>2, CoreClear DEF CoreBlock
  <2> QED
    BY <2>1, <2>2
<1>3. \A i \in DOMAIN list : FitsAt(Before(known, list, i), list[i], <<"home", u>>)
  BY <1>2 DEF FitsAt, CoreBlock
<1>4. Fits(known, list, <<"home", u>>)
  BY <1>3 DEF Fits, CoreBlock
<1>5. CoreSet(u, known \cup Range(list), groups \cup {group})
  BY <1>1 DEF CoreSet, CoreBlock
<1> QED
  BY <1>4, <1>5

(* The additions that are leaves, and those that are common directories.   *)
LEMMA LeafAddition ==
  ASSUME NEW u, NEW path, LeafWords(u, path), NEW entry, entry.kind # "directory"
  PROVE  LET addition == Addition(path, entry) IN
         /\ addition.path = path /\ addition.above = Directory("0755", "root")
         /\ CoreAt(u, addition) /\ Leaf(addition) /\ Ruled(addition, <<"home", u>>)
<1> DEFINE addition == Addition(path, entry)
<1>1. /\ addition.path = path /\ addition.above = Directory("0755", "root")
      /\ addition.entry = entry
  BY AdditionFields, AdditionAbove
<1>2. IsSeq(path) /\ path # <<>>
  <2>1. Len(<<>>) = 0
    BY EmptySeq
  <2>2. IsSeq(path) /\ Len(path) # 0
    BY DEF LeafWords
  <2> QED
    BY <2>1, <2>2
<1> HIDE DEF addition
<1>3. Leaf(addition)
  BY <1>1 DEF Leaf
<1>4. CoreAt(u, addition) /\ Ruled(addition, <<"home", u>>)
  BY <1>1, <1>2, <1>3 DEF CoreAt, Ruled
<1> QED
  BY <1>1, <1>3, <1>4 DEF addition

LEMMA DirectoryAddition ==
  ASSUME NEW u, NEW path, DirectoryWords(u, path), path # <<>>, NEW mode, NEW owner,
         Rule(<<"home", u>>, path) = Directory(mode, owner)
  PROVE  LET addition == Addition(path, Directory(mode, owner)) IN
         /\ addition.path = path /\ addition.above = Directory("0755", "root")
         /\ CoreAt(u, addition) /\ ~Leaf(addition) /\ Ruled(addition, <<"home", u>>)
<1> DEFINE entry == Directory(mode, owner)
           addition == Addition(path, entry)
<1>1. /\ addition.path = path /\ addition.above = Directory("0755", "root")
      /\ addition.entry = entry /\ entry.kind = "directory"
  BY AdditionFields, AdditionAbove DEF Directory
<1>2. IsSeq(path)
  BY DEF DirectoryWords
<1>3. Rule(<<"home", u>>, path) = entry
  OBVIOUS
<1> HIDE DEF addition, entry
<1>4. ~Leaf(addition)
  BY <1>1 DEF Leaf
<1>5. CoreAt(u, addition) /\ Ruled(addition, <<"home", u>>)
  BY <1>1, <1>2, <1>3, <1>4 DEF CoreAt, Ruled
<1> QED
  BY <1>1, <1>4, <1>5 DEF addition, entry

LEMMA PublicList ==
  BundlePublic =
    <<<<"opt", "agent-boot">>, <<"opt", "agent-boot", "runtime">>,
      <<"opt", "agent-boot", "scripts">>, <<"opt", "agent-boot", "scripts", "bin">>,
      <<"opt", "agent-boot", "scripts", "node_modules">>,
      <<"opt", "agent-boot", "scripts", "node_modules", "@agent-boot">>,
      <<"opt", "agent-boot", "assets">>, <<"opt", "agent-boot", "prompts">>,
      <<"etc", "systemd", "system">>, <<"usr", "local", "sbin">>>>
<1>1. /\ Optdir \o <<"runtime">> = <<"opt", "agent-boot", "runtime">>
      /\ Optdir \o <<"assets">> = <<"opt", "agent-boot", "assets">>
      /\ Optdir \o <<"prompts">> = <<"opt", "agent-boot", "prompts">>
  BY Specials, Longer
<1>2. /\ BundleScripts \o <<"bin">> = <<"opt", "agent-boot", "scripts", "bin">>
      /\ BundleScripts \o <<"node_modules">> = <<"opt", "agent-boot", "scripts", "node_modules">>
      /\ BundleScripts \o <<"node_modules", "@agent-boot">>
           = <<"opt", "agent-boot", "scripts", "node_modules", "@agent-boot">>
  BY Specials, Longer
<1> QED
  BY <1>1, <1>2, Specials DEF BundlePublic

LEMMA PublicWords ==
  /\ DOMAIN BundlePublic = 1..10
  /\ \A u : \A i \in 1..10 :
       DirectoryWords(u, BundlePublic[i]) /\ Common(BundlePublic[i]) /\ BundlePublic[i] # <<>>
<1>1. DOMAIN BundlePublic = 1..10
  BY PublicList
<1>3. Len(<<>>) = 0
  BY EmptySeq
<1> DEFINE Good(u, path) == DirectoryWords(u, path) /\ Common(path) /\ path # <<>>
<1>4. ASSUME NEW u PROVE Good(u, <<"opt", "agent-boot">>)
  BY <1>3, Tuples DEF DirectoryWords, Common
<1>5. \A u : Good(u, <<"opt", "agent-boot", "runtime">>) /\ Good(u, <<"opt", "agent-boot", "scripts">>)
             /\ Good(u, <<"opt", "agent-boot", "assets">>) /\ Good(u, <<"opt", "agent-boot", "prompts">>)
  BY <1>3, Tuples DEF DirectoryWords, Common
<1>6. \A u : Good(u, <<"etc", "systemd", "system">>) /\ Good(u, <<"usr", "local", "sbin">>)
  BY <1>3, Tuples DEF DirectoryWords, Common
<1>7. \A u : /\ Good(u, <<"opt", "agent-boot", "scripts", "bin">>)
             /\ Good(u, <<"opt", "agent-boot", "scripts", "node_modules">>)
             /\ Good(u, <<"opt", "agent-boot", "scripts", "node_modules", "@agent-boot">>)
  BY <1>3, Tuples DEF DirectoryWords, Common
<1> HIDE DEF Good
<1>8. \A u : Good(u, BundlePublic[1]) /\ Good(u, BundlePublic[2]) /\ Good(u, BundlePublic[3])
         /\ Good(u, BundlePublic[4]) /\ Good(u, BundlePublic[5]) /\ Good(u, BundlePublic[6])
         /\ Good(u, BundlePublic[7]) /\ Good(u, BundlePublic[8]) /\ Good(u, BundlePublic[9])
         /\ Good(u, BundlePublic[10])
  BY <1>4, <1>5, <1>6, <1>7, PublicList
<1>9. \A i \in 1..10 : \/ i = 1 \/ i = 2 \/ i = 3 \/ i = 4 \/ i = 5 \/ i = 6 \/ i = 7
                       \/ i = 8 \/ i = 9 \/ i = 10
  OBVIOUS
<1>10. \A u : \A i \in 1..10 : Good(u, BundlePublic[i])
  BY <1>8, <1>9
<1> QED
  BY <1>1, <1>10 DEF Good

LEMMA CutTo ==
  ASSUME NEW path, IsSeq(path), NEW one, IsSeq(one), Len(one) <= Len(path),
         \A k \in 1..Len(one) : one[k] = path[k]
  PROVE  SubSeq(path, 1, Len(one)) = one
<1>1. IsPrefix(one, path)
  BY PrefixMeans
<1> QED
  BY <1>1, PrefixCuts

LEMMA Cuts ==
  /\ \A a, b : SubSeq(<<a, b>>, 1, 1) = <<a>>
  /\ \A a, b, c : SubSeq(<<a, b, c>>, 1, 1) = <<a>> /\ SubSeq(<<a, b, c>>, 1, 2) = <<a, b>>
  /\ \A a, b, c, d : /\ SubSeq(<<a, b, c, d>>, 1, 1) = <<a>>
                     /\ SubSeq(<<a, b, c, d>>, 1, 2) = <<a, b>>
                     /\ SubSeq(<<a, b, c, d>>, 1, 3) = <<a, b, c>>
<1>1. 1..1 = {1} /\ 1..2 = {1, 2} /\ 1..3 = {1, 2, 3}
  OBVIOUS
<1>2. \A path, one : IsSeq(path) /\ IsSeq(one) /\ Len(one) = 1 /\ 1 <= Len(path) /\ one[1] = path[1]
        => SubSeq(path, 1, 1) = one
  BY <1>1, CutTo
<1>3. \A path, one : /\ IsSeq(path) /\ IsSeq(one) /\ Len(one) = 2 /\ 2 <= Len(path)
                     /\ one[1] = path[1] /\ one[2] = path[2]
        => SubSeq(path, 1, 2) = one
  BY <1>1, CutTo
<1>4. \A path, one : /\ IsSeq(path) /\ IsSeq(one) /\ Len(one) = 3 /\ 3 <= Len(path)
                     /\ one[1] = path[1] /\ one[2] = path[2] /\ one[3] = path[3]
        => SubSeq(path, 1, 3) = one
  BY <1>1, CutTo
<1>5. ASSUME NEW a, NEW b
      PROVE  SubSeq(<<a, b>>, 1, 1) = <<a>>
  <2> DEFINE path == <<a, b>>
             one == <<a>>
  <2>1. /\ IsSeq(path) /\ Len(path) = 2 /\ path[1] = a
        /\ IsSeq(one) /\ Len(one) = 1 /\ one[1] = a
    BY Tuples
  <2> HIDE DEF path, one
  <2>2. SubSeq(path, 1, 1) = one
    BY <1>2, <2>1
  <2> QED
    BY <2>2 DEF path, one
<1>6. ASSUME NEW a, NEW b, NEW c
      PROVE  SubSeq(<<a, b, c>>, 1, 1) = <<a>> /\ SubSeq(<<a, b, c>>, 1, 2) = <<a, b>>
  <2> DEFINE path == <<a, b, c>>
             one == <<a>>
             two == <<a, b>>
  <2>1. /\ IsSeq(path) /\ Len(path) = 3 /\ path[1] = a /\ path[2] = b
        /\ IsSeq(one) /\ Len(one) = 1 /\ one[1] = a
        /\ IsSeq(two) /\ Len(two) = 2 /\ two[1] = a /\ two[2] = b
    BY Tuples
  <2> HIDE DEF path, one, two
  <2>2. SubSeq(path, 1, 1) = one
    BY <1>2, <2>1
  <2>3. SubSeq(path, 1, 2) = two
    BY <1>3, <2>1
  <2> QED
    BY <2>2, <2>3 DEF path, one, two
<1>7. ASSUME NEW a, NEW b, NEW c, NEW d
      PROVE  /\ SubSeq(<<a, b, c, d>>, 1, 1) = <<a>>
             /\ SubSeq(<<a, b, c, d>>, 1, 2) = <<a, b>>
             /\ SubSeq(<<a, b, c, d>>, 1, 3) = <<a, b, c>>
  <2> DEFINE path == <<a, b, c, d>>
             one == <<a>>
             two == <<a, b>>
             three == <<a, b, c>>
  <2>1. /\ IsSeq(path) /\ Len(path) = 4 /\ path[1] = a /\ path[2] = b /\ path[3] = c
        /\ IsSeq(one) /\ Len(one) = 1 /\ one[1] = a
        /\ IsSeq(two) /\ Len(two) = 2 /\ two[1] = a /\ two[2] = b
        /\ IsSeq(three) /\ Len(three) = 3 /\ three[1] = a /\ three[2] = b /\ three[3] = c
    BY Tuples
  <2> HIDE DEF path, one, two, three
  <2>2. SubSeq(path, 1, 1) = one
    BY <1>2, <2>1
  <2>3. SubSeq(path, 1, 2) = two
    BY <1>3, <2>1
  <2>4. SubSeq(path, 1, 3) = three
    BY <1>4, <2>1
  <2> QED
    BY <2>2, <2>3, <2>4 DEF path, one, two, three
<1> QED
  BY <1>5, <1>6, <1>7

(* The directories of the bundle that are not root's, and their owners.    *)
LEMMA PrivateWords ==
  ASSUME NEW u
  PROVE  /\ DOMAIN BundlePrivate = 1..5
         /\ \A i \in 1..5 :
              LET path == BundlePrivate[i] IN
              /\ DirectoryWords(u, path) /\ path # <<>> /\ path[1] # "home"
              /\ BundleOwner(path) = "account" /\ path # Etcdir /\ path \in Range(BundlePrivate)
         /\ DirectoryWords(u, Etcdir) /\ BundleOwner(Etcdir) = "group"
<1>1. Len(<<>>) = 0
  BY EmptySeq
<1> DEFINE Good(path) == DirectoryWords(u, path) /\ path # <<>> /\ path[1] # "home"
                         /\ path # Etcdir
<1>2. Good(<<"etc", "agent-boot", "bootstrap-secrets">>)
  BY <1>1, Tuples, Specials DEF DirectoryWords
<1>3. Good(<<"var", "lib", "agent-boot">>)
  BY <1>1, Tuples, Specials DEF DirectoryWords
<1>4. Good(<<"run", "agent-boot">>)
  BY <1>1, Tuples, Specials DEF DirectoryWords
<1>5. Good(<<"run", "agent-boot", "prompts">>) /\ Good(<<"run", "agent-boot", "secrets">>)
  BY <1>1, Tuples, Specials DEF DirectoryWords
<1>6. /\ IsPrefix(<<"run", "agent-boot">>, <<"run", "agent-boot">>)
      /\ IsPrefix(<<"run", "agent-boot">>, <<"run", "agent-boot", "prompts">>)
      /\ IsPrefix(<<"run", "agent-boot">>, <<"run", "agent-boot", "secrets">>)
      /\ IsPrefix(<<"var", "lib", "agent-boot">>, <<"var", "lib", "agent-boot">>)
  <2>1. \A a, b, c : IsPrefix(<<a, b>>, <<a, b, c>>)
    <3>1. 1..2 = {1, 2}
      OBVIOUS
    <3>2. ASSUME NEW a, NEW b, NEW c PROVE IsPrefix(<<a, b>>, <<a, b, c>>)
      <4> DEFINE one == <<a, b>>
                 other == <<a, b, c>>
      <4>1. /\ IsSeq(one) /\ IsSeq(other) /\ Len(one) = 2 /\ Len(other) = 3
            /\ one[1] = other[1] /\ one[2] = other[2]
        BY Tuples
      <4> HIDE DEF one, other
      <4>2. IsPrefix(one, other)
        BY <3>1, <4>1, PrefixMeans
      <4> QED
        BY <4>2 DEF one, other
    <3> QED
      BY <3>2
  <2> QED
    BY <2>1, PrefixItself, Tuples
<1> DEFINE Accounts(path) == BundleOwner(path) = "account"
<1>7. /\ Accounts(<<"etc", "agent-boot", "bootstrap-secrets">>) /\ Accounts(<<"var", "lib", "agent-boot">>)
      /\ Accounts(<<"run", "agent-boot">>)
      /\ Accounts(<<"run", "agent-boot", "prompts">>) /\ Accounts(<<"run", "agent-boot", "secrets">>)
  BY <1>2, <1>3, <1>4, <1>5, <1>6, Specials DEF BundleOwner
<1>8. DirectoryWords(u, Etcdir)
  BY Tuples, Specials DEF DirectoryWords
<1>9. BundleOwner(Etcdir) = "group"
  <2>1. Etcdir # BootstrapSecrets
    BY Tuples, Specials
  <2>2. \A one : IsSeq(one) /\ 1 <= Len(one) /\ IsPrefix(one, Etcdir) => one[1] = Etcdir[1]
    BY Tuples, Specials, PrefixWords
  <2>3. ~IsPrefix(Rundir, Etcdir)
    BY <2>2, Tuples, Specials
  <2>4. ~IsPrefix(<<"var", "lib", "agent-boot">>, Etcdir)
    BY <2>2, Tuples, Specials
  <2> QED
    BY <2>1, <2>3, <2>4 DEF BundleOwner
<1> HIDE DEF Good, Accounts
<1>10. DOMAIN BundlePrivate = 1..5 /\ Range(BundlePrivate) = {BundlePrivate[i] : i \in 1..5}
  BY Specials DEF Range
<1>11. \A i \in 1..5 : i = 1 \/ i = 2 \/ i = 3 \/ i = 4 \/ i = 5
  OBVIOUS
<1>12. /\ Good(BundlePrivate[1]) /\ Accounts(BundlePrivate[1]) /\ Good(BundlePrivate[2])
       /\ Accounts(BundlePrivate[2]) /\ Good(BundlePrivate[3]) /\ Accounts(BundlePrivate[3])
       /\ Good(BundlePrivate[4]) /\ Accounts(BundlePrivate[4]) /\ Good(BundlePrivate[5])
       /\ Accounts(BundlePrivate[5])
  BY <1>2, <1>3, <1>4, <1>5, <1>7, Specials
<1>13. \A i \in 1..5 : Good(BundlePrivate[i]) /\ Accounts(BundlePrivate[i])
                       /\ BundlePrivate[i] \in Range(BundlePrivate)
  BY <1>10, <1>11, <1>12
<1> QED
  BY <1>8, <1>9, <1>10, <1>13 DEF Good, Accounts

LEMMA ProgramWords ==
  ASSUME NEW u
  PROVE  /\ DOMAIN BundleFiles = 1..5
         /\ \A i \in 1..5 : /\ LeafWords(u, BundleFiles[i]) /\ Common(BundleFiles[i])
                            /\ BundleFiles[i][1] = "opt"
                            /\ BundleFiles[i][3] \in {"scripts", "runtime"}
         /\ \A i, j \in 1..5 : j < i => BundleFiles[j] # BundleFiles[i]
<1> DEFINE program(name) == <<"opt", "agent-boot", "scripts", "bin", name>>
           node == <<"opt", "agent-boot", "runtime", "bin", "node">>
           Good(path) == LeafWords(u, path) /\ Common(path) /\ path[1] = "opt"
                         /\ path[3] \in {"scripts", "runtime"}
<1>1. BundleFiles = <<node, program("agent-boot-runner"), program("agent-boot-codex"),
                      program("agent-boot-network"), program("agent-boot-prompt-jobs")>>
  BY Longer, Specials DEF BundleFiles
<1>2. Len(<<>>) = 0
  BY EmptySeq
<1>3. Good(node)
  BY <1>2, Tuples DEF LeafWords, Common
<1>4. ASSUME NEW name PROVE Good(program(name))
  BY <1>2, Tuples DEF LeafWords, Common
<1>5. \A name : program(name)[5] = name /\ program(name)[3] = "scripts" /\ node[3] = "runtime"
  BY Tuples
<1> HIDE DEF node, program, Good
<1>6. \A i \in 1..5 : i = 1 \/ i = 2 \/ i = 3 \/ i = 4 \/ i = 5
  OBVIOUS
<1>7. /\ BundleFiles[1] = node /\ BundleFiles[2] = program("agent-boot-runner")
      /\ BundleFiles[3] = program("agent-boot-codex") /\ BundleFiles[4] = program("agent-boot-network")
      /\ BundleFiles[5] = program("agent-boot-prompt-jobs") /\ DOMAIN BundleFiles = 1..5
  BY <1>1
<1>8. \A i \in 1..5 : Good(BundleFiles[i])
  BY <1>3, <1>4, <1>6, <1>7
<1>9. ASSUME NEW i \in 1..5, NEW j \in 1..5, j < i
      PROVE  BundleFiles[j] # BundleFiles[i]
  BY <1>5, <1>6, <1>7, <1>9
<1> QED
  BY <1>7, <1>8, <1>9 DEF Good

LEMMA LinkWords ==
  ASSUME NEW u
  PROVE  /\ DOMAIN BundleLinks = 1..2
         /\ \A i \in 1..2 : LeafWords(u, BundleLinks[i]) /\ Common(BundleLinks[i])
         /\ \A i, j \in 1..2 : j < i => BundleLinks[j] # BundleLinks[i]
         /\ \A i \in 1..2 : BundleLinks[i][1] = "usr"
         /\ LeafWords(u, ServicePath) /\ Common(ServicePath) /\ ServicePath[1] = "etc"
<1> DEFINE link(name) == <<"usr", "local", "sbin", name>>
           Good(path) == LeafWords(u, path) /\ Common(path)
<1>1. BundleLinks = <<link("agent-boot-network"), link("agent-boot-prompt-jobs")>>
  BY DEF BundleLinks
<1>2. Len(<<>>) = 0
  BY EmptySeq
<1>3. ASSUME NEW name PROVE Good(link(name)) /\ link(name)[4] = name /\ link(name)[1] = "usr"
  BY <1>2, Tuples DEF LeafWords, Common
<1>4. Good(ServicePath) /\ ServicePath[1] = "etc"
  BY <1>2, Tuples DEF LeafWords, Common, ServicePath
<1> HIDE DEF link, Good
<1>5. /\ DOMAIN BundleLinks = 1..2 /\ BundleLinks[1] = link("agent-boot-network")
      /\ BundleLinks[2] = link("agent-boot-prompt-jobs")
  BY <1>1
<1>6. \A i \in 1..2 : i = 1 \/ i = 2
  OBVIOUS
<1>7. \A i \in 1..2 : Good(BundleLinks[i]) /\ BundleLinks[i][1] = "usr"
  BY <1>3, <1>5, <1>6
<1>8. \A i, j \in 1..2 : j < i => BundleLinks[j] # BundleLinks[i]
  BY <1>3, <1>5, <1>6
<1> QED
  BY <1>4, <1>5, <1>7, <1>8 DEF Good

LEMMA NotHome ==
  ASSUME NEW u, NEW path, IsSeq(path), path[1] # "home"
  PROVE  ~IsPrefix(<<"home", u>>, path) /\ path # <<"home", u>> \o <<".npm">>
<1> DEFINE home == <<"home", u>>
           npm == <<"home", u, ".npm">>
<1>1. \A one : IsSeq(one) /\ 1 <= Len(one) /\ IsPrefix(one, path) => one[1] = path[1]
  BY PrefixWords
<1>2. IsSeq(home) /\ Len(home) = 2 /\ home[1] = "home" /\ npm[1] = "home" /\ home \o <<".npm">> = npm
  BY Tuples, Longer
<1> HIDE DEF home, npm
<1>3. ~IsPrefix(home, path) /\ path # home \o <<".npm">>
  BY <1>1, <1>2
<1> QED
  BY <1>3 DEF home

LEMMA PrivateRule ==
  ASSUME NEW u
  PROVE  /\ \A i \in 1..5 :
              Rule(<<"home", u>>, BundlePrivate[i]) = Directory("0700", BundleOwner(BundlePrivate[i]))
         /\ Rule(<<"home", u>>, Etcdir) = Directory("0750", BundleOwner(Etcdir))
<1> DEFINE home == <<"home", u>>
<1>1. ASSUME NEW i \in 1..5
      PROVE  Rule(home, BundlePrivate[i]) = Directory("0700", BundleOwner(BundlePrivate[i]))
  <2> DEFINE path == BundlePrivate[i]
  <2>1. /\ IsSeq(path) /\ path[1] # "home" /\ path # Etcdir /\ path \in Range(BundlePrivate)
        /\ BundleOwner(path) = "account"
    BY PrivateWords DEF DirectoryWords
  <2> HIDE DEF path
  <2>2. ~IsPrefix(home, path) /\ path # home \o <<".npm">>
    BY <2>1, NotHome
  <2> HIDE DEF home
  <2>3. Rule(home, path) = Directory("0700", "account")
    BY <2>1, <2>2 DEF Rule
  <2> QED
    BY <2>1, <2>3 DEF path
<1>2. IsSeq(Etcdir) /\ Etcdir[1] # "home"
  BY Tuples, Specials
<1>3. ~IsPrefix(home, Etcdir) /\ Etcdir # home \o <<".npm">>
  BY <1>2, NotHome
<1>4. BundleOwner(Etcdir) = "group"
  BY PrivateWords
<1>5. Etcdir \notin Range(BundlePrivate)
  <2>1. \A i \in 1..5 : Etcdir # BundlePrivate[i]
    BY PrivateWords
  <2>2. DOMAIN BundlePrivate = 1..5
    BY PrivateWords
  <2> QED
    BY <2>1, <2>2 DEF Range
<1> HIDE DEF home
<1>6. Rule(home, Etcdir) = Directory("0750", "group")
  BY <1>3, <1>5 DEF Rule
<1> QED
  BY <1>1, <1>4, <1>6 DEF home

(* The bundle, one list of entries after the other.                        *)
LEMMA PublicBlock ==
  ASSUME NEW u, NEW known
  PROVE  LET list == [i \in DOMAIN BundlePublic |->
                        Addition(BundlePublic[i], Directory("0755", BundleOwner(BundlePublic[i])))]
         IN CoreBlock(u, known, list, "public")
<1> DEFINE home == <<"home", u>>
           list == [i \in DOMAIN BundlePublic |->
                      Addition(BundlePublic[i], Directory("0755", BundleOwner(BundlePublic[i])))]
<1>1. DOMAIN list = 1..10 /\ list = [i \in 1..10 |-> list[i]]
  BY PublicWords
<1>2. ASSUME NEW i \in 1..10
      PROVE  /\ CoreAt(u, list[i]) /\ ~Leaf(list[i]) /\ Ruled(list[i], home)
             /\ \A some : Grounded(some, list[i], home)
  <2> DEFINE path == BundlePublic[i]
             owner == BundleOwner(path)
  <2>1. DirectoryWords(u, path) /\ Common(path) /\ path # <<>>
    BY PublicWords
  <2>2. list[i] = Addition(path, Directory("0755", owner))
    BY <1>1
  <2> HIDE DEF path, list, home
  <2>3. Rule(<<"home", u>>, path) = Directory("0755", owner)
    BY <2>1, CommonRule
  <2> HIDE DEF owner
  <2>4. /\ list[i].path = path /\ list[i].above = Directory("0755", "root")
        /\ CoreAt(u, list[i]) /\ ~Leaf(list[i]) /\ Ruled(list[i], home)
    BY <2>1, <2>2, <2>3, DirectoryAddition DEF home
  <2> DEFINE addition == list[i]
  <2> HIDE DEF addition
  <2>5. \A some : Grounded(some, addition, home)
    BY <2>1, <2>4, GroundedCommonly DEF home, addition
  <2> QED
    BY <2>4, <2>5 DEF addition
<1> HIDE DEF list
<1>3. IsSeq(list)
  BY <1>1, SeqByIndex
<1>4. CoreBlock(u, known, list, "public")
  BY <1>1, <1>2, <1>3 DEF CoreBlock
<1> QED
  BY <1>4 DEF list

LEMMA EtcBlock ==
  ASSUME NEW u, NEW known
  PROVE  LET list == <<Addition(Etcdir, Directory("0750", BundleOwner(Etcdir)))>>
         IN CoreBlock(u, known, list, "etc")
<1> DEFINE home == <<"home", u>>
           owner == BundleOwner(Etcdir)
           addition == Addition(Etcdir, Directory("0750", owner))
           list == <<addition>>
<1>1. DirectoryWords(u, Etcdir) /\ Rule(home, Etcdir) = Directory("0750", owner)
  BY PrivateWords, PrivateRule
<1>2. Etcdir # <<>> /\ Len(Etcdir) = 2 /\ SubSeq(Etcdir, 1, 1) = <<"etc">> /\ Common(<<"etc">>)
  <2>1. Etcdir = <<"etc", "agent-boot">>
    BY Specials
  <2>2. Len(<<>>) = 0
    BY EmptySeq
  <2>3. Etcdir # <<>> /\ Len(Etcdir) = 2
    BY <2>1, <2>2, Tuples
  <2>4. SubSeq(Etcdir, 1, 1) = <<"etc">>
    BY <2>1, Cuts
  <2>5. Common(<<"etc">>)
    BY <2>2, Tuples DEF Common
  <2> QED
    BY <2>3, <2>4, <2>5
<1> HIDE DEF owner
<1>3. /\ addition.path = Etcdir /\ addition.above = Directory("0755", "root")
      /\ CoreAt(u, addition) /\ ~Leaf(addition) /\ Ruled(addition, home)
  BY <1>1, <1>2, DirectoryAddition
<1> HIDE DEF addition
<1>4. \A some : Grounded(some, addition, home)
  <2>1. \A i \in 1..(2 - 1) : i = 1
    OBVIOUS
  <2>2. \A i \in 1..(Len(addition.path) - 1) : Common(SubSeq(addition.path, 1, i))
    BY <1>2, <1>3, <2>1
  <2> QED
    BY <1>3, <2>2, GroundedIn
<1>5. IsSeq(list) /\ DOMAIN list = 1..1 /\ list[1] = addition
  BY ShortPaths
<1>6. \A i \in 1..1 : i = 1
  OBVIOUS
<1> HIDE DEF list
<1>7. CoreBlock(u, known, list, "etc")
  BY <1>3, <1>4, <1>5, <1>6 DEF CoreBlock
<1> QED
  BY <1>7 DEF list, addition, owner

LEMMA PrivateBlock ==
  ASSUME NEW u, NEW known, Under(Etcdir, known)
  PROVE  LET list == [i \in DOMAIN BundlePrivate |->
                        Addition(BundlePrivate[i], Directory("0700", BundleOwner(BundlePrivate[i])))]
         IN CoreBlock(u, known, list, "private")
<1> DEFINE home == <<"home", u>>
           list == [i \in DOMAIN BundlePrivate |->
                      Addition(BundlePrivate[i], Directory("0700", BundleOwner(BundlePrivate[i])))]
<1>1. DOMAIN list = 1..5 /\ list = [i \in 1..5 |-> list[i]]
  BY PrivateWords
<1>2. ASSUME NEW i \in 1..5
      PROVE  /\ CoreAt(u, list[i]) /\ ~Leaf(list[i]) /\ Ruled(list[i], home)
             /\ list[i].path = BundlePrivate[i] /\ list[i].above = Directory("0755", "root")
  <2> DEFINE path == BundlePrivate[i]
             owner == BundleOwner(path)
  <2>1. DirectoryWords(u, path) /\ path # <<>>
    BY PrivateWords
  <2>2. list[i] = Addition(path, Directory("0700", owner))
    BY <1>1
  <2>3. Rule(<<"home", u>>, path) = Directory("0700", owner)
    BY PrivateRule
  <2> HIDE DEF path, list, home, owner
  <2>4. /\ list[i].path = path /\ list[i].above = Directory("0755", "root")
        /\ CoreAt(u, list[i]) /\ ~Leaf(list[i]) /\ Ruled(list[i], home)
    BY <2>1, <2>2, <2>3, DirectoryAddition DEF home
  <2> QED
    BY <2>4 DEF path
<1> HIDE DEF list
<1>3. IsSeq(list)
  BY <1>1, SeqByIndex
<1> DEFINE Good(i) == \A k \in 1..(Len(BundlePrivate[i]) - 1) :
                        \/ Common(SubSeq(BundlePrivate[i], 1, k))
                        \/ Under(SubSeq(BundlePrivate[i], 1, k), Before(known, list, i))
<1>4. Common(<<"etc">>) /\ Common(<<"var">>) /\ Common(<<"var", "lib">>) /\ Common(<<"run">>)
  <2>1. Len(<<>>) = 0
    BY EmptySeq
  <2> QED
    BY <2>1, Tuples DEF Common
<1>5. (\A k \in 1..(2 - 1) : k = 1) /\ (\A k \in 1..(3 - 1) : k = 1 \/ k = 2)
  OBVIOUS
<1>6. \A i : Under(Etcdir, Before(known, list, i))
  BY DEF Under, Before
<1>7. Good(1)
  <2>1. BundlePrivate[1] = <<"etc", "agent-boot", "bootstrap-secrets">>
    BY Specials
  <2>2. /\ Len(BundlePrivate[1]) = 3 /\ SubSeq(BundlePrivate[1], 1, 1) = <<"etc">>
        /\ SubSeq(BundlePrivate[1], 1, 2) = Etcdir
    BY <2>1, Tuples, Cuts, Specials
  <2> QED
    BY <1>4, <1>5, <1>6, <2>2
<1>8. Good(2)
  <2>1. BundlePrivate[2] = <<"var", "lib", "agent-boot">>
    BY Specials
  <2>2. /\ Len(BundlePrivate[2]) = 3 /\ SubSeq(BundlePrivate[2], 1, 1) = <<"var">>
        /\ SubSeq(BundlePrivate[2], 1, 2) = <<"var", "lib">>
    BY <2>1, Tuples, Cuts
  <2> QED
    BY <1>4, <1>5, <2>2
<1>9. Good(3) /\ BundlePrivate[3] = Rundir /\ IsSeq(Rundir) /\ Rundir # <<>>
  <2>1. BundlePrivate[3] = <<"run", "agent-boot">>
    BY Specials
  <2>2. Len(BundlePrivate[3]) = 2 /\ SubSeq(BundlePrivate[3], 1, 1) = <<"run">>
    BY <2>1, Tuples, Cuts
  <2>3. Rundir = BundlePrivate[3] /\ IsSeq(Rundir) /\ Len(Rundir) = 2 /\ Len(<<>>) = 0
    BY <2>1, Specials, Tuples, EmptySeq
  <2>4. Good(3)
    BY <1>4, <1>5, <2>2
  <2>5. Rundir # <<>>
    BY <2>3
  <2> QED
    BY <2>3, <2>4, <2>5
<1>10. ASSUME NEW i \in 4..5 PROVE Good(i)
  <2>1. PICK name : BundlePrivate[i] = <<"run", "agent-boot", name>>
    <3>1. i = 4 \/ i = 5
      OBVIOUS
    <3> QED
      BY <3>1, Specials
  <2>2. /\ Len(BundlePrivate[i]) = 3 /\ SubSeq(BundlePrivate[i], 1, 1) = <<"run">>
        /\ SubSeq(BundlePrivate[i], 1, 2) = Rundir
    BY <2>1, Tuples, Cuts, Specials
  <2>3. list[3] \in Before(known, list, i)
    <3>1. 3 \in 1..(i - 1)
      OBVIOUS
    <3> QED
      BY <3>1 DEF Before
  <2>4. list[3].path = Rundir
    BY <1>2, <1>9
  <2>5. Under(Rundir, Before(known, list, i))
    BY <1>9, <2>3, <2>4, PrefixItself DEF Under
  <2> QED
    BY <1>4, <1>5, <2>2, <2>5
<1>11. \A i \in 1..5 : Good(i)
  <2>1. \A i \in 1..5 : i = 1 \/ i = 2 \/ i = 3 \/ i \in 4..5
    OBVIOUS
  <2> HIDE DEF Good
  <2> QED
    BY <1>7, <1>8, <1>9, <1>10, <2>1
<1>12. \A i \in 1..5 : Grounded(Before(known, list, i), list[i], home)
  <2> TAKE i \in 1..5
  <2> DEFINE addition == list[i]
             some == Before(known, list, i)
  <2>1. /\ addition.above = Directory("0755", "root")
        /\ \A k \in 1..(Len(addition.path) - 1) :
             Common(SubSeq(addition.path, 1, k)) \/ Under(SubSeq(addition.path, 1, k), some)
    BY <1>2, <1>11
  <2> HIDE DEF addition, some
  <2>2. Grounded(some, addition, home)
    BY <2>1, GroundedIn
  <2> QED
    BY <2>2 DEF addition, some
<1>13. CoreBlock(u, known, list, "private")
  BY <1>1, <1>2, <1>3, <1>12 DEF CoreBlock
<1> QED
  BY <1>13 DEF list

LEMMA CommonLeaves ==
  ASSUME NEW u, NEW known, NEW group, NEW n \in Nat, NEW list, list = [i \in 1..n |-> list[i]],
         \A i \in 1..n : \E path, entry :
           /\ list[i] = Addition(path, entry) /\ entry.kind # "directory"
           /\ LeafWords(u, path) /\ Common(path) /\ Group(path) = group,
         \A i, j \in 1..n : j < i => list[j].path # list[i].path
  PROVE  CoreBlock(u, known, list, group)
<1> DEFINE home == <<"home", u>>
<1>1. ASSUME NEW i \in 1..n
      PROVE  /\ CoreAt(u, list[i]) /\ Ruled(list[i], home) /\ Group(list[i].path) = group
             /\ Grounded(Before(known, list, i), list[i], home)
  <2> DEFINE addition == list[i]
             some == Before(known, list, i)
  <2>1. PICK path, entry :
          /\ addition = Addition(path, entry) /\ entry.kind # "directory"
          /\ LeafWords(u, path) /\ Common(path) /\ Group(path) = group
    OBVIOUS
  <2> HIDE DEF addition, some
  <2>2. /\ addition.path = path /\ addition.above = Directory("0755", "root")
        /\ CoreAt(u, addition) /\ Ruled(addition, home)
    BY <2>1, LeafAddition
  <2>3. Grounded(some, addition, home)
    BY <2>1, <2>2, GroundedCommonly
  <2> QED
    BY <2>1, <2>2, <2>3 DEF addition, some
<1>2. IsSeq(list) /\ DOMAIN list = 1..n
  BY SeqByIndex
<1>3. \A i, j \in DOMAIN list :
        j < i /\ Leaf(list[i]) /\ Leaf(list[j]) => list[j].path # list[i].path
  BY <1>2
<1> QED
  BY <1>1, <1>2, <1>3 DEF CoreBlock

LEMMA ProgramBlock ==
  ASSUME NEW u, NEW known
  PROVE  LET list == [i \in DOMAIN BundleFiles |->
                        Addition(BundleFiles[i], Plain("0755", BundleOwner(BundleFiles[i])))]
         IN CoreBlock(u, known, list, "program")
<1> DEFINE entry(i) == Plain("0755", BundleOwner(BundleFiles[i]))
           list == [i \in DOMAIN BundleFiles |-> Addition(BundleFiles[i], entry(i))]
<1>1. list = [i \in 1..5 |-> list[i]] /\ \A i \in 1..5 : list[i] = Addition(BundleFiles[i], entry(i))
  BY ProgramWords
<1>2. \A i \in 1..5 : entry(i).kind # "directory"
  BY DEF Plain
<1> HIDE DEF list, entry
<1>3. \A i \in 1..5 : list[i].path = BundleFiles[i]
  BY <1>1, AdditionFields
<1>4. \A i \in 1..5 : Group(BundleFiles[i]) = "program"
  <2> TAKE i \in 1..5
  <2>1. BundleFiles[i][1] = "opt" /\ BundleFiles[i][3] \in {"scripts", "runtime"}
    BY ProgramWords
  <2> QED
    BY <2>1 DEF Group
<1>5. \A i, j \in 1..5 : j < i => list[j].path # list[i].path
  BY <1>3, ProgramWords
<1>6. \A i \in 1..5 : LeafWords(u, BundleFiles[i]) /\ Common(BundleFiles[i])
  BY ProgramWords
<1>7. \A i \in 1..5 : \E path, some :
        /\ list[i] = Addition(path, some) /\ some.kind # "directory"
        /\ LeafWords(u, path) /\ Common(path) /\ Group(path) = "program"
  BY <1>1, <1>2, <1>4, <1>6
<1>8. CoreBlock(u, known, list, "program")
  BY <1>1, <1>5, <1>7, CommonLeaves
<1> QED
  BY <1>8 DEF list, entry

LEMMA LinkBlock ==
  ASSUME NEW u, NEW known
  PROVE  LET list == [i \in DOMAIN BundleLinks |-> Addition(BundleLinks[i], Symlink)]
         IN CoreBlock(u, known, list, "link")
<1> DEFINE list == [i \in DOMAIN BundleLinks |-> Addition(BundleLinks[i], Symlink)]
<1>1. /\ list = [i \in 1..2 |-> list[i]]
      /\ \A i \in 1..2 : list[i] = Addition(BundleLinks[i], Symlink)
  BY LinkWords
<1>2. Symlink.kind # "directory"
  BY DEF Symlink
<1> HIDE DEF list
<1>3. \A i \in 1..2 : list[i].path = BundleLinks[i]
  BY <1>1, AdditionFields
<1>4. \A i \in 1..2 : /\ Group(BundleLinks[i]) = "link"
                      /\ LeafWords(u, BundleLinks[i]) /\ Common(BundleLinks[i])
  BY LinkWords DEF Group
<1>5. \A i, j \in 1..2 : j < i => list[j].path # list[i].path
  BY <1>3, LinkWords
<1>6. \A i \in 1..2 : \E path, some :
        /\ list[i] = Addition(path, some) /\ some.kind # "directory"
        /\ LeafWords(u, path) /\ Common(path) /\ Group(path) = "link"
  BY <1>1, <1>2, <1>4
<1>7. CoreBlock(u, known, list, "link")
  BY <1>1, <1>5, <1>6, CommonLeaves
<1> QED
  BY <1>7 DEF list

LEMMA ServiceBlock ==
  ASSUME NEW u, NEW known
  PROVE  LET list == <<Addition(ServicePath, Plain("0644", "root"))>>
         IN CoreBlock(u, known, list, "service")
<1> DEFINE entry == Plain("0644", "root")
           list == <<Addition(ServicePath, entry)>>
<1>1. /\ list = [i \in 1..1 |-> list[i]] /\ \A i \in 1..1 : list[i] = Addition(ServicePath, entry)
  OBVIOUS
<1>2. entry.kind # "directory"
  BY DEF Plain
<1>3. Group(ServicePath) = "service"
  <2>1. /\ Len(ServicePath) = 4 /\ ServicePath[1] = "etc" /\ ServicePath[2] = "systemd"
        /\ ServicePath[4] = "agent-boot-runner.service"
    BY Tuples DEF ServicePath
  <2> QED
    BY <2>1 DEF Group
<1>4. LeafWords(u, ServicePath) /\ Common(ServicePath)
  BY LinkWords
<1>5. \A i, j \in 1..1 : ~(j < i)
  OBVIOUS
<1> HIDE DEF list, entry
<1>6. \A i \in 1..1 : \E path, some :
        /\ list[i] = Addition(path, some) /\ some.kind # "directory"
        /\ LeafWords(u, path) /\ Common(path) /\ Group(path) = "service"
  BY <1>1, <1>2, <1>3, <1>4
<1>7. CoreBlock(u, known, list, "service")
  BY <1>1, <1>5, <1>6, CommonLeaves
<1> QED
  BY <1>7 DEF list, entry

(* More additions only leave less to be made.                              *)
LEMMA UnderMore ==
  ASSUME NEW known, NEW more, known \subseteq more, NEW path, Under(path, known)
  PROVE  Under(path, more)
BY DEF Under

LEMMA GroundedMore ==
  ASSUME NEW known, NEW more, known \subseteq more, NEW addition, NEW home,
         Grounded(known, addition, home)
  PROVE  Grounded(more, addition, home)
BY UnderMore DEF Grounded

LEMMA CoreBlockMore ==
  ASSUME NEW u, NEW known, NEW more, known \subseteq more, NEW list, NEW group,
         CoreBlock(u, known, list, group)
  PROVE  CoreBlock(u, more, list, group)
<1>1. \A i : Before(known, list, i) \subseteq Before(more, list, i)
  BY DEF Before
<1>2. \A i \in DOMAIN list : Grounded(Before(more, list, i), list[i], <<"home", u>>)
  <2> TAKE i \in DOMAIN list
  <2>1. Grounded(Before(known, list, i), list[i], <<"home", u>>)
    BY DEF CoreBlock
  <2> QED
    BY <1>1, <2>1, GroundedMore
<1> QED
  BY <1>2 DEF CoreBlock

(* Such a list fits among others too that it is clear of.                  *)
ClearOf(extras, list) == \A x \in extras : \A i \in DOMAIN list : Clear(x, list[i])

LEMMA FitsAmong ==
  ASSUME NEW known, NEW list, NEW home, Fits(known, list, home),
         NEW extras, ClearOf(extras, list)
  PROVE  Fits(known \cup extras, list, home)
<1> DEFINE more == known \cup extras
<1>1. ASSUME NEW i \in DOMAIN list
      PROVE  FitsAt(Before(more, list, i), list[i], home)
  <2>1. FitsAt(Before(known, list, i), list[i], home)
    BY DEF Fits
  <2>2. Before(more, list, i) = Before(known, list, i) \cup extras
    BY DEF Before
  <2>3. Grounded(Before(more, list, i), list[i], home)
    BY <2>1, <2>2, GroundedMore DEF FitsAt
  <2>4. \A other \in Before(more, list, i) : Clear(other, list[i])
    BY <2>1, <2>2 DEF FitsAt, ClearOf
  <2> QED
    BY <2>1, <2>3, <2>4 DEF FitsAt
<1> QED
  BY <1>1 DEF Fits

(* One block of the core after the others.                                 *)
Chained(u, list, groups) ==
  Fits({}, list, <<"home", u>>) /\ CoreSet(u, Range(list), groups)

LEMMA ChainFirst ==
  ASSUME NEW u, NEW list, NEW group, CoreBlock(u, {}, list, group)
  PROVE  Chained(u, list, {group})
<1>1. CoreSet(u, {}, {}) /\ group \notin {}
  BY DEF CoreSet
<1>2. /\ Fits({}, list, <<"home", u>>)
      /\ CoreSet(u, {} \cup Range(list), {} \cup {group})
  BY <1>1, CoreBlockFits
<1>3. {} \cup Range(list) = Range(list) /\ {} \cup {group} = {group}
  OBVIOUS
<1> QED
  BY <1>2, <1>3 DEF Chained

LEMMA ChainNext ==
  ASSUME NEW u, NEW first, NEW groups, Chained(u, first, groups),
         NEW group, group \notin groups, NEW list, NEW known, known \subseteq Range(first),
         CoreBlock(u, known, list, group)
  PROVE  /\ Chained(u, first \o list, groups \cup {group})
         /\ Range(first \o list) = Range(first) \cup Range(list)
<1> DEFINE home == <<"home", u>>
<1>1. CoreBlock(u, Range(first), list, group)
  BY CoreBlockMore
<1>2. CoreSet(u, Range(first), groups) /\ Fits({}, first, home)
  BY DEF Chained
<1>3. /\ Fits(Range(first), list, home)
      /\ CoreSet(u, Range(first) \cup Range(list), groups \cup {group})
  BY <1>1, <1>2, CoreBlockFits
<1>4. {} \cup Range(first) = Range(first)
  OBVIOUS
<1>5. Fits({} \cup Range(first), list, home)
  BY <1>3, <1>4
<1>6. Fits({}, first \o list, home)
  BY <1>2, <1>5, FitsJoined
<1>7. Range(first \o list) = Range(first) \cup Range(list)
  BY <1>2, <1>3, SeqJoined DEF Fits
<1> QED
  BY <1>3, <1>6, <1>7 DEF Chained

(* The same, of a block that may follow and of the longer list. *)
MayFollow(u, first, groups, list, group) ==
  Chained(u, first, groups) /\ group \notin groups /\ CoreBlock(u, Range(first), list, group)

Extended(u, first, groups, list, group) ==
  /\ Chained(u, first \o list, groups \cup {group})
  /\ Range(first \o list) = Range(first) \cup Range(list)

LEMMA ChainExtended ==
  ASSUME NEW u, NEW first, NEW groups, NEW list, NEW group, MayFollow(u, first, groups, list, group)
  PROVE  Extended(u, first, groups, list, group)
<1>1. /\ Chained(u, first, groups) /\ group \notin groups
      /\ CoreBlock(u, Range(first), list, group) /\ Range(first) \subseteq Range(first)
  BY DEF MayFollow
<1>2. Chained(u, first \o list, groups \cup {group})
  BY ONLY <1>1, ChainNext
<1>3. Range(first \o list) = Range(first) \cup Range(list)
  BY <1>1, SeqJoined DEF Chained, Fits, CoreBlock
<1> QED
  BY <1>2, <1>3 DEF Extended

LEMMA ChainOn ==
  ASSUME NEW u, NEW first, NEW groups, Chained(u, first, groups),
         NEW group, group \notin groups, NEW list, CoreBlock(u, {}, list, group)
  PROVE  Extended(u, first, groups, list, group)
<1>1. CoreBlock(u, Range(first), list, group)
  <2>1. {} \subseteq Range(first)
    OBVIOUS
  <2> QED
    BY <2>1, CoreBlockMore
<1>2. MayFollow(u, first, groups, list, group)
  BY <1>1 DEF MayFollow
<1> QED
  BY <1>2, ChainExtended

BundleGroups == {"public", "etc", "private", "program", "link", "service"}

LEMMA BundleChain ==
  ASSUME NEW u
  PROVE  /\ Chained(u, Bundle, BundleGroups)
         /\ Under(Etcdir, Range(Bundle))
         /\ \A path \in Range(BundlePrivate) : Under(path, Range(Bundle))
<1> DEFINE public == [i \in DOMAIN BundlePublic |->
                        Addition(BundlePublic[i], Directory("0755", BundleOwner(BundlePublic[i])))]
           etc == <<Addition(Etcdir, Directory("0750", BundleOwner(Etcdir)))>>
           private == [i \in DOMAIN BundlePrivate |->
                         Addition(BundlePrivate[i],
                                  Directory("0700", BundleOwner(BundlePrivate[i])))]
           programs == [i \in DOMAIN BundleFiles |->
                          Addition(BundleFiles[i], Plain("0755", BundleOwner(BundleFiles[i])))]
           links == [i \in DOMAIN BundleLinks |-> Addition(BundleLinks[i], Symlink)]
           service == <<Addition(ServicePath, Plain("0644", "root"))>>
<1>1. Bundle = public \o etc \o private \o programs \o links \o service
  BY DEF Bundle
<1>2. CoreBlock(u, {}, public, "public")
  BY PublicBlock
<1>3. CoreBlock(u, {}, etc, "etc")
  BY EtcBlock
<1>4. \A known : Under(Etcdir, known) => CoreBlock(u, known, private, "private")
  BY PrivateBlock
<1>5. CoreBlock(u, {}, programs, "program")
  BY ProgramBlock
<1>6. CoreBlock(u, {}, links, "link")
  BY LinkBlock
<1>7. CoreBlock(u, {}, service, "service")
  BY ServiceBlock
<1>8. \E x \in Range(etc) : x.path = Etcdir
  <2>1. etc[1] \in Range(etc) /\ etc[1].path = Etcdir
    BY AdditionFields DEF Range
  <2> QED
    BY <2>1
<1>9. \A path \in Range(BundlePrivate) : \E x \in Range(private) : x.path = path
  <2>1. DOMAIN BundlePrivate = 1..5
    BY PrivateWords
  <2>2. \A i \in 1..5 : private[i] \in Range(private) /\ private[i].path = BundlePrivate[i]
    BY <2>1, AdditionFields DEF Range
  <2> HIDE DEF private
  <2> QED
    BY <2>1, <2>2 DEF Range
<1> HIDE DEF public, etc, private, programs, links, service
<1>10. /\ IsSeq(Etcdir) /\ Etcdir # <<>>
       /\ \A path \in Range(BundlePrivate) : IsSeq(path) /\ path # <<>>
  <2>1. DOMAIN BundlePrivate = 1..5 /\ \A i \in 1..5 : IsSeq(BundlePrivate[i]) /\ BundlePrivate[i] # <<>>
    BY PrivateWords DEF DirectoryWords
  <2>2. IsSeq(Etcdir) /\ Len(Etcdir) = 2 /\ Len(<<>>) = 0
    BY Specials, Tuples, EmptySeq
  <2>3. Etcdir # <<>>
    BY <2>2
  <2> QED
    BY <2>1, <2>2, <2>3 DEF Range
<1>11. Chained(u, public, {"public"})
  BY <1>2, ChainFirst
<1> DEFINE b == public \o etc
           c == b \o private
           d == c \o programs
           e == d \o links
           f == e \o service
<1>12. Chained(u, b, {"public"} \cup {"etc"}) /\ Range(b) = Range(public) \cup Range(etc)
  <2>1. Chained(u, public, {"public"}) /\ "etc" \notin {"public"} /\ CoreBlock(u, {}, etc, "etc")
    BY <1>3, <1>11
  <2>2. Extended(u, public, {"public"}, etc, "etc")
    BY ONLY <2>1, ChainOn
  <2> QED
    BY ONLY <2>2 DEF Extended
<1> HIDE DEF b
<1>13. Under(Etcdir, Range(b))
  BY <1>8, <1>10, <1>12, PrefixItself DEF Under
<1>14. CoreBlock(u, Range(b), private, "private")
  BY <1>4, <1>13
<1>15. /\ Chained(u, c, ({"public"} \cup {"etc"}) \cup {"private"})
       /\ Range(c) = Range(b) \cup Range(private)
  <2>1. MayFollow(u, b, {"public"} \cup {"etc"}, private, "private")
    BY <1>12, <1>14 DEF MayFollow
  <2>2. Extended(u, b, {"public"} \cup {"etc"}, private, "private")
    BY ONLY <2>1, ChainExtended
  <2> QED
    BY ONLY <2>2 DEF Extended
<1> HIDE DEF c
<1> DEFINE g3 == ({"public"} \cup {"etc"}) \cup {"private"}
<1> DEFINE g4 == g3 \cup {"program"}
           g5 == g4 \cup {"link"}
<1>16. /\ "program" \notin g3 /\ "link" \notin g4 /\ "service" \notin g5
       /\ g5 \cup {"service"} = BundleGroups
  BY DEF BundleGroups
<1> HIDE DEF g3
<1>17. Chained(u, c, g3)
  BY <1>15 DEF g3
<1>18. Chained(u, d, g4) /\ Range(d) = Range(c) \cup Range(programs)
  <2>1. Chained(u, c, g3) /\ "program" \notin g3 /\ CoreBlock(u, {}, programs, "program")
    BY <1>5, <1>16, <1>17
  <2>2. Extended(u, c, g3, programs, "program")
    BY ONLY <2>1, ChainOn
  <2> QED
    BY ONLY <2>2 DEF Extended
<1> HIDE DEF d, g4
<1>19. Chained(u, e, g5) /\ Range(e) = Range(d) \cup Range(links)
  <2>1. Chained(u, d, g4) /\ "link" \notin g4 /\ CoreBlock(u, {}, links, "link")
    BY <1>6, <1>16, <1>18
  <2>2. Extended(u, d, g4, links, "link")
    BY ONLY <2>1, ChainOn
  <2> QED
    BY ONLY <2>2 DEF Extended
<1> HIDE DEF e, g5
<1>20. Chained(u, f, g5 \cup {"service"}) /\ Range(f) = Range(e) \cup Range(service)
  <2>1. Chained(u, e, g5) /\ "service" \notin g5 /\ CoreBlock(u, {}, service, "service")
    BY <1>7, <1>16, <1>19
  <2>2. Extended(u, e, g5, service, "service")
    BY ONLY <2>1, ChainOn
  <2> QED
    BY ONLY <2>2 DEF Extended
<1>21. f = Bundle
  BY <1>1 DEF b, c, d, e
<1> HIDE DEF f
<1>22. Range(etc) \subseteq Range(Bundle) /\ Range(private) \subseteq Range(Bundle)
  BY <1>12, <1>15, <1>18, <1>19, <1>20, <1>21
<1>23. Under(Etcdir, Range(Bundle))
  BY <1>8, <1>10, <1>22, PrefixItself DEF Under
<1>24. \A path \in Range(BundlePrivate) : Under(path, Range(Bundle))
  BY <1>9, <1>10, <1>22, PrefixItself DEF Under
<1> QED
  BY <1>16, <1>20, <1>21, <1>23, <1>24

(* The files and directories of the account.                               *)
LEMMA HomesRule == \A u : Rule(<<"home", u>>, <<"home">>) = Directory("0755", "root")
<1> TAKE u
<1> DEFINE home == <<"home", u>>
           path == <<"home">>
           npm == <<"home", u, ".npm">>
<1>1. /\ IsSeq(home) /\ IsSeq(path) /\ Len(home) = 2 /\ Len(path) = 1 /\ path[1] = "home"
      /\ Len(npm) = 3 /\ npm = home \o <<".npm">>
  BY Tuples, Longer
<1>2. path # Etcdir /\ path \notin Range(BundlePrivate)
  <2>1. Etcdir[1] # "home"
    BY Specials, Tuples
  <2>2. DOMAIN BundlePrivate = 1..5 /\ \A i \in 1..5 : BundlePrivate[i][1] # "home"
    BY PrivateWords
  <2> QED
    BY <1>1, <2>1, <2>2 DEF Range
<1> HIDE DEF home, path, npm
<1>3. ~IsPrefix(home, path) /\ path # home \o <<".npm">>
  BY <1>1, PrefixMeans
<1>4. Rule(home, path) = Directory("0755", "root")
  BY <1>2, <1>3 DEF Rule
<1> QED
  BY <1>4 DEF home, path

LEMMA GroundedHome ==
  ASSUME NEW u, NEW known, NEW addition, addition.above = Directory("0755", "root"),
         \A i \in 1..(Len(addition.path) - 1) :
           \/ Common(SubSeq(addition.path, 1, i)) \/ Under(SubSeq(addition.path, 1, i), known)
           \/ SubSeq(addition.path, 1, i) = <<"home">>
  PROVE  Grounded(known, addition, <<"home", u>>)
BY CommonRule, HomesRule DEF Grounded

LEMMA BelowHome ==
  /\ \A u, a : IsPrefix(<<"home", u>>, <<"home", u, a>>)
  /\ \A u, a, b : IsPrefix(<<"home", u>>, <<"home", u, a, b>>)
  /\ \A u, a, b : IsPrefix(<<"home", u, a>>, <<"home", u, a, b>>)
<1>1. 1..2 = {1, 2} /\ 1..3 = {1, 2, 3}
  OBVIOUS
<1>2. ASSUME NEW u, NEW a
      PROVE  IsPrefix(<<"home", u>>, <<"home", u, a>>)
  <2> DEFINE one == <<"home", u>>
             other == <<"home", u, a>>
  <2>1. /\ IsSeq(one) /\ IsSeq(other) /\ Len(one) = 2 /\ Len(other) = 3
        /\ one[1] = other[1] /\ one[2] = other[2]
    BY Tuples
  <2> HIDE DEF one, other
  <2>2. IsPrefix(one, other)
    BY <1>1, <2>1, PrefixMeans
  <2> QED
    BY <2>2 DEF one, other
<1>3. ASSUME NEW u, NEW a, NEW b
      PROVE  IsPrefix(<<"home", u>>, <<"home", u, a, b>>)
  <2> DEFINE one == <<"home", u>>
             other == <<"home", u, a, b>>
  <2>1. /\ IsSeq(one) /\ IsSeq(other) /\ Len(one) = 2 /\ Len(other) = 4
        /\ one[1] = other[1] /\ one[2] = other[2]
    BY Tuples
  <2> HIDE DEF one, other
  <2>2. IsPrefix(one, other)
    BY <1>1, <2>1, PrefixMeans
  <2> QED
    BY <2>2 DEF one, other
<1>4. ASSUME NEW u, NEW a, NEW b
      PROVE  IsPrefix(<<"home", u, a>>, <<"home", u, a, b>>)
  <2> DEFINE one == <<"home", u, a>>
             other == <<"home", u, a, b>>
  <2>1. /\ IsSeq(one) /\ IsSeq(other) /\ Len(one) = 3 /\ Len(other) = 4
        /\ one[1] = other[1] /\ one[2] = other[2] /\ one[3] = other[3]
    BY Tuples
  <2> HIDE DEF one, other
  <2>2. IsPrefix(one, other)
    BY <1>1, <2>1, PrefixMeans
  <2> QED
    BY <2>2 DEF one, other
<1> QED
  BY <1>2, <1>3, <1>4

LEMMA HomeRule ==
  ASSUME NEW u, NEW path, IsPrefix(<<"home", u>>, path)
  PROVE  /\ path # <<"home", u, ".npm">> => Rule(<<"home", u>>, path) = Directory("0750", "account")
         /\ path = <<"home", u, ".npm">> => Rule(<<"home", u>>, path) = Directory("0700", "account")
<1>1. <<"home", u>> \o <<".npm">> = <<"home", u, ".npm">>
  BY Longer
<1> QED
  BY <1>1 DEF Rule

LEMMA HomeList ==
  ASSUME NEW u
  PROVE  HomeAdditions(<<"home", u>>) =
           <<Addition(<<"home", u>>, Directory("0750", "account")),
             Addition(<<"home", u, "workspace">>, Directory("0750", "account")),
             Addition(<<"home", u, ".local">>, Directory("0750", "account")),
             Addition(<<"home", u, ".local", "bin">>, Directory("0750", "account")),
             Addition(<<"home", u, ".local", "lib">>, Directory("0750", "account")),
             Addition(<<"home", u, ".npm">>, Directory("0700", "account")),
             Addition(<<"home", u, ".profile">>, Plain("0644", "account")),
             Addition(<<"home", u, ".bashrc">>, Plain("0644", "account")),
             Addition(<<"home", u, ".npmrc">>, Plain("0600", "account")),
             Addition(<<"etc", "agent-boot", "manifest.json">>, Plain("0644", "root")),
             Addition(<<"etc", "agent-boot", "plan.json">>, Plain("0644", "root"))>>
<1> DEFINE home == <<"home", u>>
<1>1. /\ \A x : home \o <<x>> = <<"home", u, x>> /\ Etcdir \o <<x>> = <<"etc", "agent-boot", x>>
      /\ \A x, y : home \o <<x, y>> = <<"home", u, x, y>>
  BY Longer, Specials
<1> HIDE DEF home
<1>2. HomeAdditions(home) =
        <<Addition(home, Directory("0750", "account")),
          Addition(home \o <<"workspace">>, Directory("0750", "account")),
          Addition(home \o <<".local">>, Directory("0750", "account")),
          Addition(home \o <<".local", "bin">>, Directory("0750", "account")),
          Addition(home \o <<".local", "lib">>, Directory("0750", "account")),
          Addition(home \o <<".npm">>, Directory("0700", "account")),
          Addition(home \o <<".profile">>, Plain("0644", "account")),
          Addition(home \o <<".bashrc">>, Plain("0644", "account")),
          Addition(home \o <<".npmrc">>, Plain("0600", "account")),
          Addition(Etcdir \o <<"manifest.json">>, Plain("0644", "root")),
          Addition(Etcdir \o <<"plan.json">>, Plain("0644", "root"))>>
  BY DEF HomeAdditions, AccountDirectory
<1>3. home = <<"home", u>>
  BY DEF home
<1> QED
  BY <1>1, <1>2, <1>3

(* One addition of the core among the known ones.                          *)
CoreEntry(u, known, addition, group) ==
  /\ CoreAt(u, addition) /\ Ruled(addition, <<"home", u>>)
  /\ Grounded(known, addition, <<"home", u>>)
  /\ Leaf(addition) => Group(addition.path) = group

LEMMA HomeDirectory ==
  ASSUME NEW u, NEW known, NEW path, DirectoryWords(u, path), Len(path) >= 2,
         NEW mode, Rule(<<"home", u>>, path) = Directory(mode, "account"),
         \A i \in 1..(Len(path) - 1) :
           SubSeq(path, 1, i) = <<"home">> \/ Under(SubSeq(path, 1, i), known)
  PROVE  LET addition == Addition(path, Directory(mode, "account")) IN
         CoreEntry(u, known, addition, "home") /\ ~Leaf(addition)
<1> DEFINE addition == Addition(path, Directory(mode, "account"))
<1>1. path # <<>>
  BY EmptySeq
<1>2. /\ addition.path = path /\ addition.above = Directory("0755", "root")
      /\ CoreAt(u, addition) /\ ~Leaf(addition) /\ Ruled(addition, <<"home", u>>)
  BY <1>1, DirectoryAddition
<1> HIDE DEF addition
<1>3. Grounded(known, addition, <<"home", u>>)
  BY <1>2, GroundedHome
<1>4. CoreEntry(u, known, addition, "home") /\ ~Leaf(addition)
  BY <1>2, <1>3 DEF CoreEntry
<1> QED
  BY <1>4 DEF addition

LEMMA HomeLeaf ==
  ASSUME NEW u, NEW known, NEW path, LeafWords(u, path), NEW entry, entry.kind # "directory",
         NEW group, Group(path) = group,
         \A i \in 1..(Len(path) - 1) :
           \/ Common(SubSeq(path, 1, i)) \/ Under(SubSeq(path, 1, i), known)
           \/ SubSeq(path, 1, i) = <<"home">>
  PROVE  LET addition == Addition(path, entry) IN
         CoreEntry(u, known, addition, group) /\ Leaf(addition) /\ addition.path = path
<1> DEFINE addition == Addition(path, entry)
<1>2. /\ addition.path = path /\ addition.above = Directory("0755", "root")
      /\ CoreAt(u, addition) /\ Leaf(addition) /\ Ruled(addition, <<"home", u>>)
  BY LeafAddition
<1> HIDE DEF addition
<1>3. Grounded(known, addition, <<"home", u>>)
  BY <1>2, GroundedHome
<1>4. CoreEntry(u, known, addition, group)
  BY <1>2, <1>3 DEF CoreEntry
<1> QED
  BY <1>2, <1>4 DEF addition

LEMMA BlockOf ==
  ASSUME NEW u, NEW known, NEW group, NEW n \in Nat, NEW list, list = [i \in 1..n |-> list[i]],
         \A i \in 1..n : CoreEntry(u, Before(known, list, i), list[i], group),
         \A i, j \in 1..n :
           j < i /\ Leaf(list[i]) /\ Leaf(list[j]) => list[j].path # list[i].path
  PROVE  CoreBlock(u, known, list, group)
<1>1. IsSeq(list) /\ DOMAIN list = 1..n
  BY SeqByIndex
<1> QED
  BY <1>1 DEF CoreBlock, CoreEntry

LEMMA HomeBlock ==
  ASSUME NEW u, NEW known, Under(Etcdir, known)
  PROVE  CoreBlock(u, known, HomeAdditions(<<"home", u>>), "home")
<1> DEFINE list == HomeAdditions(<<"home", u>>)
           some(i) == Before(known, list, i)
           home == <<"home", u>>
           local == <<"home", u, ".local">>
           own == Directory("0750", "account")
<1>0. list = <<Addition(home, own), Addition(<<"home", u, "workspace">>, own),
                   Addition(local, own), Addition(<<"home", u, ".local", "bin">>, own),
                   Addition(<<"home", u, ".local", "lib">>, own),
                   Addition(<<"home", u, ".npm">>, Directory("0700", "account")),
                   Addition(<<"home", u, ".profile">>, Plain("0644", "account")),
                   Addition(<<"home", u, ".bashrc">>, Plain("0644", "account")),
                   Addition(<<"home", u, ".npmrc">>, Plain("0600", "account")),
                   Addition(<<"etc", "agent-boot", "manifest.json">>, Plain("0644", "root")),
                   Addition(<<"etc", "agent-boot", "plan.json">>, Plain("0644", "root"))>>
  BY HomeList
<1> HIDE DEF list, home, local, own
<1>1. /\ list[1] = Addition(home, own) /\ list[2] = Addition(<<"home", u, "workspace">>, own)
      /\ list[3] = Addition(local, own)
      /\ list[4] = Addition(<<"home", u, ".local", "bin">>, own)
      /\ list[5] = Addition(<<"home", u, ".local", "lib">>, own)
      /\ list[6] = Addition(<<"home", u, ".npm">>, Directory("0700", "account"))
      /\ list[7] = Addition(<<"home", u, ".profile">>, Plain("0644", "account"))
      /\ list[8] = Addition(<<"home", u, ".bashrc">>, Plain("0644", "account"))
      /\ list[9] = Addition(<<"home", u, ".npmrc">>, Plain("0600", "account"))
      /\ list[10] = Addition(<<"etc", "agent-boot", "manifest.json">>, Plain("0644", "root"))
      /\ list[11] = Addition(<<"etc", "agent-boot", "plan.json">>, Plain("0644", "root"))
      /\ list = [i \in 1..11 |-> list[i]]
  BY <1>0
<1>2. \A mode, owner : Plain(mode, owner).kind # "directory"
  BY DEF Plain
<1>3. list[1].path = home /\ list[3].path = local
  BY <1>1, AdditionFields
<1>4. \A i \in 2..11 : Under(home, some(i))
  <2>1. IsSeq(home) /\ Len(home) = 2 /\ Len(<<>>) = 0
    BY Tuples, EmptySeq DEF home
  <2>2. \A i \in 2..11 : list[1] \in some(i)
    <3>1. \A i \in 2..11 : 1 \in 1..(i - 1)
      OBVIOUS
    <3> QED
      BY <3>1 DEF Before
  <2>3. home # <<>> /\ IsPrefix(home, home)
    BY <2>1, PrefixItself
  <2> HIDE DEF some
  <2> QED
    BY <1>3, <2>1, <2>2, <2>3 DEF Under
<1>5. \A i \in 4..11 : Under(local, some(i))
  <2>1. IsSeq(local) /\ Len(local) = 3 /\ Len(<<>>) = 0
    BY Tuples, EmptySeq DEF local
  <2>2. \A i \in 4..11 : list[3] \in some(i)
    <3>1. \A i \in 4..11 : 3 \in 1..(i - 1)
      OBVIOUS
    <3> QED
      BY <3>1 DEF Before
  <2>3. local # <<>> /\ IsPrefix(local, local)
    BY <2>1, PrefixItself
  <2> HIDE DEF some
  <2> QED
    BY <1>3, <2>1, <2>2, <2>3 DEF Under
<1>6. \A i : Under(Etcdir, some(i))
  BY DEF Under, Before
<1>7. \A k \in 1..(2 - 1) : k = 1
  OBVIOUS
<1>8. \A k \in 1..(3 - 1) : k = 1 \/ k = 2
  OBVIOUS
<1>9. \A k \in 1..(4 - 1) : k = 1 \/ k = 2 \/ k = 3
  OBVIOUS
<1> HIDE DEF some
<1>10. CoreEntry(u, some(1), list[1], "home") /\ ~Leaf(list[1])
  <2> DEFINE path == <<"home", u>>
  <2>1. IsSeq(path) /\ Len(path) = 2 /\ path[1] = "home" /\ path[2] = u
    BY Tuples
  <2>2. SubSeq(path, 1, 1) = <<"home">>
    BY Cuts
  <2>3. path # <<"home", u, ".npm">> /\ IsPrefix(path, path)
    BY <2>1, Tuples, PrefixItself
  <2>4. Rule(<<"home", u>>, path) = Directory("0750", "account")
    BY <2>3, HomeRule
  <2> HIDE DEF path
  <2>5. DirectoryWords(u, path)
    BY <2>1 DEF DirectoryWords
  <2>6. \A k \in 1..(Len(path) - 1) :
          SubSeq(path, 1, k) = <<"home">> \/ Under(SubSeq(path, 1, k), some(1))
    BY <1>7, <2>1, <2>2
  <2>7. list[1] = Addition(path, Directory("0750", "account")) /\ Len(path) >= 2
    BY <1>1, <2>1 DEF path, home, own
  <2>8. LET addition == Addition(path, Directory("0750", "account")) IN
        CoreEntry(u, some(1), addition, "home") /\ ~Leaf(addition)
    BY ONLY <2>4, <2>5, <2>6, <2>7, HomeDirectory
  <2> QED
    BY <2>7, <2>8
<1>11. ASSUME NEW i \in 2..11, NEW name, NEW mode, name \in {"workspace", ".local", ".npm"},
              list[i] = Addition(<<"home", u, name>>, Directory(mode, "account")),
              mode = IF name = ".npm" THEN "0700" ELSE "0750"
       PROVE  CoreEntry(u, some(i), list[i], "home") /\ ~Leaf(list[i])
  <2> DEFINE path == <<"home", u, name>>
  <2>1. /\ IsSeq(path) /\ Len(path) = 3 /\ path[1] = "home" /\ path[2] = u /\ path[3] = name
        /\ <<"home", u, ".npm">>[3] = ".npm"
    BY Tuples
  <2>2. SubSeq(path, 1, 1) = <<"home">> /\ SubSeq(path, 1, 2) = home
    BY Cuts DEF home
  <2>3. IsPrefix(<<"home", u>>, path)
    BY BelowHome
  <2>4. name # ".npm" => path # <<"home", u, ".npm">>
    BY <2>1
  <2>5. Rule(<<"home", u>>, path) = Directory(mode, "account")
    BY <1>11, <2>3, <2>4, HomeRule
  <2> HIDE DEF path
  <2>6. DirectoryWords(u, path)
    BY <1>11, <2>1 DEF DirectoryWords
  <2>7. \A k \in 1..(Len(path) - 1) : SubSeq(path, 1, k) = <<"home">> \/ Under(SubSeq(path, 1, k), some(i))
    BY <1>4, <1>8, <2>1, <2>2
  <2>8. list[i] = Addition(path, Directory(mode, "account")) /\ Len(path) >= 2
    BY <1>11, <2>1 DEF path
  <2>9. LET addition == Addition(path, Directory(mode, "account")) IN
        CoreEntry(u, some(i), addition, "home") /\ ~Leaf(addition)
    BY ONLY <2>5, <2>6, <2>7, <2>8, HomeDirectory
  <2> QED
    BY <2>8, <2>9
<1>12. ASSUME NEW i \in 4..11, NEW name, list[i] = Addition(<<"home", u, ".local", name>>, own)
       PROVE  CoreEntry(u, some(i), list[i], "home") /\ ~Leaf(list[i])
  <2> DEFINE path == <<"home", u, ".local", name>>
  <2>1. /\ IsSeq(path) /\ Len(path) = 4 /\ path[1] = "home" /\ path[2] = u /\ path[3] = ".local"
        /\ Len(<<"home", u, ".npm">>) = 3
    BY Tuples
  <2>2. /\ SubSeq(path, 1, 1) = <<"home">> /\ SubSeq(path, 1, 2) = home
        /\ SubSeq(path, 1, 3) = local
    BY Cuts DEF home, local
  <2>3. IsPrefix(<<"home", u>>, path)
    BY BelowHome
  <2>4. path # <<"home", u, ".npm">>
    BY <2>1
  <2>5. Rule(<<"home", u>>, path) = Directory("0750", "account")
    BY <2>3, <2>4, HomeRule
  <2> HIDE DEF path
  <2>6. DirectoryWords(u, path)
    BY <2>1 DEF DirectoryWords
  <2>7. \A k \in 1..(Len(path) - 1) : SubSeq(path, 1, k) = <<"home">> \/ Under(SubSeq(path, 1, k), some(i))
    <3>1. i \in 2..11
      OBVIOUS
    <3> QED
      BY <1>4, <1>5, <1>9, <2>1, <2>2, <3>1
  <2>8. list[i] = Addition(path, Directory("0750", "account")) /\ Len(path) >= 2
    BY <1>12, <2>1 DEF path, own
  <2>9. LET addition == Addition(path, Directory("0750", "account")) IN
        CoreEntry(u, some(i), addition, "home") /\ ~Leaf(addition)
    BY ONLY <2>5, <2>6, <2>7, <2>8, HomeDirectory
  <2> QED
    BY <2>8, <2>9
<1>13. ASSUME NEW i \in 2..11, NEW name, NEW mode, name \in {".profile", ".bashrc", ".npmrc"},
              list[i] = Addition(<<"home", u, name>>, Plain(mode, "account"))
       PROVE  /\ CoreEntry(u, some(i), list[i], "home") /\ Leaf(list[i])
              /\ list[i].path[1] = "home" /\ list[i].path[3] = name
  <2> DEFINE path == <<"home", u, name>>
             entry == Plain(mode, "account")
  <2>1. /\ IsSeq(path) /\ Len(path) = 3 /\ path[1] = "home" /\ path[2] = u /\ path[3] = name
    BY Tuples
  <2>2. SubSeq(path, 1, 1) = <<"home">> /\ SubSeq(path, 1, 2) = home
    BY Cuts DEF home
  <2>3. list[i] = Addition(path, entry) /\ entry.kind # "directory"
    BY <1>2, <1>13
  <2> HIDE DEF path, entry
  <2>4. LeafWords(u, path) /\ Group(path) = "home"
    BY <1>13, <2>1 DEF LeafWords, Group
  <2>5. \A k \in 1..(Len(path) - 1) : SubSeq(path, 1, k) = <<"home">> \/ Under(SubSeq(path, 1, k), some(i))
    BY <1>4, <1>8, <2>1, <2>2
  <2>6. CoreEntry(u, some(i), list[i], "home") /\ Leaf(list[i]) /\ list[i].path = path
    BY <2>3, <2>4, <2>5, HomeLeaf
  <2> QED
    BY <2>1, <2>6
<1>14. ASSUME NEW i \in 2..11, NEW name, NEW mode, name \in {"manifest.json", "plan.json"},
              list[i] = Addition(<<"etc", "agent-boot", name>>, Plain(mode, "root"))
       PROVE  /\ CoreEntry(u, some(i), list[i], "home") /\ Leaf(list[i])
              /\ list[i].path[1] = "etc" /\ list[i].path[3] = name
  <2> DEFINE path == <<"etc", "agent-boot", name>>
             entry == Plain(mode, "root")
  <2>1. /\ IsSeq(path) /\ Len(path) = 3 /\ path[1] = "etc" /\ path[2] = "agent-boot" /\ path[3] = name
    BY Tuples
  <2>2. SubSeq(path, 1, 1) = <<"etc">> /\ SubSeq(path, 1, 2) = Etcdir
    BY Cuts, Specials
  <2>3. list[i] = Addition(path, entry) /\ entry.kind # "directory"
    BY <1>2, <1>14
  <2> HIDE DEF path, entry
  <2>4. LeafWords(u, path) /\ Group(path) = "home"
    BY <1>14, <2>1 DEF LeafWords, Group
  <2>5. Common(<<"etc">>)
    BY Tuples, EmptySeq DEF Common
  <2>6. \A k \in 1..(Len(path) - 1) :
          \/ Common(SubSeq(path, 1, k)) \/ Under(SubSeq(path, 1, k), some(i))
          \/ SubSeq(path, 1, k) = <<"home">>
    BY <1>6, <1>8, <2>1, <2>2, <2>5
  <2>8. LET addition == Addition(path, entry) IN
        CoreEntry(u, some(i), addition, "home") /\ Leaf(addition) /\ addition.path = path
    BY ONLY <2>3, <2>4, <2>6, HomeLeaf
  <2>7. CoreEntry(u, some(i), list[i], "home") /\ Leaf(list[i]) /\ list[i].path = path
    BY <2>3, <2>8
  <2> QED
    BY <2>1, <2>7
<1>15. /\ CoreEntry(u, some(2), list[2], "home") /\ ~Leaf(list[2])
       /\ CoreEntry(u, some(3), list[3], "home") /\ ~Leaf(list[3])
       /\ CoreEntry(u, some(6), list[6], "home") /\ ~Leaf(list[6])
  <2>1. 2 \in 2..11 /\ 3 \in 2..11 /\ 6 \in 2..11
    OBVIOUS
  <2>2. CoreEntry(u, some(2), list[2], "home") /\ ~Leaf(list[2])
    BY <1>1, <1>11, <2>1 DEF own, local
  <2>3. CoreEntry(u, some(3), list[3], "home") /\ ~Leaf(list[3])
    BY <1>1, <1>11, <2>1 DEF own, local
  <2>4. CoreEntry(u, some(6), list[6], "home") /\ ~Leaf(list[6])
    BY <1>1, <1>11, <2>1 DEF own, local
  <2> QED
    BY <2>2, <2>3, <2>4
<1>16. /\ CoreEntry(u, some(4), list[4], "home") /\ ~Leaf(list[4])
       /\ CoreEntry(u, some(5), list[5], "home") /\ ~Leaf(list[5])
  <2>1. 4 \in 4..11 /\ 5 \in 4..11
    OBVIOUS
  <2> QED
    BY <1>1, <1>12, <2>1
<1>17. /\ CoreEntry(u, some(7), list[7], "home") /\ Leaf(list[7])
       /\ list[7].path[1] = "home" /\ list[7].path[3] = ".profile"
       /\ CoreEntry(u, some(8), list[8], "home") /\ Leaf(list[8])
       /\ list[8].path[1] = "home" /\ list[8].path[3] = ".bashrc"
       /\ CoreEntry(u, some(9), list[9], "home") /\ Leaf(list[9])
       /\ list[9].path[1] = "home" /\ list[9].path[3] = ".npmrc"
  <2>1. 7 \in 2..11 /\ 8 \in 2..11 /\ 9 \in 2..11
    OBVIOUS
  <2> QED
    BY <1>1, <1>13, <2>1
<1>18. /\ CoreEntry(u, some(10), list[10], "home") /\ Leaf(list[10])
       /\ list[10].path[1] = "etc" /\ list[10].path[3] = "manifest.json"
       /\ CoreEntry(u, some(11), list[11], "home") /\ Leaf(list[11])
       /\ list[11].path[1] = "etc" /\ list[11].path[3] = "plan.json"
  <2>1. 10 \in 2..11 /\ 11 \in 2..11
    OBVIOUS
  <2> QED
    BY <1>1, <1>14, <2>1
<1>19. \A i \in 1..11 : \/ i = 1 \/ i = 2 \/ i = 3 \/ i = 4 \/ i = 5 \/ i = 6
                        \/ i = 7 \/ i = 8 \/ i = 9 \/ i = 10 \/ i = 11
  OBVIOUS
<1>20. \A i \in 1..11 : CoreEntry(u, Before(known, list, i), list[i], "home")
  BY <1>10, <1>15, <1>16, <1>17, <1>18, <1>19 DEF some
<1>21. \A i, j \in 1..11 :
         j < i /\ Leaf(list[i]) /\ Leaf(list[j]) => list[j].path # list[i].path
  <2>1. \A i \in 1..11 : Leaf(list[i]) => i \in {7, 8, 9, 10, 11}
    BY <1>10, <1>15, <1>16, <1>19
  <2>2. \A i, j \in {7, 8, 9, 10, 11} : i # j => list[j].path # list[i].path
    BY <1>17, <1>18
  <2> QED
    BY <2>1, <2>2
<1>22. CoreBlock(u, known, list, "home")
  BY <1>1, <1>20, <1>21, BlockOf
<1> QED
  BY <1>22 DEF list

(* The prompts, the assets where the assembly has them, and the secrets.   *)
LEMMA PromptBlock ==
  ASSUME NEW u, NEW n \in Nat, NEW prompts, DOMAIN prompts = 1..n,
         \A i \in 1..n : prompts[i].path = PromptPath(prompts[i].id),
         \A i, j \in 1..n : prompts[i].id = prompts[j].id => i = j
  PROVE  LET list == [i \in DOMAIN prompts |->
                        Addition(Optdir \o prompts[i].path, Plain("0644", "root"))]
         IN CoreBlock(u, {}, list, "prompt")
<1> DEFINE entry == Plain("0644", "root")
           list == [i \in DOMAIN prompts |-> Addition(Optdir \o prompts[i].path, entry)]
           path(i) == <<"opt", "agent-boot", "prompts", prompts[i].id>>
<1>1. \A i \in 1..n : Optdir \o prompts[i].path = path(i)
  <2> TAKE i \in 1..n
  <2>1. prompts[i].path = <<"prompts", prompts[i].id>>
    BY DEF PromptPath
  <2>2. \A a, b, c, d : <<a, b>> \o <<c, d>> = <<a, b, c, d>>
    BY Longer
  <2>3. Optdir = <<"opt", "agent-boot">>
    BY Specials
  <2> QED
    BY ONLY <2>1, <2>2, <2>3
<1>2. /\ list = [i \in 1..n |-> list[i]]
      /\ \A i \in 1..n : list[i] = Addition(path(i), entry)
  BY <1>1
<1>3. entry.kind # "directory"
  BY DEF Plain
<1>4. ASSUME NEW i \in 1..n
      PROVE  /\ LeafWords(u, path(i)) /\ Common(path(i)) /\ Group(path(i)) = "prompt"
             /\ path(i)[4] = prompts[i].id
  <2> DEFINE here == path(i)
  <2>1. /\ IsSeq(here) /\ Len(here) = 4 /\ here[1] = "opt" /\ here[2] = "agent-boot"
        /\ here[3] = "prompts" /\ here[4] = prompts[i].id
    BY Tuples
  <2>2. Len(<<>>) = 0
    BY EmptySeq
  <2> HIDE DEF here
  <2>3. LeafWords(u, here) /\ Common(here) /\ Group(here) = "prompt"
    BY <2>1, <2>2 DEF LeafWords, Common, Group
  <2> QED
    BY <2>1, <2>3 DEF here
<1> HIDE DEF list, entry, path
<1>5. \A i \in 1..n : list[i].path = path(i)
  BY <1>2, AdditionFields
<1>6. \A i, j \in 1..n : j < i => list[j].path # list[i].path
  BY <1>4, <1>5
<1>7. \A i \in 1..n : \E one, some :
        /\ list[i] = Addition(one, some) /\ some.kind # "directory"
        /\ LeafWords(u, one) /\ Common(one) /\ Group(one) = "prompt"
  BY <1>2, <1>3, <1>4
<1>8. CoreBlock(u, {}, list, "prompt")
  BY <1>2, <1>6, <1>7, CommonLeaves
<1> QED
  BY <1>8 DEF list, entry

LieOf(resource) == Addition(Optdir \o resource.path, Plain(AssetMode(resource.path), "root"))

LEMMA LieBlock ==
  ASSUME NEW u, NEW n \in Nat, NEW assets,
         \A i \in 1..n : \E b, c : assets[i].path = <<"assets", b, c>>,
         \A i, j \in 1..n : assets[i].path = assets[j].path => i = j
  PROVE  LET list == [i \in 1..n |-> LieOf(assets[i])] IN
         CoreBlock(u, {}, list, "asset") /\ \A i \in 1..n : Leaf(list[i])
<1> DEFINE list == [i \in 1..n |-> LieOf(assets[i])]
<1>1. list = [i \in 1..n |-> list[i]] /\ \A i \in 1..n : list[i] = LieOf(assets[i])
  OBVIOUS
<1> HIDE DEF list
<1>2. ASSUME NEW i \in 1..n
      PROVE  \E b, c : /\ assets[i].path = <<"assets", b, c>>
                       /\ LieOf(assets[i]).path = <<"opt", "agent-boot", "assets", b, c>>
  <2>1. PICK b, c : assets[i].path = <<"assets", b, c>>
    OBVIOUS
  <2>2. Optdir \o assets[i].path = <<"opt", "agent-boot", "assets", b, c>>
    BY <2>1, Longer, Specials
  <2>3. LieOf(assets[i]).path = Optdir \o assets[i].path
    BY AdditionFields DEF LieOf
  <2> QED
    BY ONLY <2>1, <2>2, <2>3
<1>3. \A i, j \in 1..n : j < i => list[j].path # list[i].path
  <2>1. ASSUME NEW i \in 1..n, NEW j \in 1..n, list[j].path = list[i].path
        PROVE  i = j
    <3>1. PICK b, c : /\ assets[i].path = <<"assets", b, c>>
                      /\ LieOf(assets[i]).path = <<"opt", "agent-boot", "assets", b, c>>
      BY <1>2
    <3>2. PICK d, e : /\ assets[j].path = <<"assets", d, e>>
                      /\ LieOf(assets[j]).path = <<"opt", "agent-boot", "assets", d, e>>
      BY <1>2
    <3>3. <<"opt", "agent-boot", "assets", d, e>> = <<"opt", "agent-boot", "assets", b, c>>
      BY <1>1, <2>1, <3>1, <3>2
    <3>4. d = b /\ e = c
      BY <3>3
    <3> QED
      BY <3>1, <3>2, <3>4
  <2> QED
    BY <2>1
<1>4. ASSUME NEW i \in 1..n
      PROVE  \E path, entry :
               /\ list[i] = Addition(path, entry) /\ entry.kind # "directory"
               /\ LeafWords(u, path) /\ Common(path) /\ Group(path) = "asset"
  <2> DEFINE entry == Plain(AssetMode(assets[i].path), "root")
             path == Optdir \o assets[i].path
  <2>1. list[i] = Addition(path, entry) /\ entry.kind # "directory" /\ LieOf(assets[i]).path = path
    BY <1>1, AdditionFields DEF LieOf, Plain
  <2> HIDE DEF entry, path
  <2>2. PICK b, c : path = <<"opt", "agent-boot", "assets", b, c>>
    BY <1>2, <2>1
  <2>3. /\ IsSeq(path) /\ Len(path) = 5 /\ path[1] = "opt" /\ path[2] = "agent-boot"
        /\ path[3] = "assets"
    BY <2>2, Tuples
  <2>4. Len(<<>>) = 0
    BY EmptySeq
  <2>5. LeafWords(u, path) /\ Common(path) /\ Group(path) = "asset"
    BY <2>3, <2>4 DEF LeafWords, Common, Group
  <2> QED
    BY <2>1, <2>5
<1>5. CoreBlock(u, {}, list, "asset")
  <2>1. \A i \in 1..n : \E path, entry :
          /\ list[i] = Addition(path, entry) /\ entry.kind # "directory"
          /\ LeafWords(u, path) /\ Common(path) /\ Group(path) = "asset"
    BY <1>4
  <2> QED
    BY <1>1, <1>3, <2>1, CommonLeaves
<1>6. \A i \in 1..n : Leaf(list[i])
  BY <1>4, AdditionFields DEF Leaf
<1> QED
  BY <1>5, <1>6 DEF list

LEMMA SecretBlock ==
  ASSUME NEW u, NEW known, Under(Etcdir, known), Under(BootstrapSecrets, known),
         NEW n \in Nat, NEW secrets, DOMAIN secrets = 1..n,
         \A i, j \in 1..n : secrets[i] = secrets[j] => i = j
  PROVE  LET list == [i \in DOMAIN secrets |->
                        Addition(BootstrapSecrets \o <<secrets[i]>>, Plain("0600", "account"))]
         IN CoreBlock(u, known, list, "secret")
<1> DEFINE entry == Plain("0600", "account")
           list == [i \in DOMAIN secrets |-> Addition(BootstrapSecrets \o <<secrets[i]>>, entry)]
           path(i) == <<"etc", "agent-boot", "bootstrap-secrets", secrets[i]>>
<1>1. \A i \in 1..n : BootstrapSecrets \o <<secrets[i]>> = path(i)
  BY Longer, Specials
<1>2. /\ list = [i \in 1..n |-> list[i]]
      /\ \A i \in 1..n : list[i] = Addition(path(i), entry)
  BY <1>1
<1>3. entry.kind # "directory"
  BY DEF Plain
<1> HIDE DEF list, entry
<1>4. ASSUME NEW i \in 1..n
      PROVE  /\ CoreEntry(u, Before(known, list, i), list[i], "secret")
             /\ list[i].path = path(i) /\ path(i)[4] = secrets[i]
  <2> DEFINE here == path(i)
             some == Before(known, list, i)
  <2>1. /\ IsSeq(here) /\ Len(here) = 4 /\ here[1] = "etc" /\ here[2] = "agent-boot"
        /\ here[3] = "bootstrap-secrets" /\ here[4] = secrets[i]
    BY Tuples
  <2>2. /\ SubSeq(here, 1, 1) = <<"etc">> /\ SubSeq(here, 1, 2) = Etcdir
        /\ SubSeq(here, 1, 3) = BootstrapSecrets
    BY Cuts, Specials
  <2>3. Under(Etcdir, some) /\ Under(BootstrapSecrets, some)
    BY DEF Under, Before
  <2>4. Common(<<"etc">>)
    BY Tuples, EmptySeq DEF Common
  <2>5. \A k \in 1..(4 - 1) : k = 1 \/ k = 2 \/ k = 3
    OBVIOUS
  <2>6. list[i] = Addition(here, entry)
    BY <1>2
  <2> HIDE DEF here, some
  <2>7. LeafWords(u, here) /\ Group(here) = "secret"
    BY <2>1 DEF LeafWords, Group
  <2>8. \A k \in 1..(Len(here) - 1) :
          \/ Common(SubSeq(here, 1, k)) \/ Under(SubSeq(here, 1, k), some)
          \/ SubSeq(here, 1, k) = <<"home">>
    BY <2>1, <2>2, <2>3, <2>4, <2>5
  <2>9. LET addition == Addition(here, entry) IN
        CoreEntry(u, some, addition, "secret") /\ Leaf(addition) /\ addition.path = here
    BY ONLY <1>3, <2>7, <2>8, HomeLeaf
  <2> QED
    BY <2>1, <2>6, <2>9 DEF here, some
<1> HIDE DEF path
<1>5. \A i, j \in 1..n : j < i => list[j].path # list[i].path
  BY <1>4
<1>6. CoreBlock(u, known, list, "secret")
  BY <1>2, <1>4, <1>5, BlockOf
<1> QED
  BY <1>6 DEF list, entry

LEMMA AgainBlock ==
  ASSUME NEW u, NEW known, Under(Etcdir, known)
  PROVE  CoreBlock(u, known, <<AccountDirectory(BootstrapSecrets, "0700")>>, "again")
<1> DEFINE home == <<"home", u>>
           path == BootstrapSecrets
           addition == Addition(path, Directory("0700", "account"))
           list == <<AccountDirectory(path, "0700")>>
<1>1. path = BundlePrivate[1] /\ path = <<"etc", "agent-boot", "bootstrap-secrets">>
  BY Specials
<1>2. /\ DirectoryWords(u, path) /\ path # <<>>
      /\ Rule(home, path) = Directory("0700", "account")
  <2>1. 1 \in 1..5
    OBVIOUS
  <2> QED
    BY <1>1, <2>1, PrivateWords, PrivateRule
<1>3. /\ Len(path) = 3 /\ SubSeq(path, 1, 1) = <<"etc">> /\ SubSeq(path, 1, 2) = Etcdir
  BY <1>1, Tuples, Cuts, Specials
<1> HIDE DEF path
<1>4. /\ addition.path = path /\ addition.above = Directory("0755", "root")
      /\ CoreAt(u, addition) /\ ~Leaf(addition) /\ Ruled(addition, home)
  BY <1>2, DirectoryAddition
<1>5. list = [i \in 1..1 |-> list[i]] /\ list[1] = addition
  BY DEF AccountDirectory
<1> HIDE DEF addition, list
<1>6. Grounded(Before(known, list, 1), addition, home)
  <2>1. Under(Etcdir, Before(known, list, 1))
    BY DEF Under, Before
  <2>2. Common(<<"etc">>)
    BY Tuples, EmptySeq DEF Common
  <2>3. \A k \in 1..(3 - 1) : k = 1 \/ k = 2
    OBVIOUS
  <2>4. \A k \in 1..(Len(addition.path) - 1) :
          \/ Common(SubSeq(addition.path, 1, k))
          \/ Under(SubSeq(addition.path, 1, k), Before(known, list, 1))
    BY <1>3, <1>4, <2>1, <2>2, <2>3
  <2> QED
    BY <1>4, <2>4, GroundedIn
<1>7. CoreEntry(u, Before(known, list, 1), list[1], "again") /\ ~Leaf(list[1])
  BY <1>4, <1>5, <1>6 DEF CoreEntry
<1>8. \A i \in 1..1 : i = 1
  OBVIOUS
<1>9. CoreBlock(u, known, list, "again")
  <2>1. \A i \in 1..1 : CoreEntry(u, Before(known, list, i), list[i], "again")
    BY <1>7, <1>8
  <2>2. \A i, j \in 1..1 :
          j < i /\ Leaf(list[i]) /\ Leaf(list[j]) => list[j].path # list[i].path
    BY <1>8
  <2> QED
    BY <1>5, <2>1, <2>2, BlockOf
<1> QED
  BY <1>9 DEF list, path

(* The system's own settings.                                              *)
GoodLeaf(u, addition, group) ==
  \E path, entry :
    /\ addition = Addition(path, entry) /\ entry.kind # "directory"
    /\ LeafWords(u, path) /\ Common(path) /\ Group(path) = group

LEMMA NoBlock == \A u, known, group : CoreBlock(u, known, <<>>, group)
<1>1. IsSeq(<<>>) /\ DOMAIN <<>> = {}
  BY NothingPlanable DEF Planable
<1> QED
  BY <1>1 DEF CoreBlock

LEMMA ListedLeaves ==
  /\ \A u, known, group, a : GoodLeaf(u, a, group) => CoreBlock(u, known, <<a>>, group)
  /\ \A u, known, group, a, b :
       GoodLeaf(u, a, group) /\ GoodLeaf(u, b, group) /\ a.path # b.path =>
         CoreBlock(u, known, <<a, b>>, group)
  /\ \A u, known, group, a, b, c, d :
       (/\ GoodLeaf(u, a, group) /\ GoodLeaf(u, b, group)
        /\ GoodLeaf(u, c, group) /\ GoodLeaf(u, d, group)
        /\ a.path # b.path /\ a.path # c.path /\ a.path # d.path
        /\ b.path # c.path /\ b.path # d.path /\ c.path # d.path)
       => CoreBlock(u, known, <<a, b, c, d>>, group)
<1>1. ASSUME NEW u, NEW known, NEW group, NEW n \in Nat, NEW list, list = [i \in 1..n |-> list[i]],
             \A i \in 1..n : GoodLeaf(u, list[i], group),
             \A i, j \in 1..n : j < i => list[j].path # list[i].path
      PROVE  CoreBlock(u, known, list, group)
  BY <1>1, CommonLeaves DEF GoodLeaf
<1>2. ASSUME NEW u, NEW known, NEW group, NEW a, GoodLeaf(u, a, group)
      PROVE  CoreBlock(u, known, <<a>>, group)
  <2> DEFINE list == <<a>>
  <2>1. list = [i \in 1..1 |-> list[i]] /\ list[1] = a
    OBVIOUS
  <2>2. (\A i \in 1..1 : i = 1) /\ \A i, j \in 1..1 : ~(j < i)
    OBVIOUS
  <2> HIDE DEF list
  <2>3. CoreBlock(u, known, list, group)
    BY <1>1, <1>2, <2>1, <2>2
  <2> QED
    BY <2>3 DEF list
<1>3. ASSUME NEW u, NEW known, NEW group, NEW a, NEW b, GoodLeaf(u, a, group),
             GoodLeaf(u, b, group), a.path # b.path
      PROVE  CoreBlock(u, known, <<a, b>>, group)
  <2> DEFINE list == <<a, b>>
  <2>1. list = [i \in 1..2 |-> list[i]] /\ list[1] = a /\ list[2] = b
    OBVIOUS
  <2>2. (\A i \in 1..2 : i = 1 \/ i = 2) /\ \A i, j \in 1..2 : j < i => j = 1 /\ i = 2
    OBVIOUS
  <2> HIDE DEF list
  <2>3. CoreBlock(u, known, list, group)
    BY <1>1, <1>3, <2>1, <2>2
  <2> QED
    BY <2>3 DEF list
<1>4. ASSUME NEW u, NEW known, NEW group, NEW a, NEW b, NEW c, NEW d,
             GoodLeaf(u, a, group), GoodLeaf(u, b, group),
             GoodLeaf(u, c, group), GoodLeaf(u, d, group),
             a.path # b.path, a.path # c.path, a.path # d.path,
             b.path # c.path, b.path # d.path, c.path # d.path
      PROVE  CoreBlock(u, known, <<a, b, c, d>>, group)
  <2> DEFINE list == <<a, b, c, d>>
  <2>1. /\ list = [i \in 1..4 |-> list[i]]
        /\ list[1] = a /\ list[2] = b /\ list[3] = c /\ list[4] = d
    OBVIOUS
  <2>2. \A i \in 1..4 : i = 1 \/ i = 2 \/ i = 3 \/ i = 4
    OBVIOUS
  <2> HIDE DEF list
  <2>3. \A i \in 1..4 : GoodLeaf(u, list[i], group)
    BY <1>4, <2>1, <2>2
  <2>4. \A i, j \in 1..4 : j < i => list[j].path # list[i].path
    BY <1>4, <2>1, <2>2
  <2>5. 4 \in Nat
    OBVIOUS
  <2>6. CoreBlock(u, known, list, group)
    BY <1>1, <2>1, <2>3, <2>4, <2>5
  <2> QED
    BY <2>6 DEF list
<1>5. \A u, known, group, a : GoodLeaf(u, a, group) => CoreBlock(u, known, <<a>>, group)
  BY <1>2
<1>6. \A u, known, group, a, b :
        GoodLeaf(u, a, group) /\ GoodLeaf(u, b, group) /\ a.path # b.path =>
          CoreBlock(u, known, <<a, b>>, group)
  BY <1>3
<1>7. \A u, known, group, a, b, c, d :
        (/\ GoodLeaf(u, a, group) /\ GoodLeaf(u, b, group)
         /\ GoodLeaf(u, c, group) /\ GoodLeaf(u, d, group)
         /\ a.path # b.path /\ a.path # c.path /\ a.path # d.path
         /\ b.path # c.path /\ b.path # d.path /\ c.path # d.path)
        => CoreBlock(u, known, <<a, b, c, d>>, group)
  <2> SUFFICES ASSUME NEW u, NEW known, NEW group, NEW a, NEW b, NEW c, NEW d,
                      GoodLeaf(u, a, group), GoodLeaf(u, b, group),
                      GoodLeaf(u, c, group), GoodLeaf(u, d, group),
                      a.path # b.path, a.path # c.path, a.path # d.path,
                      b.path # c.path, b.path # d.path, c.path # d.path
               PROVE  CoreBlock(u, known, <<a, b, c, d>>, group)
    OBVIOUS
  <2> QED
    BY <1>4
<1> QED
  BY ONLY <1>5, <1>6, <1>7

LEMMA LeafOf ==
  ASSUME NEW u, NEW path, LeafWords(u, path), Common(path), NEW entry, entry.kind # "directory",
         NEW group, Group(path) = group
  PROVE  GoodLeaf(u, Addition(path, entry), group) /\ Addition(path, entry).path = path
BY AdditionFields DEF GoodLeaf

SystemGroups == {"system", "wifi", "unit", "name"}

(* A list of the core that fits where the known additions are.             *)
Follows(u, known, list, groups) ==
  Fits(known, list, <<"home", u>>) /\ CoreSet(u, known \cup Range(list), groups)

LEMMA FollowsFirst ==
  ASSUME NEW u, NEW known, NEW groups, CoreSet(u, known, groups),
         NEW group, group \notin groups, NEW list, CoreBlock(u, known, list, group)
  PROVE  Follows(u, known, list, groups \cup {group})
BY CoreBlockFits DEF Follows

LEMMA FollowsNext ==
  ASSUME NEW u, NEW known, NEW groups, NEW first, Follows(u, known, first, groups),
         NEW group, group \notin groups, NEW list,
         CoreBlock(u, known \cup Range(first), list, group)
  PROVE  Follows(u, known, first \o list, groups \cup {group})
<1> DEFINE home == <<"home", u>>
           all == known \cup Range(first)
<1>1. Fits(known, first, home) /\ CoreSet(u, all, groups)
  BY DEF Follows
<1>2. CoreBlock(u, all, list, group)
  OBVIOUS
<1> HIDE DEF home, all
<1>3. Fits(all, list, home) /\ CoreSet(u, all \cup Range(list), groups \cup {group})
  BY <1>1, <1>2, CoreBlockFits DEF home
<1>4. Fits(known, first \o list, home)
  BY <1>1, <1>3, FitsJoined DEF all
<1>5. Range(first \o list) = Range(first) \cup Range(list)
  BY <1>1, <1>3, SeqJoined DEF Fits
<1>6. all \cup Range(list) = known \cup Range(first \o list)
  BY <1>5 DEF all
<1> QED
  BY <1>3, <1>4, <1>6 DEF Follows, home

LEMMA SystemFollows ==
  ASSUME NEW u, NEW manifest, NEW known, NEW groups, CoreSet(u, known, groups),
         groups \cap SystemGroups = {}
  PROVE  Follows(u, known, SystemAdditions(manifest), groups \cup SystemGroups)
<1> DEFINE RootFile(path) == Addition(path, Plain("0644", "root"))
           sshPath == <<"etc", "ssh", "sshd_config.d", "20-agent-boot.conf">>
           sudoersPath == <<"etc", "sudoers.d", "90-agent-boot-unattended">>
           fstabPath == <<"etc", "fstab">>
           managerPath == <<"var", "lib", "NetworkManager", "NetworkManager.state">>
           wifiPath == <<"etc", "NetworkManager", "system-connections",
                         "agent-boot-wifi.nmconnection">>
           journalPath == <<"etc", "systemd", "journald.conf.d", "20-agent-boot.conf">>
           firstPath == <<"etc", "systemd", "system", "getty@tty1.service">>
           secondPath == <<"etc", "systemd", "system", "getty.target.wants",
                           "getty@tty2.service">>
           runnerPath == <<"etc", "systemd", "system", "multi-user.target.wants",
                           "agent-boot-runner.service">>
           hostnamePath == <<"etc", "hostname">>
           hostsPath == <<"etc", "hosts">>
           a == <<RootFile(sshPath), Addition(sudoersPath, Plain("0440", "root")),
                  RootFile(fstabPath), RootFile(managerPath)>>
           b == IF Has(manifest.bootstrap, "network") /\ Has(manifest.bootstrap.network, "wifi")
                THEN <<Addition(wifiPath, Plain("0600", "root"))>> ELSE <<>>
           c == <<RootFile(journalPath), Addition(firstPath, Symlink),
                  Addition(secondPath, Symlink), Addition(runnerPath, Symlink)>>
           d == IF Has(manifest.bootstrap, "network")
                THEN <<RootFile(hostnamePath), RootFile(hostsPath)>> ELSE <<>>
<1>1. SystemAdditions(manifest) = a \o b \o c \o d
  BY DEF SystemAdditions
<1>2. Symlink.kind # "directory" /\ \A mode, owner : Plain(mode, owner).kind # "directory"
  BY DEF Symlink, Plain
<1>3. Len(<<>>) = 0
  BY EmptySeq
<1> DEFINE Good(path, group) == LeafWords(u, path) /\ Common(path) /\ Group(path) = group
<1>4. Good(sshPath, "system") /\ sshPath[2] = "ssh" /\ sshPath[1] = "etc"
  BY <1>3, Tuples DEF LeafWords, Common, Group
<1>5. Good(sudoersPath, "system") /\ sudoersPath[2] = "sudoers.d" /\ sudoersPath[1] = "etc"
  BY <1>3, Tuples DEF LeafWords, Common, Group
<1>6. Good(fstabPath, "system") /\ fstabPath[2] = "fstab" /\ fstabPath[1] = "etc"
  BY <1>3, Tuples DEF LeafWords, Common, Group
<1>7. Good(managerPath, "system") /\ managerPath[1] = "var"
  BY <1>3, Tuples DEF LeafWords, Common, Group
<1>8. Good(wifiPath, "wifi")
  BY <1>3, Tuples DEF LeafWords, Common, Group
<1>9. Good(journalPath, "unit") /\ journalPath[3] = "journald.conf.d"
  BY <1>3, Tuples DEF LeafWords, Common, Group
<1>10. Good(firstPath, "unit") /\ firstPath[3] = "system" /\ firstPath[4] = "getty@tty1.service"
  BY <1>3, Tuples DEF LeafWords, Common, Group
<1>11. /\ Good(secondPath, "unit") /\ secondPath[3] = "system"
       /\ secondPath[4] = "getty.target.wants"
  BY <1>3, Tuples DEF LeafWords, Common, Group
<1>12. /\ Good(runnerPath, "unit") /\ runnerPath[3] = "system"
       /\ runnerPath[4] = "multi-user.target.wants"
  BY <1>3, Tuples DEF LeafWords, Common, Group
<1>13. Good(hostnamePath, "name") /\ hostnamePath[2] = "hostname"
  BY <1>3, Tuples DEF LeafWords, Common, Group
<1>14. Good(hostsPath, "name") /\ hostsPath[2] = "hosts"
  BY <1>3, Tuples DEF LeafWords, Common, Group
<1> HIDE DEF sshPath, sudoersPath, fstabPath, managerPath, wifiPath, journalPath, firstPath,
             secondPath, runnerPath, hostnamePath, hostsPath
<1>15. \A path, group, entry : Good(path, group) /\ entry.kind # "directory" =>
         GoodLeaf(u, Addition(path, entry), group) /\ Addition(path, entry).path = path
  BY LeafOf
<1> HIDE DEF Good
<1>16. \A there : CoreBlock(u, there, a, "system")
  <2>1. /\ GoodLeaf(u, RootFile(sshPath), "system") /\ RootFile(sshPath).path = sshPath
        /\ GoodLeaf(u, Addition(sudoersPath, Plain("0440", "root")), "system")
        /\ Addition(sudoersPath, Plain("0440", "root")).path = sudoersPath
        /\ GoodLeaf(u, RootFile(fstabPath), "system") /\ RootFile(fstabPath).path = fstabPath
        /\ GoodLeaf(u, RootFile(managerPath), "system")
        /\ RootFile(managerPath).path = managerPath
    BY <1>2, <1>4, <1>5, <1>6, <1>7, <1>15
  <2>2. /\ sshPath # sudoersPath /\ sshPath # fstabPath /\ sshPath # managerPath
        /\ sudoersPath # fstabPath /\ sudoersPath # managerPath /\ fstabPath # managerPath
    BY <1>4, <1>5, <1>6, <1>7
  <2> HIDE DEF RootFile
  <2> QED
    BY <2>1, <2>2, ListedLeaves
<1>17. \A there : CoreBlock(u, there, b, "wifi")
  <2>1. GoodLeaf(u, Addition(wifiPath, Plain("0600", "root")), "wifi")
    BY <1>2, <1>8, <1>15
  <2> QED
    BY <2>1, ListedLeaves, NoBlock
<1>18. \A there : CoreBlock(u, there, c, "unit")
  <2>1. /\ GoodLeaf(u, RootFile(journalPath), "unit") /\ RootFile(journalPath).path = journalPath
        /\ GoodLeaf(u, Addition(firstPath, Symlink), "unit")
        /\ Addition(firstPath, Symlink).path = firstPath
        /\ GoodLeaf(u, Addition(secondPath, Symlink), "unit")
        /\ Addition(secondPath, Symlink).path = secondPath
        /\ GoodLeaf(u, Addition(runnerPath, Symlink), "unit")
        /\ Addition(runnerPath, Symlink).path = runnerPath
    BY <1>2, <1>9, <1>10, <1>11, <1>12, <1>15
  <2>2. /\ journalPath # firstPath /\ journalPath # secondPath /\ journalPath # runnerPath
        /\ firstPath # secondPath /\ firstPath # runnerPath /\ secondPath # runnerPath
    BY <1>9, <1>10, <1>11, <1>12
  <2> HIDE DEF RootFile
  <2> QED
    BY <2>1, <2>2, ListedLeaves
<1>19. \A there : CoreBlock(u, there, d, "name")
  <2>1. /\ GoodLeaf(u, RootFile(hostnamePath), "name")
        /\ GoodLeaf(u, RootFile(hostsPath), "name")
        /\ RootFile(hostnamePath).path # RootFile(hostsPath).path
    BY <1>2, <1>13, <1>14, <1>15
  <2> HIDE DEF RootFile
  <2> QED
    BY <2>1, ListedLeaves, NoBlock
<1> HIDE DEF a, b, c, d
<1> DEFINE g1 == groups \cup {"system"}
           g2 == g1 \cup {"wifi"}
           g3 == g2 \cup {"unit"}
           g4 == g3 \cup {"name"}
<1>20. /\ "system" \notin groups /\ "wifi" \notin g1 /\ "unit" \notin g2 /\ "name" \notin g3
       /\ g4 = groups \cup SystemGroups
  BY DEF SystemGroups
<1>21. Follows(u, known, a, g1)
  BY <1>16, <1>20, FollowsFirst
<1> HIDE DEF g1
<1>22. Follows(u, known, a \o b, g2)
  BY <1>17, <1>20, <1>21, FollowsNext
<1> HIDE DEF g2
<1>23. Follows(u, known, (a \o b) \o c, g3)
  BY <1>18, <1>20, <1>22, FollowsNext
<1> HIDE DEF g3
<1>24. Follows(u, known, ((a \o b) \o c) \o d, g4)
  BY <1>19, <1>20, <1>23, FollowsNext
<1> QED
  BY <1>1, <1>20, <1>24

(* What an asset adds besides where it lies, and how it fits: by itself,   *)
(* and among the rest of the plan.                                         *)
Settles(u, ground, core, list) ==
  /\ IsSeq(list)
  /\ \A k \in DOMAIN list :
       /\ Ruled(list[k], <<"home", u>>)
       /\ Grounded(Before(ground, list, k), list[k], <<"home", u>>)
       /\ \A other \in core : Clear(other, list[k])
       /\ \A j \in DOMAIN list : j < k => Clear(list[j], list[k])

Apartly(one, other) == \A x \in Range(one), y \in Range(other) : Clear(x, y)

LEMMA ClearBack == \A x, y : Clear(x, y) <=> Clear(y, x)
BY DEF Clear

LEMMA SettlesFits ==
  ASSUME NEW u, NEW ground, NEW core, NEW list, Settles(u, ground, core, list),
         NEW known, ground \subseteq known,
         \A other \in known : other \in core \/ \A y \in Range(list) : Clear(other, y)
  PROVE  Fits(known, list, <<"home", u>>)
<1> DEFINE home == <<"home", u>>
<1>1. /\ Len(list) \in Nat /\ DOMAIN list = 1..Len(list)
      /\ \A i \in DOMAIN list : list[i] \in Range(list)
  BY IndexOf DEF Settles, Range
<1>2. ASSUME NEW i \in DOMAIN list
      PROVE  FitsAt(Before(known, list, i), list[i], home)
  <2>1. Before(ground, list, i) \subseteq Before(known, list, i)
    BY DEF Before
  <2>2. Ruled(list[i], home) /\ Grounded(Before(ground, list, i), list[i], home)
    BY DEF Settles
  <2>3. Grounded(Before(known, list, i), list[i], home)
    BY <2>1, <2>2, GroundedMore
  <2>4. ASSUME NEW other \in Before(known, list, i)
        PROVE  Clear(other, list[i])
    <3>1. CASE other \in known
      BY <1>1, <3>1 DEF Settles
    <3>2. CASE other \notin known
      <4>1. PICK j \in 1..(i - 1) : other = list[j]
        BY <3>2 DEF Before
      <4>2. j \in DOMAIN list /\ j < i
        BY <1>1
      <4> QED
        BY <4>1, <4>2 DEF Settles
    <3> QED
      BY <3>1, <3>2
  <2> QED
    BY <2>2, <2>3, <2>4 DEF FitsAt
<1> QED
  BY <1>2 DEF Fits, Settles

(* The assets, one after the other: each where it lies, and placed.        *)
Arranged(u, ground, groups, core, m, lies, placed, lists) ==
  /\ CoreSet(u, ground, groups) /\ "asset" \notin groups
  /\ m \in Nat /\ lies = [i \in 1..m |-> lies[i]] /\ CoreBlock(u, {}, lies, "asset")
  /\ ground \subseteq core /\ \A i \in 1..m : lies[i] \in core
  /\ \A i \in 1..m : Settles(u, ground, core, placed[i])
  /\ \A i, j \in 1..m : j < i => Apartly(placed[j], placed[i])
  /\ lists = [i \in 1..m |-> lists[i]]
  /\ \A i \in 1..m : lists[i] = <<lies[i]>> \o placed[i]

Members(list, m, lies, placed) ==
  \A x : x \in Range(list) <=> x \in Range(lies) \/ \E i \in 1..m : x \in Range(placed[i])

LEMMA AssetsFit ==
  ASSUME NEW u, NEW ground, NEW groups, NEW core, NEW m, NEW lies, NEW placed, NEW lists,
         Arranged(u, ground, groups, core, m, lies, placed, lists)
  PROVE  /\ Fits(ground, FlattenSeq(lists), <<"home", u>>)
         /\ Members(FlattenSeq(lists), m, lies, placed)
<1> USE DEF Arranged
<1> DEFINE home == <<"home", u>>
           all(i) == UNION {Range(lists[j]) : j \in 1..i}
           extras(i) == UNION {Range(placed[j]) : j \in 1..i}
           lying(i) == {lies[j] : j \in 1..i}
<1>1. \A i \in 1..m : lists[i] = <<lies[i]>> \o placed[i]
  OBVIOUS
<1>2. lists = [i \in 1..m |-> lists[i]] /\ DOMAIN lies = 1..m
  OBVIOUS
<1> HIDE DEF home
<1>3. \A i \in 1..m : Range(lists[i]) = {lies[i]} \cup Range(placed[i])
  <2> TAKE i \in 1..m
  <2>1. IsSeq(<<lies[i]>>) /\ IsSeq(placed[i]) /\ Range(<<lies[i]>>) = {lies[i]}
    BY ShortPaths DEF Settles, Range
  <2> QED
    BY <1>1, <2>1, SeqJoined
<1>4. \A i \in 0..m : all(i) = lying(i) \cup extras(i)
  <2> TAKE i \in 0..m
  <2>1. \A j \in 1..i : j \in 1..m
    BY <1>2
  <2>2. \A j \in 1..i : Range(lists[j]) = {lies[j]} \cup Range(placed[j])
    BY <1>3, <2>1
  <2>3. ASSUME NEW x
        PROVE  x \in all(i) <=> x \in lying(i) \/ x \in extras(i)
    <3>1. x \in all(i) <=> \E j \in 1..i : x \in Range(lists[j])
      OBVIOUS
    <3>2. x \in lying(i) <=> \E j \in 1..i : x = lies[j]
      OBVIOUS
    <3>3. x \in extras(i) <=> \E j \in 1..i : x \in Range(placed[j])
      OBVIOUS
    <3>4. \A j \in 1..i : x \in Range(lists[j]) <=> x = lies[j] \/ x \in Range(placed[j])
      BY <2>2
    <3> HIDE DEF all, lying, extras
    <3> QED
      BY <3>1, <3>2, <3>3, <3>4
  <2> HIDE DEF all, lying, extras
  <2> QED
    BY <2>3
<1>5. Fits(ground, lies, home)
  <2>1. CoreBlock(u, ground, lies, "asset")
    <3>1. {} \subseteq ground
      OBVIOUS
    <3> QED
      BY <3>1, CoreBlockMore
  <2> QED
    BY <2>1, CoreBlockFits DEF home
<1>6. ASSUME NEW i \in 1..m
      PROVE  Fits(ground \cup all(i - 1), lists[i], home)
  <2> DEFINE known == ground \cup all(i - 1)
             one == <<lies[i]>>
  <2>1. /\ i - 1 \in 0..m /\ \A j \in 1..(i - 1) : j \in 1..m /\ j < i
        /\ known = Before(ground, lies, i) \cup extras(i - 1)
    <3>1. i - 1 \in 0..m /\ \A j \in 1..(i - 1) : j \in 1..m /\ j < i
      BY <1>2
    <3>2. Before(ground, lies, i) = ground \cup lying(i - 1)
      BY DEF Before
    <3>3. all(i - 1) = lying(i - 1) \cup extras(i - 1)
      BY <1>4, <3>1
    <3> HIDE DEF all, lying, extras
    <3> QED
      BY <3>1, <3>2, <3>3
  <2>2. FitsAt(Before(ground, lies, i), lies[i], home)
    BY <1>2, <1>5 DEF Fits
  <2>3. \A x \in extras(i - 1) : Clear(x, lies[i])
    <3> TAKE x \in extras(i - 1)
    <3>1. PICK j \in 1..(i - 1) : x \in Range(placed[j])
      OBVIOUS
    <3>2. \E k \in DOMAIN placed[j] : x = placed[j][k]
      BY <3>1 DEF Range
    <3>3. j \in 1..m
      BY <2>1
    <3>4. Settles(u, ground, core, placed[j])
      BY <3>3
    <3>5. Clear(lies[i], x)
      BY <3>2, <3>4 DEF Settles
    <3> QED
      BY <3>5, ClearBack
  <2>4. IsSeq(one) /\ DOMAIN one = 1..1 /\ one[1] = lies[i] /\ Range(one) = {lies[i]}
    BY ShortPaths DEF Range
  <2> HIDE DEF one, all, extras
  <2>5. FitsAt(known, lies[i], home)
    <3>1. /\ Ruled(lies[i], home) /\ Grounded(Before(ground, lies, i), lies[i], home)
          /\ \A other \in Before(ground, lies, i) : Clear(other, lies[i])
      BY <2>2 DEF FitsAt
    <3>2. Before(ground, lies, i) \subseteq known
      BY <2>1
    <3>3. Grounded(known, lies[i], home)
      BY <3>1, <3>2, GroundedMore
    <3>4. \A other \in known : Clear(other, lies[i])
      BY <2>1, <2>3, <3>1
    <3> QED
      BY <3>1, <3>3, <3>4 DEF FitsAt
  <2>6. Fits(known, one, home)
    <3>1. \A k \in 1..1 : k = 1 /\ Before(known, one, k) = known
      BY DEF Before
    <3> HIDE DEF known
    <3>2. \A k \in DOMAIN one : FitsAt(Before(known, one, k), one[k], home)
      BY <2>4, <2>5, <3>1
    <3> QED
      BY <2>4, <3>2 DEF Fits
  <2>7. Fits(known \cup Range(one), placed[i], home)
    <3>1. Settles(u, ground, core, placed[i])
      OBVIOUS
    <3>2. ASSUME NEW other \in known \cup Range(one)
          PROVE  other \in core \/ \A y \in Range(placed[i]) : Clear(other, y)
      <4>1. CASE other \in ground \/ other = lies[i]
        BY <4>1
      <4>2. CASE other \in Before(ground, lies, i) /\ other \notin ground
        BY <2>1, <4>2 DEF Before
      <4>3. CASE other \in extras(i - 1)
        <5>1. PICK j \in 1..(i - 1) : other \in Range(placed[j])
          BY <4>3 DEF extras
        <5>2. Apartly(placed[j], placed[i])
          BY <2>1
        <5> QED
          BY <5>1, <5>2 DEF Apartly
      <4> QED
        BY <2>1, <2>4, <4>1, <4>2, <4>3
    <3>3. ground \subseteq known \cup Range(one)
      OBVIOUS
    <3> HIDE DEF known
    <3> QED
      BY <3>1, <3>2, <3>3, SettlesFits DEF home
  <2>8. Fits(known, one \o placed[i], home)
    BY <2>6, <2>7, FitsJoined
  <2> QED
    BY <1>1, <2>8 DEF one
<1>7. /\ Fits(ground, FlattenSeq(lists), home)
      /\ Range(FlattenSeq(lists)) = all(m)
  <2>1. \A i \in 1..m :
          Fits(ground \cup UNION {Range(lists[j]) : j \in 1..(i - 1)}, lists[i], home)
    BY <1>6
  <2>2. m \in Nat /\ lists = [i \in 1..m |-> lists[i]]
    BY <1>2
  <2>3. Fits(ground, FlattenSeq(lists), home)
    BY ONLY <2>1, <2>2, FitsFlattened
  <2>4. \A x : x \in Range(FlattenSeq(lists)) <=> \E i \in 1..m : x \in Range(lists[i])
    BY ONLY <2>1, <2>2, FitsFlattened
  <2> QED
    BY <2>3, <2>4
<1>8. all(m) = lying(m) \cup extras(m) /\ lying(m) = Range(lies)
  <2>1. m \in 0..m
    OBVIOUS
  <2>2. lying(m) = Range(lies)
    BY <1>2 DEF Range
  <2> QED
    BY <1>4, <2>1, <2>2
<1> QED
  BY <1>7, <1>8 DEF home, Members

(* All of the plan: the core, with the placed assets in the middle of it.  *)
AgainList == <<AccountDirectory(BootstrapSecrets, "0700")>>

Prepared(u, first, groups, m, lies, secrets, manifest, core) ==
  /\ Chained(u, first, groups)
  /\ groups \cap ({"asset", "again", "secret"} \cup SystemGroups) = {}
  /\ m \in Nat /\ lies = [i \in 1..m |-> lies[i]] /\ CoreBlock(u, {}, lies, "asset")
  /\ CoreBlock(u, Range(first), AgainList, "again")
  /\ CoreBlock(u, Range(first), secrets, "secret")
  /\ core = Range(first) \cup Range(lies) \cup Range(AgainList) \cup Range(secrets)
               \cup Range(SystemAdditions(manifest))

PlacedWell(u, first, m, lies, core, placed, lists) ==
  /\ \A i \in 1..m : Settles(u, Range(first), core, placed[i])
  /\ \A i, j \in 1..m : j < i => Apartly(placed[j], placed[i])
  /\ lists = [i \in 1..m |-> lists[i]]
  /\ \A i \in 1..m : lists[i] = <<lies[i]>> \o placed[i]

Whole(first, lists, secrets, manifest) ==
  first \o FlattenSeq(lists) \o AgainList \o secrets \o SystemAdditions(manifest)

Holding(list, core, m, placed) ==
  \A x : x \in Range(list) <=> x \in core \/ \E i \in 1..m : x \in Range(placed[i])

LEMMA AllFit ==
  ASSUME NEW u, NEW first, NEW groups, NEW m, NEW lies, NEW secrets, NEW manifest, NEW core,
         Prepared(u, first, groups, m, lies, secrets, manifest, core),
         NEW placed, NEW lists, PlacedWell(u, first, m, lies, core, placed, lists)
  PROVE  /\ Fits({}, Whole(first, lists, secrets, manifest), <<"home", u>>)
         /\ Holding(Whole(first, lists, secrets, manifest), core, m, placed)
         /\ \E some : CoreSet(u, core, some)
<1> USE DEF Prepared, PlacedWell
<1> DEFINE home == <<"home", u>>
           flat == FlattenSeq(lists)
           system == SystemAdditions(manifest)
           extras == UNION {Range(placed[i]) : i \in 1..m}
           ground == Range(first)
           known0 == ground \cup Range(lies)
           known1 == known0 \cup Range(AgainList)
           known2 == known1 \cup Range(secrets)
           g0 == groups \cup {"asset"}
           g1 == g0 \cup {"again"}
           g2 == g1 \cup {"secret"}
<1>1. /\ "asset" \notin groups /\ "again" \notin g0 /\ "secret" \notin g1
      /\ g2 \cap SystemGroups = {}
  BY DEF SystemGroups
<1> HIDE DEF home, g0, g1, g2
<1>2. CoreSet(u, known0, g0)
  <2>1. CoreBlock(u, ground, lies, "asset") /\ CoreSet(u, ground, groups)
    BY CoreBlockMore DEF Chained
  <2> QED
    BY <1>1, <2>1, CoreBlockFits DEF g0
<1>3. Fits(known0, AgainList, home) /\ CoreSet(u, known1, g1)
  <2>1. ground \subseteq known0
    OBVIOUS
  <2>2. CoreBlock(u, known0, AgainList, "again")
    BY <2>1, CoreBlockMore
  <2> HIDE DEF known0
  <2> QED
    BY <1>1, <1>2, <2>2, CoreBlockFits DEF g1, home
<1>4. Fits(known1, secrets, home) /\ CoreSet(u, known2, g2)
  <2>1. ground \subseteq known1
    OBVIOUS
  <2>2. CoreBlock(u, known1, secrets, "secret")
    BY <2>1, CoreBlockMore
  <2> HIDE DEF known1
  <2> QED
    BY <1>1, <1>3, <2>2, CoreBlockFits DEF g2, home
<1>5. Fits(known2, system, home) /\ CoreSet(u, core, g2 \cup SystemGroups)
  <2>1. core = known2 \cup Range(system)
    OBVIOUS
  <2> HIDE DEF known2
  <2>2. CoreSet(u, known2, g2) /\ g2 \cap SystemGroups = {}
    BY <1>1, <1>4
  <2>3. Follows(u, known2, SystemAdditions(manifest), g2 \cup SystemGroups)
    BY ONLY <2>2, SystemFollows
  <2> QED
    BY <2>1, <2>3 DEF Follows, home
<1>6. Fits(ground, flat, home) /\ Range(flat) = Range(lies) \cup extras
  <2>1. CoreSet(u, ground, groups) /\ ground \subseteq core /\ \A i \in 1..m : lies[i] \in core
    BY DEF Chained, Range
  <2> HIDE DEF ground
  <2>2. \A i \in 1..m : Settles(u, ground, core, placed[i])
    BY DEF ground
  <2>5. Arranged(u, ground, groups, core, m, lies, placed, lists)
    BY <1>1, <2>1, <2>2 DEF Arranged
  <2>3. Fits(ground, FlattenSeq(lists), <<"home", u>>)
    BY ONLY <2>5, AssetsFit
  <2>4. Members(FlattenSeq(lists), m, lies, placed)
    BY ONLY <2>5, AssetsFit
  <2>6. \A x : x \in Range(flat) <=> x \in Range(lies) \/ x \in extras
    BY <2>4 DEF Members
  <2> HIDE DEF flat, extras
  <2> QED
    BY <2>3, <2>6 DEF home, flat
<1>7. ASSUME NEW list, IsSeq(list), Range(list) \subseteq core
      PROVE  ClearOf(extras, list)
  <2> SUFFICES ASSUME NEW x \in extras, NEW k \in DOMAIN list
               PROVE  Clear(x, list[k])
    BY DEF ClearOf
  <2>1. PICK i \in 1..m : x \in Range(placed[i])
    OBVIOUS
  <2>2. Settles(u, Range(first), core, placed[i]) /\ \E j \in DOMAIN placed[i] : x = placed[i][j]
    BY <2>1 DEF Range
  <2>3. list[k] \in core
    BY <1>7 DEF Range
  <2>4. Clear(list[k], x)
    BY <2>2, <2>3 DEF Settles
  <2> QED
    BY <2>4, ClearBack
<1> DEFINE a == first \o flat
           b == a \o AgainList
           c == b \o secrets
           d == c \o system
<1>8. /\ Range(AgainList) \subseteq core /\ Range(secrets) \subseteq core
      /\ Range(system) \subseteq core /\ IsSeq(AgainList) /\ IsSeq(secrets) /\ IsSeq(system)
  BY <1>3, <1>4, <1>5 DEF Fits
<1>9. core = known2 \cup Range(system)
  OBVIOUS
<1> HIDE DEF flat, extras, system
<1>10. Fits({}, a, home) /\ Range(a) = known0 \cup extras
  <2>1. Fits({}, first, home)
    BY DEF Chained, home
  <2>2. {} \cup ground = ground
    OBVIOUS
  <2>3. Fits({} \cup ground, flat, home)
    BY <1>6, <2>2
  <2>4. IsSeq(first) /\ IsSeq(flat)
    BY <1>6, <2>1 DEF Fits
  <2>5. Range(a) = ground \cup Range(flat)
    BY <2>4, SeqJoined
  <2>6. Fits({}, a, home)
    BY <2>1, <2>3, FitsJoined
  <2> QED
    BY <1>6, <2>5, <2>6
<1> HIDE DEF a
<1>11. Fits({}, b, home) /\ Range(b) = known1 \cup extras
  <2>1. Fits(known0 \cup extras, AgainList, home)
    BY <1>3, <1>7, <1>8, FitsAmong
  <2>2. {} \cup Range(a) = known0 \cup extras
    BY <1>10
  <2>3. Fits({} \cup Range(a), AgainList, home)
    BY <2>1, <2>2
  <2>4. IsSeq(a) /\ Range(b) = Range(a) \cup Range(AgainList)
    BY <1>8, <1>10, SeqJoined DEF Fits
  <2>5. Fits({}, b, home)
    BY <1>10, <2>3, FitsJoined
  <2> QED
    BY <1>10, <2>4, <2>5
<1> HIDE DEF b, known0
<1>12. Fits({}, c, home) /\ Range(c) = known2 \cup extras
  <2>1. Fits(known1 \cup extras, secrets, home)
    BY <1>4, <1>7, <1>8, FitsAmong
  <2>2. {} \cup Range(b) = known1 \cup extras
    BY <1>11
  <2>3. Fits({} \cup Range(b), secrets, home)
    BY <2>1, <2>2
  <2>4. IsSeq(b) /\ Range(c) = Range(b) \cup Range(secrets)
    BY <1>8, <1>11, SeqJoined DEF Fits
  <2>5. Fits({}, c, home)
    BY <1>11, <2>3, FitsJoined
  <2> QED
    BY <1>11, <2>4, <2>5
<1> HIDE DEF c, known1
<1>13. Fits({}, d, home) /\ Range(d) = core \cup extras
  <2>1. Fits(known2 \cup extras, system, home)
    BY <1>5, <1>7, <1>8, FitsAmong
  <2>2. {} \cup Range(c) = known2 \cup extras
    BY <1>12
  <2>3. Fits({} \cup Range(c), system, home)
    BY <2>1, <2>2
  <2>4. IsSeq(c) /\ Range(d) = Range(c) \cup Range(system)
    BY <1>8, <1>12, SeqJoined DEF Fits
  <2>5. Fits({}, d, home)
    BY <1>12, <2>3, FitsJoined
  <2> QED
    BY <1>9, <1>12, <2>4, <2>5
<1>14. \A x : x \in core \cup extras <=> x \in core \/ \E i \in 1..m : x \in Range(placed[i])
  BY DEF extras
<1> QED
  BY <1>5, <1>13, <1>14 DEF a, b, c, flat, system, home, Whole, Holding

(* What the plan begins with: the bundle, the account's home, the prompts. *)
PromptList(prompts) ==
  [i \in DOMAIN prompts |-> Addition(Optdir \o prompts[i].path, Plain("0644", "root"))]

Firsts(u, prompts) == Bundle \o HomeAdditions(<<"home", u>>) \o PromptList(prompts)

FirstGroups == (BundleGroups \cup {"home"}) \cup {"prompt"}

LEMMA FirstsChain ==
  ASSUME NEW u, NEW n \in Nat, NEW prompts, DOMAIN prompts = 1..n,
         \A i \in 1..n : prompts[i].path = PromptPath(prompts[i].id),
         \A i, j \in 1..n : prompts[i].id = prompts[j].id => i = j
  PROVE  LET first == Firsts(u, prompts) IN
         /\ Chained(u, first, FirstGroups)
         /\ Under(Etcdir, Range(first))
         /\ \A path \in Range(BundlePrivate) : Under(path, Range(first))
         /\ Under(<<"home", u>>, Range(first))
<1> DEFINE home == <<"home", u>>
           list == PromptList(prompts)
           own == HomeAdditions(home)
           first == (Bundle \o own) \o list
<1>1. /\ Chained(u, Bundle, BundleGroups) /\ Under(Etcdir, Range(Bundle))
      /\ \A path \in Range(BundlePrivate) : Under(path, Range(Bundle))
  BY BundleChain
<1>2. CoreBlock(u, Range(Bundle), own, "home")
  BY <1>1, HomeBlock
<1>3. "home" \notin BundleGroups /\ "prompt" \notin BundleGroups \cup {"home"}
  BY DEF BundleGroups
<1>4. CoreBlock(u, {}, list, "prompt")
  BY PromptBlock DEF PromptList
<1>5. Under(home, Range(own))
  <2> HIDE DEF home
  <2>1. own[1] = Addition(home, Directory("0750", "account")) /\ 1 \in DOMAIN own
    BY DEF own, HomeAdditions, AccountDirectory
  <2> USE DEF home
  <2> HIDE DEF own
  <2>2. own[1] \in Range(own) /\ own[1].path = home
    BY <2>1, AdditionFields DEF Range
  <2>3. IsSeq(home) /\ home # <<>>
    <3>1. IsSeq(home) /\ Len(home) = 2 /\ Len(<<>>) = 0
      BY Tuples, EmptySeq
    <3> QED
      BY <3>1
  <2>4. IsPrefix(home, home)
    BY <2>3, PrefixItself
  <2> HIDE DEF home
  <2> QED
    BY <2>2, <2>3, <2>4 DEF Under
<1> HIDE DEF home, list, own
<1>6. /\ Chained(u, Bundle \o own, BundleGroups \cup {"home"})
      /\ Range(Bundle \o own) = Range(Bundle) \cup Range(own)
  <2>1. MayFollow(u, Bundle, BundleGroups, own, "home")
    BY <1>1, <1>2, <1>3 DEF MayFollow
  <2>2. Extended(u, Bundle, BundleGroups, own, "home")
    BY ONLY <2>1, ChainExtended
  <2> QED
    BY ONLY <2>2 DEF Extended
<1> DEFINE two == Bundle \o own
<1>7. /\ Chained(u, two \o list, FirstGroups)
      /\ Range(two \o list) = Range(two) \cup Range(list)
  <2>1. Chained(u, two, BundleGroups \cup {"home"}) /\ {} \subseteq Range(two)
    BY <1>6
  <2> HIDE DEF two
  <2> QED
    BY <1>3, <1>4, <2>1, ChainNext DEF FirstGroups
<1>8. Range(Bundle) \subseteq Range(first) /\ Range(own) \subseteq Range(first)
  BY <1>6, <1>7
<1>9. first = Firsts(u, prompts)
  BY DEF Firsts, list, own, home
<1> HIDE DEF two, first
<1>10. /\ Under(Etcdir, Range(first)) /\ Under(home, Range(first))
       /\ \A path \in Range(BundlePrivate) : Under(path, Range(first))
  BY <1>1, <1>5, <1>8, UnderMore
<1> QED
  BY <1>7, <1>9, <1>10 DEF first, two, home

(* The assets of the manifest: the runner's own two, those of the          *)
(* definition and its scripts, all at paths of their own.                  *)
ThreeFrom(whole, a, b, c, k, n, m) ==
  /\ IsSeq(whole) /\ Len(whole) = k + n + m /\ DOMAIN whole = 1..(k + n + m)
  /\ \A i \in 1..(k + n + m) :
       /\ i <= k => whole[i] = a[i]
       /\ i > k /\ i <= k + n => i - k \in 1..n /\ whole[i] = b[i - k]
       /\ i > k + n => i - k - n \in 1..m /\ whole[i] = c[i - k - n]

LEMMA ThreeLists ==
  ASSUME NEW a, NEW b, NEW c, IsSeq(a), IsSeq(b), IsSeq(c), NEW k, NEW n, NEW m,
         k = Len(a), n = Len(b), m = Len(c)
  PROVE  ThreeFrom(a \o b \o c, a, b, c, k, n, m)
<1> DEFINE two == a \o b
           whole == two \o c
<1>1. k \in Nat /\ n \in Nat /\ m \in Nat
  BY LenProperties DEF IsSeq
<1>2. /\ IsSeq(two) /\ Len(two) = k + n
      /\ \A i \in 1..k : two[i] = a[i]
      /\ \A i \in 1..n : two[k + i] = b[i]
  BY Appended
<1> HIDE DEF two
<1>3. /\ IsSeq(whole) /\ Len(whole) = k + n + m
      /\ \A i \in 1..(k + n) : whole[i] = two[i]
      /\ \A i \in 1..m : whole[k + n + i] = c[i]
  <2>1. IsSeq(whole) /\ Len(whole) = Len(two) + Len(c)
    BY <1>2, Appended
  <2>2. \A i \in 1..Len(two) : whole[i] = two[i]
    BY <1>2, Appended
  <2>3. \A i \in 1..Len(c) : whole[Len(two) + i] = c[i]
    BY <1>2, Appended
  <2> HIDE DEF whole
  <2> QED
    BY <1>1, <1>2, <2>1, <2>2, <2>3
<1>4. DOMAIN whole = 1..(k + n + m)
  BY <1>3, IndexOf
<1>5. ASSUME NEW i \in 1..(k + n + m)
      PROVE  /\ i <= k => whole[i] = a[i]
             /\ i > k /\ i <= k + n => i - k \in 1..n /\ whole[i] = b[i - k]
             /\ i > k + n => i - k - n \in 1..m /\ whole[i] = c[i - k - n]
  <2>1. CASE i <= k
    BY <1>1, <1>2, <1>3, <2>1
  <2>2. CASE i > k /\ i <= k + n
    <3> DEFINE j == i - k
    <3>1. j \in 1..n /\ i \in 1..(k + n) /\ k + j = i /\ ~(i <= k) /\ ~(i > k + n)
      BY <1>1, <2>2
    <3> HIDE DEF j
    <3>2. whole[i] = two[i]
      BY <1>3, <3>1
    <3>3. two[k + j] = b[j]
      BY <1>2, <3>1
    <3>4. whole[i] = b[j]
      BY <3>1, <3>2, <3>3
    <3> QED
      BY <3>1, <3>4 DEF j
  <2>3. CASE i > k + n
    <3> DEFINE j == i - k - n
    <3>1. j \in 1..m /\ k + n + j = i /\ ~(i <= k) /\ ~(i <= k + n)
      BY <1>1, <2>3
    <3> HIDE DEF j
    <3>2. whole[i] = c[j]
      BY <1>3, <3>1
    <3> QED
      BY <3>1, <3>2 DEF j
  <2> QED
    BY <1>1, <2>1, <2>2, <2>3
<1> QED
  BY <1>3, <1>4, <1>5 DEF whole, two, ThreeFrom

LEMMA AssetsAt ==
  ASSUME NEW input, Normal(input)
  PROVE  LET n == Len(input.assets)
             m == Len(input.scripts)
             k == 2 + n + m
             assets == Assets(input)
             ids == AssetIds(input)
         IN /\ n \in Nat /\ m \in Nat /\ DOMAIN assets = 1..k /\ DOMAIN ids = 1..k
            /\ assets[1].path = RuntimePath /\ assets[2].path = EntrypointPath
            /\ \A i \in 1..k :
                 /\ i > 2 /\ i <= 2 + n =>
                      /\ i - 2 \in 1..n /\ assets[i] = AssetDescriptor(input.assets[i - 2])
                      /\ ids[i] = input.assets[i - 2].id
                 /\ i > 2 + n =>
                      /\ i - 2 - n \in 1..m
                      /\ assets[i] = ScriptDescriptor(input.scripts[i - 2 - n])
                      /\ ids[i] = ScriptAssetId(input.scripts[i - 2 - n].id)
<1> DEFINE n == Len(input.assets)
           m == Len(input.scripts)
           k == 2 + n + m
           listed == [i \in DOMAIN input.assets |-> AssetDescriptor(input.assets[i])]
           scripts == [i \in DOMAIN input.scripts |-> ScriptDescriptor(input.scripts[i])]
           names == Ids(input.assets)
           called == [i \in DOMAIN input.scripts |-> ScriptAssetId(input.scripts[i].id)]
<1>1. n \in Nat /\ m \in Nat /\ DOMAIN input.assets = 1..n /\ DOMAIN input.scripts = 1..m
  BY NormalFields
<1>2. Assets(input) = RunnerAssets \o listed \o scripts
  BY DEF Assets
<1>3. AssetIds(input) = RunnerAssetIds \o names \o called
  BY DEF AssetIds
<1>4. /\ listed = [i \in 1..n |-> listed[i]] /\ scripts = [i \in 1..m |-> scripts[i]]
      /\ names = [i \in 1..n |-> names[i]] /\ called = [i \in 1..m |-> called[i]]
  BY <1>1 DEF Ids
<1>5. /\ \A i \in 1..n : /\ listed[i] = AssetDescriptor(input.assets[i])
                         /\ names[i] = input.assets[i].id
      /\ \A i \in 1..m : /\ scripts[i] = ScriptDescriptor(input.scripts[i])
                         /\ called[i] = ScriptAssetId(input.scripts[i].id)
  BY <1>1 DEF Ids
<1>6. /\ IsSeq(RunnerAssets) /\ Len(RunnerAssets) = 2
      /\ RunnerAssets[1].path = RuntimePath /\ RunnerAssets[2].path = EntrypointPath
  BY Tuples DEF RunnerAssets
<1>7. IsSeq(RunnerAssetIds) /\ Len(RunnerAssetIds) = 2
  BY Tuples DEF RunnerAssetIds
<1> HIDE DEF n, m, listed, scripts, names, called
<1>8. /\ IsSeq(listed) /\ Len(listed) = n /\ IsSeq(scripts) /\ Len(scripts) = m
      /\ IsSeq(names) /\ Len(names) = n /\ IsSeq(called) /\ Len(called) = m
  <2>1. IsSeq(listed) /\ IsSeq(scripts) /\ IsSeq(names) /\ IsSeq(called)
    BY <1>1, <1>4, SeqByIndex
  <2>2. /\ DOMAIN listed = 1..n /\ DOMAIN scripts = 1..m
        /\ DOMAIN names = 1..n /\ DOMAIN called = 1..m
    BY <1>4
  <2> QED
    BY <1>1, <2>1, <2>2, LenProperties DEF IsSeq
<1>9. ThreeFrom(Assets(input), RunnerAssets, listed, scripts, 2, n, m)
  BY <1>2, <1>6, <1>8, ThreeLists
<1>10. ThreeFrom(AssetIds(input), RunnerAssetIds, names, called, 2, n, m)
  BY <1>3, <1>7, <1>8, ThreeLists
<1>11. 1 \in 1..k /\ 2 \in 1..k
  BY <1>1
<1> DEFINE assets == Assets(input)
           ids == AssetIds(input)
<1> HIDE DEF k, assets, ids
<1>12. /\ DOMAIN assets = 1..k /\ DOMAIN ids = 1..k
       /\ assets[1].path = RuntimePath /\ assets[2].path = EntrypointPath
  BY <1>6, <1>9, <1>10, <1>11 DEF k, assets, ids, ThreeFrom
<1>13. ASSUME NEW i \in 1..k
       PROVE  /\ i > 2 /\ i <= 2 + n =>
                   /\ i - 2 \in 1..n /\ assets[i] = AssetDescriptor(input.assets[i - 2])
                   /\ ids[i] = input.assets[i - 2].id
              /\ i > 2 + n =>
                   /\ i - 2 - n \in 1..m
                   /\ assets[i] = ScriptDescriptor(input.scripts[i - 2 - n])
                   /\ ids[i] = ScriptAssetId(input.scripts[i - 2 - n].id)
  <2>1. i > 2 /\ i <= 2 + n =>
          i - 2 \in 1..n /\ assets[i] = listed[i - 2] /\ ids[i] = names[i - 2]
    BY <1>9, <1>10 DEF k, assets, ids, ThreeFrom
  <2>2. i > 2 + n =>
          i - 2 - n \in 1..m /\ assets[i] = scripts[i - 2 - n] /\ ids[i] = called[i - 2 - n]
    BY <1>9, <1>10 DEF k, assets, ids, ThreeFrom
  <2> QED
    BY <1>5, <2>1, <2>2
<1> QED
  BY <1>1, <1>12, <1>13 DEF n, m, k, assets, ids

LEMMA DescriptorPlace ==
  /\ \A value : AssetDescriptor(value).path = AssetPath(value.id)
  /\ \A value : ScriptDescriptor(value).path = ScriptPath(value.id)
<1>1. ASSUME NEW value
      PROVE  AssetDescriptor(value).path = AssetPath(value.id)
  <2> DEFINE base == [id |-> value.id, path |-> AssetPath(value.id)]
             rest == IF Has(value, "placement") THEN [placement |-> value.placement] ELSE <<>>
  <2>1. AssetDescriptor(value) = Joined(base, rest)
    BY DEF AssetDescriptor
  <2>2. "path" \in DOMAIN base /\ base.path = AssetPath(value.id)
    OBVIOUS
  <2> HIDE DEF base, rest
  <2>3. Joined(base, rest).path = base.path
    BY <2>2 DEF Joined, Has
  <2> QED
    BY <2>1, <2>2, <2>3
<1>2. \A value : ScriptDescriptor(value).path = ScriptPath(value.id)
  BY DEF ScriptDescriptor
<1> QED
  BY <1>1, <1>2

LEMMA AssetPathsApart ==
  ASSUME NEW input, Normal(input), IsInjective(AssetIds(input))
  PROVE  LET assets == Assets(input) IN
         \E k \in Nat :
           /\ DOMAIN assets = 1..k
           /\ \A i \in 1..k : \E b, c : assets[i].path = <<"assets", b, c>>
           /\ \A i, j \in 1..k : assets[i].path = assets[j].path => i = j
<1> DEFINE n == Len(input.assets)
           m == Len(input.scripts)
           k == 2 + n + m
           assets == Assets(input)
           ids == AssetIds(input)
<1>1. /\ n \in Nat /\ m \in Nat /\ DOMAIN assets = 1..k /\ DOMAIN ids = 1..k
      /\ assets[1].path = RuntimePath /\ assets[2].path = EntrypointPath
      /\ \A i \in 1..k :
           /\ i > 2 /\ i <= 2 + n =>
                /\ i - 2 \in 1..n /\ assets[i] = AssetDescriptor(input.assets[i - 2])
                /\ ids[i] = input.assets[i - 2].id
           /\ i > 2 + n =>
                /\ i - 2 - n \in 1..m
                /\ assets[i] = ScriptDescriptor(input.scripts[i - 2 - n])
                /\ ids[i] = ScriptAssetId(input.scripts[i - 2 - n].id)
  BY AssetsAt
<1>2. k \in Nat
  <2>1. n \in Nat /\ m \in Nat
    BY <1>1
  <2> HIDE DEF n, m
  <2> QED
    BY <2>1
<1>3. \A i, j \in 1..k : ids[i] = ids[j] => i = j
  BY <1>1 DEF IsInjective
<1>4. \A value : AssetDescriptor(value).path = AssetPath(value.id)
  BY DescriptorPlace
<1>5. \A value : ScriptDescriptor(value).path = ScriptPath(value.id)
  BY DEF ScriptDescriptor
<1> HIDE DEF n, m, assets, ids, k
<1>6. ASSUME NEW i \in 1..k
      PROVE  \/ i = 1 /\ assets[i].path = <<"assets", "runner", "runtime">>
             \/ i = 2 /\ assets[i].path = <<"assets", "runner", "entrypoint.mjs">>
             \/ assets[i].path = <<"assets", "resources", ids[i]>>
             \/ \E id : ids[i] = ScriptAssetId(id) /\ assets[i].path = <<"assets", "scripts", id>>
  <2>1. CASE i = 1
    BY <1>1, <2>1 DEF RuntimePath
  <2>2. CASE i = 2
    BY <1>1, <2>2 DEF EntrypointPath
  <2>3. CASE i > 2 /\ i <= 2 + n
    BY <1>1, <1>4, <2>3 DEF AssetPath
  <2>4. CASE i > 2 + n
    BY <1>1, <1>5, <2>4 DEF ScriptPath
  <2>5. i = 1 \/ i = 2 \/ (i > 2 /\ i <= 2 + n) \/ i > 2 + n
    BY <1>1, <1>2
  <2> QED
    BY <2>1, <2>2, <2>3, <2>4, <2>5
<1>7. \A a, b, c, d : <<"assets", a, b>> = <<"assets", c, d>> => a = c /\ b = d
  OBVIOUS
<1>8. \A i, j \in 1..k : assets[i].path = assets[j].path => i = j
  <2> SUFFICES ASSUME NEW i \in 1..k, NEW j \in 1..k, assets[i].path = assets[j].path
               PROVE  i = j \/ ids[i] = ids[j]
    BY <1>3
  <2> QED
    BY <1>6, <1>7
<1>9. \A i \in 1..k : \E b, c : assets[i].path = <<"assets", b, c>>
  BY <1>6
<1> QED
  BY <1>1, <1>2, <1>8, <1>9 DEF assets

(* All of them are among the assembly's files, and so are the prompts.     *)
LEMMA FilesRead ==
  ASSUME NEW input, Normal(input), NEW files
  PROVE  LET paths == Range(FilePaths(input, files)) IN
         /\ \A i \in DOMAIN Assets(input) : Assets(input)[i].path \in paths
         /\ \A i \in DOMAIN input.prompts : PromptPath(input.prompts[i].id) \in paths
<1> DEFINE Read(resources, place(_)) ==
             [i \in DOMAIN resources |->
                [path |-> place(resources[i].id), contents |-> files[resources[i].source.url]]]
           one == Read(input.assets, AssetPath)
           two == Read(input.scripts, ScriptPath)
           three == Read(input.prompts, PromptPath)
           all == one \o two \o three
           given == <<<<"manifest.json">>, <<"runner-plan.json">>, <<"os-lock.json">>,
                      RuntimePath, EntrypointPath>>
           rest == [i \in DOMAIN all |-> all[i].path]
<1>1. FilePaths(input, files) = given \o rest
  BY DEF FilePaths, ContentFiles
<1>2. /\ Len(input.assets) \in Nat /\ DOMAIN input.assets = 1..Len(input.assets)
      /\ Len(input.scripts) \in Nat /\ DOMAIN input.scripts = 1..Len(input.scripts)
      /\ Len(input.prompts) \in Nat /\ DOMAIN input.prompts = 1..Len(input.prompts)
  BY NormalFields
<1>3. /\ one = [i \in 1..Len(input.assets) |-> one[i]]
      /\ two = [i \in 1..Len(input.scripts) |-> two[i]]
      /\ three = [i \in 1..Len(input.prompts) |-> three[i]]
  BY <1>2
<1>4. /\ \A i \in DOMAIN input.assets : i \in DOMAIN one /\ one[i].path = AssetPath(input.assets[i].id)
      /\ \A i \in DOMAIN input.scripts : i \in DOMAIN two /\ two[i].path = ScriptPath(input.scripts[i].id)
      /\ \A i \in DOMAIN input.prompts :
           i \in DOMAIN three /\ three[i].path = PromptPath(input.prompts[i].id)
  OBVIOUS
<1> HIDE DEF one, two, three
<1>5. IsSeq(one) /\ IsSeq(two) /\ IsSeq(three)
  BY <1>2, <1>3, SeqByIndex
<1>6. /\ IsSeq(all)
      /\ \A x : x \in Range(one) \/ x \in Range(two) \/ x \in Range(three) => x \in Range(all)
  <2> DEFINE both == one \o two
  <2>1. IsSeq(both) /\ Range(both) = Range(one) \cup Range(two)
    BY <1>5, SeqJoined
  <2> HIDE DEF both
  <2>2. IsSeq(both \o three) /\ Range(both \o three) = Range(both) \cup Range(three)
    BY <1>5, <2>1, SeqJoined
  <2> QED
    BY <2>1, <2>2 DEF both
<1> HIDE DEF all
<1>7. \A x \in Range(all) : x.path \in Range(rest)
  <2> TAKE x \in Range(all)
  <2>1. PICK i \in DOMAIN all : x = all[i]
    BY DEF Range
  <2>2. i \in DOMAIN rest /\ rest[i] = x.path
    BY <2>1
  <2> QED
    BY <2>2 DEF Range
<1>8. IsSeq(rest)
  <2>1. Len(all) \in Nat /\ DOMAIN all = 1..Len(all)
    BY <1>6, IndexOf
  <2>2. rest = [i \in 1..Len(all) |-> rest[i]]
    BY <2>1
  <2> HIDE DEF rest
  <2> QED
    BY <2>1, <2>2, SeqByIndex
<1>9. IsSeq(given) /\ RuntimePath \in Range(given) /\ EntrypointPath \in Range(given)
  <2>1. \A a, b, c, d, e : <<a, b, c, d, e>>[4] = d /\ <<a, b, c, d, e>>[5] = e
                           /\ DOMAIN <<a, b, c, d, e>> = 1..5
    OBVIOUS
  <2>2. IsSeq(given) /\ DOMAIN given = 1..5 /\ given[4] = RuntimePath /\ given[5] = EntrypointPath
    BY <2>1, ShortPaths
  <2> HIDE DEF given
  <2> QED
    BY <2>2 DEF Range
<1> HIDE DEF given, rest
<1>10. Range(given \o rest) = Range(given) \cup Range(rest)
  BY <1>8, <1>9, SeqJoined
<1> DEFINE paths == Range(FilePaths(input, files))
<1>11. /\ \A x \in Range(all) : x.path \in paths
       /\ RuntimePath \in paths /\ EntrypointPath \in paths
  BY <1>1, <1>7, <1>9, <1>10
<1> HIDE DEF paths
<1>12. /\ \A i \in DOMAIN input.assets : AssetPath(input.assets[i].id) \in paths
       /\ \A i \in DOMAIN input.scripts : ScriptPath(input.scripts[i].id) \in paths
       /\ \A i \in DOMAIN input.prompts : PromptPath(input.prompts[i].id) \in paths
  <2>1. /\ \A i \in DOMAIN input.assets : one[i] \in Range(all)
        /\ \A i \in DOMAIN input.scripts : two[i] \in Range(all)
        /\ \A i \in DOMAIN input.prompts : three[i] \in Range(all)
    BY <1>4, <1>6 DEF Range
  <2> QED
    BY <1>4, <1>11, <2>1
<1> DEFINE n == Len(input.assets)
           m == Len(input.scripts)
           assets == Assets(input)
<1>13. /\ n \in Nat /\ m \in Nat /\ DOMAIN assets = 1..(2 + n + m)
       /\ assets[1].path = RuntimePath /\ assets[2].path = EntrypointPath
       /\ \A i \in 1..(2 + n + m) :
            /\ i > 2 /\ i <= 2 + n =>
                 i - 2 \in 1..n /\ assets[i] = AssetDescriptor(input.assets[i - 2])
            /\ i > 2 + n =>
                 i - 2 - n \in 1..m /\ assets[i] = ScriptDescriptor(input.scripts[i - 2 - n])
  BY AssetsAt
<1>14. /\ \A value : AssetDescriptor(value).path = AssetPath(value.id)
       /\ \A value : ScriptDescriptor(value).path = ScriptPath(value.id)
  BY DescriptorPlace
<1> HIDE DEF assets, n, m
<1>16. DOMAIN input.assets = 1..n /\ DOMAIN input.scripts = 1..m
  BY <1>2 DEF n, m
<1>15. ASSUME NEW i \in DOMAIN assets
       PROVE  assets[i].path \in paths
  <2>1. CASE i = 1 \/ i = 2
    BY <1>11, <1>13, <2>1 DEF paths
  <2>2. CASE i > 2 /\ i <= 2 + n
    <3>1. i - 2 \in 1..n /\ assets[i] = AssetDescriptor(input.assets[i - 2])
      BY <1>13, <2>2
    <3> QED
      BY <1>12, <1>14, <1>16, <3>1
  <2>3. CASE i > 2 + n
    <3>1. i - 2 - n \in 1..m /\ assets[i] = ScriptDescriptor(input.scripts[i - 2 - n])
      BY <1>13, <2>3
    <3> QED
      BY <1>12, <1>14, <1>16, <3>1
  <2>4. i \in Nat /\ i >= 1
    BY <1>13
  <2> QED
    BY <1>13, <2>1, <2>2, <2>3, <2>4
<1> QED
  BY <1>12, <1>15 DEF paths, assets

(* The core of the plan of what is made of a parsed definition.            *)
LieList(assets) == [i \in DOMAIN assets |-> LieOf(assets[i])]

SecretList(secrets) ==
  [i \in DOMAIN secrets |->
     Addition(BootstrapSecrets \o <<secrets[i]>>, Plain("0600", "account"))]

CoreOf(first, lies, secrets, manifest) ==
  Range(first) \cup Range(lies) \cup Range(AgainList) \cup Range(secrets)
    \cup Range(SystemAdditions(manifest))

LEMMA CorePrepared ==
  ASSUME SomePath, NEW input, Normal(input), IsInjective(AssetIds(input)),
         NEW u, NEW manifest, manifest = Manifest(input),
         NEW first, first = Firsts(u, manifest.prompts),
         NEW lies, lies = LieList(manifest.assets),
         NEW secrets, secrets = SecretList(SetToSeq(RequiredSecrets(RunnerPlan(input))))
  PROVE  /\ \E m \in Nat :
              /\ DOMAIN manifest.assets = 1..m
              /\ Prepared(u, first, FirstGroups, m, lies, secrets, manifest,
                          CoreOf(first, lies, secrets, manifest))
              /\ \A i \in 1..m : Leaf(lies[i])
         /\ Under(Etcdir, Range(first)) /\ Under(<<"home", u>>, Range(first))
         /\ \A path \in Range(BundlePrivate) : Under(path, Range(first))
<1> DEFINE assets == manifest.assets
           prompts == manifest.prompts
           n == Len(input.prompts)
           required == RequiredSecrets(RunnerPlan(input))
           listed == SetToSeq(required)
<1>1. assets = Assets(input) /\ DOMAIN prompts = 1..n /\ n \in Nat
  BY NormalFields DEF Manifest
<1>2. /\ \A i \in 1..n : prompts[i].path = PromptPath(prompts[i].id)
      /\ \A i \in 1..n : prompts[i].id = input.prompts[i].id
  <2>1. prompts = [i \in DOMAIN input.prompts |-> PromptDescriptor(input.prompts[i])]
    BY DEF Manifest
  <2>2. DOMAIN input.prompts = 1..n
    BY NormalFields
  <2>3. \A value : /\ PromptDescriptor(value).id = value.id
                   /\ PromptDescriptor(value).path = PromptPath(value.id)
    BY DEF PromptDescriptor
  <2> HIDE DEF prompts, n
  <2> QED
    BY <2>1, <2>2, <2>3
<1>3. \A i, j \in 1..n : prompts[i].id = prompts[j].id => i = j
  <2>1. IsInjective(Ids(input.prompts)) /\ DOMAIN input.prompts = 1..n
    BY NormalFields
  <2> HIDE DEF prompts, n
  <2> QED
    BY <1>2, <2>1 DEF IsInjective, Ids
<1> HIDE DEF assets, prompts, n
<1>4. /\ Chained(u, first, FirstGroups)
      /\ Under(Etcdir, Range(first)) /\ Under(<<"home", u>>, Range(first))
      /\ \A path \in Range(BundlePrivate) : Under(path, Range(first))
  <2>1. first = Firsts(u, prompts)
    BY DEF prompts
  <2> QED
    BY <1>1, <1>2, <1>3, <2>1, FirstsChain
<1>5. PICK m \in Nat :
        /\ DOMAIN assets = 1..m
        /\ \A i \in 1..m : \E b, c : assets[i].path = <<"assets", b, c>>
        /\ \A i, j \in 1..m : assets[i].path = assets[j].path => i = j
  BY <1>1, AssetPathsApart
<1>6. /\ lies = [i \in 1..m |-> LieOf(assets[i])] /\ lies = [i \in 1..m |-> lies[i]]
  BY <1>5 DEF LieList, assets
<1>7. CoreBlock(u, {}, lies, "asset") /\ \A i \in 1..m : Leaf(lies[i])
  <2>1. m \in Nat
    OBVIOUS
  <2>2. \A i \in 1..m : \E b, c : assets[i].path = <<"assets", b, c>>
    BY <1>5
  <2>3. \A i, j \in 1..m : assets[i].path = assets[j].path => i = j
    BY <1>5
  <2> DEFINE list == [i \in 1..m |-> LieOf(assets[i])]
  <2>4. CoreBlock(u, {}, list, "asset") /\ \A i \in 1..m : Leaf(list[i])
    BY ONLY <2>1, <2>2, <2>3, LieBlock
  <2>5. lies = list
    BY <1>6
  <2> HIDE DEF list
  <2> QED
    BY ONLY <2>4, <2>5
<1>8. CoreBlock(u, Range(first), AgainList, "again")
  BY <1>4, AgainBlock DEF AgainList
<1>9. Under(BootstrapSecrets, Range(first))
  <2>1. BootstrapSecrets \in Range(BundlePrivate)
    BY Specials, SpecialRange
  <2> QED
    BY <1>4, <2>1
<1>10. CoreBlock(u, Range(first), secrets, "secret")
  <2>1. IsFiniteSet(required)
    <3> DEFINE plan == RunnerPlan(input)
               k == Len(input.steps)
    <3>1. /\ k \in Nat /\ plan.steps = [i \in 1..k |-> plan.steps[i]]
          /\ \A i \in 1..k : plan.steps[i].kind = "prompt" => Array(plan.steps[i].variables)
      BY PlanSteps
    <3> HIDE DEF plan, k
    <3> QED
      BY <3>1, RequiredFinite DEF plan
  <2>2. /\ Len(listed) \in Nat /\ DOMAIN listed = 1..Len(listed)
        /\ \A i, j \in DOMAIN listed : listed[i] = listed[j] => i = j
    BY <2>1, SetListed
  <2>3. secrets = SecretList(listed)
    OBVIOUS
  <2> DEFINE k == Len(listed)
  <2> HIDE DEF listed
  <2>4. k \in Nat /\ DOMAIN listed = 1..k /\ \A i, j \in 1..k : listed[i] = listed[j] => i = j
    BY <2>2
  <2> HIDE DEF k
  <2>5. Under(Etcdir, Range(first)) /\ Under(BootstrapSecrets, Range(first))
    BY <1>4, <1>9
  <2>6. CoreBlock(u, Range(first), SecretList(listed), "secret")
    BY ONLY <2>4, <2>5, SecretBlock DEF SecretList
  <2> QED
    BY <2>3, <2>6
<1>11. FirstGroups \cap ({"asset", "again", "secret"} \cup SystemGroups) = {}
  BY DEF FirstGroups, BundleGroups, SystemGroups
<1>12. Prepared(u, first, FirstGroups, m, lies, secrets, manifest,
                CoreOf(first, lies, secrets, manifest))
  BY <1>4, <1>6, <1>7, <1>8, <1>10, <1>11 DEF Prepared, CoreOf
<1> QED
  BY <1>4, <1>5, <1>7, <1>12 DEF assets

(* What a placed asset adds, besides where it lies.                        *)
PlaceList(resource, home) ==
  IF resource.placement.scope = "system"
  THEN <<Addition(Target(resource, home), Plain(AssetMode(resource.path), "root"))>>
  ELSE <<[path |-> Front(Target(resource, home)), entry |-> Directory("0750", "account"),
          above |-> Directory("0750", "account")],
         Addition(Target(resource, home), Plain("0600", "account"))>>

PlaceOf(resource, installation, home) ==
  IF PlacedApart(resource, installation) THEN PlaceList(resource, home) ELSE <<>>

LEMMA AssetParts ==
  ASSUME NEW resource, NEW installation, NEW home
  PROVE  AssetAdditions(resource, installation, home) =
           <<LieOf(resource)>> \o PlaceOf(resource, installation, home)
<1> DEFINE place == CASE ~Has(resource, "placement") \/ resource.id \in Range(installation) -> <<>>
                      [] Has(resource, "placement") /\ resource.id \notin Range(installation)
                           /\ resource.placement.scope = "system" ->
                           <<Addition(Target(resource, home),
                                      Plain(AssetMode(resource.path), "root"))>>
                      [] OTHER ->
                           <<[path |-> Front(Target(resource, home)),
                              entry |-> Directory("0750", "account"),
                              above |-> Directory("0750", "account")],
                             Addition(Target(resource, home), Plain("0600", "account"))>>
<1>1. AssetAdditions(resource, installation, home) = <<LieOf(resource)>> \o place
  BY DEF AssetAdditions, LieOf
<1>2. place = PlaceOf(resource, installation, home)
  BY DEF PlaceOf, PlaceList, PlacedApart
<1> HIDE DEF place
<1> QED
  BY <1>1, <1>2

LEMMA AdditionsWhole ==
  ASSUME NEW assembly, NEW u, u = assembly.manifest.bootstrap.account.username,
         NEW lists,
         lists = [i \in DOMAIN assembly.manifest.assets |->
                    AssetAdditions(assembly.manifest.assets[i],
                                   assembly.manifest.bootstrap.runnerInstallation,
                                   <<"home", u>>)]
  PROVE  Additions(assembly) =
           Whole(Firsts(u, assembly.manifest.prompts), lists,
                 SecretList(SetToSeq(RequiredSecrets(assembly.plan))), assembly.manifest)
BY DEF Additions, Whole, Firsts, PromptList, SecretList, AgainList, Home

(* The assembly as Apart takes it: with nothing placed.                    *)
BareOf(assembly) ==
  [assembly EXCEPT !.manifest.assets =
     [i \in DOMAIN @ |->
        IF PlacedApart(@[i], assembly.manifest.bootstrap.runnerInstallation)
        THEN [id |-> @[i].id, path |-> @[i].path] ELSE @[i]]]

BareSame(assembly, bare) ==
  /\ bare.manifest.prompts = assembly.manifest.prompts
  /\ bare.manifest.bootstrap = assembly.manifest.bootstrap
  /\ bare.plan = assembly.plan
  /\ bare.manifest.assets =
       [i \in DOMAIN assembly.manifest.assets |->
          IF PlacedApart(assembly.manifest.assets[i],
                         assembly.manifest.bootstrap.runnerInstallation)
          THEN [id |-> assembly.manifest.assets[i].id, path |-> assembly.manifest.assets[i].path]
          ELSE assembly.manifest.assets[i]]

LEMMA BareFields ==
  ASSUME NEW input, NEW lock, NEW files, NEW assembly, assembly = Assembly(input, lock, files),
         NEW bare, bare = BareOf(assembly)
  PROVE  BareSame(assembly, bare)
<1> DEFINE manifest == assembly.manifest
           installation == manifest.bootstrap.runnerInstallation
           stripped == [i \in DOMAIN manifest.assets |->
                          IF PlacedApart(manifest.assets[i], installation)
                          THEN [id |-> manifest.assets[i].id, path |-> manifest.assets[i].path]
                          ELSE manifest.assets[i]]
<1>1. DOMAIN assembly = {"manifest", "plan", "lock", "files"} /\ manifest = Manifest(input)
  BY DEF Assembly
<1>2. DOMAIN manifest = {"schemaVersion", "agent", "bootstrap", "assets", "prompts"}
  BY <1>1 DEF Manifest
<1>3. bare = [assembly EXCEPT !.manifest.assets = stripped]
  BY DEF BareOf
<1> HIDE DEF manifest, stripped
<1>4. bare.manifest = [manifest EXCEPT !.assets = stripped] /\ bare.plan = assembly.plan
  BY <1>1, <1>3 DEF manifest
<1>5. /\ bare.manifest.prompts = manifest.prompts /\ bare.manifest.bootstrap = manifest.bootstrap
      /\ bare.manifest.assets = stripped
  BY <1>2, <1>4
<1> QED
  BY <1>4, <1>5 DEF manifest, stripped, BareSame

LEMMA SystemSame ==
  ASSUME NEW one, NEW other, one.bootstrap = other.bootstrap
  PROVE  SystemAdditions(one) = SystemAdditions(other)
BY DEF SystemAdditions

(* What Apart says, spelled out.                                           *)
ApartTargets(assets, installation, home) ==
  /\ \A i, j \in DOMAIN assets :
       PlacedApart(assets[i], installation) /\ PlacedApart(assets[j], installation) /\ i # j =>
         ~IsPrefix(Target(assets[i], home), Target(assets[j], home))
  /\ \A i \in DOMAIN assets :
       PlacedApart(assets[i], installation) =>
         IF assets[i].placement.scope = "system" THEN ~IsPrefix(home, assets[i].placement.path)
         ELSE ~IsPrefix(<<".npm">>, assets[i].placement.path)

ApartFrom(assets, installation, home, others) ==
  \A i \in DOMAIN assets : PlacedApart(assets[i], installation) =>
    LET target == Target(assets[i], home) IN
    \A path \in DOMAIN others :
      ~IsPrefix(target, path) /\ (Above(path, target) => others[path].kind = "directory")

LEMMA ApartMeans ==
  ASSUME NEW assembly, Apart(assembly)
  PROVE  LET manifest == assembly.manifest
             installation == manifest.bootstrap.runnerInstallation
             home == Home(manifest)
         IN /\ assembly.lock = CuratedLock
            /\ manifest.bootstrap.account.username \in PortableUsername
            /\ ApartTargets(manifest.assets, installation, home)
            /\ ApartFrom(manifest.assets, installation, home, Planned(Additions(BareOf(assembly))))
<1> DEFINE manifest == assembly.manifest
           installation == manifest.bootstrap.runnerInstallation
           home == Home(manifest)
           assets == manifest.assets
           placed(resource) == PlacedApart(resource, installation)
           targets == {Target(resource, home) : resource \in {a \in Range(assets) : placed(a)}}
           others == Planned(Additions(BareOf(assembly)))
<1>1. assembly.lock = CuratedLock /\ manifest.bootstrap.account.username \in PortableUsername
  BY DEF Apart
<1>2. \A i, j \in DOMAIN assets : placed(assets[i]) /\ placed(assets[j]) /\ i # j =>
        ~IsPrefix(Target(assets[i], home), Target(assets[j], home))
  BY DEF Apart, PlacedApart
<1>3. \A resource \in Range(assets) : placed(resource) =>
        IF resource.placement.scope = "system" THEN ~IsPrefix(home, resource.placement.path)
        ELSE ~IsPrefix(<<".npm">>, resource.placement.path)
  BY DEF Apart, PlacedApart
<1>4. \A target \in targets, path \in DOMAIN others :
        ~IsPrefix(target, path) /\ (Above(path, target) => others[path].kind = "directory")
  BY DEF Apart, PlacedApart, BareOf
<1> HIDE DEF others, home
<1>5. \A i \in DOMAIN assets : assets[i] \in Range(assets)
  BY DEF Range
<1>6. \A i \in DOMAIN assets : placed(assets[i]) => Target(assets[i], home) \in targets
  BY <1>5
<1> HIDE DEF targets
<1>7. ApartTargets(assets, installation, home)
  BY <1>2, <1>3, <1>5 DEF ApartTargets
<1>8. ApartFrom(assets, installation, home, others)
  BY <1>4, <1>6 DEF ApartFrom
<1> QED
  BY <1>1, <1>7, <1>8 DEF home, others

(* What is planned when nothing is placed is the core.                     *)
LEMMA NothingPlaced ==
  ASSUME NEW u, NEW first, NEW m, NEW lies, NEW core, NEW placed, NEW lists,
         placed = [i \in 1..m |-> <<>>],
         lists = [i \in 1..m |-> <<lies[i]>> \o placed[i]]
  PROVE  PlacedWell(u, first, m, lies, core, placed, lists)
<1>1. IsSeq(<<>>) /\ DOMAIN <<>> = {} /\ Range(<<>>) = {}
  BY NothingPlanable DEF Planable, Range
<1>2. \A i \in 1..m : placed[i] = <<>>
  OBVIOUS
<1>3. Settles(u, Range(first), core, <<>>) /\ Apartly(<<>>, <<>>)
  BY <1>1 DEF Settles, Apartly
<1>4. lists = [i \in 1..m |-> lists[i]] /\ \A i \in 1..m : lists[i] = <<lies[i]>> \o placed[i]
  OBVIOUS
<1> QED
  BY <1>2, <1>3, <1>4 DEF PlacedWell

LEMMA HeldSame ==
  ASSUME NEW plan, NEW one, NEW home, Held(plan, one, home), NEW other,
         \A x : x \in one <=> x \in other
  PROVE  Held(plan, other, home)
<1>1. one = other
  OBVIOUS
<1> QED
  BY <1>1

(* An asset is placed toward a target: its leaf there, directories above.  *)
Toward(list, target) ==
  \A x \in Range(list) :
    IsSeq(x.path) /\ IsPrefix(x.path, target) /\ (Leaf(x) => x.path = target)

LEMMA TowardApart ==
  ASSUME NEW one, NEW other, IsSeq(one), IsSeq(other),
         NEW first, Toward(first, one), NEW second, Toward(second, other),
         ~IsPrefix(one, other), ~IsPrefix(other, one)
  PROVE  Apartly(first, second)
<1> SUFFICES ASSUME NEW x \in Range(first), NEW y \in Range(second)
             PROVE  Clear(x, y)
  BY DEF Apartly
<1>1. /\ IsSeq(x.path) /\ IsPrefix(x.path, one) /\ (Leaf(x) => x.path = one)
      /\ IsSeq(y.path) /\ IsPrefix(y.path, other) /\ (Leaf(y) => y.path = other)
  BY DEF Toward
<1>2. Leaf(x) => ~IsPrefix(x.path, y.path)
  BY <1>1, PrefixAll
<1>3. Leaf(y) => ~IsPrefix(y.path, x.path)
  BY <1>1, PrefixAll
<1> QED
  BY <1>2, <1>3 DEF Clear

(* Nothing of the plan `others` is in the way of the target.               *)
Free(others, target) ==
  \A path \in DOMAIN others :
    ~IsPrefix(target, path) /\ (Above(path, target) => others[path].kind = "directory")

LEMMA CorePath ==
  ASSUME NEW u, NEW addition, CoreAt(u, addition)
  PROVE  IsSeq(addition.path) /\ addition.path # <<>>
<1>1. Len(<<>>) = 0
  BY EmptySeq
<1> QED
  BY <1>1 DEF CoreAt, LeafWords, DirectoryWords

LEMMA FreeOf ==
  ASSUME NEW others, NEW core, NEW home, Held(others, core, home), NEW target, IsSeq(target),
         Free(others, target), NEW u, NEW other \in core, CoreAt(u, other)
  PROVE  ~IsPrefix(target, other.path) /\ (Leaf(other) => ~IsPrefix(other.path, target))
<1> DEFINE path == other.path
<1>1. IsSeq(path) /\ path # <<>>
  BY CorePath
<1>2. Under(path, core)
  BY <1>1, PrefixItself DEF Under
<1>3. path \in DOMAIN others
  BY <1>2 DEF Held
<1>4. ~IsPrefix(target, path) /\ (Above(path, target) => others[path].kind = "directory")
  BY <1>3 DEF Free
<1>5. Leaf(other) => others[path].kind # "directory"
  BY <1>3 DEF Held, LeafPaths
<1>6. ASSUME IsPrefix(path, target)
      PROVE  Above(path, target)
  <2>1. Len(path) <= Len(target) /\ Len(path) \in Nat /\ Len(target) \in Nat
    BY <1>1, <1>6, PrefixMeans, PathFacts
  <2>2. CASE Len(path) = Len(target)
    <3>1. path = target
      BY <1>1, <1>6, <2>2, PrefixMeans, SamePath
    <3> QED
      BY <1>4, <1>6, <3>1
  <2>3. CASE Len(path) # Len(target)
    BY <1>1, <1>6, <2>1, <2>3, PrefixMeans
  <2> QED
    BY <2>2, <2>3
<1> QED
  BY <1>4, <1>5, <1>6

LEMMA TowardClear ==
  ASSUME NEW others, NEW core, NEW home, Held(others, core, home), NEW target, IsSeq(target),
         Free(others, target), NEW u, NEW other \in core, CoreAt(u, other),
         NEW list, Toward(list, target), NEW x \in Range(list)
  PROVE  Clear(other, x)
<1>1. IsSeq(x.path) /\ IsPrefix(x.path, target) /\ (Leaf(x) => x.path = target)
  BY DEF Toward
<1>2. ~IsPrefix(target, other.path) /\ (Leaf(other) => ~IsPrefix(other.path, target))
  BY FreeOf
<1>3. IsSeq(other.path)
  BY CorePath
<1>4. Leaf(other) => ~IsPrefix(other.path, x.path)
  BY <1>1, <1>2, <1>3, PrefixAll
<1> QED
  BY <1>1, <1>2, <1>4 DEF Clear

(* A list toward a target settles when it can be grounded.                 *)
LEMMA TowardSettles ==
  ASSUME NEW others, NEW core, NEW u, Held(others, core, <<"home", u>>), NEW target,
         IsSeq(target), Free(others, target), \A other \in core : CoreAt(u, other),
         NEW list, IsSeq(list), Toward(list, target), NEW ground,
         \A k \in DOMAIN list :
           /\ Ruled(list[k], <<"home", u>>)
           /\ Grounded(Before(ground, list, k), list[k], <<"home", u>>)
           /\ \A j \in DOMAIN list : j < k => Clear(list[j], list[k])
  PROVE  Settles(u, ground, core, list)
<1> SUFFICES ASSUME NEW k \in DOMAIN list, NEW other \in core
             PROVE  Clear(other, list[k])
  BY DEF Settles
<1>1. list[k] \in Range(list) /\ CoreAt(u, other)
  BY DEF Range
<1> QED
  BY <1>1, TowardClear

LEMMA SomeTarget ==
  ASSUME NEW others, NEW core, NEW home, Held(others, core, home), NEW ground, ground \subseteq core,
         Under(home, ground), NEW target, IsSeq(target), Free(others, target)
  PROVE  target # <<>> /\ ~IsPrefix(target, home)
<1>1. Under(home, core) /\ IsSeq(home) /\ home # <<>>
  BY UnderMore DEF Under
<1>2. home \in DOMAIN others
  BY <1>1 DEF Held
<1>3. ~IsPrefix(target, home)
  BY <1>2 DEF Free
<1>4. target # <<>>
  <2>1. Len(<<>>) = 0 /\ IsSeq(<<>>)
    BY EmptySeq, NothingPlanable DEF Planable
  <2>2. 0 <= Len(home) /\ \A k \in 1..0 : FALSE
    BY <1>1, PathFacts
  <2>3. IsPrefix(<<>>, home)
    BY <1>1, <2>1, <2>2, PrefixMeans
  <2> QED
    BY <1>3, <2>3
<1> QED
  BY <1>3, <1>4

(* Outside the home, what is missing above a target is root's.             *)
LEMMA OutsideRule ==
  ASSUME NEW u, NEW target, IsSeq(target), ~IsPrefix(<<"home", u>>, target),
         NEW i \in 0..Len(target), SubSeq(target, 1, i) # Etcdir,
         SubSeq(target, 1, i) \notin Range(BundlePrivate)
  PROVE  Rule(<<"home", u>>, SubSeq(target, 1, i)) = Directory("0755", "root")
<1> DEFINE home == <<"home", u>>
           path == SubSeq(target, 1, i)
           npm == home \o <<".npm">>
<1>1. IsSeq(home) /\ IsSeq(npm) /\ IsPrefix(home, npm)
  <2>1. npm = <<"home", u, ".npm">>
    BY Longer
  <2>2. IsSeq(home) /\ IsSeq(<<"home", u, ".npm">>)
    BY ShortPaths
  <2>3. IsPrefix(home, <<"home", u, ".npm">>)
    BY BelowHome
  <2> QED
    BY <2>1, <2>2, <2>3
<1>2. IsSeq(path) /\ IsPrefix(path, target)
  BY PathFacts, PrefixCuts
<1> HIDE DEF home, path, npm
<1>3. ~IsPrefix(home, path)
  BY <1>1, <1>2, PrefixAll DEF home
<1>4. path # npm
  BY <1>1, <1>3
<1>5. path # Etcdir /\ path \notin Range(BundlePrivate)
  BY DEF path
<1>6. Rule(home, path) = Directory("0755", "root")
  BY <1>3, <1>4, <1>5 DEF Rule, npm
<1> QED
  BY <1>6 DEF home, path

LEMMA SystemPlaced ==
  ASSUME NEW others, NEW core, NEW u, Held(others, core, <<"home", u>>),
         \A other \in core : CoreAt(u, other), NEW ground, ground \subseteq core,
         Under(<<"home", u>>, ground), Under(Etcdir, ground),
         \A path \in Range(BundlePrivate) : Under(path, ground),
         NEW target, IsSeq(target), Free(others, target), ~IsPrefix(<<"home", u>>, target),
         NEW entry, entry.kind # "directory"
  PROVE  LET list == <<Addition(target, entry)>> IN
         Toward(list, target) /\ Settles(u, ground, core, list)
<1> DEFINE home == <<"home", u>>
           one == Addition(target, entry)
           list == <<one>>
<1>1. /\ one.path = target /\ one.entry = entry /\ one.above = Directory("0755", "root")
  BY AdditionFields, AdditionAbove
<1>2. Leaf(one) /\ target # <<>>
  BY <1>1, SomeTarget DEF Leaf
<1> HIDE DEF one
<1>3. IsSeq(list) /\ DOMAIN list = 1..1 /\ list[1] = one /\ Range(list) = {one}
  BY ShortPaths DEF Range
<1> HIDE DEF list
<1>4. Toward(list, target)
  BY <1>1, <1>3, PrefixItself DEF Toward
<1>5. Ruled(one, home)
  BY <1>1, <1>2 DEF Ruled
<1>6. Grounded(ground, one, home)
  <2> SUFFICES ASSUME NEW i \in 1..(Len(one.path) - 1)
               PROVE  Under(SubSeq(one.path, 1, i), ground)
                        \/ one.above = Rule(home, SubSeq(one.path, 1, i))
    BY DEF Grounded
  <2>1. i \in 0..Len(target)
    BY <1>1, PathFacts
  <2>2. CASE SubSeq(target, 1, i) = Etcdir \/ SubSeq(target, 1, i) \in Range(BundlePrivate)
    BY <1>1, <2>2
  <2>3. CASE ~(SubSeq(target, 1, i) = Etcdir \/ SubSeq(target, 1, i) \in Range(BundlePrivate))
    BY <1>1, <2>1, <2>3, OutsideRule
  <2> QED
    BY <2>2, <2>3
<1>7. \A k \in DOMAIN list :
        /\ Ruled(list[k], home) /\ Grounded(Before(ground, list, k), list[k], home)
        /\ \A j \in DOMAIN list : j < k => Clear(list[j], list[k])
  <2>1. \A k \in DOMAIN list : k = 1 /\ Before(ground, list, k) = ground
    BY <1>3 DEF Before
  <2>2. \A k, j \in DOMAIN list : ~(j < k)
    BY <1>3
  <2> QED
    BY <1>3, <1>5, <1>6, <2>1, <2>2
<1>8. Settles(u, ground, core, list)
  BY <1>3, <1>4, <1>7, TowardSettles
<1> QED
  BY <1>4, <1>8 DEF list, one

(* In the home, what is missing above a target is the account's.           *)
InHome(u, rest, target) ==
  /\ IsSeq(rest) /\ rest # <<>> /\ ~IsPrefix(<<".npm">>, rest) /\ target = <<"home", u>> \o rest

LEMMA HomeTarget ==
  ASSUME NEW u, NEW rest, NEW target, InHome(u, rest, target)
  PROVE  /\ IsSeq(target) /\ Len(target) = 2 + Len(rest) /\ Len(rest) \in Nat /\ Len(rest) >= 1
         /\ target[1] = "home" /\ target[2] = u /\ target[3] = rest[1]
<1> DEFINE home == <<"home", u>>
<1>1. IsSeq(home) /\ Len(home) = 2 /\ home[1] = "home" /\ home[2] = u
  BY Tuples
<1>2. IsSeq(rest) /\ rest # <<>> /\ target = home \o rest
  BY DEF InHome
<1>3. Len(rest) \in Nat /\ Len(rest) >= 1
  BY <1>2, PathFacts
<1> HIDE DEF home
<1>4. /\ IsSeq(home \o rest) /\ Len(home \o rest) = Len(home) + Len(rest)
      /\ \A k \in 1..Len(home) : (home \o rest)[k] = home[k]
      /\ \A k \in 1..Len(rest) : (home \o rest)[Len(home) + k] = rest[k]
  <2>1. IsSeq(home) /\ IsSeq(rest)
    BY <1>1, <1>2
  <2>2. IsSeq(home \o rest) /\ Len(home \o rest) = Len(home) + Len(rest)
    BY ONLY <2>1, Appended
  <2>3. \A k \in 1..Len(home) : (home \o rest)[k] = home[k]
    BY ONLY <2>1, Appended
  <2>4. \A k \in 1..Len(rest) : (home \o rest)[Len(home) + k] = rest[k]
    BY ONLY <2>1, Appended
  <2> QED
    BY <2>2, <2>3, <2>4
<1>5. /\ IsSeq(target) /\ Len(target) = 2 + Len(rest)
      /\ \A k \in 1..2 : target[k] = home[k]
      /\ \A k \in 1..Len(rest) : target[2 + k] = rest[k]
  BY <1>1, <1>2, <1>4
<1>6. target[2 + 1] = rest[1]
  BY <1>3, <1>5
<1> QED
  BY <1>1, <1>3, <1>5, <1>6

LEMMA HomeAbove ==
  ASSUME NEW u, NEW rest, NEW target, InHome(u, rest, target), NEW i \in 2..Len(target)
  PROVE  Rule(<<"home", u>>, SubSeq(target, 1, i)) = Directory("0750", "account")
<1> DEFINE home == <<"home", u>>
           path == SubSeq(target, 1, i)
           npm == <<"home", u, ".npm">>
<1>1. /\ IsSeq(target) /\ Len(target) \in Nat
      /\ target[1] = "home" /\ target[2] = u /\ target[3] = rest[1] /\ Len(rest) \in Nat
      /\ Len(rest) >= 1
  BY HomeTarget
<1>2. i \in 0..Len(target) /\ 2 <= i
  BY <1>1
<1>3. IsSeq(path) /\ Len(path) = i /\ \A k \in 1..i : path[k] = target[k]
  BY <1>1, <1>2, PathFacts
<1>4. IsSeq(home) /\ Len(home) = 2 /\ home[1] = "home" /\ home[2] = u
  BY Tuples
<1>5. Len(npm) = 3 /\ npm[3] = ".npm"
  BY Tuples
<1>6. IsSeq(<<".npm">>) /\ Len(<<".npm">>) = 1 /\ <<".npm">>[1] = ".npm"
  BY Tuples
<1>7. ~IsPrefix(<<".npm">>, rest) /\ IsSeq(rest)
  BY DEF InHome
<1> HIDE DEF home, npm, path
<1>8. IsPrefix(home, path)
  <2>1. Len(home) <= Len(path) /\ \A k \in 1..Len(home) : home[k] = path[k]
    BY <1>1, <1>2, <1>3, <1>4
  <2> QED
    BY <1>3, <1>4, <2>1, PrefixMeans
<1>9. path # npm
  <2> SUFFICES ASSUME path = npm
               PROVE  FALSE
    OBVIOUS
  <2>1. i = 3
    BY <1>3, <1>5
  <2>5. path[3] = target[3]
    BY <1>3, <2>1
  <2>2. rest[1] = ".npm"
    BY <1>1, <1>5, <2>5
  <2> DEFINE word == <<".npm">>
  <2>3. Len(word) <= Len(rest) /\ \A k \in 1..Len(word) : word[k] = rest[k]
    BY <1>1, <1>6, <2>2
  <2> HIDE DEF word
  <2>4. IsPrefix(word, rest)
    BY <1>6, <1>7, <2>3, PrefixMeans DEF word
  <2> QED
    BY <1>7, <2>4 DEF word
<1> QED
  BY <1>8, <1>9, HomeRule DEF home, npm, path

LEMMA HomePlaced ==
  ASSUME NEW others, NEW core, NEW u, Held(others, core, <<"home", u>>),
         \A other \in core : CoreAt(u, other), NEW ground, ground \subseteq core,
         Under(<<"home", u>>, ground), NEW rest, NEW target, InHome(u, rest, target),
         Free(others, target), NEW entry, entry.kind # "directory"
  PROVE  LET own == Directory("0750", "account")
             list == <<[path |-> Front(target), entry |-> own, above |-> own],
                       Addition(target, entry)>>
         IN Toward(list, target) /\ Settles(u, ground, core, list)
<1> DEFINE home == <<"home", u>>
           own == Directory("0750", "account")
           front == Front(target)
           directory == [path |-> front, entry |-> own, above |-> own]
           one == Addition(target, entry)
           list == <<directory, one>>
           L == Len(target)
<1>1. IsSeq(target) /\ L \in Nat /\ L >= 3
  BY HomeTarget
<1>2. /\ one.path = target /\ one.entry = entry /\ one.above = Directory("0755", "root")
  BY AdditionFields, AdditionAbove
<1>3. directory.path = front /\ directory.entry = own /\ directory.above = own
  OBVIOUS
<1>4. Leaf(one) /\ ~Leaf(directory)
  BY <1>2, <1>3 DEF Leaf, Directory
<1>5. front = SubSeq(target, 1, L - 1)
  BY DEF Front
<1> HIDE DEF one, directory, home, own, front, L
<1>6. /\ L - 1 \in 0..L /\ L - 1 \in 2..L
      /\ IsSeq(front) /\ Len(front) = L - 1 /\ IsPrefix(front, target)
  <2>1. L - 1 \in 0..L /\ L - 1 \in 2..L
    BY <1>1
  <2> QED
    BY <1>1, <1>5, <2>1, PathFacts, PrefixCuts DEF L
<1>7. \A i \in 0..(L - 1) : SubSeq(front, 1, i) = SubSeq(target, 1, i) /\ i \in 0..L
  <2> TAKE i \in 0..(L - 1)
  <2>1. i \in 0..L /\ i \in 0..Len(front)
    BY <1>1, <1>6
  <2>2. /\ IsSeq(SubSeq(front, 1, i)) /\ Len(SubSeq(front, 1, i)) = i
        /\ \A k \in 1..i : SubSeq(front, 1, i)[k] = front[k]
    BY <1>6, <2>1, PathFacts
  <2>3. /\ IsSeq(SubSeq(target, 1, i)) /\ Len(SubSeq(target, 1, i)) = i
        /\ \A k \in 1..i : SubSeq(target, 1, i)[k] = target[k]
    BY <1>1, <2>1, PathFacts DEF L
  <2>4. \A k \in 1..i : front[k] = target[k]
    <3>1. \A k \in 1..(L - 1) : front[k] = target[k]
      BY <1>1, <1>5, <1>6, PathFacts DEF L
    <3> QED
      BY <1>1, <3>1
  <2> QED
    BY <2>1, <2>2, <2>3, <2>4, SamePath
<1>8. \A i \in 2..L : Rule(home, SubSeq(target, 1, i)) = own
  BY HomeAbove DEF home, own, L
<1>9. front # <<>> /\ target # <<>>
  <2>1. Len(<<>>) = 0
    BY EmptySeq
  <2> QED
    BY <1>1, <1>6, <2>1 DEF L
<1>10. IsSeq(list) /\ DOMAIN list = 1..2 /\ list[1] = directory /\ list[2] = one
  BY ShortPaths
<1> HIDE DEF list
<1>11. Range(list) = {directory, one}
  BY <1>10 DEF Range
<1>12. Toward(list, target)
  <2>1. /\ IsSeq(one.path) /\ IsPrefix(one.path, target) /\ one.path = target
        /\ IsSeq(directory.path) /\ IsPrefix(directory.path, target)
    BY <1>1, <1>2, <1>3, <1>6, PrefixItself
  <2> QED
    BY <1>4, <1>11, <2>1 DEF Toward
<1>13. Ruled(directory, home) /\ Ruled(one, home)
  <2>1. Rule(home, front) = own
    BY <1>5, <1>6, <1>8
  <2> QED
    BY <1>1, <1>2, <1>3, <1>4, <1>6, <1>9, <2>1 DEF Ruled
<1>14. Grounded(ground, directory, home)
  <2> SUFFICES ASSUME NEW i \in 1..(Len(front) - 1)
               PROVE  Under(SubSeq(front, 1, i), ground) \/ own = Rule(home, SubSeq(front, 1, i))
    BY <1>3 DEF Grounded
  <2>1. i \in 0..(L - 1) /\ SubSeq(front, 1, i) = SubSeq(target, 1, i)
    <3>1. i \in 0..(L - 1)
      BY <1>1, <1>6
    <3> QED
      BY <1>7, <3>1
  <2>2. CASE i = 1
    <3>1. SubSeq(target, 1, 1) = <<"home">>
      <4>1. /\ IsSeq(<<"home">>) /\ Len(<<"home">>) = 1 /\ <<"home">>[1] = "home"
        BY Tuples
      <4>2. target[1] = "home"
        BY HomeTarget
      <4> DEFINE word == <<"home">>
      <4>3. Len(word) <= Len(target) /\ \A k \in 1..Len(word) : word[k] = target[k]
        BY <1>1, <4>1, <4>2 DEF L
      <4>4. Len(word) = 1 /\ IsSeq(word)
        BY <4>1
      <4> HIDE DEF word
      <4>5. SubSeq(target, 1, Len(word)) = word
        BY <1>1, <4>3, <4>4, CutTo
      <4> QED
        BY <4>4, <4>5 DEF word
    <3>2. Under(<<"home">>, ground)
      <4>1. PICK addition \in ground : IsPrefix(home, addition.path)
        BY DEF Under, home
      <4>2. IsSeq(addition.path)
        BY CorePath
      <4>3. IsSeq(<<"home">>) /\ IsSeq(home) /\ <<"home">> # <<>> /\ IsPrefix(<<"home">>, home)
        <5>1. /\ IsSeq(<<"home">>) /\ Len(<<"home">>) = 1 /\ <<"home">>[1] = "home"
              /\ IsSeq(home) /\ Len(home) = 2 /\ home[1] = "home" /\ Len(<<>>) = 0
          BY Tuples, EmptySeq DEF home
        <5> DEFINE word == <<"home">>
        <5>2. Len(word) <= Len(home) /\ \A k \in 1..Len(word) : word[k] = home[k]
          BY <5>1
        <5>3. IsSeq(word) /\ word # <<>>
          BY <5>1
        <5> HIDE DEF word
        <5>4. IsPrefix(word, home)
          BY <5>1, <5>2, <5>3, PrefixMeans
        <5> QED
          BY <5>1, <5>3, <5>4 DEF word
      <4>4. IsPrefix(<<"home">>, addition.path)
        BY <4>1, <4>2, <4>3, PrefixAll
      <4> QED
        BY <4>1, <4>3, <4>4 DEF Under
    <3> QED
      BY <2>1, <2>2, <3>1, <3>2
  <2>3. CASE i # 1
    <3>1. i \in 2..L
      BY <1>1, <2>1, <2>3
    <3> QED
      BY <1>8, <2>1, <3>1
  <2> QED
    BY <2>2, <2>3
<1>15. Grounded(Before(ground, list, 2), one, home)
  <2> SUFFICES ASSUME NEW i \in 1..(Len(target) - 1)
               PROVE  Under(SubSeq(target, 1, i), Before(ground, list, 2))
    BY <1>2 DEF Grounded
  <2>1. directory \in Before(ground, list, 2)
    BY <1>10 DEF Before
  <2>2. i \in 0..L /\ L - 1 \in 0..L /\ i <= L - 1 /\ i >= 1
    BY <1>1 DEF L
  <2>3. IsPrefix(SubSeq(target, 1, i), front)
    BY <1>1, <1>5, <2>2, PrefixCuts DEF L
  <2>4. IsSeq(SubSeq(target, 1, i)) /\ SubSeq(target, 1, i) # <<>>
    <3>1. IsSeq(SubSeq(target, 1, i)) /\ Len(SubSeq(target, 1, i)) = i /\ Len(<<>>) = 0
      BY <1>1, <2>2, PathFacts, EmptySeq DEF L
    <3> QED
      BY <2>2, <3>1
  <2> QED
    BY <1>3, <2>1, <2>3, <2>4 DEF Under
<1>16. Clear(directory, one)
  <2>1. ~IsPrefix(target, front)
    BY <1>1, <1>6, PrefixMeans DEF L
  <2> QED
    BY <1>2, <1>3, <1>4, <2>1 DEF Clear
<1>17. \A k \in DOMAIN list :
         /\ Ruled(list[k], home) /\ Grounded(Before(ground, list, k), list[k], home)
         /\ \A j \in DOMAIN list : j < k => Clear(list[j], list[k])
  <2>1. Before(ground, list, 1) = ground
    BY DEF Before
  <2>2. /\ Ruled(list[1], home) /\ Grounded(Before(ground, list, 1), list[1], home)
        /\ Ruled(list[2], home) /\ Grounded(Before(ground, list, 2), list[2], home)
    BY <1>10, <1>13, <1>14, <1>15, <2>1
  <2>3. \A k, j \in DOMAIN list : j < k => j = 1 /\ k = 2
    BY <1>10
  <2>4. Clear(list[1], list[2])
    BY <1>10, <1>16
  <2>5. \A k \in DOMAIN list : k = 1 \/ k = 2
    BY <1>10
  <2> QED
    BY <2>2, <2>3, <2>4, <2>5
<1>18. Settles(u, ground, core, list)
  <2>1. Held(others, core, <<"home", u>>) /\ \A other \in core : CoreAt(u, other)
    OBVIOUS
  <2> QED
    BY <1>1, <1>10, <1>12, <1>17, <2>1, TowardSettles DEF home
<1> QED
  BY <1>12, <1>18 DEF list, one, directory, front, own

(* All assets that Apart finds apart can be placed.                        *)
LEMMA OnePlaced ==
  ASSUME NEW others, NEW core, NEW u, Held(others, core, <<"home", u>>),
         \A other \in core : CoreAt(u, other), NEW ground, ground \subseteq core,
         Under(<<"home", u>>, ground), Under(Etcdir, ground),
         \A path \in Range(BundlePrivate) : Under(path, ground),
         NEW resource, IsSeq(resource.placement.path),
         Free(others, Target(resource, <<"home", u>>)),
         IF resource.placement.scope = "system"
         THEN ~IsPrefix(<<"home", u>>, resource.placement.path)
         ELSE ~IsPrefix(<<".npm">>, resource.placement.path)
  PROVE  LET target == Target(resource, <<"home", u>>)
             list == PlaceList(resource, <<"home", u>>)
         IN /\ IsSeq(target) /\ Toward(list, target) /\ Settles(u, ground, core, list)
<1> DEFINE home == <<"home", u>>
           rest == resource.placement.path
           target == Target(resource, home)
           list == PlaceList(resource, home)
<1>1. \A mode, owner : Plain(mode, owner).kind # "directory"
  BY DEF Plain
<1>2. IsSeq(home) /\ Free(others, target) /\ IsSeq(rest)
  BY ShortPaths
<1>3. CASE resource.placement.scope = "system"
  <2> DEFINE entry == Plain(AssetMode(resource.path), "root")
  <2>1. target = rest /\ list = <<Addition(target, entry)>> /\ ~IsPrefix(home, rest)
    BY <1>3 DEF Target, PlaceList
  <2>2. entry.kind # "directory"
    BY <1>1
  <2> HIDE DEF entry, target, list, rest
  <2>3. IsSeq(target) /\ Free(others, target) /\ ~IsPrefix(<<"home", u>>, target)
    BY <1>2, <2>1
  <2>4. Toward(list, target) /\ Settles(u, ground, core, list)
    BY <2>1, <2>2, <2>3, SystemPlaced
  <2> QED
    BY <2>3, <2>4 DEF target, list
<1>4. CASE resource.placement.scope # "system"
  <2> DEFINE entry == Plain("0600", "account")
             own == Directory("0750", "account")
  <2>1. /\ target = home \o rest /\ ~IsPrefix(<<".npm">>, rest)
        /\ list = <<[path |-> Front(target), entry |-> own, above |-> own],
                    Addition(target, entry)>>
    BY <1>4 DEF Target, PlaceList
  <2>2. entry.kind # "directory"
    BY <1>1
  <2> HIDE DEF entry, target, list, rest
  <2>3. IsSeq(target)
    BY <1>2, <2>1, SeqJoined
  <2>4. ~IsPrefix(target, home)
    BY <1>2, <2>3, SomeTarget
  <2>5. rest # <<>>
    <3> SUFFICES ASSUME rest = <<>>
                 PROVE  FALSE
      OBVIOUS
    <3>1. target = home
      BY <1>2, <2>1 DEF IsSeq
    <3>2. IsPrefix(home, home)
      BY <1>2, PrefixItself
    <3> QED
      BY <2>4, <3>1, <3>2
  <2>6. InHome(u, rest, target)
    BY <1>2, <2>1, <2>5 DEF InHome
  <2>7. Toward(list, target) /\ Settles(u, ground, core, list)
    BY <1>2, <2>1, <2>2, <2>6, HomePlaced DEF own
  <2> QED
    BY <2>3, <2>7 DEF target, list
<1> QED
  BY <1>3, <1>4

LEMMA AllPlaced ==
  ASSUME NEW others, NEW core, NEW u, Held(others, core, <<"home", u>>),
         \A other \in core : CoreAt(u, other), NEW first, Range(first) \subseteq core,
         Under(<<"home", u>>, Range(first)), Under(Etcdir, Range(first)),
         \A path \in Range(BundlePrivate) : Under(path, Range(first)),
         NEW m, NEW assets, DOMAIN assets = 1..m, \A i \in 1..m : LyingInOrder(assets[i]),
         NEW installation, ApartTargets(assets, installation, <<"home", u>>),
         ApartFrom(assets, installation, <<"home", u>>, others),
         NEW lies, NEW placed, NEW lists,
         placed = [i \in 1..m |-> PlaceOf(assets[i], installation, <<"home", u>>)],
         lists = [i \in 1..m |-> <<lies[i]>> \o placed[i]]
  PROVE  PlacedWell(u, first, m, lies, core, placed, lists)
<1> DEFINE home == <<"home", u>>
           ground == Range(first)
           target(i) == Target(assets[i], home)
           here(i) == PlacedApart(assets[i], installation)
<1>1. \A i \in 1..m : placed[i] = IF here(i) THEN PlaceList(assets[i], home) ELSE <<>>
  BY DEF PlaceOf
<1>2. IsSeq(<<>>) /\ DOMAIN <<>> = {} /\ Range(<<>>) = {}
  BY NothingPlanable DEF Planable, Range
<1>3. ASSUME NEW i \in 1..m, here(i)
      PROVE  /\ IsSeq(target(i)) /\ Toward(placed[i], target(i))
             /\ Settles(u, ground, core, placed[i])
  <2>1. IsSeq(assets[i].placement.path)
    BY <1>3 DEF LyingInOrder, PlacedApart
  <2>2. Free(others, target(i))
    BY <1>3 DEF ApartFrom, Free
  <2>3. IF assets[i].placement.scope = "system" THEN ~IsPrefix(home, assets[i].placement.path)
        ELSE ~IsPrefix(<<".npm">>, assets[i].placement.path)
    BY <1>3 DEF ApartTargets
  <2>4. placed[i] = PlaceList(assets[i], home)
    BY <1>1, <1>3
  <2> DEFINE resource == assets[i]
             list == PlaceList(resource, home)
  <2> HIDE DEF resource
  <2>5. /\ IsSeq(Target(resource, home)) /\ Toward(list, Target(resource, home))
        /\ Settles(u, ground, core, list)
    BY <2>1, <2>2, <2>3, OnePlaced DEF resource
  <2> QED
    BY <2>4, <2>5 DEF resource
<1>4. \A i \in 1..m : Settles(u, ground, core, placed[i])
  <2> TAKE i \in 1..m
  <2>1. Settles(u, ground, core, <<>>)
    BY <1>2 DEF Settles
  <2>2. ~here(i) => placed[i] = <<>>
    BY <1>1
  <2> QED
    BY <1>3, <2>1, <2>2
<1>5. ASSUME NEW i \in 1..m, NEW j \in 1..m, j < i
      PROVE  Apartly(placed[j], placed[i])
  <2>1. CASE here(i) /\ here(j)
    <3>1. ~IsPrefix(target(i), target(j)) /\ ~IsPrefix(target(j), target(i))
      BY <1>5, <2>1 DEF ApartTargets
    <3>2. /\ IsSeq(target(i)) /\ Toward(placed[i], target(i))
          /\ IsSeq(target(j)) /\ Toward(placed[j], target(j))
      BY <1>3, <2>1
    <3> HIDE DEF target
    <3> QED
      BY <3>1, <3>2, TowardApart
  <2>2. CASE ~(here(i) /\ here(j))
    <3>1. placed[i] = <<>> \/ placed[j] = <<>>
      BY <1>1, <2>2
    <3> QED
      BY <1>2, <3>1 DEF Apartly
  <2> QED
    BY <2>1, <2>2
<1>6. lists = [i \in 1..m |-> lists[i]] /\ \A i \in 1..m : lists[i] = <<lies[i]>> \o placed[i]
  OBVIOUS
<1> QED
  BY <1>4, <1>5, <1>6 DEF PlacedWell

(* What is planned for an assembly with nothing placed is its core.        *)
LEMMA BareHeld ==
  ASSUME NoneIsNoPlan, NEW input, NEW lock, NEW files,
         NEW assembly, assembly = Assembly(input, lock, files),
         NEW manifest, manifest = assembly.manifest,
         NEW u, u = manifest.bootstrap.account.username,
         NEW first, first = Firsts(u, manifest.prompts),
         NEW lies, lies = LieList(manifest.assets),
         NEW secrets, secrets = SecretList(SetToSeq(RequiredSecrets(assembly.plan))),
         NEW core, NEW groups, NEW m, DOMAIN manifest.assets = 1..m,
         Prepared(u, first, groups, m, lies, secrets, manifest, core)
  PROVE  /\ Held(Planned(Additions(BareOf(assembly))), core, <<"home", u>>)
         /\ \A other \in core : CoreAt(u, other)
<1> DEFINE home == <<"home", u>>
           installation == manifest.bootstrap.runnerInstallation
           assets == manifest.assets
           bare == BareOf(assembly)
           placed == [i \in 1..m |-> <<>>]
           lists == [i \in 1..m |-> <<lies[i]>> \o placed[i]]
           whole == Whole(first, lists, secrets, manifest)
           stripped(i) == IF PlacedApart(assets[i], installation)
                          THEN [id |-> assets[i].id, path |-> assets[i].path] ELSE assets[i]
<1>1. /\ bare.manifest.prompts = manifest.prompts /\ bare.manifest.bootstrap = manifest.bootstrap
      /\ bare.plan = assembly.plan
      /\ bare.manifest.assets = [i \in 1..m |-> stripped(i)]
  <2> DEFINE given == assembly.manifest
             rest == [i \in DOMAIN given.assets |->
                        IF PlacedApart(given.assets[i], given.bootstrap.runnerInstallation)
                        THEN [id |-> given.assets[i].id, path |-> given.assets[i].path]
                        ELSE given.assets[i]]
  <2>1. /\ bare.manifest.prompts = given.prompts /\ bare.manifest.bootstrap = given.bootstrap
        /\ bare.plan = assembly.plan /\ bare.manifest.assets = rest
    <3>1. BareSame(assembly, bare)
      <4>1. assembly = Assembly(input, lock, files) /\ bare = BareOf(assembly)
        OBVIOUS
      <4> HIDE DEF bare
      <4> QED
        BY ONLY <4>1, BareFields
    <3> HIDE DEF bare
    <3> QED
      BY ONLY <3>1 DEF BareSame
  <2>2. rest = [i \in 1..m |-> stripped(i)]
    OBVIOUS
  <2> HIDE DEF bare, rest, stripped
  <2> QED
    BY <2>1, <2>2
<1>2. PlacedWell(u, first, m, lies, core, placed, lists)
  BY NothingPlaced
<1>3. /\ Fits({}, whole, home) /\ Holding(whole, core, m, placed)
      /\ \E some : CoreSet(u, core, some)
  <2> HIDE DEF placed, lists
  <2> QED
    BY <1>2, AllFit
<1>4. Additions(bare) = whole
  <2> DEFINE given == [i \in DOMAIN bare.manifest.assets |->
                         AssetAdditions(bare.manifest.assets[i], installation, home)]
  <2>1. ASSUME NEW i \in 1..m
        PROVE  AssetAdditions(stripped(i), installation, home) = <<lies[i]>> \o placed[i]
    <3> DEFINE one == stripped(i)
    <3>1. ~PlacedApart(one, installation) /\ LieOf(one) = LieOf(assets[i])
      <4>1. CASE PlacedApart(assets[i], installation)
        <5>1. one = [id |-> assets[i].id, path |-> assets[i].path]
          BY <4>1
        <5>2. DOMAIN one = {"id", "path"} /\ one.path = assets[i].path
          BY <5>1
        <5> QED
          BY <5>2 DEF PlacedApart, Has, LieOf
      <4>2. CASE ~PlacedApart(assets[i], installation)
        BY <4>2
      <4> QED
        BY <4>1, <4>2
    <3> HIDE DEF one
    <3>2. AssetAdditions(one, installation, home) = <<LieOf(one)>> \o PlaceOf(one, installation, home)
      BY AssetParts
    <3>3. PlaceOf(one, installation, home) = <<>>
      BY <3>1 DEF PlaceOf
    <3>4. lies[i] = LieOf(assets[i]) /\ placed[i] = <<>>
      BY DEF LieList
    <3> QED
      BY <3>1, <3>2, <3>3, <3>4 DEF one
  <2> HIDE DEF stripped, placed
  <2>2. DOMAIN bare.manifest.assets = 1..m /\ \A i \in 1..m : bare.manifest.assets[i] = stripped(i)
    BY <1>1
  <2> HIDE DEF bare
  <2>3. given = lists
    BY <2>1, <2>2
  <2> DEFINE alike == Whole(Firsts(u, bare.manifest.prompts), given,
                            SecretList(SetToSeq(RequiredSecrets(bare.plan))), bare.manifest)
  <2>4. Additions(bare) = alike
    <3>1. /\ u = bare.manifest.bootstrap.account.username
          /\ installation = bare.manifest.bootstrap.runnerInstallation
      BY <1>1
    <3> HIDE DEF installation
    <3>2. given = [i \in DOMAIN bare.manifest.assets |->
                     AssetAdditions(bare.manifest.assets[i],
                                    bare.manifest.bootstrap.runnerInstallation, <<"home", u>>)]
      BY <3>1
    <3> HIDE DEF given
    <3> QED
      BY <3>1, <3>2, AdditionsWhole
  <2>5. SystemAdditions(bare.manifest) = SystemAdditions(manifest)
    BY <1>1, SystemSame
  <2> HIDE DEF given, lists
  <2>6. alike = whole
    BY <1>1, <2>3, <2>5 DEF Whole
  <2> QED
    BY <2>4, <2>6
<1>5. Held(Planned(whole), core, home)
  <2>1. \A i \in 1..m : Range(placed[i]) = {}
    BY DEF Range
  <2> HIDE DEF whole, placed
  <2>2. \A x : x \in Range(whole) <=> x \in core
    BY <1>3, <2>1 DEF Holding
  <2>3. Held(Planned(whole), Range(whole), home)
    BY <1>3, PlannedHeld
  <2> QED
    BY <2>2, <2>3, HeldSame
<1>6. \A other \in core : CoreAt(u, other)
  BY <1>3 DEF CoreSet
<1> QED
  BY <1>4, <1>5, <1>6

(* The root of what synth made can be planned, when Apart finds nothing.   *)
LEMMA ApartPlans ==
  ASSUME NoneIsNoPlan, SomePath, PathsInOrder, NEW input, Normal(input), NEW lock, NEW files,
         ResourceRefusal(input, files) = 0,
         AcceptsDocuments(Manifest(input), RunnerPlan(input), lock),
         Apart(Assembly(input, lock, files))
  PROVE  RootPlan(Assembly(input, lock, files)) # NoPlan
<1> DEFINE assembly == Assembly(input, lock, files)
           manifest == assembly.manifest
           assets == manifest.assets
           installation == manifest.bootstrap.runnerInstallation
           u == manifest.bootstrap.account.username
           home == <<"home", u>>
           first == Firsts(u, manifest.prompts)
           lies == LieList(assets)
           secrets == SecretList(SetToSeq(RequiredSecrets(assembly.plan)))
           core == CoreOf(first, lies, secrets, manifest)
           others == Planned(Additions(BareOf(assembly)))
<1>1. /\ manifest = Manifest(input) /\ assembly.plan = RunnerPlan(input) /\ assembly.lock = lock
      /\ DOMAIN assembly.files = Range(FilePaths(input, files))
  BY AssemblyFields DEF Assembly
<1>2. IsInjective(AssetIds(input))
  BY ResourcesApart
<1>3. /\ \E m \in Nat :
           /\ DOMAIN assets = 1..m
           /\ Prepared(u, first, FirstGroups, m, lies, secrets, manifest, core)
      /\ Under(Etcdir, Range(first)) /\ Under(home, Range(first))
      /\ \A path \in Range(BundlePrivate) : Under(path, Range(first))
  <2> HIDE DEF assembly
  <2> QED
    BY <1>1, <1>2, CorePrepared
<1>4. PICK m \in Nat :
        /\ DOMAIN assets = 1..m
        /\ Prepared(u, first, FirstGroups, m, lies, secrets, manifest, core)
  BY <1>3
<1>5. Held(others, core, home) /\ \A other \in core : CoreAt(u, other)
  <2> HIDE DEF manifest, u, first, lies, secrets, core
  <2> QED
    BY <1>4, BareHeld DEF manifest, u, first, lies, secrets
<1>6. /\ assembly.lock = CuratedLock /\ u \in PortableUsername
      /\ ApartTargets(assets, installation, home) /\ ApartFrom(assets, installation, home, others)
  BY ApartMeans DEF Home
<1>7. \A i \in 1..m : LyingInOrder(assets[i])
  <2>1. assets = Assets(input)
    BY <1>1 DEF Manifest
  <2>2. \A resource \in Range(Assets(input)) : LyingInOrder(resource)
    BY AssetsInOrder
  <2>3. \A i \in 1..m : assets[i] \in Range(assets)
    BY <1>4 DEF Range
  <2> QED
    BY <2>1, <2>2, <2>3
<1> DEFINE placed == [i \in 1..m |-> PlaceOf(assets[i], installation, home)]
           lists == [i \in 1..m |-> <<lies[i]>> \o placed[i]]
           whole == Whole(first, lists, secrets, manifest)
<1>8. Range(first) \subseteq core
  BY DEF CoreOf
<1> HIDE DEF assembly, manifest, others, core, lies, secrets, first, u
<1>9. PlacedWell(u, first, m, lies, core, placed, lists)
  <2> HIDE DEF assets, installation
  <2> QED
    BY <1>3, <1>4, <1>5, <1>6, <1>7, <1>8, AllPlaced
<1>10. Fits({}, whole, home)
  <2> HIDE DEF placed, lists
  <2> QED
    BY <1>4, <1>9, AllFit
<1>11. Planned(whole) # NoPlan
  <2> HIDE DEF whole
  <2> QED
    BY <1>10, PlannedHeld DEF Held
<1>12. Additions(assembly) = whole
  <2> DEFINE given == [i \in DOMAIN assets |-> AssetAdditions(assets[i], installation, home)]
  <2>1. given = lists
    <3>1. \A i \in 1..m : lies[i] = LieOf(assets[i])
      BY <1>4 DEF LieList, lies
    <3> QED
      BY <1>4, <3>1, AssetParts
  <2>2. Additions(assembly) = Whole(Firsts(u, manifest.prompts), given, secrets, manifest)
    BY AdditionsWhole DEF u, secrets, manifest
  <2> QED
    BY <2>1, <2>2 DEF first
<1>13. /\ \A i \in DOMAIN assets : assets[i].path \in DOMAIN assembly.files
       /\ \A i \in DOMAIN manifest.prompts :
            manifest.prompts[i].path \in DOMAIN assembly.files
  <2>1. /\ assets = Assets(input)
        /\ manifest.prompts = [i \in DOMAIN input.prompts |-> PromptDescriptor(input.prompts[i])]
    BY <1>1 DEF Manifest
  <2>2. \A value : PromptDescriptor(value).path = PromptPath(value.id)
    BY DEF PromptDescriptor
  <2>3. /\ \A i \in DOMAIN Assets(input) : Assets(input)[i].path \in DOMAIN assembly.files
        /\ \A i \in DOMAIN input.prompts :
             PromptPath(input.prompts[i].id) \in DOMAIN assembly.files
    BY <1>1, FilesRead
  <2> HIDE DEF assets
  <2> QED
    BY <2>1, <2>2, <2>3
<1>14. AcceptsDocuments(manifest, assembly.plan, assembly.lock)
  BY <1>1
<1>15. RootPlan(assembly) = Planned(whole)
  <2> HIDE DEF whole
  <2> QED
    BY <1>6, <1>12, <1>13, <1>14 DEF RootPlan, manifest, u
<1> QED
  BY <1>11, <1>15 DEF assembly

-----------------------------------------------------------------------------
(* The run up to the first boot.  A command that writes has read what it   *)
(* checked; what is customized and booted was made of exactly that.        *)
AssemblyFrom(source, others, read) == Assembly(Loaded(source), others.lock, read)
ReadFor(source, read) == ResourceRefusal(Loaded(source), read) = 0
PlannedFrom(source, others, read) == RootPlan(AssemblyFrom(source, others, read)) # NoPlan
StopFrom(source, others, read) ==
  StopsAt(RootPlan(AssemblyFrom(source, others, read)), AssemblyFrom(source, others, read))

(* The one who made the image.                                             *)
Maker(w) == w \in Writer /\ users = {w} /\ phase[w] = "writing"

WritersWrite ==
  /\ DOMAIN at = Writer /\ DOMAIN sources = Writer /\ DOMAIN phase = Writer
  /\ \A w \in Writer : at[w] # "idle" => phase[w] = "writing"

SourcesRead ==
  \A source, read : file = source /\ sources = read =>
    \A w \in Writer :
      phase[w] \in {"collected", "planned", "writing"} => ReadFor(source, read[w])

ImageMade ==
  \A source, others, read : file = source /\ inputs = others /\ sources = read =>
    /\ image = "planned" => \E w \in Writer : Maker(w) /\ PlannedFrom(source, others, read[w])
    /\ image = "refused" => \E w \in Writer : Maker(w) /\ ~PlannedFrom(source, others, read[w])
    /\ boot # NotBooted =>
         \E w \in Writer : /\ Maker(w) /\ PlannedFrom(source, others, read[w])
                           /\ boot = StopFrom(source, others, read[w])

LEMMA WriterPlace ==
  ASSUME DOMAIN at = Writer, NEW w \in Writer, WriterStep(w)
  PROVE  DOMAIN at' = Writer /\ \A u \in Writer \ {w} : at'[u] = at[u]
<1>1. CASE Begin(w)
  BY <1>1 DEF Begin, At
<1>2. ASSUME NEW paths, Write(w, paths)
      PROVE  DOMAIN at' = Writer /\ \A u \in Writer \ {w} : at'[u] = at[u]
  BY <1>2 DEF Write, InspectExistingOutput, AssertReplaceableAssembly, MakeStaging,
     WriteStaging, SyncStaging, SetAside, Publish, Restore, SyncSwap, DropBackup, SyncDrop,
     Clean, Failure, Die, At, Set
<1> QED
  BY <1>1, <1>2 DEF WriterStep

LEMMA WritersWriteStep ==
  ASSUME WritersWrite, users \subseteq Writer, [SynthNext]_synthVars
  PROVE  WritersWrite'
<1>1. ASSUME NEW w \in users, NEW here, NEW refusals, NEW next, here # "writing",
             Moves(w, here, refusals, next), DOMAIN sources' = Writer
      PROVE  WritersWrite'
  <2>1. at' = at /\ phase[w] # "writing"
    BY <1>1 DEF Moves, writerVars
  <2>2. DOMAIN phase' = Writer /\ \A u \in Writer \ {w} : phase'[u] = phase[u]
    BY <1>1 DEF Moves, Set, WritersWrite
  <2> QED
    BY <1>1, <2>1, <2>2 DEF WritersWrite
<1>2. ASSUME NEW w \in users, Load(w)
      PROVE  WritersWrite'
  <2>1. DOMAIN sources' = Writer
    BY <1>2 DEF Load, WritersWrite
  <2> QED
    BY <1>1, <1>2, <2>1 DEF Load
<1>3. ASSUME NEW w \in users, Collect(w)
      PROVE  WritersWrite'
  <2>1. DOMAIN sources' = Writer
    BY <1>3 DEF Collect, Set, WritersWrite
  <2> QED
    BY <1>1, <1>3, <2>1 DEF Collect
<1>4. ASSUME NEW w \in users, Synthesize(w)
      PROVE  WritersWrite'
  <2>1. DOMAIN sources' = Writer
    BY <1>4 DEF Synthesize, WritersWrite
  <2> QED
    BY <1>1, <1>4, <2>1 DEF Synthesize
<1>5. ASSUME NEW w \in users, Plan(w) \/ Customize(w) \/ Boot(w)
      PROVE  WritersWrite'
  BY <1>5 DEF Plan, Customize, Boot, commandVars, writerVars, WritersWrite
<1>6. ASSUME NEW w \in users, WriteAssembly(w)
      PROVE  WritersWrite'
  <2>1. WriterStep(w) /\ w \in Writer
    BY <1>6 DEF WriteAssembly, WriterStep
  <2>2. DOMAIN at' = Writer /\ \A u \in Writer \ {w} : at'[u] = at[u]
    BY <2>1, WriterPlace DEF WritersWrite
  <2>3. phase' = phase /\ sources' = sources /\ phase[w] = "writing"
    BY <1>6 DEF WriteAssembly
  <2> QED
    BY <2>2, <2>3 DEF WritersWrite
<1>7. CASE LosePower
  <2>1. at' = [w \in Writer |-> IF Running(w) THEN "dead" ELSE at[w]]
    BY <1>7 DEF LosePower, PowerFails
  <2>2. DOMAIN at' = Writer /\ \A w \in Writer : at'[w] # "idle" => at[w] # "idle"
    BY <2>1 DEF Running
  <2>3. phase' = phase /\ sources' = sources
    BY <1>7 DEF LosePower, commandVars
  <2> QED
    BY <2>2, <2>3 DEF WritersWrite
<1>8. CASE \E url, contents : Edit(url, contents)
  BY <1>8 DEF Edit, commandVars, writerVars, WritersWrite
<1>9. CASE UNCHANGED synthVars
  BY <1>9 DEF synthVars, commandVars, writerVars, WritersWrite
<1> QED
  BY <1>2, <1>3, <1>4, <1>5, <1>6, <1>7, <1>8, <1>9 DEF SynthNext, CommandNext

LEMMA SourcesReadStep ==
  ASSUME WritersWrite, SourcesRead, users \subseteq Writer, [SynthNext]_synthVars
  PROVE  SourcesRead'
<1>1. ASSUME UNCHANGED <<file, sources>>,
             \A w \in Writer : phase'[w] \in {"collected", "planned", "writing"} =>
               phase[w] \in {"collected", "planned", "writing"}
      PROVE  SourcesRead'
  BY <1>1 DEF SourcesRead
<1>2. ASSUME NEW w \in users, NEW here, NEW refusals, NEW next,
             Moves(w, here, refusals, next)
      PROVE  /\ file' = file /\ \A u \in Writer \ {w} : phase'[u] = phase[u]
             /\ phase[w] = here
             /\ phase'[w] = "refused" \/ (refusals \subseteq {0} /\ phase'[w] = next)
  BY <1>2 DEF Moves, Set, WritersWrite
<1>3. ASSUME NEW w \in users, Load(w)
      PROVE  SourcesRead'
  <2>1. \A u \in Writer \ {w} : phase'[u] = phase[u]
    BY <1>2, <1>3 DEF Load
  <2>2. file' = file /\ (phase'[w] = "refused" \/ phase'[w] = "loaded")
    BY <1>2, <1>3 DEF Load
  <2>3. sources' = sources
    BY <1>3 DEF Load
  <2> QED
    BY <1>1, <2>1, <2>2, <2>3
<1>4. ASSUME NEW w \in users, Collect(w)
      PROVE  SourcesRead'
  <2> DEFINE kept == LockRefusal(definition, inputs.lock)
             read == CollectionRefusal(definition, tree)
             held == ResourceRefusal(definition, tree)
             three == <<kept, read, held>>
             refusals == {FirstOf(three)}
  <2>1. Moves(w, "loaded", refusals, "collected")
    BY <1>4 DEF Collect
  <2>2. ASSUME refusals \subseteq {0}, NEW source, file = source
        PROVE  ReadFor(source, tree)
    <3>1. FirstOf(three) = 0
      BY <2>2
    <3>2. DOMAIN three \subseteq Nat /\ DOMAIN three = {1, 2, 3} /\ three[3] = held
      OBVIOUS
    <3> HIDE DEF three
    <3>3. \A i \in DOMAIN three : three[i] = 0
      BY <3>1, <3>2, FirstOfNone
    <3>4. held = 0
      BY <3>2, <3>3
    <3> QED
      BY <2>2, <3>4 DEF definition, ReadFor
  <2> HIDE DEF refusals
  <2>3. /\ file' = file /\ \A u \in Writer \ {w} : phase'[u] = phase[u]
        /\ phase'[w] = "refused" \/ refusals \subseteq {0}
    BY <1>2, <2>1
  <2>4. sources' = Set(sources, w, tree) /\ w \in DOMAIN sources
    BY <1>4 DEF Collect, WritersWrite
  <2>5. sources'[w] = tree /\ \A u \in Writer \ {w} : sources'[u] = sources[u]
    BY <2>4 DEF Set
  <2> QED
    BY <2>2, <2>3, <2>5 DEF SourcesRead
<1>5. ASSUME NEW w \in users, Synthesize(w)
      PROVE  SourcesRead'
  <2> DEFINE next == IF planOnly[w] THEN "planned" ELSE "writing"
             refusals == {DocumentRefusal(definition, inputs.lock)}
  <2>1. Moves(w, "collected", refusals, next) /\ sources' = sources
    BY <1>5 DEF Synthesize
  <2> HIDE DEF next, refusals
  <2>2. /\ file' = file /\ phase[w] = "collected"
        /\ \A u \in Writer \ {w} : phase'[u] = phase[u]
    BY <1>2, <2>1
  <2> QED
    BY <1>1, <2>1, <2>2
<1>6. ASSUME NEW w \in users, Plan(w) \/ WriteAssembly(w) \/ Customize(w) \/ Boot(w)
      PROVE  SourcesRead'
  BY <1>1, <1>6 DEF Plan, WriteAssembly, Customize, Boot, commandVars
<1>7. CASE LosePower \/ \E url, contents : Edit(url, contents)
  BY <1>1, <1>7 DEF LosePower, Edit, commandVars
<1>8. CASE UNCHANGED synthVars
  BY <1>1, <1>8 DEF synthVars, commandVars
<1> QED
  BY <1>3, <1>4, <1>5, <1>6, <1>7, <1>8 DEF SynthNext, CommandNext

LEMMA ImageMadeStep ==
  ASSUME WritersWrite, ImageMade, users \subseteq Writer, [SynthNext]_synthVars
  PROVE  ImageMade'
<1>1. ASSUME UNCHANGED <<file, inputs, users, phase, sources, image, boot>>
      PROVE  ImageMade'
  BY <1>1 DEF ImageMade, Maker
<1>2. ASSUME NEW w \in users, phase[w] # "writing", UNCHANGED afterVars
      PROVE  ImageMade'
  <2>1. \A u \in Writer : ~Maker(u)
    BY <1>2 DEF Maker
  <2>2. image # "planned" /\ image # "refused" /\ boot = NotBooted
    BY <2>1 DEF ImageMade
  <2> QED
    BY <1>2, <2>2 DEF ImageMade, afterVars, NotBooted
<1>3. ASSUME NEW w \in users, Load(w) \/ Collect(w) \/ Synthesize(w)
      PROVE  ImageMade'
  BY <1>2, <1>3 DEF Load, Collect, Synthesize, Moves
<1>4. ASSUME NEW w \in users, Plan(w) \/ WriteAssembly(w)
      PROVE  ImageMade'
  BY <1>1, <1>4 DEF Plan, WriteAssembly, afterVars
<1>5. CASE LosePower \/ \E url, contents : Edit(url, contents)
  BY <1>1, <1>5 DEF LosePower, Edit, commandVars, afterVars
<1>6. CASE UNCHANGED synthVars
  BY <1>1, <1>6 DEF synthVars, commandVars, afterVars
<1>7. ASSUME NEW w \in users, Published(w)
      PROVE  Maker(w)
  BY <1>7 DEF Published, Maker, WritersWrite
<1>8. ASSUME NEW w \in users, Customize(w)
      PROVE  ImageMade'
  <2>1. /\ Published(w) /\ UNCHANGED <<file, inputs, users, phase, sources, boot>>
        /\ image' = IF RootPlan(AssemblyOf(w)) = NoPlan THEN "refused" ELSE "planned"
    BY <1>8 DEF Customize, commandVars
  <2>2. w \in Writer /\ Maker(w) /\ \A u \in Writer : Maker(u)' <=> Maker(u)
    BY <1>7, <2>1 DEF Maker
  <2>3. \A source, others, read : file = source /\ inputs = others /\ sources = read =>
          AssemblyOf(w) = AssemblyFrom(source, others, read[w])
    BY DEF AssemblyOf, AssemblyFrom, definition
  <2>4. \A source, others, read : file = source /\ inputs = others /\ sources = read =>
          /\ image' = "planned" => PlannedFrom(source, others, read[w])
          /\ image' = "refused" => ~PlannedFrom(source, others, read[w])
    BY <2>1, <2>3 DEF PlannedFrom
  <2> QED
    BY <2>1, <2>2, <2>4 DEF ImageMade
<1>9. ASSUME NEW w \in users, Boot(w)
      PROVE  ImageMade'
  <2>1. /\ Published(w) /\ UNCHANGED <<file, inputs, users, phase, sources, image>>
        /\ image = "planned" /\ boot' = StopsAt(RootPlan(AssemblyOf(w)), AssemblyOf(w))
    BY <1>9 DEF Boot, commandVars
  <2>2. w \in Writer /\ Maker(w) /\ \A u \in Writer : Maker(u)' <=> Maker(u)
    BY <1>7, <2>1 DEF Maker
  <2>3. \A u \in Writer : Maker(u) => u = w
    BY <2>2 DEF Maker
  <2>4. \A source, others, read : file = source /\ inputs = others /\ sources = read =>
          /\ PlannedFrom(source, others, read[w])
          /\ boot' = StopFrom(source, others, read[w])
    <3> TAKE source, others, read
    <3> HAVE file = source /\ inputs = others /\ sources = read
    <3>1. PlannedFrom(source, others, read[w])
      BY <2>1, <2>3 DEF ImageMade
    <3>2. AssemblyOf(w) = AssemblyFrom(source, others, read[w])
      BY DEF AssemblyOf, AssemblyFrom, definition
    <3>3. boot' = StopFrom(source, others, read[w])
      BY <2>1, <3>2 DEF StopFrom
    <3> QED
      BY <3>1, <3>3
  <2> QED
    BY <2>1, <2>2, <2>4 DEF ImageMade
<1> QED
  BY <1>3, <1>4, <1>5, <1>6, <1>8, <1>9 DEF SynthNext, CommandNext

(* Who writes has had its documents checked.                               *)
AcceptedFrom(source, others) == DocumentRefusal(Loaded(source), others.lock) = 0

DocumentsChecked ==
  \A source, others : file = source /\ inputs = others =>
    \A w \in Writer : phase[w] \in {"planned", "writing"} => AcceptedFrom(source, others)

LEMMA DocumentsCheckedStep ==
  ASSUME WritersWrite, DocumentsChecked, users \subseteq Writer, [SynthNext]_synthVars
  PROVE  DocumentsChecked'
<1>1. ASSUME UNCHANGED <<file, inputs>>,
             \A w \in Writer : phase'[w] \in {"planned", "writing"} =>
               phase[w] \in {"planned", "writing"}
      PROVE  DocumentsChecked'
  BY <1>1 DEF DocumentsChecked
<1>2. ASSUME NEW w \in users, NEW here, NEW refusals, NEW next,
             Moves(w, here, refusals, next)
      PROVE  /\ UNCHANGED <<file, inputs>> /\ \A u \in Writer \ {w} : phase'[u] = phase[u]
             /\ phase'[w] = "refused" \/ (refusals \subseteq {0} /\ phase'[w] = next)
  BY <1>2 DEF Moves, Set, WritersWrite
<1>3. ASSUME NEW w \in users, Load(w) \/ Collect(w)
      PROVE  DocumentsChecked'
  <2>1. /\ UNCHANGED <<file, inputs>> /\ \A u \in Writer \ {w} : phase'[u] = phase[u]
        /\ phase'[w] \in {"refused", "loaded", "collected"}
    BY <1>2, <1>3 DEF Load, Collect
  <2> QED
    BY <1>1, <2>1
<1>4. ASSUME NEW w \in users, Synthesize(w)
      PROVE  DocumentsChecked'
  <2> DEFINE next == IF planOnly[w] THEN "planned" ELSE "writing"
             refusals == {DocumentRefusal(definition, inputs.lock)}
  <2>1. Moves(w, "collected", refusals, next)
    BY <1>4 DEF Synthesize
  <2>2. ASSUME refusals \subseteq {0}, NEW source, NEW others, file = source, inputs = others
        PROVE  AcceptedFrom(source, others)
    BY <2>2 DEF AcceptedFrom, definition
  <2> HIDE DEF next, refusals
  <2>3. /\ UNCHANGED <<file, inputs>> /\ \A u \in Writer \ {w} : phase'[u] = phase[u]
        /\ phase'[w] = "refused" \/ refusals \subseteq {0}
    BY <1>2, <2>1
  <2> QED
    BY <2>2, <2>3 DEF DocumentsChecked
<1>5. ASSUME NEW w \in users, Plan(w) \/ WriteAssembly(w) \/ Customize(w) \/ Boot(w)
      PROVE  DocumentsChecked'
  BY <1>1, <1>5 DEF Plan, WriteAssembly, Customize, Boot, commandVars
<1>6. CASE LosePower \/ \E url, contents : Edit(url, contents)
  BY <1>1, <1>6 DEF LosePower, Edit, commandVars
<1>7. CASE UNCHANGED synthVars
  BY <1>1, <1>7 DEF synthVars, commandVars
<1> QED
  BY <1>3, <1>4, <1>5, <1>6, <1>7 DEF SynthNext, CommandNext

BootsAsPromised == \A w \in Writer : Published(w) => BootsOrExcused(w)

LEMMA MadeBoots ==
  ASSUME NoArray, SomePath, PathsInOrder, Checked, SourcesRead, ImageMade
  PROVE  BootsAsPromised
<1> SUFFICES ASSUME NEW w \in Writer, Published(w)
             PROVE  BootsOrExcused(w)
  BY DEF BootsAsPromised
<1>1. CASE boot = NotBooted
  <2>1. boot # NotStarted /\ ~(boot > 0)
    BY <1>1 DEF NotBooted, NotStarted
  <2> QED
    BY <2>1 DEF BootsOrExcused
<1>2. ASSUME boot # NotBooted, NEW source, NEW others, NEW read,
             file = source, inputs = others, sources = read
      PROVE  BootsOrExcused(w)
  <2> DEFINE input == Loaded(source)
             assembly == Assembly(input, others.lock, read[w])
             stop == StopsAt(RootPlan(assembly), assembly)
  <2>1. /\ Maker(w) /\ PlannedFrom(source, others, read[w])
        /\ boot = StopFrom(source, others, read[w])
    BY <1>2 DEF ImageMade, Maker, Published
  <2>2. Normal(input) /\ ResourceRefusal(input, read[w]) = 0
    BY <1>2, <2>1 DEF Checked, SourcesRead, ParsedFile, ReadFor, Maker
  <2>3. Taken(input, others.lock, read[w])
    BY <2>1, <2>2 DEF Taken, PlannedFrom, AssemblyFrom
  <2>4. (stop = NotStarted => ~Gated(assembly.plan)) /\ (stop > 0 => Excused(assembly.plan, stop))
    <3> HIDE DEF input
    <3> QED
      BY <2>3, BootStops
  <2>5. AssemblyOf(w) = assembly /\ boot = stop
    BY <1>2, <2>1 DEF AssemblyOf, definition, StopFrom, AssemblyFrom
  <2> HIDE DEF assembly, stop
  <2> QED
    BY <2>4, <2>5 DEF BootsOrExcused
<1> QED
  BY <1>1, <1>2

(* Whatever the definition, the files and the edits: the first boot of a   *)
(* customized image never stops for want of what the definition promised,  *)
(* a script, a rendered prompt, a provider or a secret, but where Excused  *)
(* and Gated say (synthesize.ts, plan.ts: createPiPlan, hydrator.ts).      *)
THEOREM FirstBootKeepsPromises ==
  ASSUME NoArray, SomePath, PathsInOrder
  PROVE  SynthSpec => []BootsAsPromised
<1> DEFINE Users == users \subseteq Writer
           Inv == Users /\ Checked /\ WritersWrite /\ SourcesRead /\ ImageMade
<1>1. WriterInit /\ CommandInit /\ Users => Inv
  BY DEF WriterInit, CommandInit, Checked, WritersWrite, SourcesRead, ImageMade, None, NotBooted
<1>2. Inv /\ [SynthNext]_synthVars => Inv'
  <2> SUFFICES ASSUME Inv, [SynthNext]_synthVars
               PROVE  Inv'
    OBVIOUS
  <2>1. Users' /\ Checked'
    BY CheckedSteps, CommandStepWrites
  <2>2. WritersWrite'
    BY WritersWriteStep
  <2>3. SourcesRead'
    BY SourcesReadStep
  <2>4. ImageMade'
    BY ImageMadeStep
  <2> QED
    BY <2>1, <2>2, <2>3, <2>4
<1>3. Inv => BootsAsPromised
  BY MadeBoots
<1> HIDE DEF Inv
<1> QED
  BY <1>1, <1>2, <1>3, PTL DEF SynthSpec

PlansAsPromised == \A w \in Writer : Published(w) => PlansOrApart(w)

LEMMA MadePlans ==
  ASSUME NoneIsNoPlan, SomePath, PathsInOrder, Checked, SourcesRead, DocumentsChecked, ImageMade
  PROVE  PlansAsPromised
<1> SUFFICES ASSUME NEW w \in Writer, Published(w), image = "refused", Apart(AssemblyOf(w))
             PROVE  FALSE
  BY DEF PlansAsPromised, PlansOrApart
<1>1. ASSUME NEW source, NEW others, NEW read, file = source, inputs = others, sources = read
      PROVE  FALSE
  <2> DEFINE input == Loaded(source)
             assembly == Assembly(input, others.lock, read[w])
  <2>1. Maker(w) /\ ~PlannedFrom(source, others, read[w])
    BY <1>1 DEF ImageMade, Maker, Published
  <2>2. Normal(input) /\ ResourceRefusal(input, read[w]) = 0
    BY <1>1, <2>1 DEF Checked, SourcesRead, ParsedFile, ReadFor, Maker
  <2>3. AcceptsDocuments(Manifest(input), RunnerPlan(input), others.lock)
    BY <1>1, <2>1 DEF DocumentsChecked, AcceptedFrom, DocumentRefusal, Maker
  <2>4. AssemblyOf(w) = assembly
    BY <1>1 DEF AssemblyOf, definition
  <2>5. Apart(assembly)
    BY <2>4
  <2>6. RootPlan(assembly) # NoPlan
    <3> HIDE DEF input
    <3> QED
      BY <2>2, <2>3, <2>5, ApartPlans
  <2> QED
    BY <2>1, <2>6 DEF PlannedFrom, AssemblyFrom
<1> QED
  BY <1>1

(* Whatever the definition, the files and the edits: what synth accepts    *)
(* makes an image that can be customized, but for what Apart names, and    *)
(* whose first boot keeps what the definition promised, but for what       *)
(* Excused and Gated name: all that was planned is in place, and nothing   *)
(* that is planned is in the way of anything else (synthesize.ts, plan.ts: *)
(* createPiPlan, builder.ts, hydrator.ts).                                 *)
THEOREM AcceptedDefinitionsRun ==
  ASSUME NoArray, SomePath, PathsInOrder, NoneIsNoPlan
  PROVE  SynthSpec => []AcceptedRuns
<1> DEFINE Users == users \subseteq Writer
           Inv == Users /\ Checked /\ WritersWrite /\ SourcesRead /\ DocumentsChecked /\ ImageMade
<1>1. WriterInit /\ CommandInit /\ Users => Inv
  BY DEF WriterInit, CommandInit, Checked, WritersWrite, SourcesRead, DocumentsChecked,
         ImageMade, None, NotBooted
<1>2. Inv /\ [SynthNext]_synthVars => Inv'
  <2> SUFFICES ASSUME Inv, [SynthNext]_synthVars
               PROVE  Inv'
    OBVIOUS
  <2>1. Users' /\ Checked'
    BY CheckedSteps, CommandStepWrites
  <2>2. WritersWrite'
    BY WritersWriteStep
  <2>3. SourcesRead'
    BY SourcesReadStep
  <2>4. DocumentsChecked'
    BY DocumentsCheckedStep
  <2>5. ImageMade'
    BY ImageMadeStep
  <2> QED
    BY <2>1, <2>2, <2>3, <2>4, <2>5
<1>3. Inv => AcceptedRuns
  <2> SUFFICES ASSUME Inv
               PROVE  PlansAsPromised /\ BootsAsPromised
    BY DEF PlansAsPromised, BootsAsPromised, AcceptedRuns
  <2> QED
    BY MadePlans, MadeBoots
<1> HIDE DEF Inv
<1> QED
  BY <1>1, <1>2, <1>3, PTL DEF SynthSpec
=============================================================================
