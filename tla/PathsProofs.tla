----------------------------- MODULE PathsProofs -----------------------------
(***************************************************************************)
(* That a context names its files as its guest means it: for any tree, any *)
(* paths and any descriptors, however deep the working directory, a call   *)
(* acts on the node the guest named, and ctx->cwd leads to the directory   *)
(* the guest is in unless it was lost.  The one hypothesis is that of the  *)
(* run: the *at calls start at descriptors.                                *)
(***************************************************************************)
EXTENDS Paths, FiniteSetTheorems, WellFoundedInduction, TLAPS

Regular == AtBases \subseteq {"fd"}

-----------------------------------------------------------------------------
(* Walks *)

\* A set of numbers has a least one.
LEMMA LeastNumber ==
  ASSUME NEW T \in SUBSET Nat, T # {}
  PROVE  \E x \in T : \A y \in T : x <= y
<1> DEFINE R == StrictSubsetOrdering(Nat)
           I == {0 .. n : n \in T}
<1>1. I \subseteq FiniteSubsetsOf(Nat) /\ I # {}
  <2>1. ASSUME NEW n \in T
        PROVE  IsFiniteSet(0 .. n)
    BY FS_Interval
  <2>2. ASSUME NEW n \in T
        PROVE  0 .. n \in SUBSET Nat
    OBVIOUS
  <2>3. QED
    BY <2>1, <2>2, Zenon DEF FiniteSubsetsOf
<1>2. IsWellFoundedOn(R, FiniteSubsetsOf(Nat))
  BY FS_StrictSubsetOrderingWellFounded
<1> HIDE DEF I, R
<1>3. PICK i \in I : \A j \in I : ~ (<<j, i>> \in R)
  BY <1>1, <1>2, WFMin
<1> USE DEF I, R
<1>4. PICK x \in T : i = 0 .. x
  BY <1>3
<1>5. ASSUME NEW y \in T, y < x
      PROVE  FALSE
  <2>1. 0 .. y \in I /\ 0 .. y \subseteq 0 .. x /\ x \notin 0 .. y /\ x \in 0 .. x
    BY <1>5
  <2>2. <<0 .. y, i>> \in R
    BY <2>1, <1>4 DEF StrictSubsetOrdering
  <2>3. QED
    BY <1>3, <2>1, <2>2
<1>6. QED
  BY <1>4, <1>5

\* Two sequences of values that start alike and go on alike are alike.
LEMMA Follow ==
  ASSUME NEW n \in Nat, NEW f, NEW g, f[0] = g[0],
         \A i \in 1 .. n : f[i - 1] = g[i - 1] => f[i] = g[i]
  PROVE  \A i \in 0 .. n : f[i] = g[i]
<1> DEFINE T == {i \in 0 .. n : f[i] # g[i]}
<1>1. SUFFICES ASSUME T # {} PROVE FALSE
  OBVIOUS
<1>2. PICK i \in T : \A j \in T : i <= j
  <2>1. T \in SUBSET Nat
    OBVIOUS
  <2>2. QED
    BY <1>1, <2>1, LeastNumber
<1>3. i # 0
  OBVIOUS
<1>4. i \in 1 .. n /\ i - 1 \in 0 .. n /\ i - 1 \notin T
  BY <1>2, <1>3
<1>5. f[i - 1] = g[i - 1]
  BY <1>4
<1>6. QED
  BY <1>2, <1>4, <1>5

\* f holds the first n steps of a walk.
Walks(f, dirs, from, names, n) ==
  /\ f = [i \in 0 .. n |-> f[i]]
  /\ f[0] = from
  /\ \A i \in 1 .. n : f[i] = Further(dirs, f[i - 1], names[i])

LEMMA WalksExist ==
  ASSUME NEW dirs, NEW from, NEW names \in Names
  PROVE  \A n \in 0 .. Len(names) : \E f : Walks(f, dirs, from, names, n)
<1> DEFINE T == {n \in 0 .. Len(names) : ~ \E f : Walks(f, dirs, from, names, n)}
<1>1. SUFFICES ASSUME T # {} PROVE FALSE
  OBVIOUS
<1>0. Len(names) \in Nat
  BY DEF Names
<1>2. PICK n \in T : \A m \in T : n <= m
  <2>1. T \in SUBSET Nat
    BY <1>0
  <2>2. QED
    BY <1>1, <2>1, LeastNumber
<1>3. CASE n = 0
  <2>1. Walks([i \in 0 .. 0 |-> from], dirs, from, names, 0)
    BY DEF Walks
  <2>2. QED
    BY <1>2, <1>3, <2>1
<1>4. CASE n # 0
  <2>1. n \in Nat /\ n - 1 \in 0 .. Len(names) /\ n - 1 \notin T
    BY <1>0, <1>2, <1>4
  <2>2. PICK f : Walks(f, dirs, from, names, n - 1)
    BY <2>1
  <2> DEFINE g == [i \in 0 .. n |-> IF i = n THEN Further(dirs, f[n - 1], names[n]) ELSE f[i]]
  <2>3. g = [i \in 0 .. n |-> g[i]]
    OBVIOUS
  <2>4. g[0] = from
    BY <2>1, <2>2, <1>4 DEF Walks
  <2>5. ASSUME NEW i \in 1 .. n
        PROVE  g[i] = Further(dirs, g[i - 1], names[i])
    <3>1. i \in 0 .. n /\ i - 1 \in 0 .. n /\ i - 1 # n
      BY <2>1
    <3>2. g[i - 1] = f[i - 1]
      BY <3>1
    <3>3. CASE i = n
      BY <3>1, <3>2, <3>3
    <3>4. CASE i # n
      <4>1. i \in 1 .. (n - 1)
        BY <2>1, <3>4
      <4>2. f[i] = Further(dirs, f[i - 1], names[i])
        BY <2>2, <4>1 DEF Walks
      <4>3. QED
        BY <3>1, <3>2, <3>4, <4>2
    <3>5. QED
      BY <3>3, <3>4
  <2>6. Walks(g, dirs, from, names, n)
    <3> HIDE DEF g
    <3>1. QED
      BY <2>3, <2>4, <2>5 DEF Walks
  <2>7. QED
    BY <1>2, <2>6
<1>5. QED
  BY <1>3, <1>4

LEMMA StepsFacts ==
  ASSUME NEW dirs, NEW from, NEW names \in Names
  PROVE  Walks(Steps(dirs, from, names), dirs, from, names, Len(names))
<1> DEFINE Def(f) == [i \in 0 .. Len(names) |-> IF i = 0 THEN from ELSE Further(dirs, f[i - 1], names[i])]
<1>0. Len(names) \in Nat
  BY DEF Names
<1>1. PICK f : Walks(f, dirs, from, names, Len(names))
  <2>1. Len(names) \in 0 .. Len(names)
    BY <1>0
  <2>2. QED
    BY <2>1, WalksExist, Zenon
<1>2. f = Def(f)
  <2>1. \A i \in 0 .. Len(names) : f[i] = IF i = 0 THEN from ELSE Further(dirs, f[i - 1], names[i])
    <3>1. ASSUME NEW i \in 0 .. Len(names)
          PROVE  f[i] = IF i = 0 THEN from ELSE Further(dirs, f[i - 1], names[i])
      <4>1. CASE i = 0
        BY <1>1, <4>1 DEF Walks
      <4>2. CASE i # 0
        <5>1. i \in 1 .. Len(names)
          BY <1>0, <4>2
        <5>2. QED
          BY <1>1, <4>2, <5>1 DEF Walks
      <4>3. QED
        BY <4>1, <4>2
    <3>2. QED
      BY <3>1
  <2>2. f = [i \in 0 .. Len(names) |-> f[i]]
    BY <1>1 DEF Walks
  <2>3. QED
    BY <2>1, <2>2
<1>3. Steps(dirs, from, names) = Def(Steps(dirs, from, names))
  BY <1>2, Zenon DEF Steps
<1> DEFINE p == Steps(dirs, from, names)
<1> HIDE DEF p
<1>4. \A i \in 0 .. Len(names) : p[i] = IF i = 0 THEN from ELSE Further(dirs, p[i - 1], names[i])
  BY <1>3 DEF p
<1>5. p = [i \in 0 .. Len(names) |-> p[i]]
  BY <1>3 DEF p
<1>6. p[0] = from
  BY <1>0, <1>4
<1>7. \A i \in 1 .. Len(names) : p[i] = Further(dirs, p[i - 1], names[i])
  <2>1. ASSUME NEW i \in 1 .. Len(names)
        PROVE  i \in 0 .. Len(names) /\ i # 0
    BY <1>0
  <2>2. QED
    BY <2>1, <1>4
<1>8. QED
  BY <1>5, <1>6, <1>7 DEF Walks, p

LEMMA StepsType ==
  ASSUME NEW dirs, NEW from, NEW names \in Names
  PROVE  /\ Len(names) \in Nat
         /\ Steps(dirs, from, names)[0] = from
         /\ \A i \in 1 .. Len(names) :
              /\ names[i] \in STRING
              /\ Steps(dirs, from, names)[i] = Further(dirs, Steps(dirs, from, names)[i - 1], names[i])
BY StepsFacts DEF Walks, Names

\* Names after names lead on from where the first ones lead.
LEMMA WalkOn ==
  ASSUME NEW dirs, NEW from, NEW s \in Names, NEW t \in Names
  PROVE  /\ s \o t \in Names /\ Len(s \o t) = Len(s) + Len(t)
         /\ Steps(dirs, from, s \o t)[Len(s \o t)] = Steps(dirs, Steps(dirs, from, s)[Len(s)], t)[Len(t)]
<1> DEFINE u == s \o t
           f == Steps(dirs, from, u)
           g == Steps(dirs, from, s)
           mid == g[Len(s)]
           h == Steps(dirs, mid, t)
           k == [j \in 0 .. Len(t) |-> f[Len(s) + j]]
<1>1. /\ u \in Names /\ Len(u) = Len(s) + Len(t) /\ Len(s) \in Nat /\ Len(t) \in Nat
      /\ \A i \in 1 .. Len(s) : u[i] = s[i]
      /\ \A j \in 1 .. Len(t) : u[Len(s) + j] = t[j]
  BY DEF Names
<1> HIDE DEF u
<1>2. /\ f[0] = from
      /\ \A i \in 1 .. Len(u) : f[i] = Further(dirs, f[i - 1], u[i])
  <2>1. u \in Names
    BY <1>1
  <2>2. QED
    BY <2>1, StepsType
<1>3. /\ g[0] = from
      /\ \A i \in 1 .. Len(s) : g[i] = Further(dirs, g[i - 1], s[i])
  BY StepsType
<1> HIDE DEF f, g
<1>4. \A i \in 0 .. Len(s) : f[i] = g[i]
  <2>1. \A i \in 1 .. Len(s) : f[i - 1] = g[i - 1] => f[i] = g[i]
    <3>1. \A i \in 1 .. Len(s) : i \in 1 .. Len(u)
      BY <1>1
    <3>2. QED
      BY <1>1, <1>2, <1>3, <3>1
  <2>2. f[0] = g[0] /\ Len(s) \in Nat
    BY <1>1, <1>2, <1>3
  <2>3. QED
    BY <2>1, <2>2, Follow, Zenon
<1>5. f[Len(s)] = mid
  BY <1>1, <1>4
<1> HIDE DEF mid
<1>6. /\ h[0] = mid
      /\ \A j \in 1 .. Len(t) : h[j] = Further(dirs, h[j - 1], t[j])
  BY StepsType
<1> HIDE DEF h
<1>7. \A j \in 0 .. Len(t) : k[j] = f[Len(s) + j]
  OBVIOUS
<1> HIDE DEF k
<1>8. \A j \in 0 .. Len(t) : k[j] = h[j]
  <2>1. k[0] = h[0]
    <3>1. Len(s) + 0 = Len(s) /\ 0 \in 0 .. Len(t)
      BY <1>1
    <3>2. QED
      BY <1>5, <1>6, <1>7, <3>1
  <2>2. ASSUME NEW j \in 1 .. Len(t), k[j - 1] = h[j - 1]
        PROVE  k[j] = h[j]
    <3>1. /\ j \in 0 .. Len(t) /\ j - 1 \in 0 .. Len(t) /\ Len(s) + j \in 1 .. Len(u)
          /\ (Len(s) + j) - 1 = Len(s) + (j - 1)
      BY <1>1
    <3>2. f[Len(s) + j] = Further(dirs, f[Len(s) + (j - 1)], t[j])
      BY <1>1, <1>2, <3>1
    <3>3. QED
      BY <1>6, <1>7, <2>2, <3>1, <3>2
  <2>3. \A j \in 1 .. Len(t) : k[j - 1] = h[j - 1] => k[j] = h[j]
    BY <2>2
  <2>4. Len(t) \in Nat
    BY <1>1
  <2>5. QED
    BY <2>1, <2>3, <2>4, Follow, Zenon
<1>9. f[Len(u)] = h[Len(t)]
  <2>1. Len(t) \in 0 .. Len(t)
    BY <1>1
  <2>2. QED
    BY <1>1, <1>7, <1>8, <2>1
<1>10. QED
  BY <1>1, <1>9 DEF u, f, g, h, mid

\* A walk that finds something comes by directories only.
LEMMA NotLost ==
  ASSUME NEW dirs, NoNode \notin dirs, NEW from, NEW names \in Names,
         Steps(dirs, from, names)[Len(names)] # NoNode
  PROVE  \A n \in 0 .. (Len(names) - 1) : Steps(dirs, from, names)[n] \in dirs
<1> DEFINE f == Steps(dirs, from, names)
<1>1. /\ Len(names) \in Nat
      /\ \A i \in 1 .. Len(names) : f[i] = Further(dirs, f[i - 1], names[i])
  BY StepsType
<1> HIDE DEF f
<1>2. SUFFICES ASSUME NEW n \in 0 .. (Len(names) - 1), f[n] \notin dirs
               PROVE  f[Len(names)] = NoNode
  BY DEF f
<1> DEFINE T == {i \in (n + 1) .. Len(names) : f[i] # NoNode}
<1>3. T = {}
  <2>1. SUFFICES ASSUME T # {} PROVE FALSE
    OBVIOUS
  <2>2. PICK i \in T : \A j \in T : i <= j
    <3>1. T \in SUBSET Nat
      BY <1>1
    <3>2. QED
      BY <2>1, <3>1, LeastNumber
  <2>3. i \in 1 .. Len(names)
    BY <1>1
  <2>4. f[i - 1] \notin dirs
    <3>1. CASE i = n + 1
      BY <1>2, <3>1
    <3>2. CASE i # n + 1
      <4>1. i - 1 \in (n + 1) .. Len(names) /\ i - 1 \notin T
        BY <1>1, <2>2, <3>2
      <4>2. QED
        BY <4>1
    <3>3. QED
      BY <3>1, <3>2
  <2>5. f[i] = NoNode
    BY <1>1, <2>3, <2>4 DEF Further
  <2>6. QED
    BY <2>5
<1>4. Len(names) \in (n + 1) .. Len(names)
  BY <1>1
<1>5. QED
  BY <1>3, <1>4

-----------------------------------------------------------------------------
(* Absolute paths that lead to a node, by directories *)

Leads(dirs, names, node) ==
  /\ names \in Names
  /\ Steps(dirs, Root, names)[Len(names)] = node
  /\ \A n \in 0 .. (Len(names) - 1) : Steps(dirs, Root, names)[n] \in dirs

\* They lead to it as long as those directories are there.
LEMMA StillLeads ==
  ASSUME NEW dirs, NEW names, NEW node, Leads(dirs, names, node), NEW others,
         \A n \in 0 .. (Len(names) - 1) : Steps(dirs, Root, names)[n] \in others
  PROVE  Leads(others, names, node)
<1> DEFINE f == Steps(dirs, Root, names)
           g == Steps(others, Root, names)
<1>0. names \in Names
  BY DEF Leads
<1>1. /\ Len(names) \in Nat /\ f[0] = Root
      /\ \A i \in 1 .. Len(names) : f[i] = Further(dirs, f[i - 1], names[i])
  BY <1>0, StepsType
<1>2. /\ g[0] = Root
      /\ \A i \in 1 .. Len(names) : g[i] = Further(others, g[i - 1], names[i])
  BY <1>0, StepsType
<1>3. /\ f[Len(names)] = node
      /\ \A n \in 0 .. (Len(names) - 1) : f[n] \in dirs /\ f[n] \in others
  BY DEF Leads
<1> HIDE DEF f, g
<1>4. \A i \in 0 .. Len(names) : f[i] = g[i]
  <2>1. ASSUME NEW i \in 1 .. Len(names), f[i - 1] = g[i - 1]
        PROVE  f[i] = g[i]
    <3>1. i - 1 \in 0 .. (Len(names) - 1)
      BY <1>1
    <3>2. f[i - 1] \in dirs /\ f[i - 1] \in others
      BY <1>3, <3>1
    <3>3. QED
      BY <1>1, <1>2, <2>1, <3>2 DEF Further
  <2>2. \A i \in 1 .. Len(names) : f[i - 1] = g[i - 1] => f[i] = g[i]
    BY <2>1
  <2>3. f[0] = g[0] /\ Len(names) \in Nat
    BY <1>1, <1>2
  <2>4. QED
    BY <2>2, <2>3, Follow, Zenon
<1>5. g[Len(names)] = node /\ \A n \in 0 .. (Len(names) - 1) : g[n] \in others
  <2>1. Len(names) \in 0 .. Len(names) /\ \A n \in 0 .. (Len(names) - 1) : n \in 0 .. Len(names)
    BY <1>1
  <2>2. QED
    BY <1>3, <1>4, <2>1
<1>6. QED
  BY <1>0, <1>5 DEF Leads, g

\* A node without dots in its name is led to by its own names.
LEMMA LeadsToNode ==
  ASSUME NEW node \in Seq(Plain), NEW dirs, \A n \in 0 .. Len(node) : SubSeq(node, 1, n) \in dirs
  PROVE  Leads(dirs, node, node)
<1> DEFINE f == Steps(dirs, Root, node)
           g == [n \in 0 .. Len(node) |-> SubSeq(node, 1, n)]
<1>0. node \in Names /\ Len(node) \in Nat /\ \A i \in 1 .. Len(node) : node[i] \in Plain
  BY DEF Names, Plain
<1>1. /\ f[0] = Root
      /\ \A i \in 1 .. Len(node) : f[i] = Further(dirs, f[i - 1], node[i])
  BY <1>0, StepsType
<1>2. \A n \in 0 .. Len(node) : g[n] = SubSeq(node, 1, n) /\ g[n] \in dirs
  OBVIOUS
<1> HIDE DEF f, g
<1>3. f[0] = g[0]
  <2>1. SubSeq(node, 1, 0) = <<>> /\ 0 \in 0 .. Len(node)
    BY <1>0
  <2>2. QED
    BY <1>1, <1>2, <2>1 DEF Root
<1>4. ASSUME NEW i \in 1 .. Len(node), f[i - 1] = g[i - 1]
      PROVE  f[i] = g[i]
  <2>1. i \in 0 .. Len(node) /\ i - 1 \in 0 .. Len(node)
    BY <1>0
  <2>2. f[i - 1] \in dirs /\ f[i - 1] = SubSeq(node, 1, i - 1)
    BY <1>2, <1>4, <2>1
  <2>3. node[i] # "." /\ node[i] # ".."
    BY <1>0 DEF Plain
  <2>4. f[i] = Append(SubSeq(node, 1, i - 1), node[i])
    BY <1>1, <2>2, <2>3 DEF Further
  <2>5. Append(SubSeq(node, 1, i - 1), node[i]) = SubSeq(node, 1, i)
    BY <1>0, <2>1
  <2>6. QED
    BY <1>2, <2>1, <2>4, <2>5
<1>5. \A i \in 0 .. Len(node) : f[i] = g[i]
  <2>1. \A i \in 1 .. Len(node) : f[i - 1] = g[i - 1] => f[i] = g[i]
    BY <1>4
  <2>2. QED
    BY <1>0, <1>3, <2>1, Follow, Zenon
<1>6. f[Len(node)] = node
  <2>1. SubSeq(node, 1, Len(node)) = node /\ Len(node) \in 0 .. Len(node)
    BY <1>0
  <2>2. QED
    BY <1>2, <1>5, <2>1
<1>7. \A n \in 0 .. (Len(node) - 1) : f[n] \in dirs
  <2>1. \A n \in 0 .. (Len(node) - 1) : n \in 0 .. Len(node)
    BY <1>0
  <2>2. QED
    BY <1>2, <1>5, <2>1
<1>8. QED
  BY <1>0, <1>6, <1>7 DEF Leads, f

-----------------------------------------------------------------------------
(* The invariant *)

TreeSound ==
  /\ tree = [dirs |-> tree.dirs, files |-> tree.files]
  /\ NoNode \notin tree.dirs \cup tree.files

\* The directory of the host process is there.
HostKept == HostDirs \subseteq tree.dirs

\* cwd leads to the guest's directory, which is there, if it was not lost.
CwdKept ==
  place # Lost => /\ cwd = Path(TRUE, cwd.names) /\ Leads(tree.dirs, cwd.names, place)
                  /\ place \in tree.dirs

\* A descriptor is open on what was meant, and its path leads to it if it was
\* not lost.
EntryKept(e) ==
  /\ e = [node |-> e.node, path |-> e.path, meant |-> e.meant, sure |-> e.sure]
  /\ e.node = e.meant
  /\ e.sure => e.path = Path(TRUE, e.path.names) /\ Leads(tree.dirs, e.path.names, e.meant)

FdsKept ==
  /\ fds = [fd \in Fd |-> fds[fd]]
  /\ \A fd \in Fd : EntryKept(fds[fd])

IInv == TreeSound /\ HostKept /\ CwdKept /\ FdsKept /\ ActsOnMeant

\* The least of two numbers.
LEMMA LesserMin ==
  ASSUME NEW m \in Nat, NEW n \in Nat, n <= m
  PROVE  Min({m, n}) = n
<1>1. \A x \in {m, n} : (\A y \in {m, n} : x <= y) => x = n
  OBVIOUS
<1>2. n \in {m, n} /\ \A y \in {m, n} : n <= y
  OBVIOUS
<1>3. QED
  BY <1>1, <1>2 DEF Min

\* The host finds by the resolved path what the guest meant.
LEMMA Resolved ==
  ASSUME TreeSound, CwdKept, NEW path \in Given, Sure(path)
  PROVE  LET p == ResolvePath(path)
         IN  /\ p = Path(TRUE, p.names)
             /\ Host(p) = Meant(path)
             /\ Meant(path) # NoNode => Leads(tree.dirs, p.names, Meant(path))
<1> DEFINE p == ResolvePath(path)
<1>0. path = Path(path.abs, path.names) /\ path.abs \in BOOLEAN /\ path.names \in Names
  BY PathsAssumption
<1>1. /\ p = Path(TRUE, p.names) /\ p.names \in Names
      /\ Steps(tree.dirs, Root, p.names)[Len(p.names)] = Meant(path)
  <2>1. CASE path.abs
    <3>1. Len(path.names) \in Nat /\ MaxPath \in Nat
      BY <1>0, PathsAssumption DEF Names
    <3>9. Len(path.names) <= MaxPath
      BY <2>1 DEF Sure
    <3>2. Min({MaxPath, Len(path.names)}) = Len(path.names)
      BY <3>1, <3>9, LesserMin
    <3>3. SubSeq(path.names, 1, Len(path.names)) = path.names
      BY <1>0 DEF Names
    <3>4. p = Path(TRUE, path.names)
      BY <2>1, <3>2, <3>3 DEF ResolvePath
    <3>5. p.names = path.names
      BY <3>4 DEF Path
    <3>6. Meant(path) = Steps(tree.dirs, Root, path.names)[Len(path.names)]
      BY <2>1 DEF Meant, Walk, Start
    <3>7. QED
      BY <1>0, <3>4, <3>5, <3>6
  <2>2. CASE ~path.abs
    <3>0. place # Lost
      BY <2>2 DEF Sure
    <3>1. cwd = Path(TRUE, cwd.names) /\ cwd.names \in Names
      BY <3>0 DEF CwdKept, Leads
    <3>2. cwd.abs
      BY <3>1 DEF Path
    <3>3. PICK s \in Names, t \in Names : s = cwd.names /\ t = path.names
      BY <1>0, <3>1
    <3>4. p = Path(TRUE, s \o t)
      BY <2>2, <3>1, <3>2, <3>3 DEF ResolvePath, Path
    <3>5. p.names = s \o t
      BY <3>4 DEF Path
    <3>6. /\ s \o t \in Names
          /\ Steps(tree.dirs, Root, s \o t)[Len(s \o t)]
               = Steps(tree.dirs, Steps(tree.dirs, Root, s)[Len(s)], t)[Len(t)]
      BY WalkOn
    <3>7. Steps(tree.dirs, Root, s)[Len(s)] = place
      BY <3>0, <3>3 DEF CwdKept, Leads
    <3>9. Meant(path) = Steps(tree.dirs, place, t)[Len(t)]
      BY <2>2, <3>3 DEF Meant, Walk, Start
    <3>8. QED
      BY <3>4, <3>5, <3>6, <3>7, <3>9
  <2>3. QED
    BY <1>0, <2>1, <2>2
<1> HIDE DEF p
<1>2. Host(p) = Meant(path)
  <2>1. p.abs
    BY <1>1 DEF Path
  <2>2. QED
    BY <1>1, <2>1 DEF Host, Walk, Start
<1>3. ASSUME Meant(path) # NoNode
      PROVE  Leads(tree.dirs, p.names, Meant(path))
  <2>1. NoNode \notin tree.dirs
    BY DEF TreeSound
  <2>2. \A n \in 0 .. (Len(p.names) - 1) : Steps(tree.dirs, Root, p.names)[n] \in tree.dirs
    BY <1>1, <1>3, <2>1, NotLost
  <2>3. QED
    BY <1>1, <2>2 DEF Leads
<1>4. QED
  BY <1>1, <1>2, <1>3 DEF p

\* A call by path acts on what was meant.
LEMMA ResolvedOn ==
  ASSUME TreeSound, CwdKept, NEW path \in Given
  PROVE  LET node == Host(ResolvePath(path))
         IN  /\ OnPath(path) = <<node, node>>
             /\ Sure(path) /\ node # NoNode =>
                  /\ ResolvePath(path) = Path(TRUE, ResolvePath(path).names)
                  /\ Leads(tree.dirs, ResolvePath(path).names, node)
<1>1. CASE Sure(path)
  BY <1>1, Resolved DEF OnPath
<1>2. CASE ~Sure(path)
  BY <1>2 DEF OnPath
<1>3. QED
  BY <1>1, <1>2

LEMMA NamedMeant ==
  ASSUME TreeSound, CwdKept, NEW on \in Named
  PROVE  on[1] = on[2]
<1>1. PICK path \in Given : on = OnPath(path)
  BY DEF Named
<1>2. PICK node : node = Host(ResolvePath(path))
  OBVIOUS
<1>3. OnPath(path) = <<node, node>>
  BY <1>2, ResolvedOn
<1>4. QED
  BY <1>1, <1>3

\* The *at calls start where the guest means.
LEMMA BasesMeant ==
  ASSUME Regular, FdsKept
  PROVE  /\ \A base \in AtBase, path \in GivenAt : OnPathAt(base, path)[1] = OnPathAt(base, path)[2]
         /\ \A on \in NamedAt : on[1] = on[2]
<1>1. ASSUME NEW base \in AtBase
      PROVE  base.host = base.meant
  <2>1. "AT_FDCWD" \notin AtBases
    BY DEF Regular
  <2>2. PICK fd \in Fd : IsOpen(fd) /\ base = Base(fds[fd].node, fds[fd].meant)
    BY <2>1 DEF AtBase
  <2>3. QED
    BY <2>2 DEF FdsKept, EntryKept, Base
<1>2. \A base \in AtBase, path \in GivenAt : OnPathAt(base, path)[1] = OnPathAt(base, path)[2]
  BY <1>1 DEF OnPathAt
<1>3. QED
  BY <1>2 DEF NamedAt

LEMMA ClosedKept == EntryKept(NoFd)
BY DEF EntryKept, NoFd, Entry

LEMMA InitHolds == Init => IInv
<1> SUFFICES ASSUME Init PROVE IInv
  OBVIOUS
<1>1. TreeSound /\ HostKept
  BY PathsAssumption DEF Init, TreeSound, HostKept
<1>2. CwdKept
  <2>1. Leads(tree.dirs, HostCwd, HostCwd)
    BY <1>1, LeadsToNode, PathsAssumption DEF HostKept, HostDirs
  <2>2. SubSeq(HostCwd, 1, Len(HostCwd)) = HostCwd /\ Len(HostCwd) \in 0 .. Len(HostCwd)
    BY PathsAssumption
  <2>3. HostCwd \in tree.dirs
    BY <1>1, <2>2 DEF HostKept, HostDirs
  <2>4. QED
    BY <2>1, <2>3 DEF Init, CwdKept, Path
<1>3. FdsKept
  BY ClosedKept DEF Init, FdsKept
<1>4. QED
  BY <1>1, <1>2, <1>3 DEF IInv, Init, ActsOnMeant

-----------------------------------------------------------------------------
(* What the steps keep *)

\* The tree is sound after the step and has the directories it had.
Grows == TreeSound' /\ tree.dirs \subseteq tree'.dirs

LEMMA LeadsGrown ==
  ASSUME NEW names, NEW node, Leads(tree.dirs, names, node), Grows
  PROVE  Leads(tree'.dirs, names, node)
<1>1. PICK dirs, others : dirs = tree.dirs /\ others = tree'.dirs
  OBVIOUS
<1>2. Leads(dirs, names, node) /\ dirs \subseteq others
  BY <1>1 DEF Grows
<1>3. \A n \in 0 .. (Len(names) - 1) : Steps(dirs, Root, names)[n] \in others
  BY <1>2 DEF Leads
<1>4. Leads(others, names, node)
  BY <1>2, <1>3, StillLeads, Zenon
<1>5. QED
  BY <1>1, <1>4

LEMMA TreeGrown ==
  ASSUME HostKept, Grows
  PROVE  TreeSound' /\ HostKept'
BY DEF HostKept, Grows

LEMMA CwdGrown ==
  ASSUME CwdKept, Grows, UNCHANGED <<cwd, place>>
  PROVE  CwdKept'
<1>0. SUFFICES ASSUME place # Lost PROVE CwdKept'
  BY DEF CwdKept
<1>1. PICK names, node : names = cwd.names /\ node = place
  OBVIOUS
<1>2. Leads(tree.dirs, names, node)
  BY <1>0, <1>1 DEF CwdKept
<1>3. Leads(tree'.dirs, names, node)
  BY <1>2, LeadsGrown
<1>4. QED
  BY <1>0, <1>1, <1>3 DEF CwdKept, Grows

LEMMA EntryGrown ==
  ASSUME NEW e, EntryKept(e), Grows
  PROVE  EntryKept(e)'
<1>1. CASE e.sure
  <2>1. e.path = Path(TRUE, e.path.names) /\ Leads(tree.dirs, e.path.names, e.meant)
    BY <1>1 DEF EntryKept
  <2>2. Leads(tree'.dirs, e.path.names, e.meant)
    BY <2>1, LeadsGrown
  <2>3. QED
    BY <2>1, <2>2 DEF EntryKept
<1>2. CASE ~e.sure
  BY <1>2 DEF EntryKept
<1>3. QED
  BY <1>1, <1>2

LEMMA FdsGrown ==
  ASSUME FdsKept, Grows, UNCHANGED fds
  PROVE  FdsKept'
<1>1. ASSUME NEW fd \in Fd
      PROVE  EntryKept(fds[fd])'
  <2>1. PICK e : e = fds[fd]
    OBVIOUS
  <2>2. EntryKept(e)
    BY <2>1 DEF FdsKept
  <2>3. EntryKept(e)'
    BY <2>2, EntryGrown
  <2>4. QED
    BY <2>1, <2>3 DEF EntryKept
<1>2. QED
  BY <1>1 DEF FdsKept

\* One entry changes.
LEMMA EntrySet ==
  ASSUME FdsKept, Grows, NEW fd \in Fd, NEW e, EntryKept(e), fds' = [fds EXCEPT ![fd] = e]
  PROVE  FdsKept'
<1>1. fds' = [f \in Fd |-> IF f = fd THEN e ELSE fds[f]]
  BY DEF FdsKept
<1>2. ASSUME NEW f \in Fd
      PROVE  EntryKept(fds[f])'
  <2>1. PICK x : x = fds'[f]
    OBVIOUS
  <2>2. EntryKept(x)
    BY <1>1, <2>1 DEF FdsKept
  <2>3. EntryKept(x)'
    BY <2>2, EntryGrown
  <2>4. QED
    BY <2>1, <2>3 DEF EntryKept
<1>3. QED
  BY <1>1, <1>2 DEF FdsKept

LEMMA ActsRight ==
  ASSUME NEW ons, \A on \in ons : on[1] = on[2], Acts(ons)
  PROVE  ActsOnMeant'
BY DEF Acts, ActsOnMeant

LEMMA CwdLeads == CwdKept => CwdFaithful
<1> SUFFICES ASSUME CwdKept, place # Lost PROVE cwd.abs /\ Host(cwd) = place
  BY DEF CwdFaithful
<1>1. cwd.abs
  BY DEF CwdKept, Path
<1>2. Host(cwd) = Steps(tree.dirs, Root, cwd.names)[Len(cwd.names)]
  BY <1>1 DEF Host, Walk, Start
<1>3. QED
  BY <1>1, <1>2 DEF CwdKept, Leads

\* The calls on the tree leave its directories, but for RemoveDir and Move.
LEMMA TreeSteps ==
  ASSUME TreeSound, NEW node, NEW other
  PROVE  /\ MakeDir(node) => Grows
         /\ MakeFile(node) => Grows
         /\ OpenNode(node) => Grows /\ node # NoNode
         /\ RemoveFile(node) => Grows
         /\ LinkFile(other, node) => Grows
         /\ RemoveDir(node) => TreeSound' /\ tree'.dirs = tree.dirs \ {node}
<1>1. tree = [dirs |-> tree.dirs, files |-> tree.files] /\ NoNode \notin tree.dirs \cup tree.files
  BY DEF TreeSound
<1>2. ASSUME NEW d, NEW f, tree' = [dirs |-> d, files |-> f], NoNode \notin d \cup f
      PROVE  TreeSound' /\ tree'.dirs = d
  BY <1>2 DEF TreeSound
<1>3. MakeDir(node) => Grows
  <2>1. SUFFICES ASSUME MakeDir(node) PROVE Grows
    OBVIOUS
  <2>2. node # NoNode /\ tree' = [dirs |-> tree.dirs \cup {node}, files |-> tree.files]
    BY <1>1, <2>1 DEF MakeDir, Free, Within
  <2>3. QED
    BY <1>1, <1>2, <2>2 DEF Grows
<1>4. MakeFile(node) => Grows /\ node # NoNode
  <2>1. SUFFICES ASSUME MakeFile(node) PROVE Grows /\ node # NoNode
    OBVIOUS
  <2>2. node # NoNode /\ tree' = [dirs |-> tree.dirs, files |-> tree.files \cup {node}]
    BY <1>1, <2>1 DEF MakeFile, Free, Within
  <2>3. QED
    BY <1>1, <1>2, <2>2 DEF Grows
<1>5. OpenNode(node) => Grows /\ node # NoNode
  <2>1. Exists(node) /\ UNCHANGED tree => Grows /\ node # NoNode
    BY <1>1 DEF Exists, Grows, TreeSound
  <2>2. QED
    BY <1>4, <2>1 DEF OpenNode
<1>6. RemoveFile(node) => Grows
  <2>1. SUFFICES ASSUME RemoveFile(node) PROVE Grows
    OBVIOUS
  <2>2. tree' = [dirs |-> tree.dirs, files |-> tree.files \ {node}]
    BY <1>1, <2>1 DEF RemoveFile
  <2>3. QED
    BY <1>1, <1>2, <2>2 DEF Grows
<1>7. LinkFile(other, node) => Grows
  BY <1>4 DEF LinkFile
<1>9. RemoveDir(node) => TreeSound' /\ tree'.dirs = tree.dirs \ {node}
  <2>1. SUFFICES ASSUME RemoveDir(node) PROVE TreeSound' /\ tree'.dirs = tree.dirs \ {node}
    OBVIOUS
  <2>2. tree' = [dirs |-> tree.dirs \ {node}, files |-> tree.files]
    BY <1>1, <2>1 DEF RemoveDir
  <2>3. QED
    BY <1>1, <1>2, <2>2
<1>10. QED
  BY <1>3, <1>4, <1>5, <1>6, <1>7, <1>9

\* A call that only adds to the tree, or takes files away.
LEMMA GrowStep ==
  ASSUME IInv, Grows, OnlyTree, ActsOnMeant'
  PROVE  IInv'
BY TreeGrown, CwdGrown, FdsGrown DEF IInv, OnlyTree

-----------------------------------------------------------------------------
(* Nodes that go, or get another name *)

\* Directories stay that are none of those nodes and not under one.
Shrinks(gone) ==
  /\ TreeSound'
  /\ \A n \in tree.dirs : (\A node \in gone : ~Under(node, n)) => n \in tree'.dirs

\* A path that does not lead through them leads where it led.
LEMMA LeadsOn ==
  ASSUME NEW names, NEW node, NEW gone, Leads(tree.dirs, names, node),
         Shrinks(gone), ~Through(Path(TRUE, names), gone)
  PROVE  Leads(tree'.dirs, names, node) /\ \A g \in gone : ~Under(g, node)
<1>1. PICK dirs, others : dirs = tree.dirs /\ others = tree'.dirs
  OBVIOUS
<1>2. Leads(dirs, names, node) /\ names \in Names /\ Len(names) \in Nat
  BY <1>1 DEF Leads, Names
<1>3. PICK f : f = Steps(dirs, Root, names)
  OBVIOUS
<1>4. \A i \in 0 .. Len(names), g \in gone : ~Under(g, f[i])
  <2>1. Start(HostCwd, Path(TRUE, names)) = Root /\ Path(TRUE, names).names = names
    BY DEF Start, Path
  <2>2. Passed(Path(TRUE, names)) = {f[i] : i \in 0 .. Len(names)}
    BY <1>1, <1>3, <2>1 DEF Passed
  <2>3. QED
    BY <2>2, Zenon DEF Through
<1>5. f[Len(names)] = node /\ \A i \in 0 .. (Len(names) - 1) : f[i] \in dirs
  BY <1>2, <1>3 DEF Leads
<1>6. \A i \in 0 .. (Len(names) - 1) : i \in 0 .. Len(names)
  BY <1>2
<1>7. \A i \in 0 .. (Len(names) - 1) : f[i] \in others
  <2>1. \A n \in dirs : (\A g \in gone : ~Under(g, n)) => n \in others
    BY <1>1, Zenon DEF Shrinks
  <2>2. QED
    BY <1>4, <1>5, <1>6, <2>1, Zenon
<1>8. Leads(others, names, node)
  BY <1>2, <1>3, <1>7, StillLeads, Zenon
<1>9. Len(names) \in 0 .. Len(names)
  BY <1>2
<1>10. QED
  BY <1>1, <1>4, <1>5, <1>8, <1>9, Zenon

LEMMA HostStays ==
  ASSUME HostKept, NEW gone, Shrinks(gone), MayGo(gone)
  PROVE  HostKept'
<1>1. \A n \in HostDirs : n \in tree.dirs /\ \A node \in gone : ~Under(node, n)
  BY DEF HostKept, MayGo
<1>2. \A n \in HostDirs : n \in tree'.dirs
  BY <1>1, Zenon DEF Shrinks
<1>3. QED
  BY <1>2 DEF HostKept

\* ctx->cwd leads where it led, or is lost.
LEMMA CwdStaysOrLost ==
  ASSUME CwdKept, NEW gone, Shrinks(gone), UNCHANGED cwd,
         place' = IF Through(cwd, gone) THEN Lost ELSE place
  PROVE  CwdKept'
<1>0. SUFFICES ASSUME place' # Lost PROVE CwdKept'
  BY DEF CwdKept
<1>1. place # Lost /\ place' = place /\ ~Through(cwd, gone)
  BY <1>0
<1>2. PICK names, node : names = cwd.names /\ node = place
  OBVIOUS
<1>3. cwd = Path(TRUE, names) /\ Leads(tree.dirs, names, node) /\ node \in tree.dirs
  BY <1>1, <1>2 DEF CwdKept
<1>4. ~Through(Path(TRUE, names), gone)
  BY <1>1, <1>3, Zenon
<1>5. Leads(tree'.dirs, names, node) /\ \A g \in gone : ~Under(g, node)
  BY <1>3, <1>4, LeadsOn, Zenon
<1>6. node \in tree'.dirs
  BY <1>3, <1>5, Zenon DEF Shrinks
<1>7. cwd' = Path(TRUE, cwd'.names) /\ cwd'.names = names /\ place' = node
  BY <1>1, <1>2, <1>3
<1>8. QED
  BY <1>5, <1>6, <1>7 DEF CwdKept

\* An entry stays right whose node may have another name, if its path counts
\* only where it does not lead through those nodes.
LEMMA EntryStays ==
  ASSUME NEW e, EntryKept(e), NEW gone, Shrinks(gone), NEW x, NEW m,
         x = [node |-> m, path |-> e.path, meant |-> m, sure |-> x.sure],
         x.sure => e.sure /\ ~Through(e.path, gone),
         (\A g \in gone : ~Under(g, e.meant)) => m = e.meant
  PROVE  EntryKept(x)'
<1>1. x.node = x.meant /\ x.path = e.path /\ x.meant = m
      /\ x = [node |-> x.node, path |-> x.path, meant |-> x.meant, sure |-> x.sure]
  <2>1. x.node = m /\ x.meant = m /\ x.path = e.path
    OBVIOUS
  <2>2. QED
    BY <2>1
<1>2. CASE x.sure
  <2>0. e.sure
    BY <1>2
  <2>1. e.path = Path(TRUE, e.path.names) /\ Leads(tree.dirs, e.path.names, e.meant)
    BY <2>0 DEF EntryKept
  <2>2. ~Through(Path(TRUE, e.path.names), gone)
    BY <1>2, <2>1, Zenon
  <2>3. Leads(tree'.dirs, e.path.names, e.meant) /\ \A g \in gone : ~Under(g, e.meant)
    BY <2>1, <2>2, LeadsOn, Zenon
  <2>4. m = e.meant
    BY <2>3
  <2>5. QED
    BY <1>1, <2>1, <2>3, <2>4 DEF EntryKept
<1>3. CASE ~x.sure
  BY <1>1, <1>3 DEF EntryKept
<1>4. QED
  BY <1>2, <1>3

LEMMA ForgetStep ==
  ASSUME IInv, NEW gone, Shrinks(gone), Forget(gone), ActsOnMeant'
  PROVE  IInv'
<1>1. TreeSound' /\ HostKept' /\ CwdKept'
  <2>1. TreeSound' /\ HostKept'
    BY HostStays DEF IInv, Forget, Shrinks
  <2>2. CwdKept'
    BY CwdStaysOrLost DEF IInv, Forget
  <2>3. QED
    BY <2>1, <2>2
<1>2. ASSUME NEW fd \in Fd
      PROVE  EntryKept(fds[fd])'
  <2>1. PICK e, x : e = fds[fd] /\ x = fds'[fd]
    OBVIOUS
  <2>2. EntryKept(e)
    BY <2>1 DEF IInv, FdsKept
  <2>3. x = [e EXCEPT !.sure = e.sure /\ ~Through(e.path, gone)]
    BY <2>1 DEF Forget
  <2>4. PICK m : m = e.node
    OBVIOUS
  <2>5. e = [node |-> m, path |-> e.path, meant |-> m, sure |-> e.sure] /\ m = e.meant
    BY <2>2, <2>4 DEF EntryKept
  <2>6. PICK s : s = (e.sure /\ ~Through(e.path, gone))
    OBVIOUS
  <2>7. x = [e EXCEPT !.sure = s]
    BY <2>3, <2>6, Zenon
  <2>8. x = [node |-> m, path |-> e.path, meant |-> m, sure |-> x.sure] /\ x.sure = s
    BY <2>5, <2>7
  <2>9. x.sure => e.sure /\ ~Through(e.path, gone)
    BY <2>6, <2>8, Zenon
  <2>10. EntryKept(x)'
    BY <2>2, <2>5, <2>8, <2>9, EntryStays, Zenon
  <2>11. QED
    BY <2>1, <2>10 DEF EntryKept
<1>3. FdsKept'
  BY <1>2 DEF FdsKept, Forget
<1>4. QED
  BY <1>1, <1>3 DEF IInv

\* Removal.
LEMMA RemovalShrinks ==
  ASSUME TreeSound, NEW node, RemoveDir(node) \/ RemoveFile(node)
  PROVE  Shrinks({node})
<1>1. CASE RemoveDir(node)
  <2>1. TreeSound' /\ tree'.dirs = tree.dirs \ {node}
    BY <1>1, TreeSteps
  <2>2. Under(node, node)
    BY DEF Under
  <2>3. QED
    BY <2>1, <2>2 DEF Shrinks
<1>2. CASE RemoveFile(node)
  BY <1>2, TreeSteps DEF Grows, Shrinks
<1>3. QED
  BY <1>1, <1>2

\* Renaming.
LEMMA MoveShrinks ==
  ASSUME TreeSound, NEW old, NEW new, Move(old, new)
  PROVE  Shrinks({old, new})
<1>1. PICK D, F : D = tree.dirs /\ F = tree.files
  OBVIOUS
<1>2. NoNode \notin D \cup F
  BY <1>1 DEF TreeSound
<1>3. /\ \A n \in D \cup F : Under(old, n) => Within(Moved(old, new, n))
      /\ tree' = [dirs |-> {Moved(old, new, n) : n \in D \ {new}},
                  files |-> {Moved(old, new, n) : n \in F \ {new}}]
  BY <1>1, Zenon DEF Move
<1>4. \A n : ~Under(old, n) => Moved(old, new, n) = n
  BY DEF Moved
<1>5. \A n : Within(n) => n # NoNode
  BY DEF Within
<1>6. \A n \in D \cup F : Moved(old, new, n) # NoNode
  BY <1>2, <1>3, <1>4, <1>5, Zenon
<1>7. /\ tree'.dirs = {Moved(old, new, n) : n \in D \ {new}}
      /\ tree'.files = {Moved(old, new, n) : n \in F \ {new}}
      /\ tree' = [dirs |-> tree'.dirs, files |-> tree'.files]
  BY <1>3
<1>8. TreeSound'
  BY <1>6, <1>7 DEF TreeSound
<1>9. ASSUME NEW n \in D, ~Under(old, n), ~Under(new, n)
      PROVE  n \in tree'.dirs
  <2>1. n # new
    BY <1>9 DEF Under
  <2>2. n = Moved(old, new, n)
    BY <1>4, <1>9, Zenon
  <2>3. QED
    BY <1>7, <2>1, <2>2, Zenon
<1>10. QED
  BY <1>1, <1>8, <1>9 DEF Shrinks

LEMMA RenameStep ==
  ASSUME IInv, NEW old, NEW new, GetsName(old, new), ActsOnMeant'
  PROVE  IInv'
<1>1. PICK gone : gone = {old, new}
  OBVIOUS
<1>2. Shrinks(gone) /\ MayGo(gone)
  BY <1>1, MoveShrinks DEF IInv, GetsName
<1>3. TreeSound' /\ HostKept' /\ CwdKept'
  <2>1. TreeSound' /\ HostKept'
    BY <1>2, HostStays DEF IInv, Shrinks
  <2>2. CwdKept'
    <3>1. UNCHANGED cwd /\ place' = IF Through(cwd, gone) THEN Lost ELSE place
      BY <1>1 DEF GetsName
    <3>2. QED
      BY <1>2, <3>1, CwdStaysOrLost DEF IInv
  <2>3. QED
    BY <2>1, <2>2
<1>4. ASSUME NEW fd \in Fd
      PROVE  EntryKept(fds[fd])'
  <2>1. PICK e, x : e = fds[fd] /\ x = fds'[fd]
    OBVIOUS
  <2>2. EntryKept(e)
    BY <2>1 DEF IInv, FdsKept
  <2>3. x = [e EXCEPT !.node = Moved(old, new, e.node), !.meant = Moved(old, new, e.meant),
                      !.sure = e.sure /\ ~Through(e.path, gone)]
    BY <1>1, <2>1 DEF GetsName
  <2>4. PICK n, m : n = e.node /\ m = Moved(old, new, n)
    OBVIOUS
  <2>5. e = [node |-> n, path |-> e.path, meant |-> n, sure |-> e.sure] /\ n = e.meant
    BY <2>2, <2>4 DEF EntryKept
  <2>6. PICK s : s = (e.sure /\ ~Through(e.path, gone))
    OBVIOUS
  <2>7. x = [e EXCEPT !.node = m, !.meant = m, !.sure = s]
    BY <2>3, <2>4, <2>5, <2>6, Zenon
  <2>8. x = [node |-> m, path |-> e.path, meant |-> m, sure |-> x.sure] /\ x.sure = s
    BY <2>5, <2>7
  <2>9. x.sure => e.sure /\ ~Through(e.path, gone)
    BY <2>6, <2>8, Zenon
  <2>10. (\A g \in gone : ~Under(g, e.meant)) => m = e.meant
    BY <1>1, <2>4, <2>5 DEF Moved
  <2>11. EntryKept(x)'
    BY <1>2, <2>2, <2>8, <2>9, <2>10, EntryStays, Zenon
  <2>12. QED
    BY <2>1, <2>11 DEF EntryKept
<1>5. FdsKept'
  BY <1>4 DEF FdsKept, GetsName
<1>6. QED
  BY <1>3, <1>5 DEF IInv

-----------------------------------------------------------------------------
(* The steps *)

LEMMA PairRight ==
  ASSUME NEW on, on[1] = on[2], Acts({on})
  PROVE  ActsOnMeant'
BY ActsRight

LEMMA PairsRight ==
  ASSUME NEW on, NEW other, on[1] = on[2], other[1] = other[2], Acts({on, other})
  PROVE  ActsOnMeant'
BY ActsRight

\* A call that changes nothing but where it acted.
LEMMA LookStep ==
  ASSUME IInv, UNCHANGED <<tree, cwd, fds, place>>, ActsOnMeant'
  PROVE  IInv'
<1>1. Grows
  BY DEF IInv, Grows, TreeSound
<1>2. QED
  BY <1>1, GrowStep DEF OnlyTree

LEMMA ForkStep ==
  ASSUME IInv, Fork
  PROVE  IInv'
<1>1. Grows
  BY DEF IInv, Grows, TreeSound, Fork
<1>2. TreeSound' /\ HostKept'
  BY <1>1, TreeGrown DEF IInv
<1>3. CwdKept'
  BY DEF Fork, CwdKept
<1>4. FdsKept'
  <2>1. ASSUME NEW fd \in Fd
        PROVE  EntryKept(fds[fd])'
    <3>1. PICK x : x = fds'[fd]
      OBVIOUS
    <3>2. x = NoFd
      BY <3>1 DEF Fork
    <3>3. EntryKept(x)'
      BY <3>2 DEF EntryKept, NoFd, Entry
    <3>4. QED
      BY <3>1, <3>3 DEF EntryKept
  <2>2. QED
    BY <2>1 DEF FdsKept, Fork
<1>5. ActsOnMeant'
  BY DEF Fork, ActsOnMeant
<1>6. QED
  BY <1>2, <1>3, <1>4, <1>5 DEF IInv

LEMMA OpenStep ==
  ASSUME IInv, Open
  PROVE  IInv'
<1>1. PICK path \in Given, fd \in Fd :
        /\ OpenNode(OnPath(path)[1])
        /\ fds' = [fds EXCEPT ![fd] = Entry(OnPath(path), ResolvePath(path), Sure(path))]
        /\ Acts({OnPath(path)})
  BY DEF Open
<1>2. PICK p, node : p = ResolvePath(path) /\ node = Host(p)
  OBVIOUS
<1>3. /\ OnPath(path) = <<node, node>>
      /\ Sure(path) /\ node # NoNode => p = Path(TRUE, p.names) /\ Leads(tree.dirs, p.names, node)
  BY <1>1, <1>2, ResolvedOn DEF IInv
<1>4. Grows /\ node # NoNode
  <2>1. OpenNode(node)
    BY <1>1, <1>3
  <2>2. QED
    BY <2>1, TreeSteps DEF IInv
<1>5. FdsKept'
  <2>1. PICK e, s : s = Sure(path) /\ e = [node |-> node, path |-> p, meant |-> node, sure |-> s]
    OBVIOUS
  <2>2. s => p = Path(TRUE, p.names) /\ Leads(tree.dirs, p.names, node)
    BY <1>3, <1>4, <2>1, Zenon
  <2>3. EntryKept(e)
    BY <2>1, <2>2 DEF EntryKept
  <2>4. fds' = [fds EXCEPT ![fd] = e]
    <3>1. Entry(OnPath(path), ResolvePath(path), Sure(path)) = Entry(<<node, node>>, p, s)
      BY <1>2, <1>3, <2>1, Zenon
    <3>2. Entry(<<node, node>>, p, s) = e
      BY <2>1 DEF Entry
    <3>3. QED
      BY <1>1, <3>1, <3>2, Zenon
  <2>5. QED
    BY <1>4, <2>3, <2>4, EntrySet DEF IInv
<1>6. ActsOnMeant'
  BY <1>1, <1>3, PairRight
<1>7. QED
  BY <1>4, <1>5, <1>6, TreeGrown, CwdGrown DEF IInv, Open

\* A path from the root leads to what it names, if that is a node.
LEMMA AbsoluteLeads ==
  ASSUME TreeSound, NEW path \in Given, path.abs, NEW from, Walk(from, path) # NoNode
  PROVE  path = Path(TRUE, path.names) /\ Leads(tree.dirs, path.names, Walk(from, path))
<1>1. path = Path(TRUE, path.names) /\ path.names \in Names
  BY PathsAssumption DEF Path
<1>2. Walk(from, path) = Steps(tree.dirs, Root, path.names)[Len(path.names)]
  BY DEF Walk, Start
<1>3. NoNode \notin tree.dirs
  BY DEF TreeSound
<1>4. \A n \in 0 .. (Len(path.names) - 1) : Steps(tree.dirs, Root, path.names)[n] \in tree.dirs
  BY <1>1, <1>2, <1>3, NotLost
<1>5. QED
  BY <1>1, <1>2, <1>4 DEF Leads

LEMMA OpenatStep ==
  ASSUME Regular, IInv, Openat
  PROVE  IInv'
<1>1. PICK base \in AtBase, path \in GivenAt, fd \in Fd :
        /\ OpenNode(OnPathAt(base, path)[1])
        /\ fds' = [fds EXCEPT ![fd] = Entry(OnPathAt(base, path), path, path.abs)]
        /\ Acts({OnPathAt(base, path)})
  BY DEF Openat
<1>2. PICK on, node : on = OnPathAt(base, path) /\ node = on[1]
  OBVIOUS
<1>3. on[1] = on[2] /\ on[1] = Walk(base.host, path)
  BY <1>2, BasesMeant DEF IInv, OnPathAt
<1>4. Grows /\ node # NoNode
  <2>1. OpenNode(node)
    BY <1>1, <1>2
  <2>2. QED
    BY <2>1, TreeSteps DEF IInv
<1>5. FdsKept'
  <2>1. PICK e : e = [node |-> node, path |-> path, meant |-> node, sure |-> path.abs]
    OBVIOUS
  <2>2. path.abs => path = Path(TRUE, path.names) /\ Leads(tree.dirs, path.names, node)
    <3>1. path \in Given
      BY DEF GivenAt
    <3>2. QED
      BY <1>2, <1>3, <1>4, <3>1, AbsoluteLeads DEF IInv
  <2>3. EntryKept(e)
    BY <2>1, <2>2 DEF EntryKept
  <2>4. fds' = [fds EXCEPT ![fd] = e]
    BY <1>1, <1>2, <1>3, <2>1 DEF Entry
  <2>5. QED
    BY <1>4, <2>3, <2>4, EntrySet DEF IInv
<1>6. ActsOnMeant'
  BY <1>1, <1>2, <1>3, PairRight
<1>7. QED
  BY <1>4, <1>5, <1>6, TreeGrown, CwdGrown DEF IInv, Openat

\* The calls that change entries only.
LEMMA EntryStep ==
  ASSUME IInv, FdsKept', astray' = {}, UNCHANGED <<tree, cwd, place>>
  PROVE  IInv'
<1>1. Grows
  BY DEF IInv, Grows, TreeSound
<1>2. QED
  BY <1>1, TreeGrown, CwdGrown DEF IInv, ActsOnMeant

\* Entries that are kept so in the tree as it is.
LEMMA EntriesSet ==
  ASSUME IInv, UNCHANGED tree, NEW table, fds' = table,
         table = [fd \in Fd |-> table[fd]], \A fd \in Fd : EntryKept(table[fd])
  PROVE  FdsKept'
BY DEF FdsKept, EntryKept

LEMMA PipeStep ==
  ASSUME IInv, Pipe
  PROVE  IInv'
<1>1. PICK r \in Fd, w \in Fd :
        fds' = [fds EXCEPT ![r] = PipeEnd("pipe:read"), ![w] = PipeEnd("pipe:write")]
  BY DEF Pipe
<1>2. EntryKept(PipeEnd("pipe:read")) /\ EntryKept(PipeEnd("pipe:write"))
  BY DEF EntryKept, PipeEnd, Entry
<1>3. PICK x, y, table : x = PipeEnd("pipe:read") /\ y = PipeEnd("pipe:write") /\ table = fds'
  OBVIOUS
<1>4. table = [fd \in Fd |-> IF fd = w THEN y ELSE IF fd = r THEN x ELSE fds[fd]]
  BY <1>1, <1>3 DEF IInv, FdsKept
<1>5. EntryKept(x) /\ EntryKept(y) /\ \A fd \in Fd : EntryKept(fds[fd])
  BY <1>2, <1>3 DEF IInv, FdsKept
<1>6. table = [fd \in Fd |-> table[fd]] /\ \A fd \in Fd : EntryKept(table[fd])
  BY <1>4, <1>5
<1>7. FdsKept'
  BY <1>3, <1>6, EntriesSet DEF Pipe
<1>8. QED
  BY <1>7, EntryStep DEF Pipe

\* One entry is copied or given back.
LEMMA CopyStep ==
  ASSUME IInv, Dup \/ Dup2 \/ Close
  PROVE  IInv'
<1>1. \E fd \in Fd : \E e : EntryKept(e) /\ fds' = [fds EXCEPT ![fd] = e]
  <2>1. CASE Dup \/ Dup2
    <3>1. PICK old \in Fd, new \in Fd : fds' = [fds EXCEPT ![new] = CopyOf(old, new)]
      BY <2>1 DEF Dup, Dup2
    <3>2. QED
      BY <3>1 DEF IInv, FdsKept, CopyOf
  <2>2. CASE Close
    BY <2>2, ClosedKept DEF Close
  <2>3. QED
    BY <2>1, <2>2
<1>2. astray' = {} /\ UNCHANGED <<tree, cwd, place>>
  BY DEF Dup, Dup2, Close
<1>3. PICK fd \in Fd : \E e : EntryKept(e) /\ fds' = [fds EXCEPT ![fd] = e]
  BY <1>1
<1>4. PICK e : EntryKept(e) /\ fds' = [fds EXCEPT ![fd] = e]
  BY <1>3
<1>5. FdsKept'
  <2>1. Grows
    BY <1>2 DEF IInv, Grows, TreeSound
  <2>2. QED
    BY <1>4, <2>1, EntrySet DEF IInv
<1>6. QED
  BY <1>2, <1>5, EntryStep

\* ctx->cwd changes.
LEMMA CwdStep ==
  ASSUME IInv, UNCHANGED <<tree, fds>>, ActsOnMeant',
         place' # Lost => /\ cwd' = Path(TRUE, cwd'.names)
                          /\ Leads(tree.dirs, cwd'.names, place') /\ place' \in tree.dirs
  PROVE  IInv'
<1>1. Grows
  BY DEF IInv, Grows, TreeSound
<1>2. CwdKept'
  BY DEF CwdKept
<1>3. QED
  BY <1>1, <1>2, TreeGrown, FdsGrown DEF IInv

LEMMA ChdirStep ==
  ASSUME IInv, Chdir
  PROVE  IInv'
<1>1. PICK path \in Given :
        /\ IsDir(OnPath(path)[1])
        /\ cwd' = ResolvePath(path)
        /\ place' = IF Sure(path) THEN OnPath(path)[2] ELSE Lost
        /\ Acts({OnPath(path)})
  BY DEF Chdir
<1>2. PICK p, node : p = ResolvePath(path) /\ node = Host(p)
  OBVIOUS
<1>3. /\ OnPath(path) = <<node, node>>
      /\ Sure(path) /\ node # NoNode => p = Path(TRUE, p.names) /\ Leads(tree.dirs, p.names, node)
  BY <1>1, <1>2, ResolvedOn DEF IInv
<1>4. node \in tree.dirs /\ node # NoNode
  BY <1>1, <1>3 DEF IsDir, IInv, TreeSound
<1>5. CASE Sure(path)
  <2>1. cwd' = p /\ place' = node
    BY <1>1, <1>2, <1>3, <1>5
  <2>2. ActsOnMeant'
    BY <1>1, <1>3, PairRight
  <2>3. QED
    BY <1>3, <1>4, <1>5, <2>1, <2>2, CwdStep DEF Chdir
<1>6. CASE ~Sure(path)
  <2>1. place' = Lost
    BY <1>1, <1>6, Zenon
  <2>2. ActsOnMeant'
    BY <1>1, <1>3, PairRight
  <2>3. QED
    BY <2>1, <2>2, CwdStep DEF Chdir
<1>7. QED
  BY <1>5, <1>6

LEMMA FchdirStep ==
  ASSUME IInv, Fchdir
  PROVE  IInv'
<1>1. PICK fd \in Fd :
        /\ cwd' = fds[fd].path
        /\ place' = IF fds[fd].sure /\ IsDir(fds[fd].meant) THEN fds[fd].meant ELSE Lost
        /\ Acts({OnFd(fd)})
  BY DEF Fchdir
<1>2. PICK e : e = fds[fd]
  OBVIOUS
<1>3. EntryKept(e)
  BY <1>2 DEF IInv, FdsKept
<1>4. ActsOnMeant'
  <2>1. PICK on : on = OnFd(fd)
    OBVIOUS
  <2>2. on[1] = on[2] /\ Acts({on})
    BY <1>1, <1>2, <1>3, <2>1 DEF OnFd, EntryKept
  <2>3. QED
    BY <2>2, PairRight
<1>5. CASE e.sure /\ e.meant \in tree.dirs
  <2>1. cwd' = e.path /\ place' = e.meant
    BY <1>1, <1>2, <1>5 DEF IsDir
  <2>2. QED
    BY <1>3, <1>4, <1>5, <2>1, CwdStep DEF EntryKept, Fchdir
<1>6. CASE ~(e.sure /\ e.meant \in tree.dirs)
  <2>1. place' = Lost
    BY <1>1, <1>2, <1>6, Zenon DEF IsDir
  <2>2. QED
    BY <1>4, <2>1, CwdStep DEF Fchdir
<1>7. QED
  BY <1>5, <1>6

LEMMA GetcwdStep ==
  ASSUME IInv, Getcwd
  PROVE  IInv'
<1>1. PICK on : on = <<Host(cwd), place>>
  OBVIOUS
<1>2. ActsOnMeant'
  <2>1. CASE place # Lost
    <3>1. on[1] = on[2] /\ Acts({on})
      BY <1>1, <2>1, CwdLeads DEF IInv, CwdFaithful, Getcwd
    <3>2. QED
      BY <3>1, PairRight
  <2>2. CASE place = Lost
    BY <2>2, ActsRight DEF Getcwd
  <2>3. QED
    BY <2>1, <2>2
<1>3. QED
  BY <1>2, LookStep DEF Getcwd

LEMMA LookSteps ==
  ASSUME Regular, IInv, Look \/ LookAt \/ UseFd
  PROVE  IInv'
<1>1. PICK on : on[1] = on[2] /\ Acts({on})
  <2>1. CASE Look
    <3>1. PICK path \in Given : Acts({OnPath(path)})
      BY <2>1 DEF Look
    <3>2. PICK node : node = Host(ResolvePath(path))
      OBVIOUS
    <3>3. OnPath(path) = <<node, node>>
      BY <3>2, ResolvedOn DEF IInv
    <3>4. QED
      BY <3>1, <3>3
  <2>2. CASE LookAt
    <3>1. PICK base \in AtBase, path \in GivenAt : Acts({OnPathAt(base, path)})
      BY <2>2 DEF LookAt
    <3>2. QED
      BY <3>1, BasesMeant DEF IInv
  <2>3. CASE UseFd
    <3>1. PICK fd \in Fd : IsOpen(fd) /\ Acts({OnFd(fd)})
      BY <2>3 DEF UseFd
    <3>2. OnFd(fd)[1] = OnFd(fd)[2]
      BY <3>1 DEF IInv, FdsKept, EntryKept, OnFd
    <3>3. QED
      BY <3>1, <3>2
  <2>4. QED
    BY <2>1, <2>2, <2>3
<1>2. ActsOnMeant'
  BY <1>1, PairRight
<1>3. UNCHANGED <<tree, cwd, fds, place>>
  BY DEF Look, LookAt, UseFd
<1>4. QED
  BY <1>2, <1>3, LookStep

\* What is named is what was meant, by path and from a descriptor.
LEMMA NamesMeant ==
  ASSUME Regular, IInv
  PROVE  \A on \in Named \cup NamedAt : on[1] = on[2]
BY NamedMeant, BasesMeant DEF IInv

LEMMA MakeSteps ==
  ASSUME Regular, IInv, NEW ons \in SUBSET (Named \cup NamedAt),
         Makes(ons, MakeDir) \/ Makes(ons, MakeFile) \/ Links(ons)
  PROVE  IInv'
<1>1. \A on \in ons : on[1] = on[2]
  BY NamesMeant
<1>2. CASE Makes(ons, MakeDir) \/ Makes(ons, MakeFile)
  <2>1. PICK on \in ons : (MakeDir(on[1]) \/ MakeFile(on[1])) /\ Acts({on}) /\ OnlyTree
    BY <1>2 DEF Makes
  <2>2. PICK node : node = on[1]
    OBVIOUS
  <2>3. Grows
    BY <2>1, <2>2, TreeSteps DEF IInv
  <2>4. ActsOnMeant'
    BY <1>1, <2>1, PairRight
  <2>5. QED
    BY <2>1, <2>3, <2>4, GrowStep
<1>3. CASE Links(ons)
  <2>1. PICK old \in ons, new \in ons :
          LinkFile(old[1], new[1]) /\ Acts({old, new}) /\ OnlyTree
    BY <1>3 DEF Links
  <2>2. PICK node, other : node = new[1] /\ other = old[1]
    OBVIOUS
  <2>3. Grows
    BY <2>1, <2>2, TreeSteps DEF IInv
  <2>4. ActsOnMeant'
    BY <1>1, <2>1, PairsRight
  <2>5. QED
    BY <2>1, <2>3, <2>4, GrowStep
<1>4. QED
  BY <1>2, <1>3

LEMMA RemoveSteps ==
  ASSUME Regular, IInv, NEW ons \in SUBSET (Named \cup NamedAt),
         Removes(ons, RemoveDir) \/ Removes(ons, RemoveFile)
  PROVE  IInv'
<1>1. PICK on \in ons :
        (RemoveDir(on[1]) \/ RemoveFile(on[1])) /\ Forget({on[1]}) /\ Acts({on})
  BY DEF Removes
<1>2. PICK node, gone : node = on[1] /\ gone = {node}
  OBVIOUS
<1>3. Shrinks(gone) /\ Forget(gone)
  BY <1>1, <1>2, RemovalShrinks DEF IInv
<1>4. ActsOnMeant'
  BY <1>1, NamesMeant, PairRight
<1>5. QED
  BY <1>3, <1>4, ForgetStep

LEMMA RenameSteps ==
  ASSUME Regular, IInv, NEW ons \in SUBSET (Named \cup NamedAt), Renames(ons)
  PROVE  IInv'
<1>1. PICK on \in ons, other \in ons : GetsName(on[1], other[1]) /\ Acts({on, other})
  BY DEF Renames
<1>2. PICK old, new : old = on[1] /\ new = other[1]
  OBVIOUS
<1>3. GetsName(old, new)
  BY <1>1, <1>2
<1>4. ActsOnMeant'
  BY <1>1, NamesMeant, PairsRight
<1>5. QED
  BY <1>3, <1>4, RenameStep

LEMMA NextStep ==
  ASSUME Regular, IInv, [Next]_vars
  PROVE  IInv'
<1>0. Named \in SUBSET (Named \cup NamedAt) /\ NamedAt \in SUBSET (Named \cup NamedAt)
  OBVIOUS
<1>1. CASE Fork
  BY <1>1, ForkStep
<1>2. CASE Open
  BY <1>2, OpenStep
<1>3. CASE Openat
  BY <1>3, OpenatStep
<1>4. CASE Pipe
  BY <1>4, PipeStep
<1>5. CASE Dup \/ Dup2 \/ Close
  BY <1>5, CopyStep
<1>6. CASE Chdir
  BY <1>6, ChdirStep
<1>7. CASE Fchdir
  BY <1>7, FchdirStep
<1>8. CASE Getcwd
  BY <1>8, GetcwdStep
<1>9. CASE ReadWrite \/ Control \/ Stat \/ Fstat \/ Fstatat \/ Access \/ Faccessat
           \/ Getdents \/ Readlink \/ Readlinkat \/ Chmod \/ Fchmod \/ Fchmodat
           \/ Chown \/ Fchown \/ Fchownat \/ Lchown
  BY <1>9, LookSteps
     DEF ReadWrite, Control, Stat, Fstat, Fstatat, Access, Faccessat, Getdents,
         Readlink, Readlinkat, Chmod, Fchmod, Fchmodat, Chown, Fchown, Fchownat, Lchown
<1>10. CASE Mkdir \/ Mkdirat \/ Symlink \/ Symlinkat \/ Link \/ Linkat
  BY <1>0, <1>10, MakeSteps DEF Mkdir, Mkdirat, Symlink, Symlinkat, Link, Linkat
<1>11. CASE Rmdir \/ Unlink \/ Unlinkat
  BY <1>0, <1>11, RemoveSteps DEF Rmdir, Unlink, Unlinkat
<1>12. CASE Rename \/ Renameat
  BY <1>0, <1>12, RenameSteps DEF Rename, Renameat
<1>13. CASE UNCHANGED vars
  <2>1. UNCHANGED <<tree, cwd, fds, place>> /\ ActsOnMeant'
    BY <1>13 DEF vars, IInv, ActsOnMeant
  <2>2. QED
    BY <2>1, LookStep
<1>14. QED
  BY <1>1, <1>2, <1>3, <1>4, <1>5, <1>6, <1>7, <1>8, <1>9, <1>10, <1>11, <1>12,
     <1>13 DEF Next

-----------------------------------------------------------------------------
(* Theorems *)

\* The tree keeps the directories of the host process, and ctx->cwd and the
\* path stored in a descriptor lead to what the guest takes them for unless
\* they were lost: yos_chdir, yos_fchdir, yos_open, yos_openat, yos_dup and the
\* calls on the tree keep it so.
THEOREM Inductive == Regular => (Spec => []IInv)
<1>1. ASSUME Regular
      PROVE  Spec => []IInv
  <2>1. Init => IInv
    BY InitHolds
  <2>2. IInv /\ [Next]_vars => IInv'
    BY <1>1, NextStep
  <2>3. QED
    BY <2>1, <2>2, PTL DEF Spec
<1>2. QED
  BY <1>1

\* A call acts on the node the guest named, as seen from the directory the
\* guest is in, whatever was changed to, opened, copied, removed or renamed
\* before: yos_resolve_path puts ctx->cwd before a relative path.
THEOREM CallsOnMeant == Regular => (Spec => []ActsOnMeant)
<1>1. IInv => ActsOnMeant
  BY DEF IInv
<1>2. QED
  BY <1>1, Inductive, PTL

\* ctx->cwd is absolute and names the directory the guest is in, through any
\* run of chdir, fchdir, fork and changes to the tree, until one of them takes
\* the directory away or loses it.
THEOREM CwdStays == Regular => (Spec => []CwdFaithful)
<1>1. IInv => CwdFaithful
  BY CwdLeads DEF IInv
<1>2. QED
  BY <1>1, Inductive, PTL
=============================================================================
