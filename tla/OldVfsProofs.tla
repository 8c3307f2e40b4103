---------------------------- MODULE OldVfsProofs ----------------------------
(***************************************************************************)
(* That the VFS of the predecessor does what its guest means: for any      *)
(* mounts, tables and paths, a call acts on the node the guest named, the  *)
(* working directory stays the guest's, each descriptor and handle is what *)
(* was put there, and each host descriptor has one owner.  The hypotheses  *)
(* are those of the run: guests dup2 within the table, fchdir to what was  *)
(* opened by an absolute path, and write absolute paths without dots.      *)
(***************************************************************************)
EXTENDS OldVfs, FiniteSetTheorems, WellFoundedInduction, TLAPS

Regular ==
  /\ ~Growing /\ FchdirTo \subseteq {TRUE}
  /\ \A path \in Given : path.abs => Normal(path.names) = path.names

-----------------------------------------------------------------------------
(* Normalisation *)

\* A set of numbers has a least one.
LEMMA LeastNumber ==
  ASSUME NEW T \in SUBSET Nat, T # {}
  PROVE  \E x \in T : \A y \in T : x <= y
<1> DEFINE R == StrictSubsetOrdering(Nat)
           I == {0 .. n : n \in T}
<1>1. I \subseteq FiniteSubsetsOf(Nat) /\ I # {}
  <2>1. ASSUME NEW n \in T
        PROVE  IsFiniteSet(0 .. n)
    BY FS_Interval
  <2>2. ASSUME NEW n \in T
        PROVE  0 .. n \in SUBSET Nat
    OBVIOUS
  <2>3. QED
    BY <2>1, <2>2, Zenon DEF FiniteSubsetsOf
<1>2. IsWellFoundedOn(R, FiniteSubsetsOf(Nat))
  BY FS_StrictSubsetOrderingWellFounded
<1> HIDE DEF I, R
<1>3. PICK i \in I : \A j \in I : ~ (<<j, i>> \in R)
  BY <1>1, <1>2, WFMin
<1> USE DEF I, R
<1>4. PICK x \in T : i = 0 .. x
  BY <1>3
<1>5. ASSUME NEW y \in T, y < x
      PROVE  FALSE
  <2>1. 0 .. y \in I /\ 0 .. y \subseteq 0 .. x /\ x \notin 0 .. y /\ x \in 0 .. x
    BY <1>5
  <2>2. <<0 .. y, i>> \in R
    BY <2>1, <1>4 DEF StrictSubsetOrdering
  <2>3. QED
    BY <1>3, <2>1, <2>2
<1>6. QED
  BY <1>4, <1>5

\* f holds what is left after each of the first n names.
Leaves(f, names, n) ==
  /\ f = [i \in 0 .. n |-> f[i]]
  /\ f[0] = <<>>
  /\ \A i \in 1 .. n : f[i] = Apply(f[i - 1], names[i])

LEMMA LeavesExist ==
  ASSUME NEW names \in Names
  PROVE  \A n \in 0 .. Len(names) : \E f : Leaves(f, names, n)
<1> DEFINE T == {n \in 0 .. Len(names) : ~ \E f : Leaves(f, names, n)}
<1>1. SUFFICES ASSUME T # {} PROVE FALSE
  OBVIOUS
<1>0. Len(names) \in Nat
  BY DEF Names
<1>2. PICK n \in T : \A m \in T : n <= m
  <2>1. T \in SUBSET Nat
    BY <1>0
  <2>2. QED
    BY <1>1, <2>1, LeastNumber
<1>3. CASE n = 0
  <2>1. Leaves([i \in 0 .. 0 |-> <<>>], names, 0)
    BY DEF Leaves
  <2>2. QED
    BY <1>2, <1>3, <2>1
<1>4. CASE n # 0
  <2>1. n \in Nat /\ n - 1 \in 0 .. Len(names) /\ n - 1 \notin T
    BY <1>0, <1>2, <1>4
  <2>2. PICK f : Leaves(f, names, n - 1)
    BY <2>1
  <2> DEFINE g == [i \in 0 .. n |-> IF i = n THEN Apply(f[n - 1], names[n]) ELSE f[i]]
  <2>3. g = [i \in 0 .. n |-> g[i]]
    OBVIOUS
  <2>4. g[0] = <<>>
    BY <2>1, <2>2, <1>4 DEF Leaves
  <2>5. ASSUME NEW i \in 1 .. n
        PROVE  g[i] = Apply(g[i - 1], names[i])
    <3>1. i \in 0 .. n /\ i - 1 \in 0 .. n /\ i - 1 # n
      BY <2>1
    <3>2. g[i - 1] = f[i - 1]
      BY <3>1
    <3>3. CASE i = n
      BY <3>1, <3>2, <3>3
    <3>4. CASE i # n
      <4>1. i \in 1 .. (n - 1)
        BY <2>1, <3>4
      <4>2. f[i] = Apply(f[i - 1], names[i])
        BY <2>2, <4>1 DEF Leaves
      <4>3. QED
        BY <3>1, <3>2, <3>4, <4>2
    <3>5. QED
      BY <3>3, <3>4
  <2>6. Leaves(g, names, n)
    <3> HIDE DEF g
    <3>1. QED
      BY <2>3, <2>4, <2>5 DEF Leaves
  <2>7. QED
    BY <1>2, <2>6
<1>5. QED
  BY <1>3, <1>4

LEMMA PartsFacts ==
  ASSUME NEW names \in Names
  PROVE  Leaves(Parts(names), names, Len(names))
<1> DEFINE Step(f) == [i \in 0 .. Len(names) |-> IF i = 0 THEN <<>> ELSE Apply(f[i - 1], names[i])]
<1>0. Len(names) \in Nat
  BY DEF Names
<1>1. PICK f : Leaves(f, names, Len(names))
  BY <1>0, LeavesExist
<1>2. f = Step(f)
  <2>1. \A i \in 0 .. Len(names) : f[i] = IF i = 0 THEN <<>> ELSE Apply(f[i - 1], names[i])
    <3>1. ASSUME NEW i \in 0 .. Len(names)
          PROVE  f[i] = IF i = 0 THEN <<>> ELSE Apply(f[i - 1], names[i])
      <4>1. CASE i = 0
        BY <1>1, <4>1 DEF Leaves
      <4>2. CASE i # 0
        <5>1. i \in 1 .. Len(names)
          BY <1>0, <4>2
        <5>2. QED
          BY <1>1, <4>2, <5>1 DEF Leaves
      <4>3. QED
        BY <4>1, <4>2
    <3>2. QED
      BY <3>1
  <2>2. f = [i \in 0 .. Len(names) |-> f[i]]
    BY <1>1 DEF Leaves
  <2>3. QED
    BY <2>1, <2>2
<1>3. Parts(names) = Step(Parts(names))
  BY <1>2, Zenon DEF Parts
<1> DEFINE p == Parts(names)
<1> HIDE DEF p
<1>4. \A i \in 0 .. Len(names) : p[i] = IF i = 0 THEN <<>> ELSE Apply(p[i - 1], names[i])
  BY <1>3 DEF p
<1>5. p = [i \in 0 .. Len(names) |-> p[i]]
  BY <1>3 DEF p
<1>6. p[0] = <<>>
  BY <1>0, <1>4
<1>7. \A i \in 1 .. Len(names) : p[i] = Apply(p[i - 1], names[i])
  <2>1. ASSUME NEW i \in 1 .. Len(names)
        PROVE  i \in 0 .. Len(names) /\ i # 0
    BY <1>0
  <2>2. QED
    BY <2>1, <1>4
<1>8. QED
  BY <1>5, <1>6, <1>7 DEF Leaves, p

LEMMA ApplyFacts ==
  ASSUME NEW parts \in Seq(Plain), NEW name \in STRING
  PROVE  /\ Apply(parts, name) \in Seq(Plain)
         /\ name \in Plain => Apply(parts, name) = Append(parts, name)
<1>1. CASE name = ".."
  <2>1. CASE parts = <<>>
    BY <1>1, <2>1 DEF Apply, Plain
  <2>2. CASE parts # <<>>
    <3>1. Front(parts) \in Seq(Plain)
      <4>1. Len(parts) \in Nat /\ Len(parts) # 0
        BY <2>2
      <4>2. SubSeq(parts, 1, Len(parts) - 1) \in Seq(Plain)
        BY <4>1
      <4>3. QED
        BY <4>2 DEF Front
    <3>2. QED
      BY <1>1, <2>2, <3>1 DEF Apply, Plain
  <2>3. QED
    BY <2>1, <2>2
<1>2. CASE name = "."
  BY <1>2 DEF Apply, Plain
<1>3. CASE name \notin {".", ".."}
  <2>1. name \in Plain
    BY <1>3 DEF Plain
  <2>2. QED
    BY <1>3, <2>1 DEF Apply
<1>4. QED
  BY <1>1, <1>2, <1>3

\* No dots are left.
LEMMA NormalType ==
  ASSUME NEW names \in Names
  PROVE  Normal(names) \in Seq(Plain)
<1> DEFINE p == Parts(names)
           T == {i \in 0 .. Len(names) : p[i] \notin Seq(Plain)}
<1>0. Len(names) \in Nat /\ \A i \in 1 .. Len(names) : names[i] \in STRING
  BY DEF Names
<1>1. /\ p[0] = <<>>
      /\ \A i \in 1 .. Len(names) : p[i] = Apply(p[i - 1], names[i])
  BY PartsFacts DEF Leaves
<1> HIDE DEF p
<1>2. T = {}
  <2>1. SUFFICES ASSUME T # {} PROVE FALSE
    OBVIOUS
  <2>2. PICK i \in T : \A j \in T : i <= j
    <3>1. T \in SUBSET Nat
      BY <1>0
    <3>2. QED
      BY <2>1, <3>1, LeastNumber
  <2>3. i # 0
    <3>1. <<>> \in Seq(Plain)
      OBVIOUS
    <3>2. QED
      BY <1>1, <2>2, <3>1
  <2>4. i \in 1 .. Len(names) /\ i - 1 \in 0 .. Len(names) /\ i - 1 \notin T
    BY <1>0, <2>2, <2>3
  <2>5. p[i - 1] \in Seq(Plain) /\ names[i] \in STRING
    BY <1>0, <2>4
  <2>6. p[i] \in Seq(Plain)
    BY <1>1, <2>4, <2>5, ApplyFacts
  <2>7. QED
    BY <2>2, <2>6
<1>3. Len(names) \in 0 .. Len(names)
  BY <1>0
<1>4. p[Len(names)] \in Seq(Plain)
  BY <1>2, <1>3
<1>5. QED
  BY <1>4 DEF Normal, p

\* Names without dots stay as they are.
LEMMA NormalOfPlain ==
  ASSUME NEW names \in Seq(Plain)
  PROVE  Normal(names) = names
<1> DEFINE p == Parts(names)
           T == {i \in 0 .. Len(names) : p[i] # SubSeq(names, 1, i)}
<1>0. Len(names) \in Nat /\ names \in Names /\ \A i \in 1 .. Len(names) : names[i] \in Plain
  BY DEF Names, Plain
<1>1. /\ p[0] = <<>>
      /\ \A i \in 1 .. Len(names) : p[i] = Apply(p[i - 1], names[i])
  BY <1>0, PartsFacts DEF Leaves
<1> HIDE DEF p
<1>2. T = {}
  <2>1. SUFFICES ASSUME T # {} PROVE FALSE
    OBVIOUS
  <2>2. PICK i \in T : \A j \in T : i <= j
    <3>1. T \in SUBSET Nat
      BY <1>0
    <3>2. QED
      BY <2>1, <3>1, LeastNumber
  <2>3. i # 0
    <3>1. SubSeq(names, 1, 0) = <<>>
      OBVIOUS
    <3>2. QED
      BY <1>1, <3>1, <2>2
  <2>4. i \in 1 .. Len(names) /\ i - 1 \in 0 .. Len(names) /\ i - 1 \notin T
    BY <1>0, <2>2, <2>3
  <2>5. p[i - 1] = SubSeq(names, 1, i - 1) /\ names[i] \in Plain
    BY <1>0, <2>4
  <2>6. SubSeq(names, 1, i - 1) \in Seq(Plain) /\ names[i] \in STRING
    BY <1>0, <2>4, <2>5 DEF Plain
  <2>7. p[i] = Append(SubSeq(names, 1, i - 1), names[i])
    BY <1>1, <2>4, <2>5, <2>6, ApplyFacts
  <2>8. Append(SubSeq(names, 1, i - 1), names[i]) = SubSeq(names, 1, i)
    BY <1>0, <2>4
  <2>9. QED
    BY <2>2, <2>7, <2>8
<1>3. Len(names) \in 0 .. Len(names)
  BY <1>0
<1>4. p[Len(names)] = SubSeq(names, 1, Len(names))
  BY <1>2, <1>3
<1>5. SubSeq(names, 1, Len(names)) = names
  OBVIOUS
<1>6. QED
  BY <1>4, <1>5 DEF Normal, p

LEMMA NormalTwice ==
  ASSUME NEW names \in Names
  PROVE  Normal(Normal(names)) = Normal(names) /\ Normal(names) \in Names
<1>1. Normal(names) \in Seq(Plain)
  BY NormalType
<1>2. Normal(names) \in Names
  BY <1>1 DEF Names, Plain
<1>3. QED
  BY <1>1, <1>2, NormalOfPlain
-----------------------------------------------------------------------------
(* Mounts *)

LEMMA PrefixesAgree ==
  ASSUME NEW s \in Names, NEW t \in Names, NEW names \in Names,
         IsPrefix(s, names), IsPrefix(t, names), Len(s) <= Len(t)
  PROVE  IsPrefix(s, t) /\ (Len(s) = Len(t) => s = t)
<1>1. /\ Len(s) \in Nat /\ Len(t) \in Nat /\ Len(names) \in Nat
      /\ Len(s) <= Len(names) /\ Len(t) <= Len(names)
  BY DEF IsPrefix, Names
<1>2. s = SubSeq(s, 1, Len(s)) /\ t = SubSeq(t, 1, Len(t))
  BY DEF Names
<1>3. \A i \in 1 .. Len(s) : s[i] = names[i]
  <2>1. ASSUME NEW i \in 1 .. Len(s)
        PROVE  s[i] = names[i]
    <3>1. SubSeq(s, 1, Len(s))[i] = s[i] /\ SubSeq(names, 1, Len(s))[i] = names[i]
      BY <1>1, <2>1 DEF Names
    <3>2. QED
      BY <3>1 DEF IsPrefix
  <2>2. QED
    BY <2>1
<1>4. \A i \in 1 .. Len(t) : t[i] = names[i]
  <2>1. ASSUME NEW i \in 1 .. Len(t)
        PROVE  t[i] = names[i]
    <3>1. SubSeq(t, 1, Len(t))[i] = t[i] /\ SubSeq(names, 1, Len(t))[i] = names[i]
      BY <1>1, <2>1 DEF Names
    <3>2. QED
      BY <3>1 DEF IsPrefix
  <2>2. QED
    BY <2>1
<1>5. \A i \in 1 .. Len(s) : s[i] = t[i]
  BY <1>1, <1>3, <1>4
<1>6. SubSeq(t, 1, Len(s)) = s
  <2> DEFINE u == SubSeq(t, 1, Len(s))
  <2>1. u \in Seq(STRING) /\ s \in Seq(STRING) /\ Len(u) = Len(s)
    BY <1>1 DEF Names
  <2>2. \A i \in 1 .. Len(s) : u[i] = s[i]
    BY <1>1, <1>5 DEF Names
  <2> HIDE DEF u
  <2>3. u = s
    BY <2>1, <2>2
  <2>4. QED
    BY <2>3 DEF u
<1>7. IsPrefix(s, t)
  BY <1>2, <1>6 DEF IsPrefix
<1>8. QED
  BY <1>2, <1>6, <1>7

\* There is one mount a path lies in more deeply than in any other; it is the
\* first in the map.
LEMMA Innermost ==
  ASSUME NEW names \in Names
  PROVE  \E m \in Mounts :
           /\ m.at \in Names /\ m.root \in Names
           /\ \A n \in Matching(Path(TRUE, names)) :
                First(n, Matching(Path(TRUE, names))) => n = m
           /\ m \in Matching(Path(TRUE, names)) /\ First(m, Matching(Path(TRUE, names)))
           /\ MeantNode(names) = Walk(Root, Path(TRUE, m.root \o Below(names, m)))
<1> DEFINE ms == {n \in Mounts : IsPrefix(n.at, names)}
           T == {Len(names) - Len(n.at) : n \in ms}
<1>1. Matching(Path(TRUE, names)) = ms
  BY DEF Matching, Path
<1>2. /\ Len(names) \in Nat
      /\ \A n \in Mounts : n.at \in Names /\ n.root \in Names /\ Len(n.at) \in Nat
      /\ \A n \in ms : Len(n.at) <= Len(names)
  BY OldVfsAssumption DEF IsPrefix, Names
<1>3. \A n \in ms : Len(names) - Len(n.at) \in Nat
  BY <1>2
<1>4. T # {}
  <2>1. PICK n \in Mounts : n.at = <<>>
    BY OldVfsAssumption
  <2>2. IsPrefix(<<>>, names)
    BY <1>2 DEF IsPrefix, Names
  <2>3. QED
    BY <2>1, <2>2
<1>5. PICK m \in ms : \A n \in ms : Len(names) - Len(m.at) <= Len(names) - Len(n.at)
  <2>1. T \in SUBSET Nat
    BY <1>3
  <2>2. PICK x \in T : \A y \in T : x <= y
    BY <1>4, <2>1, LeastNumber
  <2>3. QED
    BY <2>2
<1>6. \A n \in ms : Len(n.at) <= Len(m.at)
  BY <1>2, <1>5
<1>7. \A n \in ms : IsPrefix(n.at, m.at) /\ (Len(n.at) = Len(m.at) => n = m)
  <2>1. ASSUME NEW n \in ms
        PROVE  IsPrefix(n.at, m.at) /\ (Len(n.at) = Len(m.at) => n.at = m.at)
    BY <1>2, <1>6, PrefixesAgree
  <2>2. QED
    BY <2>1, OldVfsAssumption
<1>8. First(m, ms)
  BY <1>7 DEF First
<1>9. ASSUME NEW n \in ms, First(n, ms)
      PROVE  n = m
  <2>1. IsPrefix(m.at, n.at)
    BY <1>9 DEF First
  <2>2. Len(m.at) <= Len(n.at)
    BY <2>1 DEF IsPrefix
  <2>3. QED
    BY <1>2, <1>6, <1>7, <2>2
<1> DEFINE longest == CHOOSE n \in {n \in Mounts : IsPrefix(n.at, names)} :
                        \A k \in Mounts : IsPrefix(k.at, names) => Len(k.at) <= Len(n.at)
<1>10. longest = m
  <2>1. longest \in ms /\ \A k \in Mounts : IsPrefix(k.at, names) => Len(k.at) <= Len(longest.at)
    BY <1>5, <1>6, Zenon
  <2> HIDE DEF longest
  <2>2. Len(m.at) <= Len(longest.at) /\ Len(longest.at) <= Len(m.at)
    BY <2>1, <1>6
  <2>3. QED
    BY <1>2, <1>7, <2>1, <2>2
<1>11. MeantNode(names) = Walk(Root, Path(TRUE, m.root \o Below(names, m)))
  BY <1>10 DEF MeantNode
<1>12. QED
  BY <1>1, <1>2, <1>8, <1>9, <1>11

\* A normal path leads the host to the node it names to the guest.
LEMMA NormalPath ==
  ASSUME NEW names \in Names
  PROVE  \E r : /\ Resolve(Path(TRUE, names)) = {r}
                /\ HostNode(r.fs, r.path) = MeantNode(names)
<1> DEFINE p == Path(TRUE, names)
<1>1. PICK m \in Mounts :
        /\ m.at \in Names /\ m.root \in Names
        /\ \A n \in Matching(p) : First(n, Matching(p)) => n = m
        /\ m \in Matching(p) /\ First(m, Matching(p))
        /\ MeantNode(names) = Walk(Root, Path(TRUE, m.root \o Below(names, m)))
  BY Innermost
<1> DEFINE r == [fs |-> m.root, path |-> Path(TRUE, Below(names, m))]
<1>2. MakeAbsolute(p) = p /\ p.names = names
  BY DEF MakeAbsolute, Path
<1>3. Resolve(p) = {r}
  <2>1. {n \in Matching(p) : First(n, Matching(p))} = {m}
    BY <1>1
  <2>2. Resolve(p) = {[fs |-> n.root, path |-> Path(TRUE, Below(names, n))] :
                        n \in {n \in Matching(p) : First(n, Matching(p))}}
    BY <1>2, Zenon DEF Resolve
  <2>3. QED
    BY <2>1, <2>2
<1>4. HostNode(r.fs, r.path) = MeantNode(names)
  <2>1. Below(names, m) \in Seq(STRING)
    <3>1. Len(m.at) \in Nat /\ Len(names) \in Nat
      BY <1>1 DEF Names
    <3>2. SubSeq(names, Len(m.at) + 1, Len(names)) \in Seq(STRING)
      BY <3>1 DEF Names
    <3>3. QED
      BY <3>2 DEF Below
  <2>2. toHostPath(m.root, Path(TRUE, Below(names, m))) = Path(TRUE, m.root \o Below(names, m))
    <3>1. CASE m.root = Root
      <4>1. <<>> \o Below(names, m) = Below(names, m)
        BY <2>1
      <4>2. QED
        BY <3>1, <4>1 DEF toHostPath, Root, Path
    <3>2. CASE m.root # Root
      BY <3>2 DEF toHostPath, Path
    <3>3. QED
      BY <3>1, <3>2
  <2>3. QED
    BY <1>1, <2>2 DEF HostNode
<1>5. QED
  BY <1>3, <1>4
-----------------------------------------------------------------------------
(* Owners: descriptors and handles of the program, or an earlier program.  *)
(* T is a table of descriptors and fds what is meant by them, D one of     *)
(* handles and dirs what is meant by those, L what was left open, and open *)
(* what the host has open.                                                 *)

Above == HostFd \ {0, 1, 2}
Fds == 3 .. (MaxFds - 1)

OpenIn(T) == {fd \in Fds : fd + 1 \in 1 .. Len(T) /\ T[fd + 1] # NoEntry}
FdOwner(T, fds, fd) == [kind |-> "fd", at |-> fd, fd |-> T[fd + 1].localFd, on |-> fds[fd + 1]]

UsedIn(D) == {i \in 1 .. Len(D) : D[i] # -1}
DirOwner(D, dirs, i) == [kind |-> "dir", at |-> i, fd |-> D[i], on |-> dirs[i]]

FdsOwned(T, fds) == {FdOwner(T, fds, fd) : fd \in OpenIn(T)}
DirsOwned(D, dirs) == {DirOwner(D, dirs, i) : i \in UsedIn(D)}

\* Each host descriptor above stdio that is open has one owner, which means
\* it to be open on what it is open on.
Sole(S, L, open) ==
  /\ \A x \in S : x.fd \in Above \ L /\ open[x.fd] = x.on /\ x.on # Closed
  /\ \A x, y \in S : x.fd = y.fd => x = y
  /\ L \subseteq Above /\ \A h \in L : open[h] # Closed
  /\ \A h \in Above : open[h] # Closed => h \in L \/ \E x \in S : x.fd = h

LEMMA Gained ==
  ASSUME NEW S, NEW L, NEW open, Sole(S, L, open), DOMAIN open = HostFd,
         NEW x, x.fd \in Above, open[x.fd] = Closed, x.on # Closed
  PROVE  Sole(S \cup {x}, L, [open EXCEPT ![x.fd] = x.on])
<1> DEFINE new == [open EXCEPT ![x.fd] = x.on]
<1>1. /\ \A h \in HostFd : new[h] = IF h = x.fd THEN x.on ELSE open[h]
      /\ Above \subseteq HostFd
  BY DEF Above
<1> HIDE DEF new
<1>2. \A y \in S : y.fd # x.fd
  BY DEF Sole
<1>3. x.fd \notin L
  BY DEF Sole
<1>4. \A y \in S \cup {x} : y.fd \in Above \ L /\ new[y.fd] = y.on /\ y.on # Closed
  BY <1>1, <1>2, <1>3 DEF Sole
<1>5. \A y, z \in S \cup {x} : y.fd = z.fd => y = z
  BY <1>2 DEF Sole
<1>6. L \subseteq Above /\ \A h \in L : new[h] # Closed
  BY <1>1, <1>3 DEF Sole
<1>7. \A h \in Above : new[h] # Closed => h \in L \/ \E y \in S \cup {x} : y.fd = h
  BY <1>1 DEF Sole
<1>8. QED
  BY <1>4, <1>5, <1>6, <1>7 DEF Sole, new

LEMMA Lost ==
  ASSUME NEW S, NEW L, NEW open, Sole(S, L, open), DOMAIN open = HostFd, NEW x \in S
  PROVE  Sole(S \ {x}, L, [open EXCEPT ![x.fd] = Closed])
<1> DEFINE new == [open EXCEPT ![x.fd] = Closed]
<1>1. /\ \A h \in HostFd : new[h] = IF h = x.fd THEN Closed ELSE open[h]
      /\ Above \subseteq HostFd
  BY DEF Above
<1> HIDE DEF new
<1>2. \A y \in S \ {x} : y.fd # x.fd
  BY DEF Sole
<1>3. x.fd \notin L
  BY DEF Sole
<1>4. \A y \in S \ {x} : y.fd \in Above \ L /\ new[y.fd] = y.on /\ y.on # Closed
  BY <1>1, <1>2 DEF Sole
<1>5. \A y, z \in S \ {x} : y.fd = z.fd => y = z
  BY DEF Sole
<1>6. L \subseteq Above /\ \A h \in L : new[h] # Closed
  BY <1>1, <1>3 DEF Sole
<1>7. \A h \in Above : new[h] # Closed => h \in L \/ \E y \in S \ {x} : y.fd = h
  <2>1. SUFFICES ASSUME NEW h \in Above, new[h] # Closed, h \notin L
                 PROVE  \E y \in S \ {x} : y.fd = h
    OBVIOUS
  <2>2. h # x.fd /\ open[h] # Closed
    BY <1>1, <2>1
  <2>3. PICK y \in S : y.fd = h
    BY <2>1, <2>2 DEF Sole
  <2>4. y \in S \ {x}
    BY <2>2, <2>3
  <2>5. QED
    BY <2>3, <2>4
<1>8. QED
  BY <1>4, <1>5, <1>6, <1>7 DEF Sole, new

\* All that a program owned is left.
LEMMA Ended ==
  ASSUME NEW S, NEW L, NEW open, Sole(S, L, open)
  PROVE  Sole({}, L \cup {x.fd : x \in S}, open)
<1>1. L \cup {x.fd : x \in S} \subseteq Above
  BY DEF Sole
<1>2. \A h \in L \cup {x.fd : x \in S} : open[h] # Closed
  BY DEF Sole
<1>3. QED
  BY <1>1, <1>2 DEF Sole

-----------------------------------------------------------------------------
(* The books of a program, and what keeps them *)

AnyPath == [abs : BOOLEAN, names : Names]
Entries == [localFd : HostFd \cup {-1}, path : AnyPath]
IsSeq(s) == Len(s) \in Nat /\ s = [i \in 1 .. Len(s) |-> s[i]]

FdBook(T, fds) ==
  /\ T \in Seq(Entries) /\ Len(T) \in 3 .. MaxFds
  /\ \A i \in 1 .. 3 : T[i] = Stdio[i] /\ fds[i] = Terminal[i]
  /\ fds = [i \in 1 .. MaxFds |-> fds[i]]
  /\ \A fd \in Fds \ OpenIn(T) : fds[fd + 1] = Closed

DirBook(D, dirs) ==
  /\ D \in Seq(HostFd \cup {-1})
  /\ IsSeq(dirs) /\ Len(dirs) = Len(D)
  /\ \A i \in 1 .. Len(D) : D[i] = -1 => dirs[i] = Closed

HostBook(open) ==
  /\ open = [h \in HostFd |-> open[h]]
  /\ \A i \in 1 .. 3 : open[i - 1] = Terminal[i]

Books(T, fds, D, dirs, L, open) ==
  /\ FdBook(T, fds) /\ DirBook(D, dirs) /\ HostBook(open)
  /\ Sole(FdsOwned(T, fds) \cup DirsOwned(D, dirs), L, open)

\* U is T with the entry e at i.
Put(T, U, i, e) ==
  /\ U \in Seq(Entries) /\ Len(U) \in 3 .. MaxFds /\ Len(T) <= Len(U)
  /\ i \in 4 .. Len(U) /\ U[i] = e
  /\ \A j \in 1 .. Len(U) : j # i => j <= Len(T) /\ U[j] = T[j]

With(fds, i, on) == [fds EXCEPT ![i] = on]
Without(T, i) == [T EXCEPT ![i] = NoEntry]
NewFdOwner(i, h, on) == [kind |-> "fd", at |-> i - 1, fd |-> h, on |-> on]

LEMMA TypesOfEntries ==
  /\ NoEntry \in Entries
  /\ \A h \in HostFd, path \in AnyPath : Entry(h, path) \in Entries /\ Entry(h, path) # NoEntry
  /\ \A h \in HostFd : Entry(h, NoPath) \in Entries /\ Entry(h, NoPath) # NoEntry
<1>1. NoPath \in AnyPath
  BY DEF NoPath, Path, AnyPath, Names
<1>2. -1 \notin HostFd
  BY OldVfsAssumption DEF HostFd
<1>3. QED
  BY <1>1, <1>2 DEF NoEntry, Entry, Entries

\* An entry is added to the table.
LEMMA FdAdded ==
  ASSUME NEW T, NEW fds, FdBook(T, fds), NEW U, NEW i, NEW e, Put(T, U, i, e),
         e # NoEntry, i - 1 \notin OpenIn(T), NEW on
  PROVE  /\ FdBook(U, With(fds, i, on))
         /\ FdsOwned(U, With(fds, i, on)) = FdsOwned(T, fds) \cup {NewFdOwner(i, e.localFd, on)}
<1> DEFINE new == With(fds, i, on)
           owner == NewFdOwner(i, e.localFd, on)
<1>0. MaxFds \in Nat
  BY OldVfsAssumption
<1>1. /\ Len(T) \in 3 .. MaxFds /\ Len(U) \in 3 .. MaxFds /\ Len(T) <= Len(U)
      /\ i \in 4 .. Len(U) /\ i \in 4 .. MaxFds
  BY <1>0 DEF FdBook, Put
<1>2. /\ \A j \in 1 .. MaxFds : new[j] = IF j = i THEN on ELSE fds[j]
      /\ new = [j \in 1 .. MaxFds |-> new[j]]
  <2>1. fds = [j \in 1 .. MaxFds |-> fds[j]]
    BY DEF FdBook
  <2>2. QED
    BY <2>1 DEF With
<1> HIDE DEF new
<1>3. OpenIn(U) = OpenIn(T) \cup {i - 1}
  BY <1>0, <1>1 DEF OpenIn, Fds, Put
<1>4. FdBook(U, new)
  <2>1. \A j \in 1 .. 3 : U[j] = Stdio[j] /\ new[j] = Terminal[j]
    <3>1. ASSUME NEW j \in 1 .. 3
          PROVE  j # i /\ j \in 1 .. Len(U) /\ j \in 1 .. MaxFds
      BY <1>0, <1>1
    <3>2. \A j \in 1 .. 3 : U[j] = T[j]
      BY <3>1 DEF Put
    <3>3. \A j \in 1 .. 3 : new[j] = fds[j]
      BY <1>2, <3>1
    <3>4. QED
      BY <3>2, <3>3 DEF FdBook
  <2>2. \A fd \in Fds \ OpenIn(U) : new[fd + 1] = Closed
    <3>1. ASSUME NEW fd \in Fds \ OpenIn(U)
          PROVE  new[fd + 1] = Closed
      <4>1. fd \in Fds \ OpenIn(T) /\ fd + 1 # i /\ fd + 1 \in 1 .. MaxFds
        BY <1>0, <1>1, <1>3 DEF Fds
      <4>2. QED
        BY <1>2, <4>1 DEF FdBook
    <3>2. QED
      BY <3>1
  <2>3. QED
    BY <1>2, <2>1, <2>2 DEF FdBook, Put
<1>5. FdOwner(U, new, i - 1) = owner
  <2>1. (i - 1) + 1 = i /\ U[i] = e /\ new[i] = on
    BY <1>1, <1>2 DEF Put
  <2>2. QED
    BY <2>1 DEF FdOwner, NewFdOwner
<1>6. \A fd \in OpenIn(T) : FdOwner(U, new, fd) = FdOwner(T, fds, fd)
  <2>1. ASSUME NEW fd \in OpenIn(T)
        PROVE  U[fd + 1] = T[fd + 1] /\ new[fd + 1] = fds[fd + 1]
    <3>1. fd # i - 1 /\ fd \in Int /\ fd + 1 \in 1 .. MaxFds /\ fd + 1 \in 1 .. Len(T)
      BY <1>0, <1>1 DEF OpenIn, Fds
    <3>2. fd + 1 # i /\ fd + 1 \in 1 .. Len(U)
      BY <1>1, <3>1
    <3>3. QED
      BY <1>2, <3>1, <3>2 DEF Put
  <2>2. QED
    BY <2>1 DEF FdOwner
<1>7. FdsOwned(U, new) = FdsOwned(T, fds) \cup {owner}
  <2>1. FdsOwned(U, new) = {FdOwner(U, new, fd) : fd \in OpenIn(T)} \cup {FdOwner(U, new, i - 1)}
    BY <1>3 DEF FdsOwned
  <2>2. {FdOwner(U, new, fd) : fd \in OpenIn(T)} = {FdOwner(T, fds, fd) : fd \in OpenIn(T)}
    BY <1>6
  <2>3. QED
    BY <1>5, <2>1, <2>2 DEF FdsOwned
<1>8. QED
  BY <1>4, <1>7 DEF new

\* An entry is taken out of the table.
LEMMA FdTaken ==
  ASSUME NEW T, NEW fds, FdBook(T, fds), NEW fd \in OpenIn(T)
  PROVE  /\ FdBook(Without(T, fd + 1), With(fds, fd + 1, Closed))
         /\ Len(Without(T, fd + 1)) = Len(T)
         /\ \A j \in 1 .. Len(T) : Without(T, fd + 1)[j] = IF j = fd + 1 THEN NoEntry ELSE T[j]
         /\ OpenIn(Without(T, fd + 1)) = OpenIn(T) \ {fd}
         /\ FdsOwned(Without(T, fd + 1), With(fds, fd + 1, Closed)) = FdsOwned(T, fds) \ {FdOwner(T, fds, fd)}
<1> DEFINE U == Without(T, fd + 1)
           new == With(fds, fd + 1, Closed)
<1>0. MaxFds \in Nat
  BY OldVfsAssumption
<1>1. /\ Len(T) \in 3 .. MaxFds /\ T \in Seq(Entries)
      /\ fd \in Int /\ fd >= 3 /\ fd + 1 \in 1 .. Len(T) /\ fd + 1 \in 1 .. MaxFds
  BY <1>0 DEF FdBook, OpenIn, Fds
<1>2. /\ U \in Seq(Entries) /\ Len(U) = Len(T)
      /\ \A j \in 1 .. Len(T) : U[j] = IF j = fd + 1 THEN NoEntry ELSE T[j]
  BY <1>1, TypesOfEntries DEF Without
<1>3. /\ \A j \in 1 .. MaxFds : new[j] = IF j = fd + 1 THEN Closed ELSE fds[j]
      /\ new = [j \in 1 .. MaxFds |-> new[j]]
  <2>1. fds = [j \in 1 .. MaxFds |-> fds[j]]
    BY DEF FdBook
  <2>2. QED
    BY <2>1 DEF With
<1> HIDE DEF U, new
<1>4. OpenIn(U) = OpenIn(T) \ {fd}
  BY <1>0, <1>1, <1>2 DEF OpenIn, Fds
<1>5. FdBook(U, new)
  <2>1. \A j \in 1 .. 3 : U[j] = Stdio[j] /\ new[j] = Terminal[j]
    <3>1. \A j \in 1 .. 3 : j # fd + 1 /\ j \in 1 .. Len(T) /\ j \in 1 .. MaxFds
      BY <1>0, <1>1
    <3>2. QED
      BY <1>2, <1>3, <3>1 DEF FdBook
  <2>2. \A g \in Fds \ OpenIn(U) : new[g + 1] = Closed
    <3>1. ASSUME NEW g \in Fds \ OpenIn(U)
          PROVE  new[g + 1] = Closed
      <4>1. g = fd \/ g \in Fds \ OpenIn(T)
        BY <1>4
      <4>2. g + 1 \in 1 .. MaxFds
        BY <1>0 DEF Fds
      <4>3. QED
        BY <1>3, <4>1, <4>2 DEF FdBook
    <3>2. QED
      BY <3>1
  <2>3. QED
    BY <1>1, <1>2, <1>3, <2>1, <2>2 DEF FdBook
<1>6. \A g \in OpenIn(U) : FdOwner(U, new, g) = FdOwner(T, fds, g)
  <2>1. ASSUME NEW g \in OpenIn(U)
        PROVE  U[g + 1] = T[g + 1] /\ new[g + 1] = fds[g + 1]
    <3>0. g \in OpenIn(T) /\ g # fd
      BY <1>4
    <3>1. g \in Int /\ g + 1 \in 1 .. MaxFds /\ g + 1 \in 1 .. Len(T)
      BY <1>0, <3>0 DEF OpenIn, Fds
    <3>2. g + 1 # fd + 1
      BY <1>1, <3>0, <3>1
    <3>3. QED
      BY <1>2, <1>3, <3>1, <3>2
  <2>2. QED
    BY <2>1 DEF FdOwner
<1>7. \A g, k \in OpenIn(T) : FdOwner(T, fds, g) = FdOwner(T, fds, k) => g = k
  BY DEF FdOwner
<1>8. FdsOwned(U, new) = FdsOwned(T, fds) \ {FdOwner(T, fds, fd)}
  <2>1. FdsOwned(U, new) = {FdOwner(T, fds, g) : g \in OpenIn(U)}
    BY <1>6 DEF FdsOwned
  <2>2. {FdOwner(T, fds, g) : g \in OpenIn(T) \ {fd}} = {FdOwner(T, fds, g) : g \in OpenIn(T)} \ {FdOwner(T, fds, fd)}
    BY <1>7
  <2>3. QED
    BY <1>4, <2>1, <2>2 DEF FdsOwned
<1>9. QED
  BY <1>2, <1>4, <1>5, <1>8 DEF U, new

\* allocFd puts the entry in a slot that was not in use.
LEMMA AllocFacts ==
  ASSUME NEW T, NEW fds, FdBook(T, fds), Fits(T), NEW e \in Entries
  PROVE  /\ Put(T, Alloc(T, e), Slot(T), e)
         /\ Slot(T) \in 4 .. MaxFds /\ Slot(T) - 1 \notin OpenIn(T)
<1> DEFINE free == {i \in 4 .. Len(T) : T[i] = NoEntry}
<1>0. MaxFds \in Nat /\ Len(T) \in 3 .. MaxFds /\ T \in Seq(Entries)
  BY OldVfsAssumption DEF FdBook
<1>1. CASE free = {}
  <2>1. Slot(T) = Len(T) + 1 /\ Len(T) + 1 <= MaxFds
    BY <1>1 DEF Slot, Fits
  <2>2. Alloc(T, e) = Append(T, e)
    BY <1>0, <2>1 DEF Alloc
  <2>3. Put(T, Append(T, e), Len(T) + 1, e)
    BY <1>0, <2>1 DEF Put
  <2>4. Slot(T) - 1 \notin OpenIn(T)
    BY <1>0, <2>1 DEF OpenIn
  <2>5. QED
    BY <1>0, <2>1, <2>2, <2>3, <2>4
<1>2. CASE free # {}
  <2>1. PICK i \in free : \A j \in free : i <= j
    <3>1. free \in SUBSET Nat
      BY <1>0
    <3>2. QED
      BY <1>2, <3>1, LeastNumber
  <2>2. Min(free) \in free
    BY <2>1, Zenon DEF Min
  <2>3. Slot(T) \in free
    BY <1>2, <2>2 DEF Slot
  <2>4. Slot(T) \in 4 .. Len(T) /\ T[Slot(T)] = NoEntry
    BY <2>3
  <2> DEFINE s == Slot(T)
  <2> HIDE DEF s
  <2>5. s \in 4 .. Len(T) /\ T[s] = NoEntry /\ s \in Int /\ ~ (s > Len(T))
    BY <1>0, <2>4 DEF s
  <2>6. Alloc(T, e) = [T EXCEPT ![s] = e]
    BY <2>5 DEF Alloc, s
  <2>7. Put(T, [T EXCEPT ![s] = e], s, e)
    BY <1>0, <2>5 DEF Put
  <2>8. s - 1 \notin OpenIn(T)
    <3>1. (s - 1) + 1 = s
      BY <2>5
    <3>2. QED
      BY <2>5, <3>1 DEF OpenIn
  <2>9. QED
    BY <1>0, <2>5, <2>6, <2>7, <2>8 DEF s
<1>3. QED
  BY <1>1, <1>2

\* A directory is opened.
LEMMA DirAdded ==
  ASSUME NEW D, NEW dirs, DirBook(D, dirs), NEW h \in HostFd, NEW on
  PROVE  LET owner == [kind |-> "dir", at |-> Len(D) + 1, fd |-> h, on |-> on]
         IN  /\ DirBook(Append(D, h), Append(dirs, on))
             /\ DirsOwned(Append(D, h), Append(dirs, on)) = DirsOwned(D, dirs) \cup {owner}
<1> DEFINE E == Append(D, h)
           new == Append(dirs, on)
           owner == [kind |-> "dir", at |-> Len(D) + 1, fd |-> h, on |-> on]
           S == {dirs[i] : i \in 1 .. Len(dirs)} \cup {on}
<1>0. -1 \notin HostFd /\ h # -1
  BY OldVfsAssumption DEF HostFd
<1>1. D \in Seq(HostFd \cup {-1}) /\ Len(D) \in Nat /\ Len(dirs) = Len(D)
  BY DEF DirBook
<1>2. dirs \in Seq(S)
  <2>1. dirs = [i \in 1 .. Len(dirs) |-> dirs[i]]
    BY DEF DirBook, IsSeq
  <2>2. [i \in 1 .. Len(dirs) |-> dirs[i]] \in Seq(S)
    BY <1>1
  <2>3. QED
    BY <2>1, <2>2
<1> HIDE DEF S
<1>3. /\ E \in Seq(HostFd \cup {-1}) /\ Len(E) = Len(D) + 1
      /\ \A i \in 1 .. Len(E) : E[i] = IF i = Len(D) + 1 THEN h ELSE D[i]
  BY <1>1
<1>4. /\ new \in Seq(S \cup {on}) /\ Len(new) = Len(D) + 1
      /\ \A i \in 1 .. Len(new) : new[i] = IF i = Len(D) + 1 THEN on ELSE dirs[i]
  BY <1>1, <1>2
<1> HIDE DEF E, new
<1>5. IsSeq(new)
  BY <1>1, <1>4 DEF IsSeq
<1>6. DirBook(E, new)
  <2>1. \A i \in 1 .. Len(E) : E[i] = -1 => new[i] = Closed
    <3>1. ASSUME NEW i \in 1 .. Len(E), E[i] = -1
          PROVE  new[i] = Closed
      <4>1. i \in 1 .. Len(D) /\ i # Len(D) + 1 /\ D[i] = -1
        BY <1>0, <1>1, <1>3, <3>1
      <4>2. QED
        BY <1>3, <1>4, <4>1 DEF DirBook
    <3>2. QED
      BY <3>1
  <2>2. QED
    BY <1>3, <1>4, <1>5, <2>1 DEF DirBook
<1>7. UsedIn(E) = UsedIn(D) \cup {Len(D) + 1}
  BY <1>0, <1>1, <1>3 DEF UsedIn
<1>8. DirOwner(E, new, Len(D) + 1) = owner
  <2>1. Len(D) + 1 \in 1 .. Len(E)
    BY <1>1, <1>3
  <2>2. E[Len(D) + 1] = h /\ new[Len(D) + 1] = on
    BY <1>3, <1>4, <2>1
  <2>3. QED
    BY <2>2 DEF DirOwner
<1>9. \A i \in UsedIn(D) : DirOwner(E, new, i) = DirOwner(D, dirs, i)
  <2>1. ASSUME NEW i \in UsedIn(D)
        PROVE  E[i] = D[i] /\ new[i] = dirs[i]
    <3>1. i \in 1 .. Len(E) /\ i # Len(D) + 1 /\ Len(new) = Len(E)
      BY <1>1, <1>3, <1>4 DEF UsedIn
    <3>2. QED
      BY <1>3, <1>4, <3>1
  <2>2. QED
    BY <2>1 DEF DirOwner
<1>10. DirsOwned(E, new) = DirsOwned(D, dirs) \cup {owner}
  <2>1. DirsOwned(E, new) = {DirOwner(E, new, i) : i \in UsedIn(D)} \cup {DirOwner(E, new, Len(D) + 1)}
    BY <1>7 DEF DirsOwned
  <2>2. {DirOwner(E, new, i) : i \in UsedIn(D)} = {DirOwner(D, dirs, i) : i \in UsedIn(D)}
    BY <1>9
  <2>3. QED
    BY <1>8, <2>1, <2>2 DEF DirsOwned
<1>11. QED
  BY <1>6, <1>10 DEF E, new

\* A directory is closed.
LEMMA DirTaken ==
  ASSUME NEW D, NEW dirs, DirBook(D, dirs), NEW i \in UsedIn(D)
  PROVE  LET E == [D EXCEPT ![i] = -1]
             new == [dirs EXCEPT ![i] = Closed]
         IN  /\ DirBook(E, new)
             /\ DirsOwned(E, new) = DirsOwned(D, dirs) \ {DirOwner(D, dirs, i)}
<1> DEFINE E == [D EXCEPT ![i] = -1]
           new == [dirs EXCEPT ![i] = Closed]
<1>1. /\ D \in Seq(HostFd \cup {-1}) /\ Len(D) \in Nat /\ Len(dirs) = Len(D)
      /\ i \in 1 .. Len(D)
  BY DEF DirBook, UsedIn
<1>2. /\ E \in Seq(HostFd \cup {-1}) /\ Len(E) = Len(D)
      /\ \A j \in 1 .. Len(D) : E[j] = IF j = i THEN -1 ELSE D[j]
  BY <1>1
<1>3. /\ new = [j \in 1 .. Len(D) |-> new[j]] /\ Len(new) = Len(D)
      /\ \A j \in 1 .. Len(D) : new[j] = IF j = i THEN Closed ELSE dirs[j]
  <2> DEFINE S == {dirs[j] : j \in 1 .. Len(dirs)} \cup {Closed}
  <2>1. dirs = [j \in 1 .. Len(dirs) |-> dirs[j]]
    BY DEF DirBook, IsSeq
  <2>2. [j \in 1 .. Len(dirs) |-> dirs[j]] \in Seq(S)
    BY <1>1
  <2>3. dirs \in Seq(S) /\ Closed \in S
    BY <2>1, <2>2
  <2> HIDE DEF S
  <2>4. new \in Seq(S) /\ Len(new) = Len(D)
    BY <1>1, <2>3
  <2>5. \A j \in 1 .. Len(D) : new[j] = IF j = i THEN Closed ELSE dirs[j]
    BY <1>1, <2>3
  <2> HIDE DEF new
  <2>6. QED
    BY <1>1, <2>4, <2>5
<1> HIDE DEF E, new
<1>4. DirBook(E, new)
  BY <1>1, <1>2, <1>3 DEF DirBook, IsSeq
<1>5. UsedIn(E) = UsedIn(D) \ {i}
  BY <1>1, <1>2 DEF UsedIn
<1>6. \A j \in UsedIn(E) : DirOwner(E, new, j) = DirOwner(D, dirs, j)
  <2>1. ASSUME NEW j \in UsedIn(E)
        PROVE  E[j] = D[j] /\ new[j] = dirs[j]
    BY <1>2, <1>3, <1>5 DEF UsedIn
  <2>2. QED
    BY <2>1 DEF DirOwner
<1>7. \A j, k \in UsedIn(D) : DirOwner(D, dirs, j) = DirOwner(D, dirs, k) => j = k
  BY DEF DirOwner
<1>8. DirsOwned(E, new) = DirsOwned(D, dirs) \ {DirOwner(D, dirs, i)}
  <2>1. DirsOwned(E, new) = {DirOwner(D, dirs, j) : j \in UsedIn(E)}
    BY <1>6 DEF DirsOwned
  <2>2. {DirOwner(D, dirs, j) : j \in UsedIn(D) \ {i}} = {DirOwner(D, dirs, j) : j \in UsedIn(D)} \ {DirOwner(D, dirs, i)}
    BY <1>7
  <2>3. QED
    BY <1>5, <2>1, <2>2 DEF DirsOwned
<1>9. QED
  BY <1>4, <1>8 DEF E, new

LEMMA Terminals ==
  /\ \A i \in 1 .. 3 : Terminal[i] # Closed /\ i - 1 \in HostFd
  /\ \A open : HostBook(open) => \A h \in HostFd : open[h] = Closed => h \in Above
<1>1. Terminal[1] # Closed /\ Terminal[2] # Closed /\ Terminal[3] # Closed
  BY DEF Terminal, Closed, NoNode
<1>2. \A i \in 1 .. 3 : i = 1 \/ i = 2 \/ i = 3
  OBVIOUS
<1>3. 0 \in HostFd /\ 1 \in HostFd /\ 2 \in HostFd
  BY OldVfsAssumption DEF HostFd
<1>4. \A i \in 1 .. 3 : Terminal[i] # Closed /\ i - 1 \in HostFd
  BY <1>1, <1>2, <1>3
<1>5. ASSUME NEW open, HostBook(open), NEW h \in HostFd, open[h] = Closed
      PROVE  h \in Above
  <2>1. open[0] = Terminal[1] /\ open[1] = Terminal[2] /\ open[2] = Terminal[3]
    <3>1. \A i \in 1 .. 3 : open[i - 1] = Terminal[i]
      BY <1>5 DEF HostBook
    <3>2. 1 - 1 = 0 /\ 2 - 1 = 1 /\ 3 - 1 = 2
      OBVIOUS
    <3>3. QED
      BY <3>1, <3>2
  <2>2. h # 0 /\ h # 1 /\ h # 2
    BY <1>1, <1>5, <2>1
  <2>3. QED
    BY <2>2 DEF Above
<1>6. QED
  BY <1>4, <1>5

LEMMA HostChanged ==
  ASSUME NEW open, HostBook(open), NEW h \in Above, NEW on
  PROVE  HostBook([open EXCEPT ![h] = on])
<1> DEFINE new == [open EXCEPT ![h] = on]
<1>1. /\ \A g \in HostFd : new[g] = IF g = h THEN on ELSE open[g]
      /\ new = [g \in HostFd |-> new[g]]
  <2>1. open = [g \in HostFd |-> open[g]]
    BY DEF HostBook
  <2>2. QED
    BY <2>1
<1> HIDE DEF new
<1>2. \A i \in 1 .. 3 : i - 1 # h /\ i - 1 \in HostFd
  <2>1. \A i \in 1 .. 3 : i - 1 \in {0, 1, 2}
    OBVIOUS
  <2>2. QED
    BY <2>1, Terminals DEF Above
<1>3. QED
  BY <1>1, <1>2 DEF HostBook, new

\* An entry in use is open on what was meant.
LEMMA OpenEntry ==
  ASSUME NEW T, NEW fds, NEW D, NEW dirs, NEW L, NEW open, Books(T, fds, D, dirs, L, open),
         NEW fd \in 0 .. (MaxFds - 1), fd + 1 \in 1 .. Len(T), T[fd + 1] # NoEntry
  PROVE  /\ T[fd + 1].localFd \in HostFd /\ T[fd + 1].path \in AnyPath
         /\ open[T[fd + 1].localFd] = fds[fd + 1] /\ fds[fd + 1] # Closed
         /\ fd >= 3 => fd \in OpenIn(T) /\ T[fd + 1].localFd \in Above
         /\ fd < 3 => T[fd + 1].localFd = fd
<1>0. MaxFds \in Nat /\ T \in Seq(Entries) /\ T[fd + 1] \in Entries /\ fd \in Int
  BY OldVfsAssumption DEF Books, FdBook
<1>1. T[fd + 1].path \in AnyPath
  BY <1>0 DEF Entries
<1>2. CASE fd >= 3
  <2>1. fd \in OpenIn(T)
    BY <1>0, <1>2 DEF OpenIn, Fds
  <2>2. FdOwner(T, fds, fd) \in FdsOwned(T, fds) \cup DirsOwned(D, dirs)
    BY <2>1 DEF FdsOwned
  <2> DEFINE x == FdOwner(T, fds, fd)
  <2>3. x.fd = T[fd + 1].localFd /\ x.on = fds[fd + 1]
    BY DEF FdOwner
  <2> HIDE DEF x
  <2>4. x.fd \in Above /\ open[x.fd] = x.on /\ x.on # Closed
    BY <2>2 DEF Sole, Books, x
  <2>5. QED
    BY <1>0, <1>1, <1>2, <2>1, <2>3, <2>4 DEF Above
<1>3. CASE fd < 3
  <2>1. fd + 1 \in 1 .. 3 /\ (fd + 1) - 1 = fd
    BY <1>0, <1>3
  <2>2. T[fd + 1] = Stdio[fd + 1] /\ fds[fd + 1] = Terminal[fd + 1]
    BY <2>1 DEF Books, FdBook
  <2>3. T[fd + 1].localFd = fd
    BY <1>0, <2>1, <2>2 DEF Stdio, Entry
  <2>4. open[fd] = Terminal[fd + 1]
    BY <2>1 DEF Books, HostBook
  <2>5. QED
    BY <1>0, <1>1, <1>3, <2>1, <2>2, <2>3, <2>4, Terminals
<1>4. QED
  BY <1>0, <1>2, <1>3

LEMMA BooksFdAdded ==
  ASSUME NEW T, NEW fds, NEW D, NEW dirs, NEW L, NEW open, Books(T, fds, D, dirs, L, open),
         NEW U, NEW i, NEW e, Put(T, U, i, e), e # NoEntry, i - 1 \notin OpenIn(T),
         e.localFd \in HostFd, open[e.localFd] = Closed, NEW on, on # Closed
  PROVE  Books(U, With(fds, i, on), D, dirs, L, [open EXCEPT ![e.localFd] = on])
<1> DEFINE owner == NewFdOwner(i, e.localFd, on)
           new == With(fds, i, on)
<1>1. FdBook(U, new) /\ FdsOwned(U, new) = FdsOwned(T, fds) \cup {owner}
  <2>1. FdBook(T, fds)
    BY DEF Books
  <2>2. QED
    BY <2>1, FdAdded
<1>2. e.localFd \in Above
  BY Terminals DEF Books
<1>3. HostBook([open EXCEPT ![e.localFd] = on])
  BY <1>2, HostChanged DEF Books
<1>4. owner.fd = e.localFd /\ owner.on = on
  BY DEF NewFdOwner
<1> HIDE DEF owner, new
<1>5. Sole((FdsOwned(T, fds) \cup DirsOwned(D, dirs)) \cup {owner}, L, [open EXCEPT ![owner.fd] = owner.on])
  <2>1. DOMAIN open = HostFd
    BY DEF Books, HostBook
  <2>2. QED
    BY <1>2, <1>4, <2>1, Gained DEF Books
<1>6. (FdsOwned(T, fds) \cup DirsOwned(D, dirs)) \cup {owner} = FdsOwned(U, new) \cup DirsOwned(D, dirs)
  BY <1>1
<1>7. Sole(FdsOwned(U, new) \cup DirsOwned(D, dirs), L, [open EXCEPT ![e.localFd] = on])
  BY <1>4, <1>5, <1>6, Zenon
<1>8. DirBook(D, dirs)
  BY DEF Books
<1>9. QED
  BY <1>1, <1>3, <1>7, <1>8 DEF Books, new

LEMMA BooksFdTaken ==
  ASSUME NEW T, NEW fds, NEW D, NEW dirs, NEW L, NEW open, Books(T, fds, D, dirs, L, open),
         NEW fd \in OpenIn(T)
  PROVE  Books(Without(T, fd + 1), With(fds, fd + 1, Closed), D, dirs, L,
               [open EXCEPT ![T[fd + 1].localFd] = Closed])
<1> DEFINE owner == FdOwner(T, fds, fd)
           U == Without(T, fd + 1)
           new == With(fds, fd + 1, Closed)
           S == FdsOwned(T, fds) \cup DirsOwned(D, dirs)
<1>1. FdBook(U, new) /\ FdsOwned(U, new) = FdsOwned(T, fds) \ {owner}
  <2>1. FdBook(T, fds)
    BY DEF Books
  <2>2. QED
    BY <2>1, FdTaken
<1>2. owner.fd = T[fd + 1].localFd /\ owner.kind = "fd"
  BY DEF FdOwner
<1>3. owner \in S
  BY DEF FdsOwned
<1> HIDE DEF owner, U, new
<1>4. owner.fd \in Above
  BY <1>3 DEF Books, Sole
<1>5. HostBook([open EXCEPT ![owner.fd] = Closed])
  BY <1>4, HostChanged DEF Books
<1>6. Sole(S \ {owner}, L, [open EXCEPT ![owner.fd] = Closed])
  <2>1. DOMAIN open = HostFd
    BY DEF Books, HostBook
  <2>2. QED
    BY <1>3, <2>1, Lost DEF Books
<1>7. S \ {owner} = FdsOwned(U, new) \cup DirsOwned(D, dirs)
  <2>1. owner \notin DirsOwned(D, dirs)
    BY <1>2 DEF DirsOwned, DirOwner
  <2>2. QED
    BY <1>1, <2>1
<1>8. Sole(FdsOwned(U, new) \cup DirsOwned(D, dirs), L, [open EXCEPT ![owner.fd] = Closed])
  BY <1>6, <1>7, Zenon
<1>9. DirBook(D, dirs)
  BY DEF Books
<1>10. Books(U, new, D, dirs, L, [open EXCEPT ![owner.fd] = Closed])
  BY <1>1, <1>5, <1>8, <1>9 DEF Books
<1>11. QED
  BY <1>2, <1>10 DEF U, new

LEMMA BooksDirAdded ==
  ASSUME NEW T, NEW fds, NEW D, NEW dirs, NEW L, NEW open, Books(T, fds, D, dirs, L, open),
         NEW h \in HostFd, open[h] = Closed, NEW on, on # Closed
  PROVE  Books(T, fds, Append(D, h), Append(dirs, on), L, [open EXCEPT ![h] = on])
<1> DEFINE owner == [kind |-> "dir", at |-> Len(D) + 1, fd |-> h, on |-> on]
           E == Append(D, h)
           new == Append(dirs, on)
<1>1. DirBook(E, new) /\ DirsOwned(E, new) = DirsOwned(D, dirs) \cup {owner}
  <2>1. DirBook(D, dirs)
    BY DEF Books
  <2>2. QED
    BY <2>1, DirAdded
<1>2. h \in Above
  BY Terminals DEF Books
<1>3. HostBook([open EXCEPT ![h] = on])
  BY <1>2, HostChanged DEF Books
<1>4. owner.fd = h /\ owner.on = on
  OBVIOUS
<1> HIDE DEF owner, E, new
<1>5. Sole((FdsOwned(T, fds) \cup DirsOwned(D, dirs)) \cup {owner}, L, [open EXCEPT ![owner.fd] = owner.on])
  <2>1. DOMAIN open = HostFd
    BY DEF Books, HostBook
  <2>2. QED
    BY <1>2, <1>4, <2>1, Gained DEF Books
<1>6. (FdsOwned(T, fds) \cup DirsOwned(D, dirs)) \cup {owner} = FdsOwned(T, fds) \cup DirsOwned(E, new)
  BY <1>1
<1>7. Sole(FdsOwned(T, fds) \cup DirsOwned(E, new), L, [open EXCEPT ![h] = on])
  BY <1>4, <1>5, <1>6, Zenon
<1>8. FdBook(T, fds)
  BY DEF Books
<1>9. QED
  BY <1>1, <1>3, <1>7, <1>8 DEF Books, E, new

LEMMA BooksDirTaken ==
  ASSUME NEW T, NEW fds, NEW D, NEW dirs, NEW L, NEW open, Books(T, fds, D, dirs, L, open),
         NEW i \in UsedIn(D)
  PROVE  Books(T, fds, [D EXCEPT ![i] = -1], [dirs EXCEPT ![i] = Closed], L,
               [open EXCEPT ![D[i]] = Closed])
<1> DEFINE owner == DirOwner(D, dirs, i)
           E == [D EXCEPT ![i] = -1]
           new == [dirs EXCEPT ![i] = Closed]
           S == FdsOwned(T, fds) \cup DirsOwned(D, dirs)
<1>1. DirBook(E, new) /\ DirsOwned(E, new) = DirsOwned(D, dirs) \ {owner}
  <2>1. DirBook(D, dirs)
    BY DEF Books
  <2>2. QED
    BY <2>1, DirTaken
<1>2. owner.fd = D[i] /\ owner.kind = "dir"
  BY DEF DirOwner
<1>3. owner \in S
  BY DEF DirsOwned
<1> HIDE DEF owner, E, new
<1>4. owner.fd \in Above
  BY <1>3 DEF Books, Sole
<1>5. HostBook([open EXCEPT ![owner.fd] = Closed])
  BY <1>4, HostChanged DEF Books
<1>6. Sole(S \ {owner}, L, [open EXCEPT ![owner.fd] = Closed])
  <2>1. DOMAIN open = HostFd
    BY DEF Books, HostBook
  <2>2. QED
    BY <1>3, <2>1, Lost DEF Books
<1>7. S \ {owner} = FdsOwned(T, fds) \cup DirsOwned(E, new)
  <2>1. owner \notin FdsOwned(T, fds)
    BY <1>2 DEF FdsOwned, FdOwner
  <2>2. QED
    BY <1>1, <2>1
<1>8. Sole(FdsOwned(T, fds) \cup DirsOwned(E, new), L, [open EXCEPT ![owner.fd] = Closed])
  BY <1>6, <1>7, Zenon
<1>9. FdBook(T, fds)
  BY DEF Books
<1>10. Books(T, fds, E, new, L, [open EXCEPT ![owner.fd] = Closed])
  BY <1>1, <1>5, <1>8, <1>9 DEF Books
<1>11. QED
  BY <1>2, <1>10 DEF E, new

\* A program that starts has no books of its own.
LEMMA BooksOfNew ==
  ASSUME NEW L, NEW open, HostBook(open), Sole({}, L, open)
  PROVE  Books(Stdio, InitFds, <<>>, <<>>, L, open)
<1>0. MaxFds \in Nat /\ MaxFds >= 3
  BY OldVfsAssumption
<1>1. Stdio \in Seq(Entries) /\ Len(Stdio) = 3
  <2>1. \A i \in 1 .. 3 : Entry(i - 1, NoPath) \in Entries
    BY Terminals, TypesOfEntries
  <2>2. QED
    BY <2>1 DEF Stdio
<1>2. OpenIn(Stdio) = {}
  BY <1>0, <1>1 DEF OpenIn, Fds
<1>3. FdBook(Stdio, InitFds)
  <2>1. \A i \in 1 .. MaxFds : InitFds[i] = IF i <= 3 THEN Terminal[i] ELSE Closed
    BY DEF InitFds
  <2>2. InitFds = [i \in 1 .. MaxFds |-> InitFds[i]]
    BY DEF InitFds
  <2>3. \A i \in 1 .. 3 : InitFds[i] = Terminal[i]
    <3>1. \A i \in 1 .. 3 : i \in 1 .. MaxFds /\ i <= 3
      BY <1>0
    <3>2. QED
      BY <2>1, <3>1
  <2>4. \A fd \in Fds : InitFds[fd + 1] = Closed
    <3>1. \A fd \in Fds : fd + 1 \in 1 .. MaxFds /\ ~ (fd + 1 <= 3)
      BY <1>0 DEF Fds
    <3>2. QED
      BY <2>1, <3>1
  <2>5. QED
    <3>1. \A i \in 1 .. 3 : Stdio[i] = Stdio[i] /\ InitFds[i] = Terminal[i]
      BY <2>3
    <3>2. Len(Stdio) \in 3 .. MaxFds
      BY <1>0, <1>1
    <3>3. QED
      BY <1>1, <2>2, <2>4, <3>1, <3>2, Zenon DEF FdBook
<1>4. DirBook(<<>>, <<>>)
  BY DEF DirBook, IsSeq
<1>5. FdsOwned(Stdio, InitFds) \cup DirsOwned(<<>>, <<>>) = {}
  BY <1>2 DEF FdsOwned, DirsOwned, UsedIn
<1>6. QED
  BY <1>3, <1>4, <1>5 DEF Books

-----------------------------------------------------------------------------
(* The invariant *)

NormalName(path) == path.abs => Normal(path.names) = path.names
Calls(path, name) == NormalName(path) /\ (path.abs => path.names = name)
PathsIn(T, names) == \A i \in 1 .. Len(T) : Calls(T[i].path, names[i])

TreeSound ==
  /\ tree = [dirs |-> tree.dirs, files |-> tree.files]
  /\ NoNode \notin tree.dirs \cup tree.files

\* A name for each descriptor.
NameTable(names) == names = [j \in 1 .. MaxFds |-> names[j]]

\* _cwd is what the guest takes for its directory, without dots, and a stored
\* path from the root is what the guest called what it opened.
PathsKept ==
  /\ place \in Names /\ Normal(place) = place /\ cwd = Path(TRUE, place)
  /\ NameTable(called)
  /\ PathsIn(fdTable, called)

BooksKept ==
  /\ meant = [fds |-> meant.fds, dirs |-> meant.dirs]
  /\ Books(fdTable, meant.fds, dirHandles, meant.dirs, left, host)

IInv == TreeSound /\ PathsKept /\ BooksKept /\ ActsOnMeant

LEMMA GivenPaths ==
  ASSUME Regular
  PROVE  \A path \in Given : path \in AnyPath /\ NormalName(path)
<1>1. ASSUME NEW path \in Given
      PROVE  path \in AnyPath
  BY OldVfsAssumption DEF Path, AnyPath
<1>2. QED
  BY <1>1 DEF Regular, NormalName

\* makeAbsolute gives what the guest means, in the guest's own names.
LEMMA SameName ==
  ASSUME PathsKept, NEW path \in AnyPath, NormalName(path)
  PROVE  /\ MakeAbsolute(path) = Path(TRUE, MeantNames(path))
         /\ MeantNames(path) \in Names /\ Normal(MeantNames(path)) = MeantNames(path)
<1>1. path = Path(path.abs, path.names) /\ path.abs \in BOOLEAN /\ path.names \in Names
  BY DEF AnyPath, Path
<1>2. place \in Names /\ Normal(place) = place /\ cwd = Path(TRUE, place)
  BY DEF PathsKept
<1>3. CASE path.abs
  <2>1. <<>> \o path.names = path.names
    BY <1>1 DEF Names
  <2>2. MeantNames(path) = path.names
    BY <1>3, <2>1 DEF MeantNames, NormalName
  <2>3. MakeAbsolute(path) = Path(TRUE, path.names)
    BY <1>1, <1>3 DEF MakeAbsolute
  <2>4. QED
    BY <1>1, <1>3, <2>2, <2>3 DEF NormalName
<1>4. CASE ~path.abs /\ path.names = <<>>
  <2>1. place \o path.names = place
    BY <1>2, <1>4 DEF Names
  <2>2. MeantNames(path) = place
    BY <1>2, <1>4, <2>1 DEF MeantNames
  <2>3. QED
    BY <1>2, <1>4, <2>2 DEF MakeAbsolute
<1>5. CASE ~path.abs /\ path.names # <<>>
  <2>1. place \o path.names \in Names
    BY <1>1, <1>2 DEF Names
  <2>2. MeantNames(path) = Normal(place \o path.names)
    BY <1>5 DEF MeantNames
  <2>3. cwd.names = place
    BY <1>2 DEF Path
  <2>4. MakeAbsolute(path) = Path(TRUE, Normal(place \o path.names))
    BY <1>5, <2>3 DEF MakeAbsolute
  <2>5. QED
    BY <2>1, <2>2, <2>4, NormalTwice
<1>6. QED
  BY <1>1, <1>3, <1>4, <1>5

\* The host acts on the node that was meant.
LEMMA Reached ==
  ASSUME PathsKept, NEW path \in AnyPath, NormalName(path)
  PROVE  /\ Found(path) = {Meant(path)} /\ Found(MakeAbsolute(path)) = {Meant(path)}
         /\ \A r \in Resolve(path) : HostNode(r.fs, r.path) = Meant(path)
         /\ \A r \in Resolve(MakeAbsolute(path)) : HostNode(r.fs, r.path) = Meant(path)
<1> DEFINE q == Path(TRUE, MeantNames(path))
<1>1. MakeAbsolute(path) = q /\ MeantNames(path) \in Names
  BY SameName
<1>2. MakeAbsolute(q) = q
  BY DEF MakeAbsolute, Path
<1> HIDE DEF q
<1>3. Resolve(path) = Resolve(q)
  BY <1>1, <1>2 DEF Resolve
<1>4. PICK r : Resolve(q) = {r} /\ HostNode(r.fs, r.path) = Meant(path)
  BY <1>1, NormalPath DEF q, Meant
<1>5. QED
  BY <1>1, <1>3, <1>4 DEF Found

\* What is open on the host is not what is not there.
LEMMA TreeChanged ==
  ASSUME TreeSound, NEW node
  PROVE  /\ OpenNode(node) => TreeSound' /\ node # Closed
         /\ IsDir(node) => node # Closed
         /\ MakeDir(node) \/ MakeFile(node) \/ RemoveDir(node) \/ RemoveFile(node) => TreeSound'
         /\ \A new : LinkFile(node, new) \/ Move(node, new) => TreeSound'
<1>1. MakeFile(node) => TreeSound' /\ node # Closed
  BY DEF TreeSound, MakeFile, Free, Within, Closed
<1>2. OpenNode(node) => TreeSound' /\ node # Closed
  BY <1>1 DEF TreeSound, OpenNode, Exists, Closed
<1>3. IsDir(node) => node # Closed
  BY DEF TreeSound, IsDir, Closed
<1>4. MakeDir(node) => TreeSound'
  BY DEF TreeSound, MakeDir, Free, Within
<1>5. RemoveDir(node) \/ RemoveFile(node) => TreeSound'
  BY DEF TreeSound, RemoveDir, RemoveFile
<1>6. \A new : LinkFile(node, new) => TreeSound'
  BY DEF TreeSound, LinkFile, MakeFile, Free, Within
<1>7. ASSUME NEW new, Move(node, new)
      PROVE  TreeSound'
  <2>1. PICK D, F : D = tree.dirs /\ F = tree.files
    OBVIOUS
  <2>2. NoNode \notin D \cup F
    BY <2>1 DEF TreeSound
  <2>3. /\ \A n \in D \cup F : Under(node, n) => Within(Moved(node, new, n))
        /\ tree' = [dirs |-> {Moved(node, new, n) : n \in D \ {new}},
                    files |-> {Moved(node, new, n) : n \in F \ {new}}]
    BY <1>7, <2>1, Zenon DEF Move
  <2>4. \A n : ~Under(node, n) => Moved(node, new, n) = n
    BY DEF Moved
  <2>5. \A n : Within(n) => n # NoNode
    BY DEF Within
  <2>6. \A n \in D \cup F : Moved(node, new, n) # NoNode
    BY <2>2, <2>3, <2>4, <2>5, Zenon
  <2>7. /\ tree'.dirs = {Moved(node, new, n) : n \in D \ {new}}
        /\ tree'.files = {Moved(node, new, n) : n \in F \ {new}}
        /\ tree' = [dirs |-> tree'.dirs, files |-> tree'.files]
    BY <2>3
  <2>8. QED
    BY <2>6, <2>7 DEF TreeSound
<1>8. QED
  BY <1>1, <1>2, <1>3, <1>4, <1>5, <1>6, <1>7

\* An entry is put in the table, and what it is called.
LEMMA PathsPut ==
  ASSUME NEW T, NEW names, PathsIn(T, names), NEW U, NEW i, NEW e, Put(T, U, i, e),
         NameTable(names), NEW name, Calls(e.path, name)
  PROVE  PathsIn(U, With(names, i, name)) /\ NameTable(With(names, i, name))
<1> DEFINE new == With(names, i, name)
<1>1. /\ new = [j \in 1 .. MaxFds |-> new[j]]
      /\ \A j \in 1 .. MaxFds : new[j] = IF j = i THEN name ELSE names[j]
  BY DEF With, NameTable
<1>2. /\ U[i] = e /\ Len(U) \in 3 .. MaxFds /\ MaxFds \in Nat
      /\ \A j \in 1 .. Len(U) : j # i => j \in 1 .. Len(T) /\ U[j] = T[j]
  BY OldVfsAssumption DEF Put
<1> HIDE DEF new
<1>3. ASSUME NEW j \in 1 .. Len(U)
      PROVE  Calls(U[j].path, new[j])
  <2>1. j \in 1 .. MaxFds
    BY <1>2
  <2>2. CASE j = i
    BY <1>1, <1>2, <2>1, <2>2
  <2>3. CASE j # i
    <3>1. j \in 1 .. Len(T) /\ U[j] = T[j] /\ new[j] = names[j]
      BY <1>1, <1>2, <2>1, <2>3
    <3>2. QED
      BY <3>1 DEF PathsIn
  <2>4. QED
    BY <2>2, <2>3
<1>4. QED
  BY <1>1, <1>3 DEF PathsIn, NameTable, new

\* An entry without a path from the root is put in the table.
LEMMA PathsPutPlain ==
  ASSUME NEW T, NEW names, PathsIn(T, names), NEW U, NEW i, NEW e, Put(T, U, i, e), ~e.path.abs
  PROVE  PathsIn(U, names)
BY DEF PathsIn, Put, Calls, NormalName

LEMMA InitHolds == Init => IInv
<1> SUFFICES ASSUME Init PROVE IInv
  OBVIOUS
<1>1. TreeSound
  BY OldVfsAssumption DEF Init, TreeSound
<1>2. PathsKept
  <2>1. Root \in Names /\ Root \in Seq(Plain)
    BY DEF Root, Names
  <2>2. Normal(Root) = Root
    BY <2>1, NormalOfPlain
  <2>3. PathsIn(Stdio, NoNames)
    BY DEF PathsIn, Calls, NormalName, Stdio, Entry, NoPath, Path
  <2>4. NameTable(NoNames)
    BY DEF NameTable, NoNames
  <2>5. QED
    BY <2>1, <2>2, <2>3, <2>4 DEF Init, PathsKept
<1>3. HostBook(host)
  <2>1. \A h \in HostFd : host[h] = IF h < 3 THEN Terminal[h + 1] ELSE Closed
    BY DEF Init
  <2>2. \A i \in 1 .. 3 : i - 1 \in HostFd /\ i - 1 < 3 /\ (i - 1) + 1 = i
    BY Terminals
  <2>3. host = [h \in HostFd |-> host[h]]
    BY DEF Init
  <2>4. QED
    BY <2>1, <2>2, <2>3 DEF HostBook
<1>4. Sole({}, {}, host)
  <2>1. ASSUME NEW h \in Above
        PROVE  host[h] = Closed
    <3>1. h \in HostFd /\ ~ (h < 3)
      BY OldVfsAssumption DEF Above, HostFd
    <3>2. QED
      BY <3>1 DEF Init
  <2>2. QED
    BY <2>1 DEF Sole
<1>5. BooksKept
  <2>1. Books(Stdio, InitFds, <<>>, <<>>, {}, host)
    BY <1>3, <1>4, BooksOfNew
  <2>2. QED
    BY <2>1 DEF Init, BooksKept
<1>6. QED
  BY <1>1, <1>2, <1>5 DEF IInv, Init, ActsOnMeant

-----------------------------------------------------------------------------
(* The steps *)

\* A call that only looks.
LEMMA NothingChanged ==
  ASSUME IInv, UNCHANGED <<cwd, fdTable, dirHandles, host, place, meant, called, left>>
  PROVE  PathsKept' /\ BooksKept'
<1>1. PathsKept'
  BY DEF IInv, PathsKept
<1>2. BooksKept'
  BY DEF IInv, BooksKept
<1>3. QED
  BY <1>1, <1>2

LEMMA SameTree == ASSUME IInv, UNCHANGED tree PROVE TreeSound'
BY DEF IInv, TreeSound

LEMMA BookOfMeant ==
  ASSUME BooksKept, NEW i, NEW on
  PROVE  /\ [meant EXCEPT !.fds[i] = on] = [fds |-> With(meant.fds, i, on), dirs |-> meant.dirs]
         /\ [meant EXCEPT !.dirs = Append(@, on)] = [fds |-> meant.fds, dirs |-> Append(meant.dirs, on)]
         /\ [meant EXCEPT !.dirs[i] = on] = [fds |-> meant.fds, dirs |-> [meant.dirs EXCEPT ![i] = on]]
<1>1. meant = [fds |-> meant.fds, dirs |-> meant.dirs]
  BY DEF BooksKept
<1> DEFINE F == meant.fds
           D == meant.dirs
<1> HIDE DEF F, D
<1>2. meant = [fds |-> F, dirs |-> D]
  BY <1>1 DEF F, D
<1>3. [meant EXCEPT !.fds[i] = on] = [fds |-> [F EXCEPT ![i] = on], dirs |-> D]
  BY <1>2
<1>4. [meant EXCEPT !.dirs = Append(@, on)] = [fds |-> F, dirs |-> Append(D, on)]
  BY <1>2
<1>5. [meant EXCEPT !.dirs[i] = on] = [fds |-> F, dirs |-> [D EXCEPT ![i] = on]]
  BY <1>2
<1>6. QED
  BY <1>3, <1>4, <1>5 DEF F, D, With

\* What the program has open is what was meant.
LEMMA OpenFd ==
  ASSUME IInv, NEW fd \in 0 .. (MaxFds - 1), IsOpen(fd)
  PROVE  /\ LocalFd(fd) \in HostFd /\ fdTable[fd + 1].path \in AnyPath
         /\ Calls(fdTable[fd + 1].path, called[fd + 1])
         /\ host[LocalFd(fd)] = meant.fds[fd + 1] /\ meant.fds[fd + 1] # Closed
         /\ fd >= 3 => fd \in OpenIn(fdTable) /\ LocalFd(fd) \in Above
         /\ fd < 3 => LocalFd(fd) = fd
<1>1. fd + 1 \in 1 .. Len(fdTable) /\ fdTable[fd + 1] # NoEntry
  BY DEF IsOpen
<1>2. Books(fdTable, meant.fds, dirHandles, meant.dirs, left, host)
  BY DEF IInv, BooksKept
<1>3. Calls(fdTable[fd + 1].path, called[fd + 1])
  BY <1>1 DEF IInv, PathsKept, PathsIn
<1>4. QED
  BY <1>1, <1>2, <1>3, OpenEntry DEF LocalFd

LEMMA OpenHandle ==
  ASSUME IInv, NEW i \in Handles
  PROVE  /\ i \in UsedIn(dirHandles) /\ dirHandles[i] \in Above
         /\ host[dirHandles[i]] = meant.dirs[i] /\ meant.dirs[i] # Closed
<1>1. Books(fdTable, meant.fds, dirHandles, meant.dirs, left, host)
  BY DEF IInv, BooksKept
<1>2. i \in UsedIn(dirHandles)
  BY DEF Handles, UsedIn
<1> DEFINE x == DirOwner(dirHandles, meant.dirs, i)
<1>3. x \in FdsOwned(fdTable, meant.fds) \cup DirsOwned(dirHandles, meant.dirs)
  BY <1>2 DEF DirsOwned
<1>4. x.fd = dirHandles[i] /\ x.on = meant.dirs[i]
  BY DEF DirOwner
<1> HIDE DEF x
<1>5. x.fd \in Above /\ host[x.fd] = x.on /\ x.on # Closed
  BY <1>1, <1>3 DEF Books, Sole
<1>6. QED
  BY <1>2, <1>4, <1>5

\* A call by path, or by two.
LEMMA Looked ==
  ASSUME Regular, IInv, UNCHANGED <<cwd, fdTable, dirHandles, host, place, meant, called, left>>, TreeSound',
         NEW path \in Given, NEW r \in Resolve(path), Acts({<<HostNode(r.fs, r.path), Meant(path)>>})
  PROVE  IInv'
<1>1. HostNode(r.fs, r.path) = Meant(path)
  BY GivenPaths, Reached DEF IInv
<1>2. ActsOnMeant'
  BY <1>1 DEF Acts, ActsOnMeant
<1>3. QED
  BY <1>2, NothingChanged DEF IInv

LEMMA LookedTwice ==
  ASSUME Regular, IInv, TreeSound',
         NEW old \in Given, NEW new \in Given, NEW r1 \in Resolve(old), NEW r2 \in Resolve(new),
         Changes({On(r1, old), On(r2, new)})
  PROVE  IInv'
<1>1. HostNode(r1.fs, r1.path) = Meant(old) /\ HostNode(r2.fs, r2.path) = Meant(new)
  BY GivenPaths, Reached DEF IInv
<1>2. ActsOnMeant'
  BY <1>1 DEF Changes, OnlyTree, On, Acts, ActsOnMeant
<1>3. QED
  BY <1>2, NothingChanged DEF Changes, OnlyTree, IInv

\* A call by descriptor.
LEMMA FdUsed ==
  ASSUME IInv, UNCHANGED <<tree, cwd, fdTable, dirHandles, host, place, meant, called, left>>,
         NEW fd \in 0 .. (MaxFds - 1), IsOpen(fd), Acts({OnFd(host[LocalFd(fd)], fd)})
  PROVE  IInv'
<1>1. host[LocalFd(fd)] = meant.fds[fd + 1]
  BY OpenFd
<1>2. ActsOnMeant'
  BY <1>1 DEF Acts, OnFd, ActsOnMeant
<1>3. QED
  BY <1>2, NothingChanged, SameTree DEF IInv

LEMMA LookStep ==
  ASSUME Regular, IInv
  PROVE  /\ Stat => IInv'
         /\ Access => IInv'
         /\ Chmod => IInv'
         /\ Chown => IInv'
         /\ Readlink => IInv'
<1>1. Stat => IInv'
  BY Looked, SameTree DEF Stat, Look, fsStat
<1>2. Access => IInv'
  BY Looked, SameTree DEF Access, Look, fsAccess
<1>3. Chmod => IInv'
  BY Looked, SameTree DEF Chmod, Look, fsChmod
<1>4. Chown => IInv'
  BY Looked, SameTree DEF Chown, Look, fsChown
<1>5. Readlink => IInv'
  BY Looked, SameTree DEF Readlink, Look, fsReadlink
<1>6. QED
  BY <1>1, <1>2, <1>3, <1>4, <1>5

LEMMA UseFdStep ==
  ASSUME IInv
  PROVE  /\ ReadWrite => IInv'
         /\ Fcntl => IInv'
         /\ Fstat => IInv'
         /\ Fchmod => IInv'
         /\ Fchown => IInv'
         /\ Getdents => IInv'
         /\ Ioctl => IInv'
<1>1. ReadWrite => IInv'
  BY FdUsed DEF ReadWrite, UseFd, fsRead
<1>2. Fcntl => IInv'
  BY FdUsed DEF Fcntl, UseFd, fsFcntl
<1>3. Fstat => IInv'
  BY FdUsed DEF Fstat, UseFd, fsFstat
<1>4. Fchmod => IInv'
  BY FdUsed DEF Fchmod, UseFd, fsFchmod
<1>5. Fchown => IInv'
  BY FdUsed DEF Fchown, UseFd, fsFchown
<1>6. Getdents => IInv'
  BY FdUsed DEF Getdents, UseFd, fsGetdents
<1>7. Ioctl => IInv'
  BY FdUsed DEF Ioctl, UseFd, fsIoctl
<1>8. QED
  BY <1>1, <1>2, <1>3, <1>4, <1>5, <1>6, <1>7

LEMMA TreeStep ==
  ASSUME Regular, IInv
  PROVE  /\ Mkdir => IInv'
         /\ Rmdir => IInv'
         /\ Unlink => IInv'
         /\ Symlink => IInv'
         /\ Link => IInv'
         /\ Rename => IInv'
<1>0. TreeSound
  BY DEF IInv
<1>1. Mkdir => IInv'
  BY <1>0, Looked, TreeChanged DEF Mkdir, fsMkdir, Changes, OnlyTree, On
<1>2. Rmdir => IInv'
  BY <1>0, Looked, TreeChanged DEF Rmdir, fsRmdir, Changes, OnlyTree, On
<1>3. Unlink => IInv'
  BY <1>0, Looked, TreeChanged DEF Unlink, fsUnlink, Changes, OnlyTree, On
<1>4. Symlink => IInv'
  BY <1>0, Looked, TreeChanged DEF Symlink, fsSymlink, Changes, OnlyTree, On
<1>5. Link => IInv'
  BY <1>0, LookedTwice, TreeChanged DEF Link, fsLink, Changes
<1>6. Rename => IInv'
  BY <1>0, LookedTwice, TreeChanged DEF Rename, fsRename, Changes
<1>7. QED
  BY <1>1, <1>2, <1>3, <1>4, <1>5, <1>6

\* The books after the steps that change them.
LEMMA BooksAfter ==
  ASSUME BooksKept, NEW F, NEW G, meant' = [fds |-> F, dirs |-> G],
         Books(fdTable', F, dirHandles', G, left', host')
  PROVE  BooksKept'
<1>1. meant'.fds = F /\ meant'.dirs = G
  OBVIOUS
<1>2. meant' = [fds |-> meant'.fds, dirs |-> meant'.dirs]
  BY <1>1
<1>3. Books(fdTable', meant'.fds, dirHandles', meant'.dirs, left', host')
  BY <1>1
<1>4. QED
  BY <1>2, <1>3 DEF BooksKept

\* An entry that is new in the table.
LEMMA FdOpened ==
  ASSUME IInv, NEW h \in HostFd, host[h] = Closed, NEW on, on # Closed,
         NEW path \in AnyPath, NEW name, Calls(path, name), Fits(fdTable),
         fdTable' = Alloc(fdTable, Entry(h, path)),
         meant' = [meant EXCEPT !.fds[Slot(fdTable)] = on],
         called' = [called EXCEPT ![Slot(fdTable)] = name],
         host' = [host EXCEPT ![h] = on], UNCHANGED <<cwd, dirHandles, place, left>>
  PROVE  PathsKept' /\ BooksKept'
<1> DEFINE i == Slot(fdTable)
           e == Entry(h, path)
           F == meant.fds
           G == meant.dirs
<1>1. Books(fdTable, F, dirHandles, G, left, host)
  BY DEF IInv, BooksKept
<1>2. FdBook(fdTable, F)
  BY <1>1 DEF Books
<1>3. e \in Entries /\ e # NoEntry
  BY TypesOfEntries
<1>4. e.localFd = h /\ e.path = path
  BY DEF Entry
<1> HIDE DEF e, F, G
<1>5. Put(fdTable, fdTable', i, e) /\ i - 1 \notin OpenIn(fdTable)
  BY <1>2, <1>3, AllocFacts DEF e
<1> HIDE DEF i
<1>6. Books(fdTable', With(F, i, on), dirHandles, G, left, [host EXCEPT ![e.localFd] = on])
  BY <1>1, <1>3, <1>4, <1>5, BooksFdAdded
<1>7. meant' = [fds |-> With(F, i, on), dirs |-> G]
  BY BookOfMeant DEF IInv, i, F, G
<1>8. BooksKept'
  <2>1. Books(fdTable', With(F, i, on), dirHandles', G, left', host')
    BY <1>4, <1>6
  <2>2. QED
    BY <1>7, <2>1, BooksAfter DEF IInv
<1>9. PathsIn(fdTable', called') /\ NameTable(called')
  <2>1. PICK T, U, N : T = fdTable /\ U = fdTable' /\ N = called
    OBVIOUS
  <2>2. called' = With(N, i, name)
    BY <2>1 DEF With, i
  <2>3. PathsIn(T, N) /\ NameTable(N) /\ Calls(e.path, name) /\ Put(T, U, i, e)
    BY <1>4, <1>5, <2>1 DEF IInv, PathsKept
  <2>4. PathsIn(U, With(N, i, name)) /\ NameTable(With(N, i, name))
    BY <2>3, PathsPut, Zenon
  <2>5. QED
    BY <2>1, <2>2, <2>4
<1>10. PathsKept'
  BY <1>9 DEF IInv, PathsKept
<1>11. QED
  BY <1>8, <1>10

LEMMA NoPathIsNormal == NoPath \in AnyPath /\ ~NoPath.abs /\ \A name : Calls(NoPath, name)
BY DEF NoPath, Path, AnyPath, Names, NormalName, Calls

\* What a path from the root names is called by that path.
LEMMA CallsIt ==
  ASSUME NEW path \in AnyPath, NormalName(path)
  PROVE  Calls(path, MeantNames(path))
<1>1. path.names \in Names
  BY DEF AnyPath
<1>2. <<>> \o path.names = path.names
  BY <1>1 DEF Names
<1>3. QED
  BY <1>2 DEF Calls, NormalName, MeantNames

LEMMA OpenStep == ASSUME Regular, IInv, Open PROVE IInv'
<1>1. UNCHANGED <<cwd, dirHandles, place, left>>
  BY DEF Open
<1>2. PICK path \in Given, h \in HostFd : \E r \in Resolve(path) :
        /\ fsOpen(r.fs, r.path, h) /\ Fits(fdTable)
        /\ fdTable' = Alloc(fdTable, Entry(h, path))
        /\ meant' = [meant EXCEPT !.fds[Slot(fdTable)] = Meant(path)]
        /\ called' = [called EXCEPT ![Slot(fdTable)] = MeantNames(path)]
        /\ Acts({<<host'[h], Meant(path)>>})
  BY DEF Open
<1>3. PICK r \in Resolve(path) :
        /\ fsOpen(r.fs, r.path, h) /\ Fits(fdTable)
        /\ fdTable' = Alloc(fdTable, Entry(h, path))
        /\ meant' = [meant EXCEPT !.fds[Slot(fdTable)] = Meant(path)]
        /\ called' = [called EXCEPT ![Slot(fdTable)] = MeantNames(path)]
        /\ Acts({<<host'[h], Meant(path)>>})
  BY <1>2
<1>4. path \in AnyPath /\ NormalName(path) /\ HostNode(r.fs, r.path) = Meant(path)
  BY GivenPaths, Reached DEF IInv
<1>5. OpenNode(Meant(path)) /\ Lowest(host, h) /\ host' = [host EXCEPT ![h] = Meant(path)]
  BY <1>3, <1>4 DEF fsOpen
<1>6. TreeSound' /\ Meant(path) # Closed
  BY <1>5, TreeChanged DEF IInv
<1>7. PathsKept' /\ BooksKept'
  <2>1. PICK on, name : on = Meant(path) /\ name = MeantNames(path)
    OBVIOUS
  <2>2. Calls(path, name)
    BY <1>4, <2>1, CallsIt
  <2>3. /\ fdTable' = Alloc(fdTable, Entry(h, path)) /\ Fits(fdTable)
        /\ meant' = [meant EXCEPT !.fds[Slot(fdTable)] = on]
        /\ called' = [called EXCEPT ![Slot(fdTable)] = name]
        /\ host' = [host EXCEPT ![h] = on] /\ on # Closed /\ host[h] = Closed
    BY <1>3, <1>5, <1>6, <2>1 DEF Lowest
  <2>4. QED
    BY <1>1, <1>4, <2>2, <2>3, FdOpened
<1>8. ActsOnMeant'
  <2>1. host'[h] = Meant(path)
    <3>1. DOMAIN host = HostFd
      BY DEF IInv, BooksKept, Books, HostBook
    <3>2. QED
      BY <1>5, <3>1
  <2>2. QED
    BY <1>3, <2>1 DEF Acts, ActsOnMeant
<1>9. QED
  BY <1>6, <1>7, <1>8 DEF IInv

\* An entry is taken out of the table.
Taken(T, U, i) ==
  Len(U) = Len(T) /\ \A j \in 1 .. Len(T) : U[j] = IF j = i THEN NoEntry ELSE T[j]

LEMMA PathsWithout ==
  ASSUME NEW T, NEW N, PathsIn(T, N), Len(T) \in 3 .. MaxFds, NameTable(N),
         NEW i, NEW U, Taken(T, U, i)
  PROVE  PathsIn(U, With(N, i, <<>>)) /\ NameTable(With(N, i, <<>>))
<1> DEFINE M == With(N, i, <<>>)
<1>0. MaxFds \in Nat
  BY OldVfsAssumption
<1>1. /\ M = [j \in 1 .. MaxFds |-> M[j]]
      /\ \A j \in 1 .. MaxFds : j # i => M[j] = N[j]
  BY DEF With, NameTable
<1> HIDE DEF M
<1>2. ASSUME NEW j \in 1 .. Len(U)
      PROVE  Calls(U[j].path, M[j])
  <2>1. j \in 1 .. MaxFds /\ j \in 1 .. Len(T)
    BY <1>0 DEF Taken
  <2>2. CASE j = i
    <3>1. U[j].path = NoPath
      BY <2>1, <2>2 DEF Taken, NoEntry, Entry
    <3>2. QED
      BY <3>1, NoPathIsNormal
  <2>3. CASE j # i
    <3>1. U[j] = T[j] /\ M[j] = N[j]
      BY <1>1, <2>1, <2>3 DEF Taken
    <3>2. QED
      BY <2>1, <3>1 DEF PathsIn
  <2>4. QED
    BY <2>2, <2>3
<1>3. QED
  BY <1>1, <1>2 DEF PathsIn, NameTable, M

LEMMA CloseStep == ASSUME IInv, Close PROVE IInv'
<1>1. UNCHANGED <<tree, cwd, dirHandles, place, left>> /\ astray' = {}
  BY DEF Close
<1>2. PICK fd \in 3 .. (MaxFds - 1) :
        /\ IsOpen(fd)
        /\ host' = fsClose(host, LocalFd(fd))
        /\ fdTable' = [fdTable EXCEPT ![fd + 1] = NoEntry]
        /\ meant' = [meant EXCEPT !.fds[fd + 1] = Closed]
        /\ called' = [called EXCEPT ![fd + 1] = <<>>]
  BY DEF Close
<1>3. fd \in 0 .. (MaxFds - 1) /\ fd >= 3
  BY OldVfsAssumption
<1>4. fd \in OpenIn(fdTable)
  BY <1>2, <1>3, OpenFd
<1> DEFINE F == meant.fds
           G == meant.dirs
<1>5. Books(fdTable, F, dirHandles, G, left, host)
  BY DEF IInv, BooksKept
<1>6. meant' = [fds |-> With(F, fd + 1, Closed), dirs |-> G]
  BY <1>2, BookOfMeant DEF IInv
<1> HIDE DEF F, G
<1>7. Books(Without(fdTable, fd + 1), With(F, fd + 1, Closed), dirHandles, G, left,
            [host EXCEPT ![fdTable[fd + 1].localFd] = Closed])
  BY <1>4, <1>5, BooksFdTaken
<1>8. fdTable' = Without(fdTable, fd + 1) /\ host' = [host EXCEPT ![fdTable[fd + 1].localFd] = Closed]
  BY <1>2 DEF Without, fsClose, LocalFd
<1>9. BooksKept'
  BY <1>1, <1>6, <1>7, <1>8, BooksAfter DEF IInv
<1>10. PathsIn(fdTable', called') /\ NameTable(called')
  <2>1. PICK T, U, N, i : T = fdTable /\ U = fdTable' /\ N = called /\ i = fd + 1
    OBVIOUS
  <2>2. FdBook(fdTable, F) /\ Len(T) \in 3 .. MaxFds
    BY <1>5, <2>1 DEF Books, FdBook
  <2>3. Taken(T, U, i)
    BY <1>4, <1>8, <2>1, <2>2, FdTaken DEF Taken
  <2>4. PathsIn(T, N) /\ NameTable(N) /\ called' = With(N, i, <<>>)
    BY <1>2, <2>1 DEF IInv, PathsKept, With
  <2>5. PathsIn(U, With(N, i, <<>>)) /\ NameTable(With(N, i, <<>>))
    BY <2>2, <2>3, <2>4, PathsWithout, Zenon
  <2>6. QED
    BY <2>1, <2>4, <2>5
<1>11. PathsKept'
  BY <1>1, <1>10 DEF IInv, PathsKept
<1>12. QED
  BY <1>1, <1>9, <1>11, SameTree DEF IInv, ActsOnMeant

LEMMA DupStep == ASSUME IInv, Dup PROVE IInv'
<1>1. UNCHANGED <<tree, cwd, dirHandles, place, left>> /\ astray' = {}
  BY DEF Dup
<1>2. PICK fd \in 0 .. (MaxFds - 1), h \in HostFd :
        /\ IsOpen(fd) /\ fsDup(host, LocalFd(fd), h) /\ Fits(fdTable)
        /\ fdTable' = Alloc(fdTable, Entry(h, fdTable[fd + 1].path))
        /\ meant' = [meant EXCEPT !.fds[Slot(fdTable)] = meant.fds[fd + 1]]
        /\ called' = [called EXCEPT ![Slot(fdTable)] = called[fd + 1]]
  BY DEF Dup
<1>3. /\ fdTable[fd + 1].path \in AnyPath /\ Calls(fdTable[fd + 1].path, called[fd + 1])
      /\ host[LocalFd(fd)] = meant.fds[fd + 1] /\ meant.fds[fd + 1] # Closed
  BY <1>2, OpenFd
<1>4. host[h] = Closed /\ host' = [host EXCEPT ![h] = meant.fds[fd + 1]]
  BY <1>2, <1>3 DEF fsDup, Lowest
<1> DEFINE path == fdTable[fd + 1].path
           on == meant.fds[fd + 1]
           name == called[fd + 1]
<1>5. /\ path \in AnyPath /\ Calls(path, name) /\ on # Closed
      /\ fdTable' = Alloc(fdTable, Entry(h, path))
      /\ called' = [called EXCEPT ![Slot(fdTable)] = name]
      /\ meant' = [meant EXCEPT !.fds[Slot(fdTable)] = on]
      /\ host' = [host EXCEPT ![h] = on]
  BY <1>2, <1>3, <1>4
<1> HIDE DEF path, on, name
<1>6. PathsKept' /\ BooksKept'
  BY <1>1, <1>2, <1>4, <1>5, FdOpened
<1>7. QED
  BY <1>1, <1>6, SameTree DEF IInv, ActsOnMeant

LEMMA OpendirStep == ASSUME Regular, IInv, Opendir PROVE IInv'
<1>1. UNCHANGED <<tree, cwd, fdTable, place, called, left>>
  BY DEF Opendir
<1>2. PICK path \in Given, h \in HostFd : \E r \in Resolve(path) :
        /\ fsOpendir(r.fs, r.path, h)
        /\ dirHandles' = Append(dirHandles, h)
        /\ meant' = [meant EXCEPT !.dirs = Append(@, Meant(path))]
        /\ Acts({<<host'[h], Meant(path)>>})
  BY DEF Opendir
<1>3. PICK r \in Resolve(path) :
        /\ fsOpendir(r.fs, r.path, h)
        /\ dirHandles' = Append(dirHandles, h)
        /\ meant' = [meant EXCEPT !.dirs = Append(@, Meant(path))]
        /\ Acts({<<host'[h], Meant(path)>>})
  BY <1>2
<1>4. HostNode(r.fs, r.path) = Meant(path)
  BY GivenPaths, Reached DEF IInv
<1> DEFINE on == Meant(path)
           F == meant.fds
           G == meant.dirs
<1>5. IsDir(on) /\ host[h] = Closed /\ host' = [host EXCEPT ![h] = on]
  BY <1>3, <1>4 DEF fsOpendir, Lowest
<1>6. on # Closed
  BY <1>5, TreeChanged DEF IInv
<1>7. Books(fdTable, F, dirHandles, G, left, host)
  BY DEF IInv, BooksKept
<1>8. meant' = [fds |-> F, dirs |-> Append(G, on)]
  BY <1>3, BookOfMeant DEF IInv
<1> HIDE DEF on, F, G
<1>9. Books(fdTable, F, Append(dirHandles, h), Append(G, on), left, [host EXCEPT ![h] = on])
  BY <1>5, <1>6, <1>7, BooksDirAdded
<1>10. Books(fdTable', F, dirHandles', Append(G, on), left', host')
  BY <1>1, <1>3, <1>5, <1>9
<1>11. BooksKept'
  BY <1>8, <1>10, BooksAfter DEF IInv
<1>12. PathsKept'
  BY <1>1 DEF IInv, PathsKept
<1>13. ActsOnMeant'
  <2>1. DOMAIN host = HostFd
    BY DEF IInv, BooksKept, Books, HostBook
  <2>2. host'[h] = on
    BY <1>5, <2>1
  <2>3. QED
    BY <1>3, <2>2 DEF Acts, ActsOnMeant, on
<1>14. QED
  BY <1>1, <1>11, <1>12, <1>13, SameTree DEF IInv

LEMMA ReaddirStep == ASSUME IInv, Readdir PROVE IInv'
<1>1. UNCHANGED <<tree, cwd, fdTable, dirHandles, host, place, meant, called, left>>
  BY DEF Readdir
<1>2. PICK i \in Handles : Acts({<<host[dirHandles[i]], meant.dirs[i]>>})
  BY DEF Readdir, fsReaddir
<1>3. ActsOnMeant'
  BY <1>2, OpenHandle DEF Acts, ActsOnMeant
<1>4. QED
  BY <1>1, <1>3, NothingChanged, SameTree DEF IInv

LEMMA ClosedirStep == ASSUME IInv, Closedir PROVE IInv'
<1>1. UNCHANGED <<tree, cwd, fdTable, place, called, left>> /\ astray' = {}
  BY DEF Closedir
<1>2. PICK i \in Handles :
        /\ host' = fsClosedir(dirHandles[i])
        /\ dirHandles' = HandleClosed(i)
        /\ meant' = [meant EXCEPT !.dirs[i] = Closed]
  BY DEF Closedir
<1>3. i \in UsedIn(dirHandles)
  BY OpenHandle
<1> DEFINE F == meant.fds
           G == meant.dirs
<1>4. Books(fdTable, F, dirHandles, G, left, host)
  BY DEF IInv, BooksKept
<1>5. meant' = [fds |-> F, dirs |-> [G EXCEPT ![i] = Closed]]
  BY <1>2, BookOfMeant DEF IInv
<1> HIDE DEF F, G
<1>6. Books(fdTable, F, [dirHandles EXCEPT ![i] = -1], [G EXCEPT ![i] = Closed], left,
            [host EXCEPT ![dirHandles[i]] = Closed])
  BY <1>3, <1>4, BooksDirTaken
<1>7. Books(fdTable', F, dirHandles', [G EXCEPT ![i] = Closed], left', host')
  BY <1>1, <1>2, <1>6 DEF HandleClosed, fsClosedir
<1>8. BooksKept'
  BY <1>5, <1>7, BooksAfter DEF IInv
<1>9. PathsKept'
  BY <1>1 DEF IInv, PathsKept
<1>10. QED
  BY <1>1, <1>8, <1>9, SameTree DEF IInv, ActsOnMeant

\* Two entries fit only if one does.
LEMMA FitsOne ==
  ASSUME NEW T, NEW fds, FdBook(T, fds), NEW e \in Entries, e # NoEntry, Fits(Alloc(T, e))
  PROVE  Fits(T)
<1>0. MaxFds \in Nat /\ Len(T) \in 3 .. MaxFds /\ T \in Seq(Entries)
  BY OldVfsAssumption DEF FdBook
<1> DEFINE free == {i \in 4 .. Len(T) : T[i] = NoEntry}
<1>1. CASE free # {}
  <2>1. PICK i \in free : \A j \in free : i <= j
    <3>1. free \in SUBSET Nat
      BY <1>0
    <3>2. QED
      BY <1>1, <3>1, LeastNumber
  <2>2. Min(free) \in free
    BY <2>1, Zenon DEF Min
  <2>3. Slot(T) \in 4 .. Len(T)
    BY <1>1, <2>2 DEF Slot
  <2>4. QED
    BY <1>0, <2>3 DEF Fits
<1>2. CASE free = {}
  <2> DEFINE U == Append(T, e)
  <2>1. Slot(T) = Len(T) + 1
    BY <1>2 DEF Slot
  <2>2. Alloc(T, e) = U
    BY <1>0, <2>1 DEF Alloc
  <2>3. /\ Len(U) = Len(T) + 1
        /\ \A i \in 1 .. Len(U) : U[i] = IF i = Len(T) + 1 THEN e ELSE T[i]
    BY <1>0
  <2> HIDE DEF U
  <2>4. {i \in 4 .. Len(U) : U[i] = NoEntry} = {}
    <3>1. ASSUME NEW i \in 4 .. Len(U), U[i] = NoEntry
          PROVE  i \in free
      BY <1>0, <2>3, <3>1
    <3>2. QED
      BY <1>2, <3>1
  <2>5. Slot(U) = Len(U) + 1
    BY <2>4 DEF Slot
  <2>6. QED
    BY <1>0, <2>1, <2>2, <2>3, <2>5 DEF Fits
<1>3. QED
  BY <1>1, <1>2

\* allocFd in the books.
LEMMA BooksAlloc ==
  ASSUME NEW T, NEW fds, NEW D, NEW dirs, NEW L, NEW open, Books(T, fds, D, dirs, L, open),
         NEW names, PathsIn(T, names), Fits(T), NEW path \in AnyPath, ~path.abs,
         NEW h \in HostFd, open[h] = Closed, NEW on, on # Closed
  PROVE  /\ Books(Alloc(T, Entry(h, path)), With(fds, Slot(T), on), D, dirs, L, [open EXCEPT ![h] = on])
         /\ PathsIn(Alloc(T, Entry(h, path)), names)
<1> DEFINE e == Entry(h, path)
           i == Slot(T)
           U == Alloc(T, e)
<1>1. e \in Entries /\ e # NoEntry /\ e.localFd = h /\ e.path = path
  BY TypesOfEntries DEF Entry
<1>2. FdBook(T, fds)
  BY DEF Books
<1> HIDE DEF e
<1>3. Put(T, U, i, e) /\ i - 1 \notin OpenIn(T)
  BY <1>1, <1>2, AllocFacts
<1> HIDE DEF i, U
<1>4. Books(U, With(fds, i, on), D, dirs, L, [open EXCEPT ![e.localFd] = on])
  BY <1>1, <1>3, BooksFdAdded
<1>5. PathsIn(U, names)
  BY <1>1, <1>3, PathsPutPlain
<1>6. QED
  BY <1>1, <1>4, <1>5 DEF U, i, e

LEMMA PipeStep == ASSUME IInv, Pipe PROVE IInv'
<1>1. UNCHANGED <<tree, cwd, dirHandles, place, called, left>> /\ astray' = {}
  BY DEF Pipe
<1> DEFINE read == <<"pipe:read">>
           write == <<"pipe:write">>
           F == meant.fds
           G == meant.dirs
<1>2. PICK h0 \in HostFd, h1 \in HostFd :
        LET table == Alloc(fdTable, Entry(h0, NoPath))
        IN  /\ fsPipe(h0, h1) /\ Fits(table)
            /\ fdTable' = Alloc(table, Entry(h1, NoPath))
            /\ meant' = [meant EXCEPT !.fds[Slot(fdTable)] = read, !.fds[Slot(table)] = write]
  BY DEF Pipe
<1> DEFINE table == Alloc(fdTable, Entry(h0, NoPath))
           open == [host EXCEPT ![h0] = read]
<1>3. host[h0] = Closed /\ open[h1] = Closed /\ host' = [open EXCEPT ![h1] = write]
  BY <1>2 DEF fsPipe, Lowest
<1>4. read # Closed /\ write # Closed
  BY DEF Closed, NoNode
<1>5. Books(fdTable, F, dirHandles, G, left, host) /\ PathsIn(fdTable, called)
  BY DEF IInv, BooksKept, PathsKept
<1>6. Fits(table) /\ fdTable' = Alloc(table, Entry(h1, NoPath))
  BY <1>2
<1>7. meant' = [fds |-> With(With(F, Slot(fdTable), read), Slot(table), write), dirs |-> G]
  <2> DEFINE i == Slot(fdTable)
             j == Slot(table)
  <2>1. meant' = [meant EXCEPT !.fds[i] = read, !.fds[j] = write]
    BY <1>2
  <2>2. meant = [fds |-> F, dirs |-> G]
    BY DEF IInv, BooksKept
  <2> HIDE DEF i, j, F, G, read, write
  <2>3. meant' = [fds |-> [[F EXCEPT ![i] = read] EXCEPT ![j] = write], dirs |-> G]
    BY <2>1, <2>2
  <2>4. QED
    BY <2>3 DEF i, j, With
<1> HIDE DEF read, write, F, G, open
<1>8. Fits(fdTable)
  <2>1. FdBook(fdTable, F)
    BY <1>5 DEF Books
  <2>2. Entry(h0, NoPath) \in Entries /\ Entry(h0, NoPath) # NoEntry
    BY TypesOfEntries
  <2>3. QED
    BY <1>6, <2>1, <2>2, FitsOne
<1>9. Books(table, With(F, Slot(fdTable), read), dirHandles, G, left, open) /\ PathsIn(table, called)
  BY <1>3, <1>4, <1>5, <1>8, NoPathIsNormal, BooksAlloc DEF open
<1> HIDE DEF table
<1>10. /\ Books(fdTable', With(With(F, Slot(fdTable), read), Slot(table), write), dirHandles, G, left, host')
       /\ PathsIn(fdTable', called)
  BY <1>3, <1>4, <1>6, <1>9, NoPathIsNormal, BooksAlloc
<1>11. BooksKept'
  BY <1>1, <1>7, <1>10, BooksAfter DEF IInv
<1>12. PathsKept'
  BY <1>1, <1>10 DEF IInv, PathsKept
<1>13. QED
  BY <1>1, <1>11, <1>12, SameTree DEF IInv, ActsOnMeant

\* Within the table nothing is padded.
LEMMA NothingPadded ==
  ASSUME NEW T \in Seq(Entries), NEW n \in 1 .. Len(T)
  PROVE  Padded(T, n) = T
<1>1. Len(T) \in Nat /\ n \in Int /\ n <= Len(T)
  OBVIOUS
<1>2. Max({Len(T), n}) = Len(T)
  <2>1. \A x \in {Len(T), n} : (\A y \in {Len(T), n} : x >= y) => x = Len(T)
    BY <1>1
  <2>2. Len(T) \in {Len(T), n} /\ \A y \in {Len(T), n} : Len(T) >= y
    BY <1>1
  <2>3. QED
    BY <2>1, <2>2, Zenon DEF Max
<1>3. Padded(T, n) = [i \in 1 .. Len(T) |-> T[i]]
  <2>1. Padded(T, n) = [i \in 1 .. Len(T) |-> IF i <= Len(T) THEN T[i] ELSE NoEntry]
    BY <1>2, Zenon DEF Padded
  <2>2. \A i \in 1 .. Len(T) : i <= Len(T)
    BY <1>1
  <2>3. QED
    BY <2>1, <2>2
<1>4. QED
  BY <1>3

\* When dup2 has closed what the new descriptor was open on.
LEMMA BooksReleased ==
  ASSUME IInv, NEW new \in 3 .. (MaxFds - 1), new < Len(fdTable)
  PROVE  /\ Books(Without(fdTable, new + 1), With(meant.fds, new + 1, Closed), dirHandles,
                  meant.dirs, left, Released(new))
         /\ new \notin OpenIn(Without(fdTable, new + 1))
         /\ Len(Without(fdTable, new + 1)) = Len(fdTable)
         /\ \A j \in 1 .. Len(fdTable) :
              Without(fdTable, new + 1)[j] = IF j = new + 1 THEN NoEntry ELSE fdTable[j]
<1> DEFINE F == meant.fds
           G == meant.dirs
<1>1. Books(fdTable, F, dirHandles, G, left, host)
  BY DEF IInv, BooksKept
<1>2. FdBook(fdTable, F)
  BY <1>1 DEF Books
<1>0. /\ MaxFds \in Nat /\ new \in Int /\ new \in Fds /\ new \in 0 .. (MaxFds - 1) /\ new >= 3
      /\ fdTable \in Seq(Entries) /\ Len(fdTable) \in Nat /\ new + 1 \in 1 .. Len(fdTable)
  BY <1>2, OldVfsAssumption DEF Fds, FdBook
<1>3. CASE IsOpen(new)
  <2>1. new \in OpenIn(fdTable)
    BY <1>0, <1>3, OpenFd
  <2>2. Books(Without(fdTable, new + 1), With(F, new + 1, Closed), dirHandles, G, left,
              [host EXCEPT ![fdTable[new + 1].localFd] = Closed])
    BY <1>1, <2>1, BooksFdTaken
  <2>3. Released(new) = [host EXCEPT ![fdTable[new + 1].localFd] = Closed]
    BY <1>3 DEF Released, fsClose, LocalFd
  <2>4. QED
    BY <1>2, <2>1, <2>2, <2>3, FdTaken
<1>4. CASE ~IsOpen(new)
  <2>1. fdTable[new + 1] = NoEntry
    BY <1>0, <1>4 DEF IsOpen
  <2>2. Without(fdTable, new + 1) = fdTable
    BY <1>0, <2>1 DEF Without
  <2>3. new \notin OpenIn(fdTable)
    BY <2>1 DEF OpenIn
  <2>4. With(F, new + 1, Closed) = F
    <3>1. F = [i \in 1 .. MaxFds |-> F[i]] /\ F[new + 1] = Closed
      BY <1>0, <1>2, <2>3 DEF FdBook
    <3> HIDE DEF F
    <3>2. QED
      BY <3>1 DEF With
  <2>5. Released(new) = host
    BY <1>4 DEF Released
  <2>6. QED
    BY <1>1, <2>1, <2>2, <2>3, <2>4, <2>5
<1>5. QED
  BY <1>3, <1>4

LEMMA Dup2Step == ASSUME Regular, IInv, Dup2 PROVE IInv'
<1>1. UNCHANGED <<tree, cwd, dirHandles, place, left>> /\ astray' = {}
  BY DEF Dup2
<1> DEFINE Duped(old, new, h) ==
             /\ fsDup(Released(new), LocalFd(old), h)
             /\ \E entry \in Copies(old, new, h) :
                  fdTable' = [Padded(fdTable, new + 1) EXCEPT ![new + 1] = entry]
             /\ meant' = [meant EXCEPT !.fds[new + 1] = meant.fds[old + 1]]
             /\ called' = [called EXCEPT ![new + 1] = called[old + 1]]
           NotDuped(new) ==
             /\ host' = Released(new)
             /\ IF IsOpen(new)
                THEN /\ fdTable' = [fdTable EXCEPT ![new + 1] = NoEntry]
                     /\ meant' = [meant EXCEPT !.fds[new + 1] = Closed]
                     /\ called' = [called EXCEPT ![new + 1] = <<>>]
                ELSE UNCHANGED <<fdTable, meant, called>>
<1>2. PICK old \in 0 .. (MaxFds - 1), new \in News :
        /\ IsOpen(old) /\ old # new /\ new < Len(fdTable)
        /\ (\E h \in HostFd : Duped(old, new, h)) \/ NotDuped(new)
  BY DEF Dup2, Regular
<1> DEFINE T1 == Without(fdTable, new + 1)
           F1 == With(meant.fds, new + 1, Closed)
           G == meant.dirs
<1>3. new \in 3 .. (MaxFds - 1) /\ new \in 0 .. (MaxFds - 1) /\ new \in Int /\ new >= 3 /\ old \in Int
  BY OldVfsAssumption
<1>4. /\ Books(T1, F1, dirHandles, G, left, Released(new))
      /\ new \notin OpenIn(T1) /\ Len(T1) = Len(fdTable)
      /\ \A j \in 1 .. Len(fdTable) : T1[j] = IF j = new + 1 THEN NoEntry ELSE fdTable[j]
  BY <1>2, <1>3, BooksReleased
<1>5. /\ PathsIn(fdTable, called) /\ fdTable \in Seq(Entries) /\ Len(fdTable) \in 3 .. MaxFds
      /\ new + 1 \in 4 .. Len(fdTable) /\ new + 1 \in 1 .. Len(fdTable) /\ MaxFds \in Nat
  BY <1>2, <1>3, OldVfsAssumption DEF IInv, PathsKept, BooksKept, Books, FdBook
<1> DEFINE N1 == With(called, new + 1, <<>>)
<1>6. PathsIn(T1, N1) /\ NameTable(N1)
  <2>1. PICK T, U, N, i : T = fdTable /\ U = T1 /\ N = called /\ i = new + 1
    OBVIOUS
  <2>2. PathsIn(T, N) /\ NameTable(N) /\ Len(T) \in 3 .. MaxFds /\ Taken(T, U, i)
    BY <1>4, <1>5, <2>1 DEF IInv, PathsKept, Taken
  <2>3. PathsIn(U, With(N, i, <<>>)) /\ NameTable(With(N, i, <<>>))
    BY <2>2, PathsWithout, Zenon
  <2>4. QED
    BY <2>1, <2>3
<1>7. ASSUME NEW h \in HostFd, Duped(old, new, h)
      PROVE  PathsKept' /\ BooksKept'
  <2> DEFINE on == meant.fds[old + 1]
             path == fdTable[old + 1].path
             e == Entry(h, path)
             open == Released(new)
  <2>1. /\ LocalFd(old) \in HostFd /\ path \in AnyPath /\ Calls(path, called[old + 1])
        /\ host[LocalFd(old)] = on /\ on # Closed
    BY <1>2, OpenFd
  <2>2. open[LocalFd(old)] = on
    <3>1. CASE ~IsOpen(new)
      BY <2>1, <3>1 DEF Released
    <3>2. CASE IsOpen(new)
      <4>1. LocalFd(new) # LocalFd(old)
        <5>1. new \in OpenIn(fdTable) /\ LocalFd(new) \in Above
          BY <1>3, <3>2, OpenFd
        <5>2. CASE old < 3
          <6>1. LocalFd(old) = old /\ old \in {0, 1, 2}
            BY <1>2, <1>3, <5>2, OpenFd
          <6>2. QED
            BY <5>1, <6>1 DEF Above
        <5>3. CASE ~ (old < 3)
          <6>1. old \in OpenIn(fdTable)
            BY <1>2, <1>3, <5>3, OpenFd
          <6> DEFINE S == FdsOwned(fdTable, meant.fds) \cup DirsOwned(dirHandles, G)
                     x == FdOwner(fdTable, meant.fds, old)
                     y == FdOwner(fdTable, meant.fds, new)
          <6>2. x \in S /\ y \in S
            BY <5>1, <6>1 DEF FdsOwned
          <6>3. x.at = old /\ y.at = new /\ x.fd = LocalFd(old) /\ y.fd = LocalFd(new)
            BY DEF FdOwner, LocalFd
          <6> HIDE DEF x, y
          <6>4. Sole(S, left, host)
            BY DEF IInv, BooksKept, Books
          <6>5. x.fd = y.fd => x = y
            BY <6>2, <6>4 DEF Sole
          <6>6. QED
            BY <1>2, <6>3, <6>5
        <5>4. QED
          BY <5>2, <5>3
      <4>2. Released(new) = [host EXCEPT ![LocalFd(new)] = Closed]
        BY <3>2 DEF Released, fsClose
      <4>3. DOMAIN host = HostFd
        BY DEF IInv, BooksKept, Books, HostBook
      <4>4. QED
        BY <2>1, <4>1, <4>2, <4>3
    <3>3. QED
      BY <3>1, <3>2
  <2>3. open[h] = Closed /\ host' = [open EXCEPT ![h] = on]
    BY <1>7, <2>2 DEF fsDup, Lowest
  <2>4. fdTable' = [fdTable EXCEPT ![new + 1] = e]
    <3>1. Copies(old, new, h) = {e}
      BY <1>2 DEF Copies
    <3>2. Padded(fdTable, new + 1) = fdTable
      BY <1>5, NothingPadded
    <3>3. QED
      BY <1>7, <3>1, <3>2
  <2>5. e \in Entries /\ e # NoEntry /\ e.localFd = h /\ e.path = path
    BY <2>1, TypesOfEntries DEF Entry
  <2> HIDE DEF e, path
  <2>6. Put(T1, fdTable', new + 1, e)
    BY <1>4, <1>5, <2>4, <2>5 DEF Put
  <2>7. meant' = [fds |-> With(meant.fds, new + 1, on), dirs |-> G]
    BY <1>7, BookOfMeant DEF IInv
  <2>8. With(F1, new + 1, on) = With(meant.fds, new + 1, on)
    <3> DEFINE F == meant.fds
    <3> HIDE DEF F
    <3>1. [[F EXCEPT ![new + 1] = Closed] EXCEPT ![new + 1] = on] = [F EXCEPT ![new + 1] = on]
      OBVIOUS
    <3>2. QED
      BY <3>1 DEF F, With
  <2> HIDE DEF on, open, T1, F1, G, N1
  <2>9. (new + 1) - 1 = new
    BY <1>3
  <2>10. Books(fdTable', With(F1, new + 1, on), dirHandles, G, left, [open EXCEPT ![h] = on])
    <3>1. Books(T1, F1, dirHandles, G, left, open)
      BY <1>4 DEF open
    <3>2. open[e.localFd] = Closed /\ e.localFd \in HostFd /\ on # Closed
      BY <2>1, <2>3, <2>5 DEF on
    <3>3. (new + 1) - 1 \notin OpenIn(T1)
      BY <1>4, <2>9
    <3>4. Books(fdTable', With(F1, new + 1, on), dirHandles, G, left, [open EXCEPT ![e.localFd] = on])
      BY <2>5, <2>6, <3>1, <3>2, <3>3, BooksFdAdded
    <3>5. QED
      BY <2>5, <3>4
  <2>11. BooksKept'
    BY <1>1, <2>3, <2>7, <2>8, <2>10, BooksAfter DEF IInv
  <2>12. PathsIn(fdTable', called') /\ NameTable(called')
    <3>1. PICK T, U, N, A, i, name :
            T = T1 /\ U = fdTable' /\ N = N1 /\ A = called /\ i = new + 1 /\ name = called[old + 1]
      OBVIOUS
    <3>2. PathsIn(T, N) /\ NameTable(N) /\ Calls(e.path, name) /\ Put(T, U, i, e)
      <4>1. e.path = path /\ Calls(path, name)
        BY <2>1, <2>5, <3>1
      <4>2. PathsIn(T, N) /\ NameTable(N)
        BY <1>6, <3>1, Zenon
      <4>3. Put(T, U, i, e)
        BY <2>6, <3>1, Zenon
      <4>4. QED
        BY <4>1, <4>2, <4>3
    <3>3. PathsIn(U, With(N, i, name)) /\ NameTable(With(N, i, name))
      BY <3>2, PathsPut, Zenon
    <3>4. called' = With(N, i, name)
      <4>1. [[A EXCEPT ![i] = <<>>] EXCEPT ![i] = name] = [A EXCEPT ![i] = name]
        OBVIOUS
      <4>2. N = [A EXCEPT ![i] = <<>>]
        BY <3>1 DEF With, N1
      <4>3. called' = [A EXCEPT ![i] = name]
        BY <1>7, <3>1
      <4>4. QED
        BY <4>1, <4>2, <4>3 DEF With
    <3>5. QED
      BY <3>1, <3>3, <3>4
  <2>13. PathsKept'
    BY <1>1, <2>12 DEF IInv, PathsKept
  <2>14. QED
    BY <2>11, <2>13
<1>8. ASSUME NotDuped(new)
      PROVE  PathsKept' /\ BooksKept'
  <2>1. CASE IsOpen(new)
    <3>1. fdTable' = T1 /\ host' = Released(new) /\ called' = N1
      BY <1>8, <2>1 DEF Without, With
    <3>2. meant' = [fds |-> F1, dirs |-> G]
      BY <1>8, <2>1, BookOfMeant DEF IInv
    <3> HIDE DEF T1, F1, G, N1
    <3>3. BooksKept'
      BY <1>1, <1>4, <3>1, <3>2, BooksAfter DEF IInv
    <3>4. PathsKept'
      BY <1>1, <1>6, <3>1 DEF IInv, PathsKept
    <3>5. QED
      BY <3>3, <3>4
  <2>2. CASE ~IsOpen(new)
    BY <1>1, <1>8, <2>2, NothingChanged DEF Released
  <2>3. QED
    BY <2>1, <2>2
<1>9. QED
  BY <1>1, <1>2, <1>7, <1>8, SameTree DEF IInv, ActsOnMeant

LEMMA ChdirStep == ASSUME Regular, IInv, Chdir PROVE IInv'
<1>1. UNCHANGED <<tree, fdTable, dirHandles, host, meant, called, left>>
  BY DEF Chdir
<1>2. PICK path \in Given : \E r \in Resolve(MakeAbsolute(path)) :
        /\ cwd' = MakeAbsolute(path) /\ place' = MeantNames(path)
        /\ Acts({<<HostNode(r.fs, r.path), Meant(path)>>})
  BY DEF Chdir, fsStat
<1>3. PICK r \in Resolve(MakeAbsolute(path)) :
        /\ cwd' = MakeAbsolute(path) /\ place' = MeantNames(path)
        /\ Acts({<<HostNode(r.fs, r.path), Meant(path)>>})
  BY <1>2
<1>4. path \in AnyPath /\ NormalName(path)
  BY GivenPaths
<1>5. HostNode(r.fs, r.path) = Meant(path)
  BY <1>4, Reached DEF IInv
<1>6. ActsOnMeant'
  BY <1>3, <1>5 DEF Acts, ActsOnMeant
<1>7. PathsKept'
  <2>1. /\ cwd' = Path(TRUE, place') /\ place' \in Names /\ Normal(place') = place'
    BY <1>3, <1>4, SameName DEF IInv
  <2>2. QED
    BY <1>1, <2>1 DEF IInv, PathsKept
<1>8. BooksKept'
  BY <1>1 DEF IInv, BooksKept
<1>9. QED
  BY <1>1, <1>6, <1>7, <1>8, SameTree DEF IInv

LEMMA FchdirStep == ASSUME Regular, IInv, Fchdir PROVE IInv'
<1>1. UNCHANGED <<tree, fdTable, dirHandles, host, meant, called, left>>
  BY DEF Fchdir
<1>2. PICK fd \in 3 .. (MaxFds - 1) :
        /\ IsOpen(fd)
        /\ fdTable[fd + 1].path.abs \in FchdirTo
        /\ cwd' = fdTable[fd + 1].path /\ place' = called[fd + 1]
        /\ Acts({OnFd(host[LocalFd(fd)], fd)})
  BY DEF Fchdir, fsFstat
<1> DEFINE path == fdTable[fd + 1].path
<1>3. fd \in 0 .. (MaxFds - 1)
  BY OldVfsAssumption
<1>4. path \in AnyPath /\ Calls(path, called[fd + 1]) /\ host[LocalFd(fd)] = meant.fds[fd + 1]
  BY <1>2, <1>3, OpenFd
<1>5. path.abs /\ cwd' = path /\ place' = called[fd + 1]
  <2>1. path.abs \in FchdirTo
    BY <1>2
  <2>2. QED
    BY <1>2, <2>1 DEF Regular
<1> HIDE DEF path
<1>6. PathsKept'
  <2>1. path.names = place' /\ Normal(path.names) = path.names
    BY <1>4, <1>5 DEF Calls, NormalName
  <2>2. path = Path(TRUE, path.names) /\ path.names \in Names
    BY <1>4, <1>5 DEF AnyPath, Path
  <2>3. /\ cwd' = Path(TRUE, place') /\ place' \in Names /\ Normal(place') = place'
    BY <1>5, <2>1, <2>2
  <2>4. QED
    BY <1>1, <2>3 DEF IInv, PathsKept
<1>7. ActsOnMeant'
  BY <1>2, <1>4 DEF Acts, OnFd, ActsOnMeant
<1>8. BooksKept'
  BY <1>1 DEF IInv, BooksKept
<1>9. QED
  BY <1>1, <1>6, <1>7, <1>8, SameTree DEF IInv

\* _cwd leads to the directory the guest is in.
LEMMA CwdFound ==
  ASSUME IInv
  PROVE  CwdFaithful
<1>1. place \in Names /\ cwd = Path(TRUE, place)
  BY DEF IInv, PathsKept
<1>2. PICK r : Resolve(Path(TRUE, place)) = {r} /\ HostNode(r.fs, r.path) = MeantNode(place)
  BY <1>1, NormalPath
<1>3. Found(cwd) = {MeantNode(place)}
  <2>1. Resolve(cwd) = {r}
    BY <1>1, <1>2
  <2>2. Found(cwd) = {HostNode(s.fs, s.path) : s \in {r}}
    BY <2>1, Zenon DEF Found
  <2>3. QED
    BY <1>2, <2>2
<1>4. cwd.abs
  BY <1>1 DEF Path
<1>5. QED
  BY <1>3, <1>4 DEF CwdFaithful

LEMMA GetcwdStep == ASSUME IInv, Getcwd PROVE IInv'
<1>1. UNCHANGED <<tree, cwd, fdTable, dirHandles, host, place, meant, called, left>>
  BY DEF Getcwd
<1>2. Found(cwd) = {MeantNode(place)}
  BY CwdFound DEF CwdFaithful
<1>3. ActsOnMeant'
  <2>1. \A on \in {MeantNode(place)} \X {MeantNode(place)} : on[1] = on[2]
    OBVIOUS
  <2>2. Acts({MeantNode(place)} \X {MeantNode(place)})
    BY <1>2 DEF Getcwd
  <2>3. QED
    BY <2>1, <2>2 DEF Acts, ActsOnMeant
<1>4. QED
  BY <1>1, <1>3, NothingChanged, SameTree DEF IInv

LEMMA NewProgramStep == ASSUME IInv, NewProgram PROVE IInv'
<1>1. /\ UNCHANGED <<tree, host>> /\ astray' = {}
      /\ cwd' = Path(TRUE, Root) /\ fdTable' = Stdio /\ dirHandles' = <<>> /\ place' = Root
      /\ meant' = [fds |-> InitFds, dirs |-> <<>>] /\ called' = NoNames
  BY DEF NewProgram
<1> DEFINE S == FdsOwned(fdTable, meant.fds) \cup DirsOwned(dirHandles, meant.dirs)
<1>2. left' = left \cup {x.fd : x \in S}
  <2>1. {f \in 3 .. (MaxFds - 1) : IsOpen(f)} = OpenIn(fdTable)
    BY DEF OpenIn, Fds, IsOpen
  <2>2. Handles = UsedIn(dirHandles)
    BY DEF Handles, UsedIn
  <2>3. {LocalFd(fd) : fd \in OpenIn(fdTable)} = {x.fd : x \in FdsOwned(fdTable, meant.fds)}
    <3>1. \A fd \in OpenIn(fdTable) : FdOwner(fdTable, meant.fds, fd).fd = LocalFd(fd)
      BY DEF LocalFd, FdOwner
    <3>2. QED
      BY <3>1 DEF FdsOwned
  <2>4. {dirHandles[i] : i \in UsedIn(dirHandles)} = {x.fd : x \in DirsOwned(dirHandles, meant.dirs)}
    <3>1. \A i \in UsedIn(dirHandles) : DirOwner(dirHandles, meant.dirs, i).fd = dirHandles[i]
      BY DEF DirOwner
    <3>2. QED
      BY <3>1 DEF DirsOwned
  <2>5. left' = left \cup {LocalFd(fd) : fd \in OpenIn(fdTable)} \cup {dirHandles[i] : i \in UsedIn(dirHandles)}
    BY <2>1, <2>2 DEF NewProgram
  <2>6. QED
    BY <2>3, <2>4, <2>5
<1> HIDE DEF S
<1>3. Sole({}, left', host) /\ HostBook(host)
  BY <1>2, Ended DEF IInv, BooksKept, Books, S
<1>4. Books(Stdio, InitFds, <<>>, <<>>, left', host)
  BY <1>3, BooksOfNew
<1>5. BooksKept'
  BY <1>1, <1>4, BooksAfter DEF IInv
<1>6. PathsKept'
  <2>1. Root \in Names /\ Root \in Seq(Plain)
    BY DEF Root, Names
  <2>2. Normal(Root) = Root
    BY <2>1, NormalOfPlain
  <2>3. PathsIn(Stdio, NoNames)
    BY DEF PathsIn, Calls, NormalName, Stdio, Entry, NoPath, Path
  <2>4. NameTable(NoNames)
    BY DEF NameTable, NoNames
  <2>5. QED
    BY <1>1, <2>1, <2>2, <2>3, <2>4 DEF PathsKept
<1>7. QED
  BY <1>1, <1>5, <1>6, SameTree DEF IInv, ActsOnMeant

\* The invariant is kept by every call.
THEOREM Inductive == Regular => (Spec => []IInv)
<1> SUFFICES ASSUME Regular PROVE Spec => []IInv
  OBVIOUS
<1>1. Init => IInv
  BY InitHolds
<1>2. IInv /\ [Next]_vars => IInv'
  <2> SUFFICES ASSUME IInv, [Next]_vars PROVE IInv'
    OBVIOUS
  <2>1. CASE NewProgram
    BY <2>1, NewProgramStep
  <2>2. CASE Open
    BY <2>2, OpenStep
  <2>3. CASE Close
    BY <2>3, CloseStep
  <2>4. CASE Dup
    BY <2>4, DupStep
  <2>5. CASE Dup2
    BY <2>5, Dup2Step
  <2>6. CASE Pipe
    BY <2>6, PipeStep
  <2>7. CASE Opendir
    BY <2>7, OpendirStep
  <2>8. CASE Readdir
    BY <2>8, ReaddirStep
  <2>9. CASE Closedir
    BY <2>9, ClosedirStep
  <2>10. CASE Chdir
    BY <2>10, ChdirStep
  <2>11. CASE Fchdir
    BY <2>11, FchdirStep
  <2>12. CASE Getcwd
    BY <2>12, GetcwdStep
  <2>13. CASE ReadWrite \/ Fcntl \/ Fstat \/ Fchmod \/ Fchown \/ Getdents \/ Ioctl
    BY <2>13, UseFdStep
  <2>14. CASE Stat \/ Access \/ Chmod \/ Chown \/ Readlink
    BY <2>14, LookStep
  <2>15. CASE Mkdir \/ Rmdir \/ Unlink \/ Symlink \/ Link \/ Rename
    BY <2>15, TreeStep
  <2>16. CASE UNCHANGED vars
    BY <2>16, NothingChanged, SameTree DEF vars, IInv, ActsOnMeant
  <2>17. QED
    BY <2>1, <2>2, <2>3, <2>4, <2>5, <2>6, <2>7, <2>8, <2>9, <2>10, <2>11, <2>12,
       <2>13, <2>14, <2>15, <2>16 DEF Next
<1>3. QED
  BY <1>1, <1>2, PTL DEF Spec

-----------------------------------------------------------------------------
(* What the runs check *)

LEMMA EntriesMeant == ASSUME IInv PROVE EntryFaithful
<1>0. MaxFds \in Nat /\ MaxFds >= 3
  BY OldVfsAssumption
<1>1. Books(fdTable, meant.fds, dirHandles, meant.dirs, left, host)
  BY DEF IInv, BooksKept
<1>2. FdBook(fdTable, meant.fds) /\ DirBook(dirHandles, meant.dirs)
  BY <1>1 DEF Books
<1>3. ASSUME NEW fd \in 0 .. (MaxFds - 1)
      PROVE  IF IsOpen(fd) THEN host[LocalFd(fd)] = meant.fds[fd + 1]
             ELSE meant.fds[fd + 1] = Closed
  <2>1. CASE IsOpen(fd)
    BY <2>1, OpenFd
  <2>2. CASE ~IsOpen(fd)
    <3>1. fd \in Fds
      <4>1. SUFFICES ASSUME fd < 3 PROVE FALSE
        BY <1>0 DEF Fds
      <4>2. fd + 1 \in 1 .. 3 /\ Len(fdTable) \in 3 .. MaxFds /\ (fd + 1) - 1 = fd
        BY <1>0, <1>2, <4>1 DEF FdBook
      <4>3. fd + 1 \in 1 .. Len(fdTable) /\ fdTable[fd + 1] = Stdio[fd + 1]
        BY <1>0, <1>2, <4>2 DEF FdBook
      <4>4. Stdio[fd + 1] # NoEntry
        BY <1>0, <4>2 DEF Stdio, NoEntry, Entry
      <4>5. QED
        BY <2>2, <4>3, <4>4 DEF IsOpen
    <3>2. fd \notin OpenIn(fdTable)
      BY <2>2 DEF OpenIn, IsOpen
    <3>3. QED
      BY <1>2, <2>2, <3>1, <3>2 DEF FdBook
  <2>3. QED
    BY <2>1, <2>2
<1>4. ASSUME NEW i \in 1 .. Len(meant.dirs)
      PROVE  IF i \in Handles THEN host[dirHandles[i]] = meant.dirs[i]
             ELSE meant.dirs[i] = Closed
  <2>1. CASE i \in Handles
    BY <2>1, OpenHandle
  <2>2. CASE i \notin Handles
    BY <1>2, <2>2 DEF Handles, DirBook
  <2>3. QED
    BY <2>1, <2>2
<1>5. QED
  BY <1>3, <1>4 DEF EntryFaithful

LEMMA OneOwner == ASSUME IInv PROVE HostFdsOwned
<1>0. MaxFds \in Nat /\ MaxFds >= 3
  BY OldVfsAssumption
<1> DEFINE S == FdsOwned(fdTable, meant.fds) \cup DirsOwned(dirHandles, meant.dirs)
<1>1. Sole(S, left, host)
  BY DEF IInv, BooksKept, Books
<1>2. SUFFICES ASSUME NEW h \in Above
               PROVE  Cardinality(Owners(h)) = IF host[h] # Closed THEN 1 ELSE 0
  BY DEF HostFdsOwned, Above
<1> DEFINE AsOwner(x) == [kind |-> x.kind, at |-> x.at]
           O == {AsOwner(x) : x \in {y \in S : y.fd = h}}
                  \cup (IF h \in left THEN {[kind |-> "left", at |-> 0]} ELSE {})
<1>3. Owners(h) = O
  <2>1. {[kind |-> "fd", at |-> fd] : fd \in {f \in 0 .. (MaxFds - 1) : IsOpen(f) /\ LocalFd(f) = h}}
          = {AsOwner(x) : x \in {y \in FdsOwned(fdTable, meant.fds) : y.fd = h}}
    <3>1. {f \in 0 .. (MaxFds - 1) : IsOpen(f) /\ LocalFd(f) = h}
            = {f \in OpenIn(fdTable) : LocalFd(f) = h}
      <4>1. ASSUME NEW f \in 0 .. (MaxFds - 1), IsOpen(f), LocalFd(f) = h
            PROVE  f \in OpenIn(fdTable)
        <5>1. f \in Int /\ (f < 3 => f \in {0, 1, 2})
          BY <1>0
        <5>2. QED
          BY <4>1, <5>1, OpenFd DEF Above
      <4>2. ASSUME NEW f \in OpenIn(fdTable)
            PROVE  f \in 0 .. (MaxFds - 1) /\ IsOpen(f)
        BY <1>0 DEF OpenIn, Fds, IsOpen
      <4>3. QED
        BY <4>1, <4>2
    <3>2. {AsOwner(x) : x \in {y \in FdsOwned(fdTable, meant.fds) : y.fd = h}}
            = {[kind |-> "fd", at |-> f] : f \in {g \in OpenIn(fdTable) : LocalFd(g) = h}}
      <4>1. \A f \in OpenIn(fdTable) :
              LET x == FdOwner(fdTable, meant.fds, f)
              IN  x.fd = LocalFd(f) /\ AsOwner(x) = [kind |-> "fd", at |-> f]
        BY DEF FdOwner, LocalFd
      <4> DEFINE Own(f) == FdOwner(fdTable, meant.fds, f)
                 A(f) == [kind |-> "fd", at |-> f]
      <4>2. \A f \in OpenIn(fdTable) : Own(f).fd = LocalFd(f) /\ AsOwner(Own(f)) = A(f)
        BY <4>1
      <4>3. FdsOwned(fdTable, meant.fds) = {Own(f) : f \in OpenIn(fdTable)}
        BY DEF FdsOwned
      <4> HIDE DEF AsOwner, Own, A
      <4>4. {AsOwner(x) : x \in {y \in {Own(f) : f \in OpenIn(fdTable)} : y.fd = h}}
              = {A(f) : f \in {g \in OpenIn(fdTable) : LocalFd(g) = h}}
        BY <4>2
      <4>5. QED
        BY <4>3, <4>4 DEF A
    <3>3. QED
      BY <3>1, <3>2
  <2>2. {[kind |-> "dir", at |-> i] : i \in {j \in Handles : dirHandles[j] = h}}
          = {AsOwner(x) : x \in {y \in DirsOwned(dirHandles, meant.dirs) : y.fd = h}}
    <3>1. \A i \in UsedIn(dirHandles) :
            LET x == DirOwner(dirHandles, meant.dirs, i)
            IN  x.fd = dirHandles[i] /\ AsOwner(x) = [kind |-> "dir", at |-> i]
      BY DEF DirOwner
    <3>2. Handles = UsedIn(dirHandles)
      BY DEF Handles, UsedIn
    <3> DEFINE Own(i) == DirOwner(dirHandles, meant.dirs, i)
               A(i) == [kind |-> "dir", at |-> i]
    <3>3. \A i \in UsedIn(dirHandles) : Own(i).fd = dirHandles[i] /\ AsOwner(Own(i)) = A(i)
      BY <3>1
    <3>4. DirsOwned(dirHandles, meant.dirs) = {Own(i) : i \in UsedIn(dirHandles)}
      BY DEF DirsOwned
    <3> HIDE DEF AsOwner, Own, A
    <3>5. {AsOwner(x) : x \in {y \in {Own(i) : i \in UsedIn(dirHandles)} : y.fd = h}}
            = {A(i) : i \in {j \in UsedIn(dirHandles) : dirHandles[j] = h}}
      BY <3>3
    <3>6. QED
      BY <3>2, <3>4, <3>5 DEF A
  <2>3. QED
    BY <2>1, <2>2 DEF Owners
<1> HIDE DEF S
<1>4. CASE host[h] = Closed
  <2>1. h \notin left /\ \A y \in S : y.fd # h
    BY <1>1, <1>4 DEF Sole
  <2>2. O = {}
    BY <2>1
  <2>3. QED
    BY <1>3, <1>4, <2>2, FS_EmptySet
<1>5. CASE host[h] # Closed /\ h \in left
  <2>1. \A y \in S : y.fd # h
    BY <1>1, <1>5 DEF Sole
  <2>2. O = {[kind |-> "left", at |-> 0]}
    BY <1>5, <2>1
  <2> DEFINE o == [kind |-> "left", at |-> 0]
  <2> HIDE DEF o, O
  <2>3. O = {o}
    BY <2>2 DEF o
  <2>4. Cardinality(O) = 1
    BY <2>3, FS_Singleton
  <2>5. QED
    BY <1>3, <1>5, <2>4 DEF O
<1>6. CASE host[h] # Closed /\ h \notin left
  <2>1. PICK x \in S : x.fd = h
    BY <1>1, <1>6 DEF Sole
  <2>2. {y \in S : y.fd = h} = {x}
    BY <1>1, <2>1 DEF Sole
  <2> DEFINE o == AsOwner(x)
  <2>3. O = {o}
    BY <1>6, <2>2
  <2> HIDE DEF o, O
  <2>4. Cardinality(O) = 1
    BY <2>3, FS_Singleton
  <2>5. QED
    BY <1>3, <1>6, <2>4 DEF O
<1>7. QED
  BY <1>4, <1>5, <1>6

\* A call on a path acts on the node the guest named.
THEOREM CallsOnMeant == Regular => (Spec => []ActsOnMeant)
<1>1. IInv => ActsOnMeant
  BY DEF IInv
<1>2. QED
  BY <1>1, Inductive, PTL

\* _cwd names the directory the guest is in.
THEOREM CwdStays == Regular => (Spec => []CwdFaithful)
<1>1. IInv => CwdFaithful
  BY CwdFound
<1>2. QED
  BY <1>1, Inductive, PTL

\* A descriptor or a handle is open on what was put there, or closed.
THEOREM EntriesStay == Regular => (Spec => []EntryFaithful)
<1>1. IInv => EntryFaithful
  BY EntriesMeant
<1>2. QED
  BY <1>1, Inductive, PTL

\* A host descriptor above stdio that is open has one owner.
THEOREM HostFdsStay == Regular => (Spec => []HostFdsOwned)
<1>1. IInv => HostFdsOwned
  BY OneOwner
<1>2. QED
  BY <1>1, Inductive, PTL
=============================================================================
