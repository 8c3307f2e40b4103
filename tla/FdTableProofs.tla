---------------------------- MODULE FdTableProofs ----------------------------
(***************************************************************************)
(* That the tables of any number of contexts share the host's descriptors  *)
(* without loss: each open one has one owner, and each descriptor of a     *)
(* guest is what the guest put there.  Two things are assumed, as in the   *)
(* runs: guests do not dup2 onto 0, 1 or 2 (News), and the host always has *)
(* a descriptor left (HostHasRoom), since a dup2 that fails half way       *)
(* leaves its entry behind.                                                *)
(***************************************************************************)
EXTENDS FdTable, FiniteSetTheorems, TLAPS

HostHasRoom == \E h \in HostFd : ~IsOpen(h)

StdioStays == News \cap Stdio = {}

-----------------------------------------------------------------------------
(* The invariant *)

\* Host descriptors that are not stdio.
Above == HostFd \ Stdio

PCs == {"none", "run", "undo", "dup2", "destroy", "gone"}
Threads == [pc : PCs, hs : SUBSET HostFd, old : Fd \cup {UNUSED}, new : Fd \cup {UNUSED}]

\* The places that may hold a host descriptor, and whether one does.
FdPlace(c, fd) == [ctx |-> c, kind |-> "fd", at |-> fd]
DirPlace(c, d) == [ctx |-> c, kind |-> "dir", at |-> d]
CallPlace(c) == [ctx |-> c, kind |-> "call", at |-> 0]

Places == [ctx : Ctx, kind : {"fd"}, at : Fd] \cup [ctx : Ctx, kind : {"dir"}, at : Handle]
            \cup [ctx : Ctx, kind : {"call"}, at : {0}]

Holds(o, h) ==
  \/ o.kind = "fd" /\ fds[o.ctx][o.at] = h /\ ~Closing(o.ctx, o.at)
  \/ o.kind = "dir" /\ dirs[o.ctx][o.at] = h
  \/ o.kind = "call" /\ h \in thr[o.ctx].hs

Sole ==
  \A h \in Above :
    /\ IsOpen(h) <=> \E o \in Places : Holds(o, h)
    /\ \A o, p \in Places : Holds(o, h) /\ Holds(p, h) => o = p

StdioOpen == \A h \in Stdio : host[h] = OnStdio(h)

\* What a table and the call of its thread look like.
Shaped(c) ==
  /\ \A fd \in Stdio : fds[c][fd] \in {UNUSED, fd}
  /\ thr[c].pc \in {"run", "undo", "dup2", "destroy"} => \A fd \in Stdio : fds[c][fd] = fd
  /\ \A fd \in Fd \ Stdio : fds[c][fd] \in {UNUSED} \cup Above
  /\ \A d \in Handle : dirs[c][d] \in {UNUSED} \cup Above
  /\ thr[c].hs \subseteq Above /\ (thr[c].pc # "undo" => thr[c].hs = {})
  /\ thr[c].pc = "none" => \A fd \in Fd : fds[c][fd] = UNUSED
  /\ thr[c].pc = "dup2" =>
       /\ thr[c].old \in Fd /\ thr[c].new \in Fd \ Stdio
       /\ thr[c].old # thr[c].new /\ Used(c, thr[c].old)

Faithful(c) ==
  thr[c].pc \in {"run", "undo", "dup2"} =>
    \A fd \in Fd : ~Closing(c, fd) =>
      IF Used(c, fd) THEN host[fds[c][fd]] = meant[c][fd] ELSE meant[c][fd] = "closed"

Inv ==
  /\ TypeOK /\ StdioOpen /\ Sole
  /\ \A c \in Ctx : Shaped(c) /\ Faithful(c)

-----------------------------------------------------------------------------
(* Places *)

LEMMA PlacesAre ==
  /\ \A c \in Ctx, fd \in Fd : FdPlace(c, fd) \in Places
  /\ \A c \in Ctx, d \in Handle : DirPlace(c, d) \in Places
  /\ \A c \in Ctx : CallPlace(c) \in Places
  /\ \A o \in Places :
       \/ \E c \in Ctx, fd \in Fd : o = FdPlace(c, fd)
       \/ \E c \in Ctx, d \in Handle : o = DirPlace(c, d)
       \/ \E c \in Ctx : o = CallPlace(c)
BY DEF Places, FdPlace, DirPlace, CallPlace

LEMMA PlacesDiffer ==
  /\ \A c, d, i, j : FdPlace(c, i) = FdPlace(d, j) <=> c = d /\ i = j
  /\ \A c, d, i, j : DirPlace(c, i) = DirPlace(d, j) <=> c = d /\ i = j
  /\ \A c, d : CallPlace(c) = CallPlace(d) <=> c = d
  /\ \A c, d, i, j : FdPlace(c, i) # DirPlace(d, j)
  /\ \A c, d, i : FdPlace(c, i) # CallPlace(d)
  /\ \A c, d, i : DirPlace(c, i) # CallPlace(d)
BY DEF FdPlace, DirPlace, CallPlace

LEMMA HoldsAt ==
  /\ \A c, fd, h : Holds(FdPlace(c, fd), h) <=> fds[c][fd] = h /\ ~Closing(c, fd)
  /\ \A c, d, h : Holds(DirPlace(c, d), h) <=> dirs[c][d] = h
  /\ \A c, h : Holds(CallPlace(c), h) <=> h \in thr[c].hs
BY DEF Holds, FdPlace, DirPlace, CallPlace

LEMMA HoldsAtNext ==
  /\ \A c, fd, h : Holds(FdPlace(c, fd), h)' <=> fds'[c][fd] = h /\ ~Closing(c, fd)'
  /\ \A c, d, h : Holds(DirPlace(c, d), h)' <=> dirs'[c][d] = h
  /\ \A c, h : Holds(CallPlace(c), h)' <=> h \in thr'[c].hs
BY DEF Holds, FdPlace, DirPlace, CallPlace

LEMMA OwnersAre ==
  ASSUME NEW h PROVE Owners(h) = {o \in Places : Holds(o, h)}
<1>1. ASSUME NEW o PROVE o \in Owners(h) <=> o \in Places /\ Holds(o, h)
  BY DEF Owners, Places, Holds
<1> QED
  BY <1>1

LEMMA SoleOwners == Sole => HostFdsOwned
<1> SUFFICES ASSUME Sole, NEW h \in Above
             PROVE  Cardinality(Owners(h)) = IF IsOpen(h) THEN 1 ELSE 0
  BY DEF HostFdsOwned, Above
<1>1. CASE IsOpen(h)
  <2>1. PICK o \in Places : Holds(o, h)
    BY <1>1 DEF Sole
  <2>2. Owners(h) = {o}
    BY <2>1, OwnersAre DEF Sole
  <2> QED
    BY <1>1, <2>2, FS_Singleton
<1>2. CASE ~IsOpen(h)
  <2>1. Owners(h) = {}
    BY <1>2, OwnersAre DEF Sole
  <2> QED
    BY <1>2, <2>1, FS_EmptySet
<1> QED
  BY <1>1, <1>2

-----------------------------------------------------------------------------
(* What becomes of the owners *)

OpenAsBefore(hs) == \A g \in Above \ hs : IsOpen(g)' <=> IsOpen(g)

LEMMA SoleStays ==
  ASSUME Sole, OpenAsBefore({}),
         \A g \in Above, p \in Places : Holds(p, g)' <=> Holds(p, g)
  PROVE  Sole'
BY DEF Sole, OpenAsBefore

LEMMA SoleGains ==
  ASSUME Sole, NEW H \in SUBSET Above, NEW o \in Places,
         \A h \in H : ~IsOpen(h) /\ IsOpen(h)', OpenAsBefore(H),
         \A g \in Above, p \in Places : Holds(p, g)' <=> Holds(p, g) \/ (g \in H /\ p = o)
  PROVE  Sole'
BY DEF Sole, OpenAsBefore

LEMMA SoleGainsTwo ==
  ASSUME Sole, NEW h \in Above, NEW i \in Above, h # i, NEW o \in Places, NEW q \in Places,
         ~IsOpen(h), ~IsOpen(i), IsOpen(h)', IsOpen(i)', OpenAsBefore({h, i}),
         \A g \in Above, p \in Places :
           Holds(p, g)' <=> Holds(p, g) \/ (g = h /\ p = o) \/ (g = i /\ p = q)
  PROVE  Sole'
BY DEF Sole, OpenAsBefore

LEMMA SoleLoses ==
  ASSUME Sole, NEW h \in Above, NEW o \in Places, Holds(o, h), ~IsOpen(h)', OpenAsBefore({h}),
         \A g \in Above, p \in Places : Holds(p, g)' <=> Holds(p, g) /\ ~(g = h /\ p = o)
  PROVE  Sole'
BY DEF Sole, OpenAsBefore

-----------------------------------------------------------------------------
(* What the parts of an action do                                          *)

\* Tables and threads of the other contexts stay as they are.
Local(c) ==
  \A b \in Ctx \ {c} :
    fds'[b] = fds[b] /\ dirs'[b] = dirs[b] /\ meant'[b] = meant[b] /\ thr'[b] = thr[b]

\* The host's descriptors outside H stay as they are.
HostOutside(H) == \A g \in HostFd \ H : host'[g] = host[g]

LEMMA TypesAre ==
  TypeOK <=> /\ fds \in [Ctx -> [Fd -> HostFd \cup {UNUSED}]]
             /\ dirs \in [Ctx -> [Handle -> HostFd \cup {UNUSED}]]
             /\ host \in [HostFd -> OpenFile \cup {"closed"}]
             /\ meant \in [Ctx -> [Fd -> OpenFile \cup {"closed"}]]
             /\ thr \in [Ctx -> Threads]
BY DEF TypeOK, Threads, PCs

LEMMA TypesAt ==
  ASSUME TypeOK, NEW c \in Ctx
  PROVE  /\ \A fd \in Fd : /\ fds[c][fd] \in HostFd \cup {UNUSED}
                           /\ Used(c, fd) <=> fds[c][fd] \in HostFd
                           /\ meant[c][fd] \in OpenFile \cup {"closed"}
         /\ \A d \in Handle : dirs[c][d] \in HostFd \cup {UNUSED}
         /\ thr[c].pc \in PCs /\ thr[c].hs \in SUBSET HostFd
         /\ \A h \in HostFd : h >= 0
         /\ UNUSED \notin HostFd
BY FdAssumption DEF TypeOK, Used, HostFd, UNUSED, PCs

LEMMA StdioIs ==
  /\ Stdio \subseteq HostFd /\ Stdio \subseteq Fd
  /\ \A h \in Stdio : OnStdio(h) \in OpenFile
  /\ "closed" \notin OpenFile
<1>1. Stdio = {0, 1, 2}
  BY DEF Stdio
<1>2. Stdio \subseteq HostFd /\ Stdio \subseteq Fd
  BY <1>1, FdAssumption DEF HostFd, Fd
<1>3. \A h \in Stdio : OnStdio(h) \in {Terminal[1], Terminal[2], Terminal[3]}
  BY <1>1 DEF OnStdio
<1>4. "closed" \notin OpenFile
  BY FdAssumption DEF OpenFile, Terminal
<1> QED
  BY <1>2, <1>3, <1>4 DEF OpenFile

LEMMA ThreadIs ==
  ASSUME NEW pc \in PCs, NEW hs \in SUBSET HostFd,
         NEW old \in Fd \cup {UNUSED}, NEW new \in Fd \cup {UNUSED}
  PROVE  LET t == Thread(pc, hs, old, new)
         IN  t \in Threads /\ t.pc = pc /\ t.hs = hs /\ t.old = old /\ t.new = new
BY DEF Thread, Threads

LEMMA AtIs ==
  ASSUME NEW pc \in PCs
  PROVE  At(pc) \in Threads /\ At(pc).pc = pc /\ At(pc).hs = {}
BY ThreadIs DEF At

LEMMA Goes ==
  ASSUME TypeOK, NEW c \in Ctx, NEW t \in Threads, Goto(c, t)
  PROVE  thr' \in [Ctx -> Threads] /\ thr'[c] = t /\ \A b \in Ctx \ {c} : thr'[b] = thr[b]
BY TypesAre DEF Goto

LEMMA SetsEntry ==
  ASSUME TypeOK, NEW c \in Ctx, NEW fd \in Fd, NEW h \in HostFd \cup {UNUSED},
         fds' = [fds EXCEPT ![c][fd] = h]
  PROVE  /\ fds' \in [Ctx -> [Fd -> HostFd \cup {UNUSED}]]
         /\ \A b \in Ctx \ {c} : fds'[b] = fds[b]
         /\ fds'[c][fd] = h /\ \A i \in Fd \ {fd} : fds'[c][i] = fds[c][i]
BY DEF TypeOK

LEMMA SetsMeant ==
  ASSUME TypeOK, NEW c \in Ctx, NEW fd \in Fd, NEW f \in OpenFile \cup {"closed"},
         meant' = [meant EXCEPT ![c][fd] = f]
  PROVE  /\ meant' \in [Ctx -> [Fd -> OpenFile \cup {"closed"}]]
         /\ \A b \in Ctx \ {c} : meant'[b] = meant[b]
         /\ meant'[c][fd] = f /\ \A i \in Fd \ {fd} : meant'[c][i] = meant[c][i]
BY DEF TypeOK

LEMMA SetsDir ==
  ASSUME TypeOK, NEW c \in Ctx, NEW d \in Handle, NEW h \in HostFd \cup {UNUSED},
         dirs' = [dirs EXCEPT ![c][d] = h]
  PROVE  /\ dirs' \in [Ctx -> [Handle -> HostFd \cup {UNUSED}]]
         /\ \A b \in Ctx \ {c} : dirs'[b] = dirs[b]
         /\ dirs'[c][d] = h /\ \A e \in Handle \ {d} : dirs'[c][e] = dirs[c][e]
BY DEF TypeOK

LEMMA SetsHost ==
  ASSUME TypeOK, NEW h \in HostFd, NEW f \in OpenFile \cup {"closed"},
         host' = [host EXCEPT ![h] = f]
  PROVE  /\ host' \in [HostFd -> OpenFile \cup {"closed"}]
         /\ host'[h] = f /\ HostOutside({h})
BY DEF TypeOK, HostOutside

LEMMA ClosedIsAbove ==
  ASSUME StdioOpen, NEW h \in HostFd, ~IsOpen(h) PROVE h \in Above
BY StdioIs DEF StdioOpen, IsOpen, Above

\* A context whose entries still hold what they held is as it was.
LEMMA OthersStay ==
  ASSUME Inv, NEW c \in Ctx, Local(c),
         \A b \in Ctx \ {c} : thr[b].pc \in {"run", "undo", "dup2"} =>
           \A fd \in Fd : Used(b, fd) /\ ~Closing(b, fd) => host'[fds[b][fd]] = host[fds[b][fd]]
  PROVE  \A b \in Ctx \ {c} : Shaped(b)' /\ Faithful(b)'
<1> SUFFICES ASSUME NEW b \in Ctx \ {c} PROVE Shaped(b)' /\ Faithful(b)'
  OBVIOUS
<1>1. Shaped(b) /\ Faithful(b)
  BY DEF Inv
<1>2. fds'[b] = fds[b] /\ dirs'[b] = dirs[b] /\ meant'[b] = meant[b] /\ thr'[b] = thr[b]
  BY DEF Local
<1>3. Shaped(b)'
  BY <1>1, <1>2 DEF Shaped, Used
<1>4. Faithful(b)'
  BY <1>1, <1>2 DEF Faithful, Used, Closing
<1> QED
  BY <1>3, <1>4

\* A host descriptor that was closed is in no table.
LEMMA KeptByOpening ==
  ASSUME Inv, NEW H \in SUBSET Above, \A h \in H : ~IsOpen(h), HostOutside(H),
         NEW b \in Ctx, NEW fd \in Fd, Used(b, fd), ~Closing(b, fd)
  PROVE  host'[fds[b][fd]] = host[fds[b][fd]]
<1>1. fds[b][fd] \in HostFd
  BY TypesAt DEF Inv
<1>2. CASE fds[b][fd] \in Above
  <2>1. Holds(FdPlace(b, fd), fds[b][fd]) /\ FdPlace(b, fd) \in Places
    BY HoldsAt, PlacesAre
  <2>2. fds[b][fd] \notin H
    BY <1>2, <2>1 DEF Inv, Sole
  <2> QED
    BY <1>1, <2>2 DEF HostOutside
<1>3. CASE fds[b][fd] \notin Above
  BY <1>1, <1>3 DEF HostOutside
<1> QED
  BY <1>2, <1>3

\* One that is closed was in its owner's place only.
LEMMA KeptByClosing ==
  ASSUME Inv, NEW h \in Above, NEW o \in Places, Holds(o, h), HostOutside({h}),
         NEW b \in Ctx, NEW fd \in Fd, Used(b, fd), ~Closing(b, fd), FdPlace(b, fd) # o
  PROVE  host'[fds[b][fd]] = host[fds[b][fd]]
<1>1. fds[b][fd] \in HostFd
  BY TypesAt DEF Inv
<1>2. FdPlace(b, fd) \in Places /\ Holds(FdPlace(b, fd), fds[b][fd])
  BY HoldsAt, PlacesAre
<1>3. fds[b][fd] # h
  BY <1>2 DEF Inv, Sole
<1> QED
  BY <1>1, <1>3 DEF HostOutside

\* Above stdio nothing changes what stdio is open on.
LEMMA StdioStaysOpen ==
  ASSUME StdioOpen, NEW H \in SUBSET Above, HostOutside(H) PROVE StdioOpen'
BY StdioIs DEF StdioOpen, HostOutside, Above, OnStdio

LEMMA InvNext ==
  ASSUME NEW c \in Ctx, TypeOK', StdioOpen', Sole', Shaped(c)', Faithful(c)',
         \A b \in Ctx \ {c} : Shaped(b)' /\ Faithful(b)'
  PROVE  Inv'
BY DEF Inv

-----------------------------------------------------------------------------
(* A place gains a host descriptor, or loses it                            *)

\* Entry fd of a running context, or the one that dup2 has closed, gets a new
\* host descriptor.
LEMMA EntryGains ==
  ASSUME Inv, NEW c \in Ctx, NEW fd \in Fd \ Stdio, NEW h \in HostFd, NEW f \in OpenFile,
         ~IsOpen(h), host' = [host EXCEPT ![h] = f], Put(c, fd, h, f), dirs' = dirs,
         \/ thr[c].pc = "run" /\ ~Used(c, fd) /\ thr' = thr
         \/ thr[c].pc = "dup2" /\ thr[c].new = fd /\ Goto(c, At("run"))
  PROVE  Inv'
<1>1. TypeOK /\ StdioOpen /\ Sole /\ Shaped(c) /\ Faithful(c)
  BY DEF Inv
<1>2. h \in Above
  BY <1>1, ClosedIsAbove
<1>3. host' \in [HostFd -> OpenFile \cup {"closed"}] /\ host'[h] = f /\ HostOutside({h})
  BY <1>1, SetsHost
<1>4. /\ fds' \in [Ctx -> [Fd -> HostFd \cup {UNUSED}]]
      /\ \A b \in Ctx \ {c} : fds'[b] = fds[b]
      /\ fds'[c][fd] = h /\ \A i \in Fd \ {fd} : fds'[c][i] = fds[c][i]
  BY <1>1, SetsEntry DEF Put
<1>5. /\ meant' \in [Ctx -> [Fd -> OpenFile \cup {"closed"}]]
      /\ \A b \in Ctx \ {c} : meant'[b] = meant[b]
      /\ meant'[c][fd] = f /\ \A i \in Fd \ {fd} : meant'[c][i] = meant[c][i]
  BY <1>1, SetsMeant DEF Put
<1>6. "run" \in PCs
  BY DEF PCs
<1>7. /\ thr' \in [Ctx -> Threads] /\ \A b \in Ctx \ {c} : thr'[b] = thr[b]
      /\ thr'[c].pc = "run" /\ thr'[c].hs = {}
  <2>1. CASE thr[c].pc = "run" /\ thr' = thr
    BY <1>1, <2>1, TypesAre DEF Shaped
  <2>2. CASE Goto(c, At("run"))
    BY <1>1, <1>6, <2>2, AtIs, Goes
  <2> QED
    BY <2>1, <2>2
<1>8. Local(c)
  BY <1>4, <1>5, <1>7 DEF Local
<1>9. TypeOK'
  BY <1>1, <1>3, <1>4, <1>5, <1>7, TypesAre DEF TypeOK, Threads, PCs
<1>10. ~IsOpen(h) /\ IsOpen(h)' /\ OpenAsBefore({h})
  BY <1>3, StdioIs DEF IsOpen, HostOutside, OpenAsBefore, Above
<1>11. \A g \in Above, p \in Places :
         Holds(p, g)' <=> Holds(p, g) \/ (g = h /\ p = FdPlace(c, fd))
  <2> SUFFICES ASSUME NEW g \in Above, NEW p \in Places
               PROVE  Holds(p, g)' <=> Holds(p, g) \/ (g = h /\ p = FdPlace(c, fd))
    OBVIOUS
  <2>0. ~Holds(FdPlace(c, fd), g)
    BY HoldsAt DEF Used, Closing, Above, HostFd
  <2>1. CASE \E b \in Ctx, i \in Fd : p = FdPlace(b, i)
    <3>1. PICK b \in Ctx, i \in Fd : p = FdPlace(b, i)
      BY <2>1
    <3>2. CASE b = c /\ i = fd
      BY <1>4, <1>7, <2>0, <3>1, <3>2, HoldsAtNext DEF Closing
    <3>3. CASE b = c /\ i # fd
      <4>1. ~Closing(c, i) /\ ~Closing(c, i)'
        BY <1>7, <3>3 DEF Closing
      <4> QED
        BY <1>4, <3>1, <3>3, <4>1, HoldsAt, HoldsAtNext, PlacesDiffer
    <3>4. CASE b # c
      BY <1>4, <1>7, <3>1, <3>4, HoldsAt, HoldsAtNext, PlacesDiffer DEF Closing
    <3> QED
      BY <3>2, <3>3, <3>4
  <2>2. CASE \E b \in Ctx, d \in Handle : p = DirPlace(b, d)
    BY <2>2, HoldsAt, HoldsAtNext, PlacesDiffer
  <2>3. CASE \E b \in Ctx : p = CallPlace(b)
    <3>1. thr[c].hs = {}
      BY <1>1 DEF Shaped
    <3> QED
      BY <1>7, <2>3, <3>1, HoldsAt, HoldsAtNext, PlacesDiffer
  <2> QED
    BY <2>1, <2>2, <2>3, PlacesAre
<1>12. Sole'
  <2>1. FdPlace(c, fd) \in Places
    BY PlacesAre
  <2> QED
    BY <1>1, <1>2, <1>10, <1>11, <2>1, SoleGains
<1>13. StdioOpen'
  BY <1>1, <1>2, <1>3, StdioStaysOpen
<1>14. Shaped(c)'
  BY <1>1, <1>2, <1>4, <1>7, StdioIs DEF Shaped, Inv
<1>15. Faithful(c)'
  <2> SUFFICES ASSUME NEW i \in Fd
               PROVE  IF Used(c, i)' THEN host'[fds'[c][i]] = meant'[c][i] ELSE meant'[c][i] = "closed"
    BY DEF Faithful
  <2>1. CASE i = fd
    <3>1. Used(c, fd)'
      BY <1>4, <1>1, TypesAt DEF Used, HostFd
    <3> QED
      BY <1>3, <1>4, <1>5, <2>1, <3>1
  <2>2. CASE i # fd
    <3>1. ~Closing(c, i)
      BY <2>2 DEF Closing
    <3>2. Used(c, i)' <=> Used(c, i)
      BY <1>4, <2>2 DEF Used
    <3>3. Used(c, i) => host'[fds[c][i]] = host[fds[c][i]]
      BY <1>2, <1>3, <3>1, KeptByOpening
    <3> QED
      BY <1>1, <1>4, <1>5, <2>2, <3>1, <3>2, <3>3 DEF Faithful
  <2> QED
    BY <2>1, <2>2
<1>16. \A b \in Ctx \ {c} : Shaped(b)' /\ Faithful(b)'
  BY <1>2, <1>3, <1>8, KeptByOpening, OthersStay
<1> QED
  BY <1>9, <1>12, <1>13, <1>14, <1>15, <1>16, InvNext

\* What a call was given without a place for it, it is to give back.
LEMMA CallGains ==
  ASSUME Inv, NEW c \in Ctx, NEW H \in SUBSET HostFd, thr[c].pc = "run",
         \A h \in H : ~IsOpen(h) /\ host'[h] \in OpenFile,
         host' \in [HostFd -> OpenFile \cup {"closed"}], HostOutside(H),
         GiveBack(c, H), UNCHANGED <<fds, dirs, meant>>
  PROVE  Inv'
<1>1. TypeOK /\ StdioOpen /\ Sole /\ Shaped(c) /\ Faithful(c)
  BY DEF Inv
<1>2. H \in SUBSET Above
  BY <1>1, ClosedIsAbove
<1>3. fds' = fds /\ dirs' = dirs /\ meant' = meant
  OBVIOUS
<1>4. /\ thr' \in [Ctx -> Threads] /\ \A b \in Ctx \ {c} : thr'[b] = thr[b]
      /\ thr'[c].pc = "undo" /\ thr'[c].hs = H
  BY <1>1, ThreadIs, Goes DEF GiveBack, PCs
<1>5. Local(c)
  BY <1>3, <1>4 DEF Local
<1>6. TypeOK'
  BY <1>1, <1>3, <1>4, TypesAre DEF TypeOK, Threads, PCs
<1>7. (\A h \in H : ~IsOpen(h) /\ IsOpen(h)') /\ OpenAsBefore(H)
  BY StdioIs DEF IsOpen, HostOutside, OpenAsBefore, Above
<1>8. \A g \in Above, p \in Places :
        Holds(p, g)' <=> Holds(p, g) \/ (g \in H /\ p = CallPlace(c))
  <2> SUFFICES ASSUME NEW g \in Above, NEW p \in Places
               PROVE  Holds(p, g)' <=> Holds(p, g) \/ (g \in H /\ p = CallPlace(c))
    OBVIOUS
  <2>1. CASE \E b \in Ctx, i \in Fd : p = FdPlace(b, i)
    <3>1. PICK b \in Ctx, i \in Fd : p = FdPlace(b, i)
      BY <2>1
    <3>2. Closing(b, i)' <=> Closing(b, i)
      BY <1>4 DEF Closing
    <3> QED
      BY <1>3, <3>1, <3>2, HoldsAt, HoldsAtNext, PlacesDiffer
  <2>2. CASE \E b \in Ctx, d \in Handle : p = DirPlace(b, d)
    BY <1>3, <2>2, HoldsAt, HoldsAtNext, PlacesDiffer
  <2>3. CASE \E b \in Ctx : p = CallPlace(b)
    <3>1. thr[c].hs = {}
      BY <1>1 DEF Shaped
    <3> QED
      BY <1>4, <2>3, <3>1, HoldsAt, HoldsAtNext, PlacesDiffer
  <2> QED
    BY <2>1, <2>2, <2>3, PlacesAre
<1>9. Sole'
  <2>1. CallPlace(c) \in Places
    BY PlacesAre
  <2> QED
    BY <1>1, <1>2, <1>7, <1>8, <2>1, SoleGains
<1>10. StdioOpen'
  BY <1>1, <1>2, StdioStaysOpen
<1>11. Shaped(c)'
  BY <1>1, <1>2, <1>3, <1>4 DEF Shaped
<1>12. Faithful(c)'
  <2> SUFFICES ASSUME NEW i \in Fd
               PROVE  IF Used(c, i) THEN host'[fds[c][i]] = meant[c][i] ELSE meant[c][i] = "closed"
    BY <1>3 DEF Faithful, Used
  <2>1. ~Closing(c, i)
    BY DEF Closing
  <2>2. Used(c, i) => host'[fds[c][i]] = host[fds[c][i]]
    BY <1>2, <2>1, KeptByOpening
  <2> QED
    BY <1>1, <2>1, <2>2 DEF Faithful
<1>13. \A b \in Ctx \ {c} : Shaped(b)' /\ Faithful(b)'
  BY <1>2, <1>5, KeptByOpening, OthersStay
<1> QED
  BY <1>6, <1>9, <1>10, <1>11, <1>12, <1>13, InvNext

LEMMA DirGains ==
  ASSUME Inv, NEW c \in Ctx, NEW d \in Handle, NEW h \in HostFd, NEW f \in OpenFile,
         thr[c].pc = "run", ~IsOpen(h), host' = [host EXCEPT ![h] = f],
         dirs[c][d] = UNUSED, dirs' = [dirs EXCEPT ![c][d] = h],
         UNCHANGED <<fds, meant, thr>>
  PROVE  Inv'
<1>1. TypeOK /\ StdioOpen /\ Sole /\ Shaped(c) /\ Faithful(c)
  BY DEF Inv
<1>2. h \in Above
  BY <1>1, ClosedIsAbove
<1>3. host' \in [HostFd -> OpenFile \cup {"closed"}] /\ host'[h] = f /\ HostOutside({h})
  BY <1>1, SetsHost
<1>4. fds' = fds /\ meant' = meant /\ thr' = thr
  OBVIOUS
<1>5. /\ dirs' \in [Ctx -> [Handle -> HostFd \cup {UNUSED}]]
      /\ \A b \in Ctx \ {c} : dirs'[b] = dirs[b]
      /\ dirs'[c][d] = h /\ \A e \in Handle \ {d} : dirs'[c][e] = dirs[c][e]
  BY <1>1, SetsDir
<1>6. Local(c)
  BY <1>4, <1>5 DEF Local
<1>7. TypeOK'
  BY <1>1, <1>3, <1>4, <1>5, TypesAre DEF TypeOK, Threads, PCs
<1>8. ~IsOpen(h) /\ IsOpen(h)' /\ OpenAsBefore({h})
  BY <1>3, StdioIs DEF IsOpen, HostOutside, OpenAsBefore, Above
<1>9. \A g \in Above, p \in Places :
        Holds(p, g)' <=> Holds(p, g) \/ (g = h /\ p = DirPlace(c, d))
  <2> SUFFICES ASSUME NEW g \in Above, NEW p \in Places
               PROVE  Holds(p, g)' <=> Holds(p, g) \/ (g = h /\ p = DirPlace(c, d))
    OBVIOUS
  <2>0. g # UNUSED
    BY <1>1, TypesAt DEF Above
  <2>1. CASE \E b \in Ctx, i \in Fd : p = FdPlace(b, i)
    BY <1>4, <2>1, HoldsAt, HoldsAtNext, PlacesDiffer DEF Closing
  <2>2. CASE \E b \in Ctx, e \in Handle : p = DirPlace(b, e)
    <3>1. PICK b \in Ctx, e \in Handle : p = DirPlace(b, e)
      BY <2>2
    <3> QED
      BY <1>5, <2>0, <3>1, HoldsAt, HoldsAtNext, PlacesDiffer
  <2>3. CASE \E b \in Ctx : p = CallPlace(b)
    BY <1>4, <2>3, HoldsAt, HoldsAtNext, PlacesDiffer
  <2> QED
    BY <2>1, <2>2, <2>3, PlacesAre
<1>10. Sole'
  <2>1. DirPlace(c, d) \in Places
    BY PlacesAre
  <2> QED
    BY <1>1, <1>2, <1>8, <1>9, <2>1, SoleGains
<1>11. StdioOpen'
  BY <1>1, <1>2, <1>3, StdioStaysOpen
<1>12. Shaped(c)'
  BY <1>1, <1>2, <1>4, <1>5 DEF Shaped, Used
<1>13. Faithful(c)'
  <2> SUFFICES ASSUME NEW i \in Fd
               PROVE  IF Used(c, i) THEN host'[fds[c][i]] = meant[c][i] ELSE meant[c][i] = "closed"
    BY <1>4 DEF Faithful, Used
  <2>1. ~Closing(c, i)
    BY DEF Closing
  <2>2. Used(c, i) => host'[fds[c][i]] = host[fds[c][i]]
    BY <1>2, <1>3, <1>8, <2>1, KeptByOpening
  <2> QED
    BY <1>1, <2>1, <2>2 DEF Faithful
<1>14. \A b \in Ctx \ {c} : Shaped(b)' /\ Faithful(b)'
  BY <1>2, <1>3, <1>6, <1>8, KeptByOpening, OthersStay
<1> QED
  BY <1>7, <1>10, <1>11, <1>12, <1>13, <1>14, InvNext

\* Close and the loop of exec_ctx_destroy close an entry; dup2 closes it and
\* sets it later.
LEMMA EntryLoses ==
  ASSUME Inv, NEW c \in Ctx, NEW fd \in Fd \ Stdio, NEW h \in HostFd,
         fds[c][fd] = h, HostClose(h), dirs' = dirs,
         \/ /\ thr[c].pc \in {"run", "destroy"} /\ thr' = thr
            /\ fds' = [fds EXCEPT ![c][fd] = UNUSED]
            /\ \/ thr[c].pc = "run" /\ meant' = [meant EXCEPT ![c][fd] = "closed"]
               \/ thr[c].pc = "destroy" /\ meant' = meant
         \/ /\ thr[c].pc = "run" /\ fds' = fds /\ meant' = meant
            /\ \E old \in Fd : /\ old # fd /\ Used(c, old)
                               /\ Goto(c, Thread("dup2", {}, old, fd))
  PROVE  Inv'
<1>1. TypeOK /\ StdioOpen /\ Sole /\ Shaped(c) /\ Faithful(c)
  BY DEF Inv
<1>2. h \in Above /\ h # UNUSED
  <2>1. UNUSED \notin HostFd
    BY <1>1, TypesAt
  <2>2. h \in {UNUSED} \cup Above
    BY <1>1 DEF Shaped
  <2> QED
    BY <2>1, <2>2
<1>3. host' \in [HostFd -> OpenFile \cup {"closed"}] /\ host'[h] = "closed" /\ HostOutside({h})
  BY <1>1, <1>2, SetsHost DEF HostClose
<1>4. /\ fds' \in [Ctx -> [Fd -> HostFd \cup {UNUSED}]]
      /\ \A b \in Ctx \ {c} : fds'[b] = fds[b]
      /\ \A i \in Fd \ {fd} : fds'[c][i] = fds[c][i]
  <2>1. CASE fds' = [fds EXCEPT ![c][fd] = UNUSED]
    BY <1>1, <2>1, SetsEntry
  <2>2. CASE fds' = fds
    BY <1>1, <2>2, TypesAre
  <2> QED
    BY <2>1, <2>2
<1>5. /\ meant' \in [Ctx -> [Fd -> OpenFile \cup {"closed"}]]
      /\ \A b \in Ctx \ {c} : meant'[b] = meant[b]
      /\ \A i \in Fd \ {fd} : meant'[c][i] = meant[c][i]
  <2>1. CASE meant' = [meant EXCEPT ![c][fd] = "closed"]
    BY <1>1, <2>1, SetsMeant
  <2>2. CASE meant' = meant
    BY <1>1, <2>2, TypesAre
  <2> QED
    BY <2>1, <2>2
<1>6. /\ thr' \in [Ctx -> Threads] /\ \A b \in Ctx \ {c} : thr'[b] = thr[b]
      /\ thr'[c].hs = {}
      /\ \/ /\ thr[c].pc \in {"run", "destroy"} /\ thr'[c] = thr[c] /\ fds'[c][fd] = UNUSED
            /\ thr[c].pc = "run" => meant'[c][fd] = "closed"
         \/ /\ thr'[c].pc = "dup2" /\ thr'[c].new = fd /\ thr'[c].old \in Fd
            /\ thr'[c].old # fd /\ Used(c, thr'[c].old) /\ fds' = fds
  <2>1. CASE /\ thr[c].pc \in {"run", "destroy"} /\ thr' = thr
             /\ fds' = [fds EXCEPT ![c][fd] = UNUSED]
             /\ \/ thr[c].pc = "run" /\ meant' = [meant EXCEPT ![c][fd] = "closed"]
                \/ thr[c].pc = "destroy" /\ meant' = meant
    <3>1. fds'[c][fd] = UNUSED
      BY <1>1, <2>1, SetsEntry
    <3>2. thr[c].pc = "run" => meant'[c][fd] = "closed"
      BY <1>1, <2>1, SetsMeant
    <3> QED
      BY <1>1, <2>1, <3>1, <3>2, TypesAre DEF Shaped
  <2>2. CASE \E old \in Fd : /\ old # fd /\ Used(c, old)
                             /\ Goto(c, Thread("dup2", {}, old, fd))
    <3>1. PICK old \in Fd : old # fd /\ Used(c, old) /\ Goto(c, Thread("dup2", {}, old, fd))
      BY <2>2
    <3>2. "dup2" \in PCs
      BY DEF PCs
    <3>3. fds' = fds
      <4>1. thr'[c] = Thread("dup2", {}, old, fd)
        BY <1>1, <3>1, <3>2, ThreadIs, Goes
      <4>2. thr'[c].pc = "dup2"
        BY <3>2, <4>1, ThreadIs
      <4> QED
        BY <4>2
    <3> QED
      BY <1>1, <3>1, <3>2, <3>3, ThreadIs, Goes
  <2> QED
    BY <2>1, <2>2
<1>7. Local(c)
  BY <1>4, <1>5, <1>6 DEF Local
<1>8. TypeOK'
  BY <1>1, <1>3, <1>4, <1>5, <1>6, TypesAre DEF TypeOK, Threads, PCs
<1>9. ~IsOpen(h)'
  BY <1>3 DEF IsOpen
<1>10. OpenAsBefore({h})
  BY <1>3 DEF IsOpen, HostOutside, OpenAsBefore, Above
<1>11. ~Closing(c, fd) /\ \A i \in Fd \ {fd} : ~Closing(c, i) /\ ~Closing(c, i)'
  BY <1>6 DEF Closing
<1>12. FdPlace(c, fd) \in Places /\ Holds(FdPlace(c, fd), h)
  BY <1>11, PlacesAre, HoldsAt
<1>13. \A g \in Above, p \in Places :
         Holds(p, g)' <=> Holds(p, g) /\ ~(g = h /\ p = FdPlace(c, fd))
  <2> SUFFICES ASSUME NEW g \in Above, NEW p \in Places
               PROVE  Holds(p, g)' <=> Holds(p, g) /\ ~(g = h /\ p = FdPlace(c, fd))
    OBVIOUS
  <2>0. g # UNUSED
    BY <1>1, TypesAt DEF Above
  <2>1. CASE \E b \in Ctx, i \in Fd : p = FdPlace(b, i)
    <3>1. PICK b \in Ctx, i \in Fd : p = FdPlace(b, i)
      BY <2>1
    <3>2. CASE b = c /\ i = fd
      <4>1. ~Holds(FdPlace(c, fd), g)'
        BY <1>6, <2>0, HoldsAtNext DEF Closing
      <4> QED
        BY <3>1, <3>2, <4>1, HoldsAt
    <3>3. CASE b = c /\ i # fd
      BY <1>4, <1>11, <3>1, <3>3, HoldsAt, HoldsAtNext, PlacesDiffer
    <3>4. CASE b # c
      BY <1>4, <1>6, <3>1, <3>4, HoldsAt, HoldsAtNext, PlacesDiffer DEF Closing
    <3> QED
      BY <3>2, <3>3, <3>4
  <2>2. CASE \E b \in Ctx, d \in Handle : p = DirPlace(b, d)
    BY <2>2, HoldsAt, HoldsAtNext, PlacesDiffer
  <2>3. CASE \E b \in Ctx : p = CallPlace(b)
    <3>1. thr[c].hs = {}
      BY <1>1, <1>6 DEF Shaped
    <3> QED
      BY <1>6, <2>3, <3>1, HoldsAt, HoldsAtNext, PlacesDiffer
  <2> QED
    BY <2>1, <2>2, <2>3, PlacesAre
<1>14. Sole'
  BY <1>1, <1>2, <1>9, <1>10, <1>12, <1>13, SoleLoses
<1>15. StdioOpen'
  BY <1>1, <1>2, <1>3, StdioStaysOpen
<1>16. Shaped(c)'
  <2>0. /\ thr[c].pc \in {"run", "destroy"} /\ thr'[c].pc \in {"run", "destroy", "dup2"}
        /\ thr'[c].hs = {}
    BY <1>6
  <2>1. \A i \in Stdio : fds'[c][i] = fds[c][i]
    BY <1>4, StdioIs
  <2>2. fds'[c][fd] \in {UNUSED} \cup Above
    BY <1>1, <1>6 DEF Shaped
  <2>3. thr'[c].pc = "dup2" => /\ thr'[c].old \in Fd /\ thr'[c].new \in Fd \ Stdio
                               /\ thr'[c].old # thr'[c].new /\ fds'[c][thr'[c].old] >= 0
    BY <1>6 DEF Used
  <2>4. \A i \in Fd \ Stdio : fds'[c][i] \in {UNUSED} \cup Above
    BY <1>1, <1>4, <2>2 DEF Shaped
  <2>6. \A i \in Stdio : fds'[c][i] = i
    BY <1>1, <2>0, <2>1 DEF Shaped
  <2>7. \A d \in Handle : dirs'[c][d] \in {UNUSED} \cup Above
    BY <1>1 DEF Shaped
  <2> QED
    BY <2>0, <2>3, <2>4, <2>6, <2>7 DEF Shaped, Used
<1>17. Faithful(c)'
  <2> SUFFICES ASSUME NEW i \in Fd, ~Closing(c, i)', thr'[c].pc \in {"run", "undo", "dup2"}
               PROVE  IF Used(c, i)' THEN host'[fds'[c][i]] = meant'[c][i] ELSE meant'[c][i] = "closed"
    BY DEF Faithful
  <2>0. thr[c].pc = "run"
    BY <1>6
  <2>1. CASE i = fd
    <3>1. fds'[c][fd] = UNUSED /\ meant'[c][fd] = "closed"
      BY <1>6, <2>0, <2>1 DEF Closing
    <3> QED
      BY <2>1, <3>1 DEF Used, UNUSED
  <2>2. CASE i # fd
    <3>1. ~Closing(c, i) /\ (Used(c, i)' <=> Used(c, i))
      BY <1>4, <1>11, <2>2 DEF Used
    <3>2. Used(c, i) => host'[fds[c][i]] = host[fds[c][i]]
      <4>1. FdPlace(c, i) # FdPlace(c, fd)
        BY <2>2, PlacesDiffer
      <4> QED
        BY <1>2, <1>3, <1>12, <3>1, <4>1, KeptByClosing
    <3> QED
      BY <1>1, <1>4, <1>5, <2>0, <2>2, <3>1, <3>2 DEF Faithful
  <2> QED
    BY <2>1, <2>2
<1>18. \A b \in Ctx \ {c} : Shaped(b)' /\ Faithful(b)'
  <2>1. ASSUME NEW b \in Ctx \ {c}, NEW i \in Fd, Used(b, i), ~Closing(b, i)
        PROVE  host'[fds[b][i]] = host[fds[b][i]]
    <3>1. FdPlace(b, i) # FdPlace(c, fd)
      BY PlacesDiffer
    <3> QED
      BY <1>2, <1>3, <1>12, <2>1, <3>1, KeptByClosing
  <2> QED
    BY <1>7, <2>1, OthersStay
<1> QED
  BY <1>8, <1>14, <1>15, <1>16, <1>17, <1>18, InvNext


\* A call that gives back what it was given.
LEMMA CallLoses ==
  ASSUME Inv, NEW c \in Ctx, NEW h \in HostFd, NEW t \in Threads,
         thr[c].pc = "undo", h \in thr[c].hs, HostClose(h), Goto(c, t),
         t.hs = thr[c].hs \ {h}, t.pc \in {"run", "undo"}, t.pc = "run" => t.hs = {},
         UNCHANGED <<fds, dirs, meant>>
  PROVE  Inv'
<1>1. TypeOK /\ StdioOpen /\ Sole /\ Shaped(c) /\ Faithful(c)
  BY DEF Inv
<1>2. h \in Above
  BY <1>1 DEF Shaped
<1>3. host' \in [HostFd -> OpenFile \cup {"closed"}] /\ host'[h] = "closed" /\ HostOutside({h})
  BY <1>1, SetsHost DEF HostClose
<1>4. fds' = fds /\ dirs' = dirs /\ meant' = meant
  OBVIOUS
<1>5. thr' \in [Ctx -> Threads] /\ thr'[c] = t /\ \A b \in Ctx \ {c} : thr'[b] = thr[b]
  BY <1>1, Goes
<1>6. Local(c)
  BY <1>4, <1>5 DEF Local
<1>7. TypeOK'
  BY <1>1, <1>3, <1>4, <1>5, TypesAre DEF TypeOK, Threads, PCs
<1>8. ~IsOpen(h)' /\ OpenAsBefore({h})
  BY <1>3 DEF IsOpen, HostOutside, OpenAsBefore, Above
<1>9. CallPlace(c) \in Places /\ Holds(CallPlace(c), h)
  BY PlacesAre, HoldsAt
<1>10. \A g \in Above, p \in Places :
         Holds(p, g)' <=> Holds(p, g) /\ ~(g = h /\ p = CallPlace(c))
  <2> SUFFICES ASSUME NEW g \in Above, NEW p \in Places
               PROVE  Holds(p, g)' <=> Holds(p, g) /\ ~(g = h /\ p = CallPlace(c))
    OBVIOUS
  <2>1. CASE \E b \in Ctx, i \in Fd : p = FdPlace(b, i)
    <3>1. PICK b \in Ctx, i \in Fd : p = FdPlace(b, i)
      BY <2>1
    <3>2. Closing(b, i)' <=> Closing(b, i)
      BY <1>5 DEF Closing
    <3> QED
      BY <1>4, <3>1, <3>2, HoldsAt, HoldsAtNext, PlacesDiffer
  <2>2. CASE \E b \in Ctx, d \in Handle : p = DirPlace(b, d)
    BY <1>4, <2>2, HoldsAt, HoldsAtNext, PlacesDiffer
  <2>3. CASE \E b \in Ctx : p = CallPlace(b)
    <3>1. PICK b \in Ctx : p = CallPlace(b)
      BY <2>3
    <3>2. CASE b = c
      BY <1>5, <3>1, <3>2, HoldsAt, HoldsAtNext
    <3>3. CASE b # c
      BY <1>5, <3>1, <3>3, HoldsAt, HoldsAtNext, PlacesDiffer
    <3> QED
      BY <3>2, <3>3
  <2> QED
    BY <2>1, <2>2, <2>3, PlacesAre
<1>11. Sole'
  BY <1>1, <1>2, <1>8, <1>9, <1>10, SoleLoses
<1>12. StdioOpen'
  BY <1>1, <1>2, <1>3, StdioStaysOpen
<1>13. Shaped(c)'
  BY <1>1, <1>4, <1>5 DEF Shaped
<1>14. \A b \in Ctx, i \in Fd :
         Used(b, i) /\ ~Closing(b, i) => host'[fds[b][i]] = host[fds[b][i]]
  BY <1>2, <1>3, <1>9, PlacesDiffer, KeptByClosing
<1>15. Faithful(c)'
  <2> SUFFICES ASSUME NEW i \in Fd
               PROVE  IF Used(c, i) THEN host'[fds[c][i]] = meant[c][i] ELSE meant[c][i] = "closed"
    BY <1>4 DEF Faithful, Used
  <2>1. ~Closing(c, i)
    BY DEF Closing
  <2> QED
    BY <1>1, <1>14, <2>1 DEF Faithful
<1>16. \A b \in Ctx \ {c} : Shaped(b)' /\ Faithful(b)'
  BY <1>6, <1>14, OthersStay
<1> QED
  BY <1>7, <1>11, <1>12, <1>13, <1>15, <1>16, InvNext

\* closedir, and the second loop of exec_ctx_destroy.
LEMMA DirLoses ==
  ASSUME Inv, NEW c \in Ctx, NEW d \in Handle, NEW h \in HostFd,
         thr[c].pc \in {"run", "destroy"}, dirs[c][d] = h, HostClose(h),
         dirs' = [dirs EXCEPT ![c][d] = UNUSED], UNCHANGED <<fds, meant, thr>>
  PROVE  Inv'
<1>1. TypeOK /\ StdioOpen /\ Sole /\ Shaped(c) /\ Faithful(c)
  BY DEF Inv
<1>2. h \in Above
  BY <1>1, TypesAt DEF Shaped
<1>3. host' \in [HostFd -> OpenFile \cup {"closed"}] /\ host'[h] = "closed" /\ HostOutside({h})
  BY <1>1, SetsHost DEF HostClose
<1>4. fds' = fds /\ meant' = meant /\ thr' = thr
  OBVIOUS
<1>5. /\ dirs' \in [Ctx -> [Handle -> HostFd \cup {UNUSED}]]
      /\ \A b \in Ctx \ {c} : dirs'[b] = dirs[b]
      /\ dirs'[c][d] = UNUSED /\ \A e \in Handle \ {d} : dirs'[c][e] = dirs[c][e]
  BY <1>1, SetsDir
<1>6. Local(c)
  BY <1>4, <1>5 DEF Local
<1>7. TypeOK'
  BY <1>1, <1>3, <1>4, <1>5, TypesAre DEF TypeOK, Threads, PCs
<1>8. ~IsOpen(h)' /\ OpenAsBefore({h})
  BY <1>3 DEF IsOpen, HostOutside, OpenAsBefore, Above
<1>9. DirPlace(c, d) \in Places /\ Holds(DirPlace(c, d), h)
  BY PlacesAre, HoldsAt
<1>10. \A g \in Above, p \in Places :
         Holds(p, g)' <=> Holds(p, g) /\ ~(g = h /\ p = DirPlace(c, d))
  <2> SUFFICES ASSUME NEW g \in Above, NEW p \in Places
               PROVE  Holds(p, g)' <=> Holds(p, g) /\ ~(g = h /\ p = DirPlace(c, d))
    OBVIOUS
  <2>0. g # UNUSED
    BY <1>1, TypesAt DEF Above
  <2>1. CASE \E b \in Ctx, i \in Fd : p = FdPlace(b, i)
    BY <1>4, <2>1, HoldsAt, HoldsAtNext, PlacesDiffer DEF Closing
  <2>2. CASE \E b \in Ctx, e \in Handle : p = DirPlace(b, e)
    <3>1. PICK b \in Ctx, e \in Handle : p = DirPlace(b, e)
      BY <2>2
    <3> QED
      BY <1>5, <2>0, <3>1, HoldsAt, HoldsAtNext, PlacesDiffer
  <2>3. CASE \E b \in Ctx : p = CallPlace(b)
    BY <1>4, <2>3, HoldsAt, HoldsAtNext, PlacesDiffer
  <2> QED
    BY <2>1, <2>2, <2>3, PlacesAre
<1>11. Sole'
  BY <1>1, <1>2, <1>8, <1>9, <1>10, SoleLoses
<1>12. StdioOpen'
  BY <1>1, <1>2, <1>3, StdioStaysOpen
<1>13. Shaped(c)'
  BY <1>1, <1>4, <1>5 DEF Shaped, Used
<1>14. \A b \in Ctx, i \in Fd :
         Used(b, i) /\ ~Closing(b, i) => host'[fds[b][i]] = host[fds[b][i]]
  BY <1>2, <1>3, <1>9, PlacesDiffer, KeptByClosing
<1>15. Faithful(c)'
  BY <1>1, <1>4, <1>14 DEF Faithful, Used, Closing
<1>16. \A b \in Ctx \ {c} : Shaped(b)' /\ Faithful(b)'
  BY <1>6, <1>14, OthersStay
<1> QED
  BY <1>7, <1>11, <1>12, <1>13, <1>15, <1>16, InvNext

-----------------------------------------------------------------------------
(* Steps that open and close nothing                                       *)

\* Entries above stdio stay, but for the one, unused, that dup2 is to set.
LEMMA NothingMoves ==
  ASSUME Inv, NEW c \in Ctx, host' = host, dirs' = dirs, TypeOK', Local(c),
         thr[c].hs = {} /\ thr'[c].hs = {}, thr[c].pc # "dup2",
         \A fd \in Fd \ Stdio : fds'[c][fd] = fds[c][fd] /\ (Closing(c, fd)' => ~Used(c, fd)),
         Shaped(c)', Faithful(c)'
  PROVE  Inv'
<1>1. TypeOK /\ StdioOpen /\ Sole /\ Shaped(c)
  BY DEF Inv
<1>2. \A g \in Above, p \in Places : Holds(p, g)' <=> Holds(p, g)
  <2> SUFFICES ASSUME NEW g \in Above, NEW p \in Places PROVE Holds(p, g)' <=> Holds(p, g)
    OBVIOUS
  <2>1. CASE \E b \in Ctx, i \in Fd : p = FdPlace(b, i)
    <3>1. PICK b \in Ctx, i \in Fd : p = FdPlace(b, i)
      BY <2>1
    <3>2. CASE b = c /\ i \in Stdio
      <4>1. fds[c][i] # g /\ fds'[c][i] # g
        BY <1>1, <3>2, TypesAt DEF Shaped, Above
      <4> QED
        BY <3>1, <3>2, <4>1, HoldsAt, HoldsAtNext
    <3>3. CASE b = c /\ i \notin Stdio
      <4>1. ~Closing(c, i) /\ (Closing(c, i)' => fds[c][i] # g)
        BY <1>1, <3>3, TypesAt DEF Closing, Above
      <4> QED
        BY <3>1, <3>3, <4>1, HoldsAt, HoldsAtNext
    <3>4. CASE b # c
      BY <3>1, <3>4, HoldsAt, HoldsAtNext DEF Local, Closing
    <3> QED
      BY <3>2, <3>3, <3>4
  <2>2. CASE \E b \in Ctx, d \in Handle : p = DirPlace(b, d)
    BY <2>2, HoldsAt, HoldsAtNext
  <2>3. CASE \E b \in Ctx : p = CallPlace(b)
    <3>1. PICK b \in Ctx : p = CallPlace(b)
      BY <2>3
    <3>2. thr'[b].hs = thr[b].hs
      BY DEF Local
    <3> QED
      BY <3>1, <3>2, HoldsAt, HoldsAtNext
  <2> QED
    BY <2>1, <2>2, <2>3, PlacesAre
<1>3. OpenAsBefore({})
  BY DEF OpenAsBefore, IsOpen
<1>4. Sole'
  BY <1>1, <1>2, <1>3, SoleStays
<1>5. StdioOpen'
  BY <1>1 DEF StdioOpen, OnStdio
<1>6. \A b \in Ctx \ {c} : Shaped(b)' /\ Faithful(b)'
  BY OthersStay
<1> QED
  BY <1>4, <1>5, <1>6, InvNext

\* Two entries of a running context get a new host descriptor each.
LEMMA EntriesGain ==
  ASSUME Inv, NEW c \in Ctx, NEW r \in Fd, NEW w \in Fd, r # w, ~Used(c, r), ~Used(c, w),
         NEW h0 \in HostFd, NEW h1 \in HostFd, h0 # h1, ~IsOpen(h0), ~IsOpen(h1),
         NEW f0 \in OpenFile, NEW f1 \in OpenFile, thr[c].pc = "run",
         host' = [host EXCEPT ![h0] = f0, ![h1] = f1],
         fds' = [fds EXCEPT ![c][r] = h0, ![c][w] = h1],
         meant' = [meant EXCEPT ![c][r] = f0, ![c][w] = f1], UNCHANGED <<dirs, thr>>
  PROVE  Inv'
<1>1. TypeOK /\ StdioOpen /\ Sole /\ Shaped(c) /\ Faithful(c)
  BY DEF Inv
<1>2. h0 \in Above /\ h1 \in Above /\ {h0, h1} \in SUBSET Above
  BY <1>1, ClosedIsAbove
<1>3. r \notin Stdio /\ w \notin Stdio
  BY <1>1 DEF Shaped, Used, Stdio
<1>4. /\ host' \in [HostFd -> OpenFile \cup {"closed"}]
      /\ host'[h0] = f0 /\ host'[h1] = f1 /\ HostOutside({h0, h1})
  BY <1>1, TypesAre DEF HostOutside
<1>5. /\ fds' \in [Ctx -> [Fd -> HostFd \cup {UNUSED}]]
      /\ \A b \in Ctx \ {c} : fds'[b] = fds[b]
      /\ fds'[c][r] = h0 /\ fds'[c][w] = h1
      /\ \A i \in Fd \ {r, w} : fds'[c][i] = fds[c][i]
  BY <1>1, TypesAre
<1>6. /\ meant' \in [Ctx -> [Fd -> OpenFile \cup {"closed"}]]
      /\ \A b \in Ctx \ {c} : meant'[b] = meant[b]
      /\ meant'[c][r] = f0 /\ meant'[c][w] = f1
      /\ \A i \in Fd \ {r, w} : meant'[c][i] = meant[c][i]
  BY <1>1, TypesAre
<1>7. dirs' = dirs /\ thr' = thr
  OBVIOUS
<1>8. Local(c)
  BY <1>5, <1>6, <1>7 DEF Local
<1>9. TypeOK'
  BY <1>1, <1>4, <1>5, <1>6, <1>7, TypesAre DEF TypeOK, Threads, PCs
<1>10. IsOpen(h0)' /\ IsOpen(h1)' /\ OpenAsBefore({h0, h1})
  BY <1>4, StdioIs DEF IsOpen, HostOutside, OpenAsBefore, Above
<1>11. \A i \in Fd : ~Closing(c, i) /\ ~Closing(c, i)'
  BY <1>7 DEF Closing
<1>12. \A g \in Above, p \in Places :
         Holds(p, g)' <=>
           Holds(p, g) \/ (g = h0 /\ p = FdPlace(c, r)) \/ (g = h1 /\ p = FdPlace(c, w))
  <2> SUFFICES ASSUME NEW g \in Above, NEW p \in Places
               PROVE  Holds(p, g)' <=>
                        Holds(p, g) \/ (g = h0 /\ p = FdPlace(c, r)) \/ (g = h1 /\ p = FdPlace(c, w))
    OBVIOUS
  <2>0. ~Holds(FdPlace(c, r), g) /\ ~Holds(FdPlace(c, w), g)
    BY HoldsAt DEF Used, Above, HostFd
  <2>1. CASE \E b \in Ctx, i \in Fd : p = FdPlace(b, i)
    <3>1. PICK b \in Ctx, i \in Fd : p = FdPlace(b, i)
      BY <2>1
    <3>2. CASE b = c /\ i = r
      BY <1>5, <1>11, <2>0, <3>1, <3>2, HoldsAtNext, PlacesDiffer
    <3>3. CASE b = c /\ i = w
      BY <1>5, <1>11, <2>0, <3>1, <3>3, HoldsAtNext, PlacesDiffer
    <3>4. CASE b = c /\ i \notin {r, w}
      BY <1>5, <1>11, <3>1, <3>4, HoldsAt, HoldsAtNext, PlacesDiffer
    <3>5. CASE b # c
      BY <1>5, <1>7, <3>1, <3>5, HoldsAt, HoldsAtNext, PlacesDiffer DEF Closing
    <3> QED
      BY <3>2, <3>3, <3>4, <3>5
  <2>2. CASE \E b \in Ctx, d \in Handle : p = DirPlace(b, d)
    BY <1>7, <2>2, HoldsAt, HoldsAtNext, PlacesDiffer
  <2>3. CASE \E b \in Ctx : p = CallPlace(b)
    BY <1>7, <2>3, HoldsAt, HoldsAtNext, PlacesDiffer
  <2> QED
    BY <2>1, <2>2, <2>3, PlacesAre
<1>13. Sole'
  <2>1. FdPlace(c, r) \in Places /\ FdPlace(c, w) \in Places
    BY PlacesAre
  <2> QED
    BY <1>1, <1>2, <1>10, <1>12, <2>1, SoleGainsTwo
<1>14. StdioOpen'
  BY <1>1, <1>2, <1>4, StdioStaysOpen
<1>15. Shaped(c)'
  BY <1>1, <1>2, <1>3, <1>5, <1>7, StdioIs DEF Shaped
<1>16. \A b \in Ctx, i \in Fd :
         Used(b, i) /\ ~Closing(b, i) => host'[fds[b][i]] = host[fds[b][i]]
  BY <1>2, <1>4, KeptByOpening
<1>17. Faithful(c)'
  <2> SUFFICES ASSUME NEW i \in Fd
               PROVE  IF Used(c, i)' THEN host'[fds'[c][i]] = meant'[c][i] ELSE meant'[c][i] = "closed"
    BY DEF Faithful
  <2>1. CASE i \in {r, w}
    <3>1. Used(c, i)'
      BY <1>5, <2>1 DEF Used, HostFd
    <3> QED
      BY <1>4, <1>5, <1>6, <2>1, <3>1
  <2>2. CASE i \notin {r, w}
    <3>1. Used(c, i)' <=> Used(c, i)
      BY <1>5, <2>2 DEF Used
    <3>2. Used(c, i) => host'[fds[c][i]] = host[fds[c][i]]
      BY <1>11, <1>16
    <3> QED
      BY <1>1, <1>5, <1>6, <1>11, <2>2, <3>1, <3>2 DEF Faithful
  <2> QED
    BY <2>1, <2>2
<1>18. \A b \in Ctx \ {c} : Shaped(b)' /\ Faithful(b)'
  BY <1>8, <1>16, OthersStay
<1> QED
  BY <1>9, <1>13, <1>14, <1>15, <1>17, <1>18, InvNext

-----------------------------------------------------------------------------
(* The actions                                                             *)

LEMMA InitGood == Init => Inv
<1> SUFFICES ASSUME Init PROVE Inv
  OBVIOUS
<1>1. "run" \in PCs /\ "none" \in PCs
  BY DEF PCs
<1>2. /\ At("run") \in Threads /\ At("run").pc = "run" /\ At("run").hs = {}
      /\ At("none") \in Threads /\ At("none").pc = "none" /\ At("none").hs = {}
  BY <1>1, AtIs
<1>3. \A h \in Stdio : OnStdio(h) # "closed" /\ OnStdio(h) \in OpenFile
  BY StdioIs
<1>4. TypeOK
  <2>1. fds \in [Ctx -> [Fd -> HostFd \cup {UNUSED}]]
    BY StdioIs DEF Init, OnlyStdio, NoFds
  <2>2. dirs \in [Ctx -> [Handle -> HostFd \cup {UNUSED}]]
    BY DEF Init, NoDirs
  <2>3. host \in [HostFd -> OpenFile \cup {"closed"}]
    BY <1>3 DEF Init
  <2>4. meant \in [Ctx -> [Fd -> OpenFile \cup {"closed"}]]
    BY <1>3 DEF Init, MeansStdio, MeansNone
  <2>5. thr \in [Ctx -> Threads]
    BY <1>2 DEF Init
  <2> QED
    BY <2>1, <2>2, <2>3, <2>4, <2>5, TypesAre
<1>5. StdioOpen
  BY StdioIs DEF Init, StdioOpen
<1>6. \A h \in Above : ~IsOpen(h)
  BY DEF Init, IsOpen, Above
<1>7. ASSUME NEW h \in Above, NEW o \in Places PROVE ~Holds(o, h)
  <2>1. h \in HostFd /\ h \notin Stdio /\ h # UNUSED
    BY DEF Above, HostFd, UNUSED
  <2>2. CASE \E b \in Ctx, i \in Fd : o = FdPlace(b, i)
    <3>1. PICK b \in Ctx, i \in Fd : o = FdPlace(b, i)
      BY <2>2
    <3>2. fds[b][i] # h
      BY <2>1 DEF Init, OnlyStdio, NoFds
    <3> QED
      BY <3>1, <3>2, HoldsAt
  <2>3. CASE \E b \in Ctx, d \in Handle : o = DirPlace(b, d)
    <3>1. PICK b \in Ctx, d \in Handle : o = DirPlace(b, d)
      BY <2>3
    <3>2. dirs[b][d] # h
      BY <2>1 DEF Init, NoDirs
    <3> QED
      BY <3>1, <3>2, HoldsAt
  <2>4. CASE \E b \in Ctx : o = CallPlace(b)
    <3>1. PICK b \in Ctx : o = CallPlace(b)
      BY <2>4
    <3>2. thr[b].hs = {}
      BY <1>2 DEF Init
    <3> QED
      BY <3>1, <3>2, HoldsAt
  <2> QED
    BY <2>2, <2>3, <2>4, PlacesAre
<1>8. Sole
  BY <1>6, <1>7 DEF Sole
<1>9. ASSUME NEW c \in Ctx PROVE Shaped(c) /\ Faithful(c)
  <2>1. CASE c = 1
    <3>1. thr[c].pc = "run" /\ thr[c].hs = {} /\ fds[c] = OnlyStdio /\ dirs[c] = NoDirs
          /\ meant[c] = MeansStdio
      BY <1>2, <2>1 DEF Init
    <3>2. Shaped(c)
      BY <3>1, StdioIs DEF Shaped, OnlyStdio, NoDirs
    <3>3. Faithful(c)
      BY <1>5, <3>1, StdioIs DEF Faithful, OnlyStdio, MeansStdio, StdioOpen, Used, UNUSED, Stdio
    <3> QED
      BY <3>2, <3>3
  <2>2. CASE c # 1
    <3>1. thr[c].pc = "none" /\ thr[c].hs = {} /\ fds[c] = NoFds /\ dirs[c] = NoDirs
      BY <1>2, <2>2 DEF Init
    <3>2. Shaped(c)
      BY <3>1, StdioIs DEF Shaped, NoFds, NoDirs
    <3> QED
      BY <3>1, <3>2 DEF Faithful
  <2> QED
    BY <2>1, <2>2
<1> QED
  BY <1>4, <1>5, <1>8, <1>9 DEF Inv

\* What an entry holds is open.
LEMMA UsedIsOpen ==
  ASSUME Inv, NEW c \in Ctx, NEW fd \in Fd, Used(c, fd), ~Closing(c, fd)
  PROVE  fds[c][fd] \in HostFd /\ IsOpen(fds[c][fd])
<1>1. fds[c][fd] \in HostFd
  BY TypesAt DEF Inv
<1>2. CASE fds[c][fd] \in Above
  <2>1. FdPlace(c, fd) \in Places /\ Holds(FdPlace(c, fd), fds[c][fd])
    BY PlacesAre, HoldsAt
  <2> QED
    BY <1>1, <1>2, <2>1 DEF Inv, Sole
<1>3. CASE fds[c][fd] \in Stdio
  BY <1>1, <1>3, StdioIs DEF Inv, StdioOpen, IsOpen
<1> QED
  BY <1>1, <1>2, <1>3 DEF Above

\* A running guest means stdio by its first entries.
LEMMA RunsOnStdio ==
  ASSUME Inv, NEW c \in Ctx, thr[c].pc \in {"run", "undo", "dup2", "destroy"}, NEW fd \in Stdio
  PROVE  Used(c, fd)
BY DEF Inv, Shaped, Used, Stdio

LEMMA PlaceKeeps ==
  ASSUME Inv, NEW c \in Ctx, NEW h \in HostFd, NEW f \in OpenFile, thr[c].pc = "run",
         Lowest(h), host' = [host EXCEPT ![h] = f], Place(c, h, f), dirs' = dirs
  PROVE  Inv'
<1>1. ~IsOpen(h)
  BY DEF Lowest
<1>2. CASE \E fd \in Fd : FirstSlot(c, fd) /\ Put(c, fd, h, f) /\ thr' = thr
  <2>1. PICK fd \in Fd : FirstSlot(c, fd) /\ Put(c, fd, h, f) /\ thr' = thr
    BY <1>2
  <2>2. ~Used(c, fd) /\ fd \in Fd \ Stdio
    BY <2>1, RunsOnStdio DEF FirstSlot
  <2> QED
    BY <1>1, <2>1, <2>2, EntryGains
<1>3. CASE GiveBack(c, {h}) /\ UNCHANGED <<fds, meant>>
  <2>1. host' \in [HostFd -> OpenFile \cup {"closed"}] /\ host'[h] = f /\ HostOutside({h})
    BY SetsHost DEF Inv
  <2>2. {h} \in SUBSET HostFd /\ \A g \in {h} : ~IsOpen(g) /\ host'[g] \in OpenFile
    BY <1>1, <2>1
  <2> QED
    BY <1>3, <2>1, <2>2, CallGains
<1> QED
  BY <1>2, <1>3 DEF Place

LEMMA ForkKeeps ==
  ASSUME Inv, NEW p \in Ctx, NEW c \in Ctx, Fork(p, c) PROVE Inv'
<1>1. TypeOK /\ StdioOpen /\ Shaped(c)
  BY DEF Inv
<1>2. thr[c].pc = "none" /\ thr[c].hs = {} /\ \A fd \in Fd : fds[c][fd] = UNUSED
  BY <1>1 DEF Fork, Shaped
<1>3. "run" \in PCs
  BY DEF PCs
<1>4. /\ thr' \in [Ctx -> Threads] /\ \A b \in Ctx \ {c} : thr'[b] = thr[b]
      /\ thr'[c].pc = "run" /\ thr'[c].hs = {}
  BY <1>1, <1>3, AtIs, Goes DEF Fork
<1>5. OnlyStdio \in [Fd -> HostFd \cup {UNUSED}] /\ MeansStdio \in [Fd -> OpenFile \cup {"closed"}]
  BY StdioIs DEF OnlyStdio, MeansStdio
<1>6. /\ fds' \in [Ctx -> [Fd -> HostFd \cup {UNUSED}]] /\ fds'[c] = OnlyStdio
      /\ meant' \in [Ctx -> [Fd -> OpenFile \cup {"closed"}]] /\ meant'[c] = MeansStdio
      /\ \A b \in Ctx \ {c} : fds'[b] = fds[b] /\ meant'[b] = meant[b]
  BY <1>1, <1>5, TypesAre DEF Fork
<1>7. dirs' = dirs /\ host' = host
  BY DEF Fork
<1>8. Local(c)
  BY <1>4, <1>6, <1>7 DEF Local
<1>9. TypeOK'
  BY <1>1, <1>4, <1>6, <1>7, TypesAre DEF TypeOK, Threads, PCs
<1>10. \A fd \in Fd \ Stdio : fds'[c][fd] = fds[c][fd] /\ ~Closing(c, fd)'
  BY <1>2, <1>4, <1>6 DEF OnlyStdio, Closing
<1>11. Shaped(c)'
  BY <1>1, <1>4, <1>6, <1>7, StdioIs DEF Shaped, OnlyStdio
<1>12. Faithful(c)'
  BY <1>1, <1>4, <1>6, <1>7, StdioIs
  DEF Faithful, OnlyStdio, MeansStdio, StdioOpen, Used, UNUSED, Stdio
<1> QED
  BY <1>2, <1>4, <1>7, <1>8, <1>9, <1>10, <1>11, <1>12, NothingMoves

LEMMA LeaveKeeps ==
  ASSUME Inv, NEW c \in Ctx, Leave(c) PROVE Inv'
<1>1. TypeOK /\ Shaped(c)
  BY DEF Inv
<1>2. "destroy" \in PCs
  BY DEF PCs
<1>3. /\ thr' \in [Ctx -> Threads] /\ \A b \in Ctx \ {c} : thr'[b] = thr[b]
      /\ thr'[c].pc = "destroy" /\ thr'[c].hs = {}
  BY <1>1, <1>2, AtIs, Goes DEF Leave
<1>4. fds' = fds /\ dirs' = dirs /\ host' = host /\ meant' = meant
  BY DEF Leave
<1>5. thr[c].pc = "run" /\ thr[c].hs = {}
  BY <1>1 DEF Leave, Shaped
<1>6. Local(c)
  BY <1>3, <1>4 DEF Local
<1>7. TypeOK'
  BY <1>1, <1>3, <1>4, TypesAre DEF TypeOK, Threads, PCs
<1>8. \A fd \in Fd \ Stdio : fds'[c][fd] = fds[c][fd] /\ ~Closing(c, fd)'
  BY <1>3, <1>4 DEF Closing
<1>9. Shaped(c)'
  BY <1>1, <1>3, <1>4, <1>5 DEF Shaped
<1>10. Faithful(c)'
  BY <1>3 DEF Faithful
<1> QED
  BY <1>3, <1>4, <1>5, <1>6, <1>7, <1>8, <1>9, <1>10, NothingMoves

LEMMA DestroyKeeps ==
  ASSUME Inv, NEW c \in Ctx, Destroy(c) PROVE Inv'
<1>1. TypeOK /\ Shaped(c) /\ thr[c].pc = "destroy" /\ thr[c].hs = {}
  BY DEF Inv, Destroy, Shaped
<1> DEFINE left == {fd \in Fd \ Stdio : Used(c, fd)}
           open == {d \in Handle : dirs[c][d] # UNUSED}
<1>2. CASE \E fd \in left : /\ HostClose(fds[c][fd])
                            /\ fds' = [fds EXCEPT ![c][fd] = UNUSED]
                            /\ UNCHANGED <<dirs, thr, meant>>
  <2>1. PICK fd \in left : /\ HostClose(fds[c][fd])
                           /\ fds' = [fds EXCEPT ![c][fd] = UNUSED]
                           /\ UNCHANGED <<dirs, thr, meant>>
    BY <1>2
  <2>2. fds[c][fd] \in HostFd
    BY <1>1, TypesAt
  <2>3. PICK h \in HostFd : fds[c][fd] = h
    BY <2>2
  <2> QED
    BY <1>1, <2>1, <2>3, EntryLoses
<1>3. CASE \E d \in open : /\ HostClose(dirs[c][d])
                           /\ dirs' = [dirs EXCEPT ![c][d] = UNUSED]
                           /\ UNCHANGED <<fds, thr, meant>>
  <2>1. PICK d \in open : /\ HostClose(dirs[c][d])
                          /\ dirs' = [dirs EXCEPT ![c][d] = UNUSED]
                          /\ UNCHANGED <<fds, thr, meant>>
    BY <1>3
  <2>2. dirs[c][d] \in HostFd
    BY <1>1, TypesAt
  <2>3. PICK h \in HostFd : dirs[c][d] = h
    BY <2>2
  <2> QED
    BY <1>1, <2>1, <2>3, DirLoses
<1>4. CASE /\ left = {} /\ Goto(c, At("gone"))
           /\ fds' = [fds EXCEPT ![c] = NoFds] /\ meant' = [meant EXCEPT ![c] = MeansNone]
           /\ UNCHANGED <<dirs, host>>
  <2>1. "gone" \in PCs
    BY DEF PCs
  <2>2. /\ thr' \in [Ctx -> Threads] /\ \A b \in Ctx \ {c} : thr'[b] = thr[b]
        /\ thr'[c].pc = "gone" /\ thr'[c].hs = {}
    BY <1>1, <1>4, <2>1, AtIs, Goes
  <2>3. NoFds \in [Fd -> HostFd \cup {UNUSED}] /\ MeansNone \in [Fd -> OpenFile \cup {"closed"}]
    BY DEF NoFds, MeansNone
  <2>4. /\ fds' \in [Ctx -> [Fd -> HostFd \cup {UNUSED}]] /\ fds'[c] = NoFds
        /\ meant' \in [Ctx -> [Fd -> OpenFile \cup {"closed"}]]
        /\ \A b \in Ctx \ {c} : fds'[b] = fds[b] /\ meant'[b] = meant[b]
    BY <1>1, <1>4, <2>3, TypesAre
  <2>5. dirs' = dirs /\ host' = host
    BY <1>4
  <2>6. Local(c)
    BY <2>2, <2>4, <2>5 DEF Local
  <2>7. TypeOK'
    BY <1>1, <2>2, <2>4, <2>5, TypesAre DEF TypeOK, Threads, PCs
  <2>8. \A fd \in Fd \ Stdio : fds'[c][fd] = fds[c][fd] /\ ~Closing(c, fd)'
    <3> SUFFICES ASSUME NEW fd \in Fd \ Stdio
                 PROVE  fds'[c][fd] = fds[c][fd] /\ ~Closing(c, fd)'
      OBVIOUS
    <3>1. ~Used(c, fd)
      BY <1>4
    <3>2. fds[c][fd] = UNUSED
      BY <1>1, <3>1, TypesAt
    <3> QED
      BY <2>2, <2>4, <3>2 DEF NoFds, Closing
  <2>9. Shaped(c)'
    BY <1>1, <2>2, <2>4, <2>5, StdioIs DEF Shaped, NoFds
  <2>10. Faithful(c)'
    BY <2>2 DEF Faithful
  <2> QED
    BY <1>1, <2>2, <2>5, <2>6, <2>7, <2>8, <2>9, <2>10, NothingMoves
<1> QED
  BY <1>2, <1>3, <1>4 DEF Destroy

LEMMA OpenKeeps ==
  ASSUME Inv, NEW c \in Ctx, Open(c) PROVE Inv'
<1>1. PICK h \in HostFd, f \in Files :
        Lowest(h) /\ host' = [host EXCEPT ![h] = f] /\ Place(c, h, f)
  BY DEF Open
<1>2. f \in OpenFile
  BY DEF OpenFile
<1>3. thr[c].pc = "run" /\ dirs' = dirs
  BY DEF Open, Idle
<1> QED
  BY <1>1, <1>2, <1>3, PlaceKeeps

LEMMA DupKeeps ==
  ASSUME Inv, NEW c \in Ctx, Dup(c) PROVE Inv'
<1>1. PICK old \in Olds, h \in HostFd :
        /\ Used(c, old) /\ IsOpen(fds[c][old]) /\ Lowest(h)
        /\ host' = [host EXCEPT ![h] = host[fds[c][old]]]
        /\ Place(c, h, meant[c][old])
  BY DEF Dup
<1>2. thr[c].pc = "run" /\ dirs' = dirs
  BY DEF Dup, Idle
<1>3. old \in Fd
  BY FdAssumption DEF Fd
<1>4. host[fds[c][old]] = meant[c][old]
  BY <1>1, <1>2, <1>3 DEF Inv, Faithful, Closing
<1>5. meant[c][old] \in OpenFile
  BY <1>1, <1>3, <1>4, TypesAt DEF Inv, IsOpen
<1>6. PICK f \in OpenFile : f = meant[c][old]
  BY <1>5
<1> QED
  BY <1>1, <1>2, <1>4, <1>6, PlaceKeeps

LEMMA PipeKeeps ==
  ASSUME Inv, NEW c \in Ctx, Pipe(c) PROVE Inv'
<1>1. PICK h0, h1 \in HostFd :
        /\ Lowest(h0)
        /\ h0 < h1 /\ ~IsOpen(h1) /\ \A g \in (h0 + 1) .. (h1 - 1) : IsOpen(g)
        /\ host' = [host EXCEPT ![h0] = "pipe:read", ![h1] = "pipe:write"]
        /\ \/ /\ \E r, w \in Fd :
                   /\ FirstSlot(c, r)
                   /\ r < w /\ ~Used(c, w) /\ \A i \in (r + 1) .. (w - 1) : Used(c, i)
                   /\ fds' = [fds EXCEPT ![c][r] = h0, ![c][w] = h1]
                   /\ meant' = [meant EXCEPT ![c][r] = "pipe:read", ![c][w] = "pipe:write"]
              /\ UNCHANGED thr
           \/ /\ ~HasSlots(c, 2)
              /\ GiveBack(c, {h0, h1})
              /\ UNCHANGED <<fds, meant>>
  BY Zenon DEF Pipe
<1>2. thr[c].pc = "run" /\ dirs' = dirs
  BY DEF Pipe, Idle
<1>3. h0 # h1 /\ ~IsOpen(h0) /\ ~IsOpen(h1)
  BY <1>1 DEF Lowest, HostFd
<1>4. "pipe:read" \in OpenFile /\ "pipe:write" \in OpenFile
  BY DEF OpenFile
<1>5. CASE /\ \E r, w \in Fd :
                /\ FirstSlot(c, r)
                /\ r < w /\ ~Used(c, w) /\ \A i \in (r + 1) .. (w - 1) : Used(c, i)
                /\ fds' = [fds EXCEPT ![c][r] = h0, ![c][w] = h1]
                /\ meant' = [meant EXCEPT ![c][r] = "pipe:read", ![c][w] = "pipe:write"]
           /\ UNCHANGED thr
  <2>1. PICK r, w \in Fd :
          /\ FirstSlot(c, r) /\ r < w /\ ~Used(c, w)
          /\ fds' = [fds EXCEPT ![c][r] = h0, ![c][w] = h1]
          /\ meant' = [meant EXCEPT ![c][r] = "pipe:read", ![c][w] = "pipe:write"]
    BY <1>5
  <2>2. r # w /\ ~Used(c, r)
    BY <2>1 DEF FirstSlot, Fd
  <2> QED
    BY <1>1, <1>2, <1>3, <1>4, <1>5, <2>1, <2>2, EntriesGain
<1>6. CASE GiveBack(c, {h0, h1}) /\ UNCHANGED <<fds, meant>>
  <2>1. /\ host' \in [HostFd -> OpenFile \cup {"closed"}]
        /\ host'[h0] \in OpenFile /\ host'[h1] \in OpenFile /\ HostOutside({h0, h1})
    BY <1>1, <1>3, <1>4, TypesAre DEF Inv, HostOutside
  <2>2. {h0, h1} \in SUBSET HostFd /\ \A h \in {h0, h1} : ~IsOpen(h) /\ host'[h] \in OpenFile
    BY <1>3, <2>1
  <2> QED
    BY <1>2, <1>6, <2>1, <2>2, CallGains
<1> QED
  BY <1>1, <1>5, <1>6

LEMMA UndoKeeps ==
  ASSUME Inv, NEW c \in Ctx, Undo(c) PROVE Inv'
<1>1. PICK h \in thr[c].hs :
        /\ HostClose(h)
        /\ Goto(c, IF thr[c].hs = {h} THEN At("run")
                   ELSE Thread("undo", thr[c].hs \ {h}, UNUSED, UNUSED))
  BY DEF Undo
<1>2. thr[c].pc = "undo" /\ UNCHANGED <<fds, dirs, meant>>
  BY DEF Undo
<1>3. thr[c].hs \in SUBSET HostFd /\ h \in HostFd
  BY TypesAt DEF Inv
<1>4. "run" \in PCs /\ "undo" \in PCs
  BY DEF PCs
<1>5. CASE thr[c].hs = {h}
  <2>1. At("run") \in Threads /\ At("run").pc = "run" /\ At("run").hs = {}
    BY <1>4, AtIs
  <2> QED
    BY <1>1, <1>2, <1>3, <1>5, <2>1, CallLoses
<1>6. CASE thr[c].hs # {h}
  <2> DEFINE t == Thread("undo", thr[c].hs \ {h}, UNUSED, UNUSED)
  <2>1. t \in Threads /\ t.pc = "undo" /\ t.hs = thr[c].hs \ {h}
    BY <1>3, <1>4, ThreadIs
  <2>2. PICK u \in Threads : u = t
    BY <2>1
  <2> QED
    BY <1>1, <1>2, <1>3, <1>6, <2>1, <2>2, CallLoses
<1> QED
  BY <1>5, <1>6

LEMMA CloseKeeps ==
  ASSUME Inv, NEW c \in Ctx, Close(c) PROVE Inv'
<1>1. PICK fd \in Fd \ Stdio : Used(c, fd) /\ HostClose(fds[c][fd]) /\ EntryCleared(c, fd)
  BY DEF Close
<1>2. thr[c].pc = "run" /\ dirs' = dirs /\ thr' = thr
  BY DEF Close, Idle
<1>3. fds[c][fd] \in HostFd
  BY <1>1, TypesAt DEF Inv
<1>4. PICK h \in HostFd : fds[c][fd] = h
  BY <1>3
<1> QED
  BY <1>1, <1>2, <1>4, EntryLoses DEF EntryCleared, Put

\* dup2 of an unused entry opens and closes nothing yet.
LEMMA Dup2Starts ==
  ASSUME Inv, NEW c \in Ctx, NEW old \in Fd, NEW new \in Fd \ Stdio, thr[c].pc = "run",
         old # new, Used(c, old), ~Used(c, new), Goto(c, Thread("dup2", {}, old, new)),
         UNCHANGED <<fds, dirs, host, meant>>
  PROVE  Inv'
<1>1. TypeOK /\ Shaped(c) /\ Faithful(c) /\ StdioOpen
  BY DEF Inv
<1>2. "dup2" \in PCs
  BY DEF PCs
<1>3. /\ thr' \in [Ctx -> Threads] /\ \A b \in Ctx \ {c} : thr'[b] = thr[b]
      /\ thr'[c].pc = "dup2" /\ thr'[c].hs = {} /\ thr'[c].old = old /\ thr'[c].new = new
  BY <1>1, <1>2, ThreadIs, Goes
<1>4. fds' = fds /\ dirs' = dirs /\ host' = host /\ meant' = meant /\ thr[c].hs = {}
  BY <1>1 DEF Shaped
<1>5. Local(c)
  BY <1>3, <1>4 DEF Local
<1>6. TypeOK'
  BY <1>1, <1>3, <1>4, TypesAre DEF TypeOK, Threads, PCs
<1>7. \A fd \in Fd \ Stdio : fds'[c][fd] = fds[c][fd] /\ (Closing(c, fd)' => ~Used(c, fd))
  BY <1>3, <1>4 DEF Closing
<1>8. Shaped(c)'
  BY <1>1, <1>3, <1>4 DEF Shaped, Used
<1>9. Faithful(c)'
  BY <1>1, <1>3, <1>4 DEF Faithful, Used, Closing
<1> QED
  BY <1>3, <1>4, <1>5, <1>6, <1>7, <1>8, <1>9, NothingMoves

LEMMA Dup2Keeps ==
  ASSUME Inv, StdioStays, NEW c \in Ctx, Dup2(c) PROVE Inv'
<1>1. PICK old \in Olds, new \in News :
        /\ old # new /\ Used(c, old)
        /\ IF Used(c, new) THEN HostClose(fds[c][new]) ELSE UNCHANGED host
        /\ Goto(c, Thread("dup2", {}, old, new))
  BY DEF Dup2
<1>2. thr[c].pc = "run" /\ UNCHANGED <<fds, dirs, meant>>
  BY DEF Dup2, Idle
<1>3. old \in Fd /\ new \in Fd \ Stdio
  BY FdAssumption DEF Fd, StdioStays
<1>4. CASE Used(c, new)
  <2>1. fds[c][new] \in HostFd
    BY <1>3, <1>4, TypesAt DEF Inv
  <2>2. PICK h \in HostFd : fds[c][new] = h
    BY <2>1
  <2> QED
    BY <1>1, <1>2, <1>3, <1>4, <2>2, EntryLoses
<1>5. CASE ~Used(c, new)
  BY <1>1, <1>2, <1>3, <1>5, Dup2Starts
<1> QED
  BY <1>4, <1>5

LEMMA Dup2DupKeeps ==
  ASSUME Inv, HostHasRoom, NEW c \in Ctx, Dup2Dup(c) PROVE Inv'
<1>1. /\ thr[c].pc = "dup2" /\ Goto(c, At("run")) /\ dirs' = dirs
      /\ thr[c].old \in Fd /\ thr[c].new \in Fd \ Stdio
      /\ thr[c].old # thr[c].new /\ Used(c, thr[c].old)
  BY DEF Inv, Shaped, Dup2Dup
<1>2. PICK old \in Fd, new \in Fd \ Stdio :
        old = thr[c].old /\ new = thr[c].new /\ old # new /\ Used(c, old)
  BY <1>1
<1>3. ~Closing(c, old)
  BY <1>2 DEF Closing
<1>4. IsOpen(fds[c][old]) /\ host[fds[c][old]] = meant[c][old]
  BY <1>1, <1>2, <1>3, UsedIsOpen DEF Inv, Faithful
<1>5. PICK h \in HostFd :
        /\ Lowest(h) /\ host' = [host EXCEPT ![h] = host[fds[c][old]]]
        /\ Put(c, new, h, meant[c][old])
  BY <1>2, <1>4 DEF Dup2Dup, HostHasRoom, NewHostFd
<1>6. meant[c][old] \in OpenFile /\ ~IsOpen(h)
  BY <1>4, <1>5, TypesAt DEF Inv, IsOpen, Lowest
<1>7. PICK f \in OpenFile : f = meant[c][old]
  BY <1>6
<1> QED
  BY <1>1, <1>2, <1>4, <1>5, <1>6, <1>7, EntryGains

LEMMA OpenDirKeeps ==
  ASSUME Inv, NEW c \in Ctx, OpenDir(c) PROVE Inv'
<1>1. PICK h \in HostFd :
        /\ Lowest(h) /\ host' = [host EXCEPT ![h] = "dir"]
        /\ \/ /\ \E d \in Handle : dirs[c][d] = UNUSED /\ dirs' = [dirs EXCEPT ![c][d] = h]
              /\ UNCHANGED thr
           \/ GiveBack(c, {h}) /\ UNCHANGED dirs
  BY DEF OpenDir
<1>2. thr[c].pc = "run" /\ UNCHANGED <<fds, meant>>
  BY DEF OpenDir, Idle
<1>3. "dir" \in OpenFile /\ ~IsOpen(h)
  BY <1>1 DEF OpenFile, Lowest
<1>4. CASE /\ \E d \in Handle : dirs[c][d] = UNUSED /\ dirs' = [dirs EXCEPT ![c][d] = h]
           /\ UNCHANGED thr
  BY <1>1, <1>2, <1>3, <1>4, DirGains
<1>5. CASE GiveBack(c, {h}) /\ UNCHANGED dirs
  <2>1. host' \in [HostFd -> OpenFile \cup {"closed"}] /\ host'[h] = "dir" /\ HostOutside({h})
    BY <1>1, <1>3, SetsHost DEF Inv
  <2>2. {h} \in SUBSET HostFd /\ \A g \in {h} : ~IsOpen(g) /\ host'[g] \in OpenFile
    BY <1>3, <2>1
  <2> QED
    BY <1>2, <1>5, <2>1, <2>2, CallGains
<1> QED
  BY <1>1, <1>4, <1>5

LEMMA CloseDirKeeps ==
  ASSUME Inv, NEW c \in Ctx, CloseDir(c) PROVE Inv'
<1>1. PICK d \in Handle : /\ dirs[c][d] # UNUSED /\ HostClose(dirs[c][d])
                          /\ dirs' = [dirs EXCEPT ![c][d] = UNUSED]
  BY DEF CloseDir
<1>2. thr[c].pc = "run" /\ UNCHANGED <<fds, thr, meant>>
  BY DEF CloseDir, Idle
<1>3. dirs[c][d] \in HostFd
  BY <1>1, TypesAt DEF Inv
<1>4. PICK h \in HostFd : dirs[c][d] = h
  BY <1>3
<1> QED
  BY <1>1, <1>2, <1>4, DirLoses

LEMMA StepGood ==
  ASSUME Inv, StdioStays, HostHasRoom, [Next]_vars PROVE Inv'
<1>1. CASE UNCHANGED vars
  BY <1>1 DEF vars, Inv, TypeOK, StdioOpen, Sole, Shaped, Faithful, Holds, Closing, Used, IsOpen,
              OnStdio
<1>2. CASE Next
  <2>1. PICK c \in Ctx :
          \/ \E p \in Ctx : Fork(p, c)
          \/ Leave(c) \/ Destroy(c)
          \/ Open(c) \/ Dup(c) \/ Pipe(c) \/ Undo(c) \/ Close(c)
          \/ Dup2(c) \/ Dup2Dup(c) \/ OpenDir(c) \/ CloseDir(c)
    BY <1>2 DEF Next
  <2> QED
    BY <2>1, ForkKeeps, LeaveKeeps, DestroyKeeps, OpenKeeps, DupKeeps, PipeKeeps, UndoKeeps,
       CloseKeeps, Dup2Keeps, Dup2DupKeeps, OpenDirKeeps, CloseDirKeeps
<1> QED
  BY <1>1, <1>2

LEMMA EntriesFollow == Inv => EntryFaithful
BY DEF Inv, Faithful, EntryFaithful, Closing

-----------------------------------------------------------------------------

LEMMA Always ==
  ASSUME StdioStays PROVE Spec /\ []HostHasRoom => []Inv
<1>1. Inv /\ HostHasRoom /\ [Next]_vars => Inv'
  BY StepGood
<1> QED
  BY <1>1, InitGood, PTL DEF Spec

\* As long as the host has a descriptor left, each open host descriptor above
\* stdio has exactly one owner, whatever the contexts do and however their
\* calls come between each other: none leaks when a table was full, a pipe
\* found one slot or a context ended, and none is closed by two.
THEOREM NoneLeaks ==
  ASSUME StdioStays PROVE Spec /\ []HostHasRoom => []HostFdsOwned
<1>1. Inv => HostFdsOwned
  BY SoleOwners DEF Inv
<1> QED
  BY <1>1, Always, PTL

\* And a descriptor of a running guest is the file it opened there: no other
\* context's close, dup2 or end reaches it, though all share one host table.
THEOREM EntriesKept ==
  ASSUME StdioStays PROVE Spec /\ []HostHasRoom => []EntryFaithful
<1>1. Inv => EntryFaithful
  BY EntriesFollow
<1> QED
  BY <1>1, Always, PTL

\* On the way there, every variable keeps its type.
THEOREM TypesKept ==
  ASSUME StdioStays PROVE Spec /\ []HostHasRoom => []TypeOK
<1>1. Inv => TypeOK
  BY DEF Inv
<1> QED
  BY <1>1, Always, PTL

=============================================================================
