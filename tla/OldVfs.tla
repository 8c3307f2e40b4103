------------------------------- MODULE OldVfs -------------------------------
(***************************************************************************)
(* The virtual file system of the C++ predecessor (obsolete/src/vfs.cpp)   *)
(* over HostFs: file systems mounted at paths, a table of descriptors that *)
(* grows, a working directory that is kept as an absolute, normalised      *)
(* path, and directory handles that are never used again.                  *)
(*                                                                         *)
(* Each program has a VFS of its own, which is deleted when the program    *)
(* ends or another one takes its place.  A VFS is used by one thread, and  *)
(* a call is one step.  File systems are HostFS objects, each at a node of *)
(* the host's tree; mounts are made before the program starts.             *)
(***************************************************************************)
EXTENDS HostFs

CONSTANTS Mounts,      \* where the file systems are mounted, and their roots
          MaxFds,      \* bound: the size of the descriptor table
          MaxHandles,  \* bound: how many directories a program opens
          Dirs, Files, \* the directories and files there are at first
          Given,       \* the paths guests pass
          News,        \* the descriptors guests dup2 to
          Growing,     \* whether they dup2 to descriptors beyond the table
          FchdirTo     \* whether what they fchdir to was opened by an absolute path

\* The mounts are a map, with one at the root; no name stands for a node that
\* is not there.
ASSUME OldVfsAssumption ==
  /\ \A m \in Mounts : m.at \in Names /\ m.root \in Dirs
  /\ \A m, n \in Mounts : m.at = n.at => m = n
  /\ \E m \in Mounts : m.at = <<>>
  /\ \A node \in Dirs \cup Files : node \in Names /\ node # NoNode
  /\ \A path \in Given : path = Path(path.abs, path.names) /\ path.abs \in BOOLEAN /\ path.names \in Names
  /\ NumHostFds \in Nat /\ NumHostFds >= 3
  /\ MaxFds \in Nat /\ MaxFds >= 3 /\ MaxHandles \in Nat /\ MaxDepth \in Nat
  /\ <<>> \in Dirs
  /\ News \subseteq 3 .. (MaxFds - 1)
  /\ Growing \in BOOLEAN /\ FchdirTo \subseteq BOOLEAN

VARIABLES
  cwd,         \* _cwd
  fdTable,     \* _fdTable, descriptor fd at fd + 1
  dirHandles,  \* _dirHandles
  \* For the properties:
  place,       \* the directory the guest takes for its own, as it names it
  meant,       \* what the guest put on its descriptors and handles
  called,      \* the names it gave for what is on its descriptors
  left,        \* host descriptors of file systems that were deleted
  astray       \* where the last call acted on another node than was meant

vars == <<tree, cwd, fdTable, dirHandles, host, place, meant, called, left, astray>>

-----------------------------------------------------------------------------
(* Resolution of paths *)

Apply(names, name) ==
  IF name = "." THEN names
  ELSE IF name = ".." THEN (IF names = <<>> THEN names ELSE Front(names))
  ELSE Append(names, name)

\* What is left of the names, one after the other.
Parts(names) ==
  LET parts[i \in 0 .. Len(names)] ==
        IF i = 0 THEN <<>> ELSE Apply(parts[i - 1], names[i])
  IN  parts
Normal(names) == Parts(names)[Len(names)]

\* Faulty form: the path is not normalised.
Joined(path) == IF path.abs THEN path ELSE Path(TRUE, cwd.names \o path.names)

\* An absolute path is not normalised.
MakeAbsolute(path) ==
  IF path.abs THEN path
  ELSE IF path.names = <<>> THEN cwd
  ELSE Path(TRUE, Normal(cwd.names \o path.names))

Matching(path) == {m \in Mounts : path.abs /\ IsPrefix(m.at, path.names)}

\* Faulty form: the map goes upwards.
Least(m, ms) == \A n \in ms : IsPrefix(m.at, n.at)

\* The first in the map, which goes downwards from the greatest string.  Of
\* two strings that match, one is a prefix of the other, and less.
First(m, ms) == \A n \in ms : IsPrefix(n.at, m.at)

Below(names, m) == SubSeq(names, Len(m.at) + 1, Len(names))

\* The file system the path belongs to, and the path below its mount: none or
\* one.
Resolve(path) ==
  LET p == MakeAbsolute(path)
  IN  {[fs |-> m.root, path |-> Path(TRUE, Below(p.names, m))] :
         m \in {n \in Matching(p) : First(n, Matching(p))}}

\* What the path names to the guest: below the innermost mount.
MeantNames(path) == Normal((IF path.abs THEN <<>> ELSE place) \o path.names)
MeantNode(names) ==
  LET m == CHOOSE m \in {n \in Mounts : IsPrefix(n.at, names)} :
             \A n \in Mounts : IsPrefix(n.at, names) => Len(n.at) <= Len(m.at)
  IN  Walk(Root, Path(TRUE, m.root \o Below(names, m)))
Meant(path) == MeantNode(MeantNames(path))

\* The call acts on the first node of each pair; the guest named the second.
Acts(ons) == astray' = {on \in ons : on[1] # on[2]}

-----------------------------------------------------------------------------
(* Descriptors *)

Terminal == <<<<"stdin">>, <<"stdout">>, <<"stderr">>>>

\* Bound: what is mounted does not begin or end while a program runs, and
\* guests leave descriptors 0 to 2 as they are.
Entry(localFd, path) == [localFd |-> localFd, path |-> path]
NoPath == Path(FALSE, <<>>)
NoEntry == Entry(-1, NoPath)
Stdio == [i \in 1 .. 3 |-> Entry(i - 1, NoPath)]

IsOpen(fd) == fd + 1 \in 1 .. Len(fdTable) /\ fdTable[fd + 1] # NoEntry
LocalFd(fd) == fdTable[fd + 1].localFd
OnFd(node, fd) == <<node, meant.fds[fd + 1]>>

\* The entry allocFd takes, and the table with it.
Slot(table) ==
  LET free == {i \in 4 .. Len(table) : table[i] = NoEntry}
  IN  IF free = {} THEN Len(table) + 1 ELSE Min(free)
Alloc(table, entry) ==
  IF Slot(table) > Len(table) THEN Append(table, entry)
  ELSE [table EXCEPT ![Slot(table)] = entry]
Fits(table) == Slot(table) <= MaxFds

InitFds == [i \in 1 .. MaxFds |-> IF i <= 3 THEN Terminal[i] ELSE Closed]
NoNames == [i \in 1 .. MaxFds |-> <<>>]

Init ==
  /\ tree = [dirs |-> Dirs, files |-> Files]
  /\ cwd = Path(TRUE, Root)
  /\ fdTable = Stdio
  /\ dirHandles = <<>>
  /\ host = [h \in HostFd |-> IF h < 3 THEN Terminal[h + 1] ELSE Closed]
  /\ place = Root
  /\ meant = [fds |-> InitFds, dirs |-> <<>>]
  /\ called = NoNames
  /\ left = {}
  /\ astray = {}

Handles == {i \in 1 .. Len(dirHandles) : dirHandles[i] # -1}

\* runProcess deletes the VFS of a program that ended or called exec, whose
\* destructor closes nothing, and a new program gets a new one.
NewProgram ==
  /\ cwd' = Path(TRUE, Root)
  /\ fdTable' = Stdio
  /\ dirHandles' = <<>>
  /\ place' = Root
  /\ meant' = [fds |-> InitFds, dirs |-> <<>>]
  /\ called' = NoNames
  /\ left' = left \cup {LocalFd(fd) : fd \in {f \in 3 .. (MaxFds - 1) : IsOpen(f)}}
                  \cup {dirHandles[i] : i \in Handles}
  /\ astray' = {}
  /\ UNCHANGED <<tree, host>>

\* The path is stored as the guest gave it.
Open ==
  /\ \E path \in Given, h \in HostFd : \E r \in Resolve(path) :
       /\ fsOpen(r.fs, r.path, h) /\ Fits(fdTable)
       /\ fdTable' = Alloc(fdTable, Entry(h, path))
       /\ meant' = [meant EXCEPT !.fds[Slot(fdTable)] = Meant(path)]
       /\ called' = [called EXCEPT ![Slot(fdTable)] = MeantNames(path)]
       /\ Acts({<<host'[h], Meant(path)>>})
  /\ UNCHANGED <<cwd, dirHandles, place, left>>

Close ==
  /\ \E fd \in 3 .. (MaxFds - 1) :
       /\ IsOpen(fd)
       /\ host' = fsClose(host, LocalFd(fd))
       /\ fdTable' = [fdTable EXCEPT ![fd + 1] = NoEntry]
       /\ meant' = [meant EXCEPT !.fds[fd + 1] = Closed]
       /\ called' = [called EXCEPT ![fd + 1] = <<>>]
  /\ astray' = {}
  /\ UNCHANGED <<tree, cwd, dirHandles, place, left>>

Dup ==
  /\ \E fd \in 0 .. (MaxFds - 1), h \in HostFd :
       /\ IsOpen(fd) /\ fsDup(host, LocalFd(fd), h) /\ Fits(fdTable)
       /\ fdTable' = Alloc(fdTable, Entry(h, fdTable[fd + 1].path))
       /\ meant' = [meant EXCEPT !.fds[Slot(fdTable)] = meant.fds[fd + 1]]
       /\ called' = [called EXCEPT ![Slot(fdTable)] = called[fd + 1]]
  /\ astray' = {}
  /\ UNCHANGED <<tree, cwd, dirHandles, place, left>>

\* Faulty form: what the new descriptor was open on stays open.
NotClosed(new) == host

\* The host's descriptors after dup2 has closed the new one.
Released(new) ==
  IF IsOpen(new) THEN fsClose(host, LocalFd(new)) ELSE host

\* dup2 copies the old entry through a pointer into the table; when the
\* table has grown and moved, what it copies may be anything.
Copies(old, new, h) ==
  {Entry(h, fdTable[old + 1].path)} \cup
    (IF new < Len(fdTable) THEN {} ELSE {NoEntry})

Padded(table, n) ==
  [i \in 1 .. Max({Len(table), n}) |-> IF i <= Len(table) THEN table[i] ELSE NoEntry]

\* When the host's dup fails the new descriptor is closed, and nothing else.
Dup2 ==
  /\ \E old \in 0 .. (MaxFds - 1), new \in News :
       /\ IsOpen(old) /\ old # new
       /\ Growing \/ new < Len(fdTable)
       /\ \/ \E h \in HostFd :
               /\ fsDup(Released(new), LocalFd(old), h)
               /\ \E entry \in Copies(old, new, h) :
                    fdTable' = [Padded(fdTable, new + 1) EXCEPT ![new + 1] = entry]
               /\ meant' = [meant EXCEPT !.fds[new + 1] = meant.fds[old + 1]]
               /\ called' = [called EXCEPT ![new + 1] = called[old + 1]]
          \/ /\ fsDupFails(Released(new), LocalFd(old))
             /\ host' = Released(new)
             /\ IF IsOpen(new)
                THEN /\ fdTable' = [fdTable EXCEPT ![new + 1] = NoEntry]
                     /\ meant' = [meant EXCEPT !.fds[new + 1] = Closed]
                     /\ called' = [called EXCEPT ![new + 1] = <<>>]
                ELSE UNCHANGED <<fdTable, meant, called>>
  /\ astray' = {}
  /\ UNCHANGED <<tree, cwd, dirHandles, place, left>>

Pipe ==
  /\ \E h0, h1 \in HostFd :
       LET table == Alloc(fdTable, Entry(h0, NoPath))
       IN  /\ fsPipe(h0, h1) /\ Fits(table)
           /\ fdTable' = Alloc(table, Entry(h1, NoPath))
           /\ meant' = [meant EXCEPT !.fds[Slot(fdTable)] = <<"pipe:read">>,
                                     !.fds[Slot(table)] = <<"pipe:write">>]
  /\ astray' = {}
  /\ UNCHANGED <<tree, cwd, dirHandles, place, called, left>>

-----------------------------------------------------------------------------
(* Directory handles *)

Opendir ==
  /\ \E path \in Given, h \in HostFd : \E r \in Resolve(path) :
       /\ fsOpendir(r.fs, r.path, h) /\ Len(dirHandles) < MaxHandles
       /\ dirHandles' = Append(dirHandles, h)
       /\ meant' = [meant EXCEPT !.dirs = Append(@, Meant(path))]
       /\ Acts({<<host'[h], Meant(path)>>})
  /\ UNCHANGED <<tree, cwd, fdTable, place, called, left>>

Readdir ==
  /\ \E i \in Handles : Acts({<<fsReaddir(dirHandles[i]), meant.dirs[i]>>})
  /\ UNCHANGED <<tree, cwd, fdTable, dirHandles, host, place, meant, called, left>>

\* Faulty form: the handle is taken out of the table.
TakenOut(i) == RemoveAt(dirHandles, i)

HandleClosed(i) == [dirHandles EXCEPT ![i] = -1]

Closedir ==
  /\ \E i \in Handles :
       /\ host' = fsClosedir(dirHandles[i])
       /\ dirHandles' = HandleClosed(i)
       /\ meant' = [meant EXCEPT !.dirs[i] = Closed]
  /\ astray' = {}
  /\ UNCHANGED <<tree, cwd, fdTable, place, called, left>>

-----------------------------------------------------------------------------
(* The working directory *)

Chdir ==
  /\ \E path \in Given :
       \E r \in Resolve(MakeAbsolute(path)) :
         /\ IsDir(fsStat(r.fs, r.path))
         /\ cwd' = MakeAbsolute(path)
         /\ place' = MeantNames(path)
         /\ Acts({<<fsStat(r.fs, r.path), Meant(path)>>})
  /\ UNCHANGED <<tree, fdTable, dirHandles, host, meant, called, left>>

\* The path becomes the one that was stored at open, also a relative one.  The
\* guest goes to what it put on the descriptor, by the name it had then.
Fchdir ==
  /\ \E fd \in 3 .. (MaxFds - 1) :
       /\ IsOpen(fd) /\ IsDir(fsFstat(LocalFd(fd)))
       /\ fdTable[fd + 1].path.abs \in FchdirTo
       /\ cwd' = fdTable[fd + 1].path
       /\ place' = called[fd + 1]
       /\ Acts({OnFd(fsFstat(LocalFd(fd)), fd)})
  /\ UNCHANGED <<tree, fdTable, dirHandles, host, meant, called, left>>

Found(path) == {HostNode(r.fs, r.path) : r \in Resolve(path)}

Getcwd ==
  /\ Acts(Found(cwd) \X {MeantNode(place)})
  /\ UNCHANGED <<tree, cwd, fdTable, dirHandles, host, place, meant, called, left>>

-----------------------------------------------------------------------------
(* Calls that look at what a path or a descriptor names *)

Look(fsCall(_, _)) ==
  /\ \E path \in Given : \E r \in Resolve(path) :
       Acts({<<fsCall(r.fs, r.path), Meant(path)>>})
  /\ UNCHANGED <<tree, cwd, fdTable, dirHandles, host, place, meant, called, left>>

UseFd(fsCall(_)) ==
  /\ \E fd \in 0 .. (MaxFds - 1) :
       IsOpen(fd) /\ Acts({OnFd(fsCall(LocalFd(fd)), fd)})
  /\ UNCHANGED <<tree, cwd, fdTable, dirHandles, host, place, meant, called, left>>

ReadWrite == UseFd(fsRead)
Fcntl == UseFd(fsFcntl)
Stat == Look(fsStat)
Fstat == UseFd(fsFstat)
Access == Look(fsAccess)
Chmod == Look(fsChmod)
Chown == Look(fsChown)
Fchmod == UseFd(fsFchmod)
Fchown == UseFd(fsFchown)
Getdents == UseFd(fsGetdents)
Readlink == Look(fsReadlink)
Ioctl == UseFd(fsIoctl)

-----------------------------------------------------------------------------
(* Calls that change the tree *)

OnlyTree == UNCHANGED <<cwd, fdTable, dirHandles, host, place, meant, called, left>>
Changes(ons) == Acts(ons) /\ OnlyTree
On(r, path) == <<HostNode(r.fs, r.path), Meant(path)>>

\* Bound: nobody removes or renames the directory the guest is in, or what is
\* open, or a directory above them.
MayGo(node) ==
  ~Under(node, MeantNode(place)) /\ \A h \in HostFd : ~Under(node, host[h])

Mkdir == \E path \in Given : \E r \in Resolve(path) :
  fsMkdir(r.fs, r.path) /\ Changes({On(r, path)})
Rmdir == \E path \in Given : \E r \in Resolve(path) :
  MayGo(HostNode(r.fs, r.path)) /\ fsRmdir(r.fs, r.path) /\ Changes({On(r, path)})
Unlink == \E path \in Given : \E r \in Resolve(path) :
  fsUnlink(r.fs, r.path) /\ Changes({On(r, path)})
Symlink == \E path \in Given : \E r \in Resolve(path) :
  fsSymlink(r.fs, r.path) /\ Changes({On(r, path)})

\* Paths of two file systems fail with EXDEV.
SameFs(r1, r2) == r1.fs = r2.fs

Link ==
  /\ \E old, new \in Given : \E r1 \in Resolve(old), r2 \in Resolve(new) :
       /\ SameFs(r1, r2) /\ fsLink(r1.fs, r1.path, r2.path)
       /\ Acts({On(r1, old), On(r2, new)})
  /\ OnlyTree
Rename ==
  /\ \E old, new \in Given : \E r1 \in Resolve(old), r2 \in Resolve(new) :
       /\ SameFs(r1, r2) /\ fsRename(r1.fs, r1.path, r2.path)
       /\ MayGo(HostNode(r1.fs, r1.path)) /\ MayGo(HostNode(r2.fs, r2.path))
       /\ Acts({On(r1, old), On(r2, new)})
  /\ OnlyTree

-----------------------------------------------------------------------------

Next ==
  \/ NewProgram
  \/ Open \/ Close \/ Dup \/ Dup2 \/ Pipe
  \/ Opendir \/ Readdir \/ Closedir
  \/ Chdir \/ Fchdir \/ Getcwd
  \/ ReadWrite \/ Fcntl \/ Stat \/ Fstat \/ Access
  \/ Chmod \/ Chown \/ Fchmod \/ Fchown
  \/ Getdents \/ Readlink \/ Ioctl
  \/ Mkdir \/ Rmdir \/ Unlink \/ Symlink \/ Link \/ Rename

Spec == Init /\ [][Next]_vars

-----------------------------------------------------------------------------
(* Properties *)

\* Whatever the guest changed to before, through mounts and back out of them:
\* a call on a path acts on the node the guest named.
ActsOnMeant == astray = {}

\* _cwd names the directory the guest is in, whatever was removed meanwhile.
CwdFaithful == cwd.abs /\ Found(cwd) = {MeantNode(place)}

\* A descriptor or a handle is open on what the guest put there, and closed
\* ones are closed, also when the host had no descriptor left for dup2.
EntryFaithful ==
  /\ \A fd \in 0 .. (MaxFds - 1) :
       IF IsOpen(fd) THEN host[LocalFd(fd)] = meant.fds[fd + 1]
       ELSE meant.fds[fd + 1] = Closed
  /\ \A i \in 1 .. Len(meant.dirs) :
       IF i \in Handles THEN host[dirHandles[i]] = meant.dirs[i]
       ELSE meant.dirs[i] = Closed

Owners(h) ==
  {[kind |-> "fd", at |-> fd] : fd \in {f \in 0 .. (MaxFds - 1) : IsOpen(f) /\ LocalFd(f) = h}}
    \cup {[kind |-> "dir", at |-> i] : i \in {j \in Handles : dirHandles[j] = h}}
    \cup (IF h \in left THEN {[kind |-> "left", at |-> 0]} ELSE {})

\* Every open descriptor of the host above stdio belongs to one entry or one
\* handle of the program, or was left open by an earlier program.
HostFdsOwned ==
  \A h \in HostFd \ {0, 1, 2} :
    Cardinality(Owners(h)) = IF host[h] # Closed THEN 1 ELSE 0

=============================================================================
