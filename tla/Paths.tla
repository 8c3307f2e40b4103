------------------------------- MODULE Paths -------------------------------
(***************************************************************************)
(* Path names and the working directory of an execution context            *)
(* (yos-vfs.c): the host process has one working directory, which no call  *)
(* changes; a context has its own only as the string ctx->cwd, which is    *)
(* put before relative paths.                                              *)
(*                                                                         *)
(* "." and ".." are names like others until the host walks the path.  The  *)
(* length of a path is counted in names.  A call is one step: how the host *)
(* calls of different contexts interleave is FdTable's matter, and what    *)
(* other contexts do to the tree this one may do.  fork is followed into   *)
(* the child, which starts anew.                                           *)
(*                                                                         *)
(* A string of names can stop to mean what it meant: when a directory it   *)
(* passes is removed or gets another name, after fork, and where it was    *)
(* not absolute to begin with.  Then ctx->cwd, or the path stored with a   *)
(* descriptor, is lost; which is told from those events alone.             *)
(***************************************************************************)
EXTENDS HostTree

CONSTANTS Fd,        \* descriptors from 3 on
          MaxPath,   \* PATH_MAX, in names
          HostCwd,   \* the working directory of the host process, a node
          Dirs, Files, \* the directories and files there are at first
          Given,     \* the paths guests pass
          AtBases    \* what guests pass to the *at calls, a subset of AllBases

AllBases == {"AT_FDCWD", "fd"}

\* The directories from the root to the one of the host process.
HostDirs == {SubSeq(HostCwd, 1, n) : n \in 0 .. Len(HostCwd)}

\* The host process is in a directory; no name stands for a node that is not
\* there.
ASSUME PathsAssumption ==
  /\ Fd \subseteq Nat
  /\ MaxPath \in Nat /\ MaxDepth \in Nat
  /\ HostCwd \in Seq(Plain)
  /\ HostDirs \subseteq Dirs
  /\ NoNode \notin Dirs \cup Files
  /\ \A p \in Given : p = Path(p.abs, p.names) /\ p.abs \in BOOLEAN /\ p.names \in Names
  /\ AtBases \subseteq AllBases

VARIABLES
  cwd,      \* ctx->cwd
  fds,      \* ctx->fds[]: the node the host has open and the stored path
  \* For the properties:
  place,    \* the directory the guest takes for its own, or Lost
  astray    \* where the last call acted on another node than was meant

Lost == NoNode

vars == <<tree, cwd, fds, place, astray>>

-----------------------------------------------------------------------------
(* What paths mean *)

\* What a path means to the host process, and what it means to the guest.
Host(path) == Walk(HostCwd, path)
Meant(path) == Walk(place, path)

-----------------------------------------------------------------------------
(* Resolution of paths *)

\* Faulty form: a relative path is left to the host.
LeaveRelative(path) == path

\* An absolute path that does not fit is cut.
ResolvePath(path) ==
  IF path.abs
  THEN Path(TRUE, SubSeq(path.names, 1, Min({MaxPath, Len(path.names)})))
  ELSE Path(cwd.abs, cwd.names \o path.names)

\* A relative path that does not fit fails with ENAMETOOLONG.
Fits(path) == path.abs \/ Len(cwd.names) + Len(path.names) <= MaxPath

\* Whether the guest may rely on a path: an absolute one that is not cut, or
\* one from a cwd that is not lost.
Sure(path) == IF path.abs THEN Len(path.names) <= MaxPath ELSE place # Lost

\* The host acts on the resolved path.  A guest that may not rely on the path
\* expects nothing of it.
OnPath(path) ==
  LET node == Host(ResolvePath(path))
  IN  <<node, IF Sure(path) THEN Meant(path) ELSE node>>

\* The call acts on the first node of each pair; the guest named the second.
Acts(ons) == astray' = {on \in ons : on[1] # on[2]}

\* Bound: guests leave descriptors 0 to 2 as they are.
Entry(on, path, relied) ==
  [node |-> on[1], path |-> path, meant |-> on[2], sure |-> relied]
NoFd == Entry(<<NoNode, NoNode>>, Path(FALSE, NoNode), FALSE)
IsOpen(fd) == fds[fd] # NoFd
OnFd(fd) == <<fds[fd].node, fds[fd].meant>>

\* Where the *at calls start: the host's AT_FDCWD, or a descriptor of the guest.
Base(host, meant) == [host |-> host, meant |-> meant]
AtBase ==
  (IF "AT_FDCWD" \in AtBases THEN {Base(HostCwd, place)} ELSE {}) \cup
  (IF "fd" \in AtBases
   THEN {Base(fds[fd].node, fds[fd].meant) : fd \in {f \in Fd : IsOpen(f)}}
   ELSE {})
\* The path is the host's to resolve, which takes none that is too long.
GivenAt == {path \in Given : Len(path.names) <= MaxPath}
OnPathAt(base, path) == <<Walk(base.host, path), Walk(base.meant, path)>>

-----------------------------------------------------------------------------
(* Contexts *)

Init ==
  /\ tree = [dirs |-> Dirs, files |-> Files]
  /\ cwd = Path(TRUE, HostCwd)
  /\ fds = [fd \in Fd |-> NoFd]
  /\ place = HostCwd
  /\ astray = {}

\* The child starts in the working directory of the host process, wherever its
\* parent was, with no descriptor but stdio.
Fork ==
  /\ cwd' = Path(TRUE, HostCwd)
  /\ fds' = [fd \in Fd |-> NoFd]
  /\ place' = Lost
  /\ astray' = {}
  /\ UNCHANGED tree

-----------------------------------------------------------------------------
(* Descriptors *)

FirstFree(fd) == ~IsOpen(fd) /\ \A f \in Fd : f < fd => IsOpen(f)

Open ==
  /\ \E path \in Given, fd \in Fd :
       LET on == OnPath(path)
       IN  /\ Fits(path) /\ FirstFree(fd) /\ OpenNode(on[1])
           /\ fds' = [fds EXCEPT ![fd] = Entry(on, ResolvePath(path), Sure(path))]
           /\ Acts({on})
  /\ UNCHANGED <<cwd, place>>

\* The path is stored as the guest gave it: a relative one is none from the
\* root.
Openat ==
  /\ \E base \in AtBase, path \in GivenAt, fd \in Fd :
       LET on == OnPathAt(base, path)
       IN  /\ FirstFree(fd) /\ OpenNode(on[1])
           /\ fds' = [fds EXCEPT ![fd] = Entry(on, path, path.abs)]
           /\ Acts({on})
  /\ UNCHANGED <<cwd, place>>

\* The two ends are no nodes of the tree; what is stored for them are words.
PipeEnd(word) == Entry(<<NoNode, NoNode>>, Path(FALSE, <<word>>), FALSE)
Pipe ==
  /\ \E r, w \in Fd :
       /\ FirstFree(r) /\ r # w /\ ~IsOpen(w)
       /\ \A f \in Fd : f < w => IsOpen(f) \/ f = r
       /\ fds' = [fds EXCEPT ![r] = PipeEnd("pipe:read"), ![w] = PipeEnd("pipe:write")]
  /\ astray' = {}
  /\ UNCHANGED <<tree, cwd, place>>

\* Faulty form: the entry keeps the path it had.
KeepsPath(old, new) == [fds[old] EXCEPT !.path = fds[new].path]

\* The path is copied with the descriptor.
CopyOf(old, new) == fds[old]

Dup ==
  /\ \E old, new \in Fd :
       /\ IsOpen(old) /\ FirstFree(new)
       /\ fds' = [fds EXCEPT ![new] = CopyOf(old, new)]
  /\ astray' = {}
  /\ UNCHANGED <<tree, cwd, place>>

Dup2 ==
  /\ \E old, new \in Fd :
       /\ old # new /\ IsOpen(old)
       /\ fds' = [fds EXCEPT ![new] = CopyOf(old, new)]
  /\ astray' = {}
  /\ UNCHANGED <<tree, cwd, place>>

Close ==
  /\ \E fd \in Fd : IsOpen(fd) /\ fds' = [fds EXCEPT ![fd] = NoFd]
  /\ astray' = {}
  /\ UNCHANGED <<tree, cwd, place>>

-----------------------------------------------------------------------------
(* The working directory *)

Chdir ==
  /\ \E path \in Given :
       LET on == OnPath(path)
       IN  /\ Fits(path) /\ IsDir(on[1])
           /\ cwd' = ResolvePath(path)
           /\ place' = IF Sure(path) THEN on[2] ELSE Lost
           /\ Acts({on})
  /\ UNCHANGED <<tree, fds>>

\* The stored path, which is never empty, is taken as it is, also when the
\* descriptor is none of a directory.
Fchdir ==
  /\ \E fd \in Fd :
       /\ IsOpen(fd)
       /\ cwd' = fds[fd].path
       /\ place' = IF fds[fd].sure /\ IsDir(fds[fd].meant) THEN fds[fd].meant ELSE Lost
       /\ Acts({OnFd(fd)})
  /\ UNCHANGED <<tree, fds>>

\* What getcwd tells, the guest takes for the name of its directory.
Getcwd ==
  /\ Acts(IF place # Lost THEN {<<Host(cwd), place>>} ELSE {})
  /\ UNCHANGED <<tree, cwd, fds, place>>

-----------------------------------------------------------------------------
(* Calls that look at what a path or a descriptor names, or change it *)

Look ==
  /\ \E path \in Given : Fits(path) /\ Acts({OnPath(path)})
  /\ UNCHANGED <<tree, cwd, fds, place>>

LookAt ==
  /\ \E base \in AtBase, path \in GivenAt : Acts({OnPathAt(base, path)})
  /\ UNCHANGED <<tree, cwd, fds, place>>

UseFd ==
  /\ \E fd \in Fd : IsOpen(fd) /\ Acts({OnFd(fd)})
  /\ UNCHANGED <<tree, cwd, fds, place>>

ReadWrite == UseFd
Control == UseFd
Stat == Look
Fstat == UseFd
Fstatat == LookAt
Access == Look
Faccessat == LookAt
Getdents == UseFd
Readlink == Look
Readlinkat == LookAt
Chmod == Look
Fchmod == UseFd
Fchmodat == LookAt
Chown == Look
Fchown == UseFd
Fchownat == LookAt
Lchown == Look

-----------------------------------------------------------------------------
(* Calls that change the tree *)

\* The nodes the walk of a path comes by.
Passed(path) ==
  LET steps == Steps(tree.dirs, Start(HostCwd, path), path.names)
  IN  {steps[n] : n \in 0 .. Len(path.names)}
Through(path, gone) == \E n \in Passed(path), node \in gone : Under(node, n)

\* Bound: the directories from the root to the one of the host process stay.
MayGo(gone) == \A node \in gone, n \in HostDirs : ~Under(node, n)

\* Nodes go: a path that leads through them is lost.
Forget(gone) ==
  /\ MayGo(gone)
  /\ place' = IF Through(cwd, gone) THEN Lost ELSE place
  /\ fds' = [fd \in Fd |-> [fds[fd] EXCEPT !.sure = @ /\ ~Through(fds[fd].path, gone)]]
  /\ UNCHANGED cwd

\* A node gets another name, also to those who have it open.
GetsName(old, new) ==
  /\ Move(old, new) /\ MayGo({old, new})
  /\ place' = IF Through(cwd, {old, new}) THEN Lost ELSE place
  /\ fds' = [fd \in Fd |->
               [fds[fd] EXCEPT !.node = Moved(old, new, @), !.meant = Moved(old, new, @),
                               !.sure = @ /\ ~Through(fds[fd].path, {old, new})]]
  /\ UNCHANGED cwd

Named == {OnPath(path) : path \in {p \in Given : Fits(p)}}
NamedAt == {OnPathAt(base, path) : base \in AtBase, path \in GivenAt}

OnlyTree == UNCHANGED <<cwd, fds, place>>
Makes(ons, make(_)) == \E on \in ons : make(on[1]) /\ Acts({on}) /\ OnlyTree
Removes(ons, remove(_)) ==
  \E on \in ons : remove(on[1]) /\ Forget({on[1]}) /\ Acts({on})
Links(ons) ==
  \E old, new \in ons : LinkFile(old[1], new[1]) /\ Acts({old, new}) /\ OnlyTree
Renames(ons) ==
  \E old, new \in ons : GetsName(old[1], new[1]) /\ Acts({old, new})

Mkdir == Makes(Named, MakeDir)
Mkdirat == Makes(NamedAt, MakeDir)
Symlink == Makes(Named, MakeFile)
Symlinkat == Makes(NamedAt, MakeFile)
Rmdir == Removes(Named, RemoveDir)
Unlink == Removes(Named, RemoveFile)
Unlinkat == Removes(NamedAt, RemoveFile) \/ Removes(NamedAt, RemoveDir)
Link == Links(Named)
Linkat == Links(NamedAt)
Rename == Renames(Named)
Renameat == Renames(NamedAt)

-----------------------------------------------------------------------------

Next ==
  \/ Fork
  \/ Open \/ Openat \/ Pipe \/ Dup \/ Dup2 \/ Close
  \/ Chdir \/ Fchdir \/ Getcwd
  \/ ReadWrite \/ Control \/ Stat \/ Fstat \/ Fstatat
  \/ Access \/ Faccessat \/ Getdents \/ Readlink \/ Readlinkat
  \/ Chmod \/ Fchmod \/ Fchmodat \/ Chown \/ Fchown
  \/ Fchownat \/ Lchown
  \/ Mkdir \/ Mkdirat \/ Rmdir \/ Unlink \/ Unlinkat
  \/ Link \/ Linkat \/ Symlink \/ Symlinkat
  \/ Rename \/ Renameat

Spec == Init /\ [][Next]_vars

-----------------------------------------------------------------------------
(* Properties *)

\* Whatever was changed to before, by name or by descriptor and through dup,
\* and whatever was removed or renamed: a call acts on the node the guest
\* named, as seen from the directory it is in, and never on another context's
\* or the host's.  Of a relative path nothing is expected from where ctx->cwd
\* was lost until a chdir to an absolute path, or an fchdir, has found it again.
ActsOnMeant == astray = {}

\* ctx->cwd names the directory the guest is in, from wherever it is walked,
\* unless it was lost: a directory it leads through was removed or renamed, the
\* program is a fork's child, or fchdir took a path that is not from the root
\* or of no directory.  A chdir to an absolute path finds it again.
CwdFaithful == place # Lost => cwd.abs /\ Host(cwd) = place

=============================================================================
