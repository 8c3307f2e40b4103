------------------------------- MODULE HostFs -------------------------------
(***************************************************************************)
(* HostFS of the C++ predecessor (obsolete/src/hostfs.cpp), the file       *)
(* system below its VFS: every call goes to the host, a path put after the *)
(* root the object was made with.  An object is its root, a node of the    *)
(* tree; its descriptors and DIR streams are the host's, a DIR stream      *)
(* being the descriptor it holds.  A call that fails is no step; one that  *)
(* only looks at something, or moves data, is what it acts on.             *)
(***************************************************************************)
EXTENDS HostTree

CONSTANT NumHostFds  \* the limit of open descriptors of the host process

VARIABLE host        \* what each descriptor of the host process is open on

HostFd == 0 .. (NumHostFds - 1)
Closed == NoNode

\* The descriptor the host gives next.
Lowest(open, h) == open[h] = Closed /\ \A g \in HostFd : g < h => open[g] # Closed
NoneFree(open) == \A h \in HostFd : open[h] # Closed

-----------------------------------------------------------------------------
(* Calls by path *)

toHostPath(fs, path) == IF fs = Root THEN path ELSE Path(TRUE, fs \o path.names)
HostNode(fs, path) == Walk(Root, toHostPath(fs, path))

fsOpen(fs, path, h) ==
  LET node == HostNode(fs, path)
  IN  OpenNode(node) /\ Lowest(host, h) /\ host' = [host EXCEPT ![h] = node]

fsStat(fs, path) == HostNode(fs, path)
fsAccess(fs, path) == HostNode(fs, path)
fsChmod(fs, path) == HostNode(fs, path)
fsChown(fs, path) == HostNode(fs, path)
fsReadlink(fs, path) == HostNode(fs, path)

fsMkdir(fs, path) == MakeDir(HostNode(fs, path))
fsRmdir(fs, path) == RemoveDir(HostNode(fs, path))
fsUnlink(fs, path) == RemoveFile(HostNode(fs, path))
\* The target is stored as it is.
fsSymlink(fs, path) == MakeFile(HostNode(fs, path))
fsLink(fs, old, new) == LinkFile(HostNode(fs, old), HostNode(fs, new))
fsRename(fs, old, new) == Move(HostNode(fs, old), HostNode(fs, new))

-----------------------------------------------------------------------------
(* Calls by descriptor; open is what the host has open before the call *)

fsClose(open, fd) == [open EXCEPT ![fd] = Closed]

fsDup(open, fd, h) ==
  /\ open[fd] # Closed /\ Lowest(open, h)
  /\ host' = [open EXCEPT ![h] = open[fd]]
fsDupFails(open, fd) == open[fd] = Closed \/ NoneFree(open)

fsPipe(h0, h1) ==
  LET open == [host EXCEPT ![h0] = <<"pipe:read">>]
  IN  /\ Lowest(host, h0) /\ Lowest(open, h1)
      /\ host' = [open EXCEPT ![h1] = <<"pipe:write">>]

fsRead(fd) == host[fd]
fsFcntl(fd) == host[fd]
fsFstat(fd) == host[fd]
fsFchmod(fd) == host[fd]
fsFchown(fd) == host[fd]
fsGetdents(fd) == host[fd]
fsIoctl(fd) == host[fd]

-----------------------------------------------------------------------------
(* DIR streams *)

fsOpendir(fs, path, h) ==
  LET node == HostNode(fs, path)
  IN  IsDir(node) /\ Lowest(host, h) /\ host' = [host EXCEPT ![h] = node]
fsReaddir(dir) == host[dir]
fsClosedir(dir) == [host EXCEPT ![dir] = Closed]

=============================================================================
