------------------------------ MODULE FdTable ------------------------------
(***************************************************************************)
(* The descriptors of the execution contexts (yos-vfs.c, yos-exec-ctx.c):  *)
(* each context has its table fds[] and its directory handles dirs[], all  *)
(* contexts share the descriptors of the host process they run in.         *)
(*                                                                         *)
(* A context is run by one thread, and its tables are its own, so an       *)
(* action is one call of the host kernel with the local work around it;    *)
(* calls of other contexts come between two host calls of one operation.   *)
(* A DIR stream is the host descriptor it holds.                           *)
(***************************************************************************)
EXTENDS Integers, FiniteSets

CONSTANTS Ctx,         \* execution contexts, numbers
          NumFds,      \* YOS_MAX_FDS
          NumDirs,     \* YOS_MAX_DIRS
          NumHostFds,  \* the limit of open descriptors of the host process
          Files,       \* what guests open
          Olds, News,  \* the descriptors guests pass to dup and dup2
          Calls,       \* what the first guest does, a subset of AllCalls
          ChildCalls   \* what the others do, a subset of AllCalls

AllCalls == {"open", "close", "dup", "dup2", "pipe", "opendir", "closedir"}

ASSUME FdAssumption ==
  /\ Ctx \subseteq Nat /\ 1 \in Ctx
  /\ NumFds \in Nat /\ NumFds >= 3
  /\ NumDirs \in Nat
  /\ NumHostFds \in Nat /\ NumHostFds >= 3
  /\ "closed" \notin Files
  /\ Olds \subseteq 0 .. (NumFds - 1) /\ News \subseteq 0 .. (NumFds - 1)
  /\ Calls \subseteq AllCalls /\ ChildCalls \subseteq AllCalls

Fd == 0 .. (NumFds - 1)
Handle == 1 .. NumDirs
HostFd == 0 .. (NumHostFds - 1)
Stdio == 0 .. 2
UNUSED == -1

VARIABLES
  fds,    \* ctx->fds[].host_fd
  dirs,   \* ctx->dirs[].host_dir
  host,   \* the open file of each host descriptor, or "closed"
  thr,    \* the thread of each context
  meant   \* for the properties: the open file a guest put on each descriptor

vars == <<fds, dirs, host, thr, meant>>

-----------------------------------------------------------------------------
(* The host kernel *)

Terminal == <<"stdin", "stdout", "stderr">>
OnStdio(fd) == Terminal[fd + 1]

IsOpen(h) == host[h] # "closed"

\* The descriptor the kernel gives next: the lowest that is closed.
Lowest(h) == ~IsOpen(h) /\ \A g \in 0 .. (h - 1) : IsOpen(g)

HostClose(h) == host' = [host EXCEPT ![h] = "closed"]

-----------------------------------------------------------------------------
(* Threads *)

Thread(pc, hs, old, new) == [pc |-> pc, hs |-> hs, old |-> old, new |-> new]
At(pc) == Thread(pc, {}, UNUSED, UNUSED)

Idle(c, call) ==
  thr[c].pc = "run" /\ call \in (IF c = 1 THEN Calls ELSE ChildCalls)
Goto(c, t) == thr' = [thr EXCEPT ![c] = t]

-----------------------------------------------------------------------------
(* Descriptor tables *)

Used(c, fd) == fds[c][fd] >= 0

\* The descriptor yos_alloc_fd returns.
FirstSlot(c, fd) == ~Used(c, fd) /\ \A i \in 0 .. (fd - 1) : Used(c, i)

HasSlots(c, n) == Cardinality({fd \in Fd : ~Used(c, fd)}) >= n

Put(c, fd, h, file) ==
  /\ fds' = [fds EXCEPT ![c][fd] = h]
  /\ meant' = [meant EXCEPT ![c][fd] = file]

\* Faulty form: the host descriptor is forgotten when the table is full.
ForgetAll(c, hs) == UNCHANGED thr

\* Without a slot the operation gives back what the host gave it.
GiveBack(c, hs) == Goto(c, Thread("undo", hs, UNUSED, UNUSED))

\* A new host descriptor goes to the first slot, or is given back.
Place(c, h, file) ==
  \/ /\ \E fd \in Fd : FirstSlot(c, fd) /\ Put(c, fd, h, file)
     /\ UNCHANGED thr
  \/ /\ ~HasSlots(c, 1)
     /\ GiveBack(c, {h})
     /\ UNCHANGED <<fds, meant>>

-----------------------------------------------------------------------------
(* Contexts *)

OnlyStdio == [fd \in Fd |-> IF fd \in Stdio THEN fd ELSE UNUSED]
NoFds == [fd \in Fd |-> UNUSED]
NoDirs == [d \in Handle |-> UNUSED]
MeansStdio == [fd \in Fd |-> IF fd \in Stdio THEN OnStdio(fd) ELSE "closed"]
MeansNone == [fd \in Fd |-> "closed"]

\* The first context, after yos_exec_ctx_init_stdio.
Init ==
  /\ fds = [c \in Ctx |-> IF c = 1 THEN OnlyStdio ELSE NoFds]
  /\ dirs = [c \in Ctx |-> NoDirs]
  /\ host = [h \in HostFd |-> IF h \in Stdio THEN OnStdio(h) ELSE "closed"]
  /\ thr = [c \in Ctx |-> At(IF c = 1 THEN "run" ELSE "none")]
  /\ meant = [c \in Ctx |-> IF c = 1 THEN MeansStdio ELSE MeansNone]

\* yos_exec_ctx_fork and yos_exec_ctx_init_stdio: the child of p starts
\* with stdio, the rest of its table is unused.
Fork(p, c) ==
  /\ thr[p].pc = "run" /\ thr[c].pc = "none"
  /\ Goto(c, At("run"))
  /\ fds' = [fds EXCEPT ![c] = OnlyStdio]
  /\ meant' = [meant EXCEPT ![c] = MeansStdio]
  /\ UNCHANGED <<dirs, host>>

\* yos_exec_ctx_run is over.
Leave(c) ==
  /\ thr[c].pc = "run"
  /\ Goto(c, At("destroy"))
  /\ UNCHANGED <<fds, dirs, host, meant>>

\* One turn of the loops of yos_exec_ctx_destroy, over the descriptors from
\* 3 on and then over the directories; at the end the context is freed.
Destroy(c) ==
  LET left == {fd \in Fd \ Stdio : Used(c, fd)}
      open == {d \in Handle : dirs[c][d] # UNUSED}
  IN  /\ thr[c].pc = "destroy"
      /\ \/ \E fd \in left :
              /\ \A i \in left : fd <= i
              /\ HostClose(fds[c][fd])
              /\ fds' = [fds EXCEPT ![c][fd] = UNUSED]
              /\ UNCHANGED <<dirs, thr, meant>>
         \/ \E d \in open :
              /\ left = {} /\ \A e \in open : d <= e
              /\ HostClose(dirs[c][d])
              /\ dirs' = [dirs EXCEPT ![c][d] = UNUSED]
              /\ UNCHANGED <<fds, thr, meant>>
         \/ /\ left = {} /\ open = {}
            /\ Goto(c, At("gone"))
            /\ fds' = [fds EXCEPT ![c] = NoFds]
            /\ meant' = [meant EXCEPT ![c] = MeansNone]
            /\ UNCHANGED <<dirs, host>>

-----------------------------------------------------------------------------
(* Descriptor operations; one that fails at its first step changes nothing *)

\* yos_open and yos_openat.
Open(c) ==
  /\ Idle(c, "open")
  /\ \E h \in HostFd, f \in Files :
       Lowest(h) /\ host' = [host EXCEPT ![h] = f] /\ Place(c, h, f)
  /\ UNCHANGED dirs

Dup(c) ==
  /\ Idle(c, "dup")
  /\ \E old \in Olds, h \in HostFd :
       /\ Used(c, old) /\ IsOpen(fds[c][old])
       /\ Lowest(h)
       /\ host' = [host EXCEPT ![h] = host[fds[c][old]]]
       /\ Place(c, h, meant[c][old])
  /\ UNCHANGED dirs

Pipe(c) ==
  /\ Idle(c, "pipe")
  /\ \E h0, h1 \in HostFd :
       /\ Lowest(h0)
       /\ h0 < h1 /\ ~IsOpen(h1) /\ \A g \in (h0 + 1) .. (h1 - 1) : IsOpen(g)
       /\ host' = [host EXCEPT ![h0] = "pipe:read", ![h1] = "pipe:write"]
       /\ \/ /\ \E r, w \in Fd :
                  /\ FirstSlot(c, r)
                  /\ r < w /\ ~Used(c, w) /\ \A i \in (r + 1) .. (w - 1) : Used(c, i)
                  /\ fds' = [fds EXCEPT ![c][r] = h0, ![c][w] = h1]
                  /\ meant' = [meant EXCEPT ![c][r] = "pipe:read", ![c][w] = "pipe:write"]
             /\ UNCHANGED thr
          \/ /\ ~HasSlots(c, 2)
             /\ GiveBack(c, {h0, h1})
             /\ UNCHANGED <<fds, meant>>
  /\ UNCHANGED dirs

\* The host descriptors are closed one by one, then the error is returned.
Undo(c) ==
  /\ thr[c].pc = "undo"
  /\ \E h \in thr[c].hs :
       /\ \A g \in thr[c].hs : h <= g
       /\ HostClose(h)
       /\ Goto(c, IF thr[c].hs = {h} THEN At("run")
                  ELSE Thread("undo", thr[c].hs \ {h}, UNUSED, UNUSED))
  /\ UNCHANGED <<fds, dirs, meant>>

\* Faulty form: the entry gets an error number, which is negative too.
EntryErrno(c, fd) == Put(c, fd, -9, "closed")

EntryCleared(c, fd) == Put(c, fd, UNUSED, "closed")

\* Of 0 to 2 it does nothing.
Close(c) ==
  /\ Idle(c, "close")
  /\ \E fd \in Fd \ Stdio :
       /\ Used(c, fd)
       /\ HostClose(fds[c][fd])
       /\ EntryCleared(c, fd)
  /\ UNCHANGED <<dirs, thr>>

\* yos_dup2 and yos_dup3, up to the close of the new descriptor.
Dup2(c) ==
  /\ Idle(c, "dup2")
  /\ \E old \in Olds, new \in News :
       /\ old # new /\ Used(c, old)
       /\ IF Used(c, new) THEN HostClose(fds[c][new]) ELSE UNCHANGED host
       /\ Goto(c, Thread("dup2", {}, old, new))
  /\ UNCHANGED <<fds, dirs, meant>>

\* Faulty form: the table gets the old descriptor's host descriptor.
SameHostFd(c, h) == fds[c][thr[c].old]

NewHostFd(c, h) == h

\* The host's dup, and the entry when it succeeds.
Dup2Dup(c) ==
  /\ thr[c].pc = "dup2"
  /\ \/ \E h \in HostFd :
          /\ IsOpen(fds[c][thr[c].old]) /\ Lowest(h)
          /\ host' = [host EXCEPT ![h] = host[fds[c][thr[c].old]]]
          /\ Put(c, thr[c].new, NewHostFd(c, h), meant[c][thr[c].old])
     \/ /\ ~IsOpen(fds[c][thr[c].old]) \/ \A h \in HostFd : IsOpen(h)
        /\ UNCHANGED <<fds, host, meant>>
  /\ Goto(c, At("run"))
  /\ UNCHANGED dirs

-----------------------------------------------------------------------------
(* Directory handles *)

OpenDir(c) ==
  /\ Idle(c, "opendir")
  /\ \E h \in HostFd :
       /\ Lowest(h)
       /\ host' = [host EXCEPT ![h] = "dir"]
       /\ \/ \E d \in Handle :
               /\ dirs[c][d] = UNUSED /\ \A e \in 1 .. (d - 1) : dirs[c][e] # UNUSED
               /\ dirs' = [dirs EXCEPT ![c][d] = h]
               /\ UNCHANGED thr
          \/ /\ \A d \in Handle : dirs[c][d] # UNUSED
             /\ GiveBack(c, {h})
             /\ UNCHANGED dirs
  /\ UNCHANGED <<fds, meant>>

CloseDir(c) ==
  /\ Idle(c, "closedir")
  /\ \E d \in Handle :
       /\ dirs[c][d] # UNUSED
       /\ HostClose(dirs[c][d])
       /\ dirs' = [dirs EXCEPT ![c][d] = UNUSED]
  /\ UNCHANGED <<fds, thr, meant>>

-----------------------------------------------------------------------------

Next ==
  \E c \in Ctx :
    \/ \E p \in Ctx : Fork(p, c)
    \/ Leave(c) \/ Destroy(c)
    \/ Open(c) \/ Dup(c) \/ Pipe(c) \/ Undo(c) \/ Close(c)
    \/ Dup2(c) \/ Dup2Dup(c)
    \/ OpenDir(c) \/ CloseDir(c)

Spec == Init /\ [][Next]_vars

-----------------------------------------------------------------------------
(* Properties *)

OpenFile == Files \cup {Terminal[1], Terminal[2], Terminal[3],
                        "pipe:read", "pipe:write", "dir"}

\* Every variable has its type.
TypeOK ==
  /\ fds \in [Ctx -> [Fd -> HostFd \cup {UNUSED}]]
  /\ dirs \in [Ctx -> [Handle -> HostFd \cup {UNUSED}]]
  /\ host \in [HostFd -> OpenFile \cup {"closed"}]
  /\ meant \in [Ctx -> [Fd -> OpenFile \cup {"closed"}]]
  /\ thr \in [Ctx -> [pc : {"none", "run", "undo", "dup2", "destroy", "gone"},
                      hs : SUBSET HostFd, old : Fd \cup {UNUSED}, new : Fd \cup {UNUSED}]]

\* A descriptor of a running guest is the file the guest opened there:
\* nothing another context does in the shared host table changes it.
EntryFaithful ==
  \A c \in Ctx : thr[c].pc \in {"run", "undo"} =>
    \A fd \in Fd : IF Used(c, fd) THEN host[fds[c][fd]] = meant[c][fd]
                   ELSE meant[c][fd] = "closed"

\* The entry that yos_dup2 has closed and not yet set again.
Closing(c, fd) == thr[c].pc = "dup2" /\ thr[c].new = fd

\* The places that name host descriptor h: table entries, directory handles
\* and calls that are to give it back.
Owners(h) ==
  {o \in [ctx : Ctx, kind : {"fd"}, at : Fd] : fds[o.ctx][o.at] = h /\ ~Closing(o.ctx, o.at)}
    \cup {o \in [ctx : Ctx, kind : {"dir"}, at : Handle] : dirs[o.ctx][o.at] = h}
    \cup {o \in [ctx : Ctx, kind : {"call"}, at : {0}] : h \in thr[o.ctx].hs}

\* No host descriptor leaks and none is owned twice: each one above stdio
\* that is open has one owner, to the end of its context, also when a table
\* was full.
HostFdsOwned ==
  \A h \in HostFd \ Stdio : Cardinality(Owners(h)) = IF IsOpen(h) THEN 1 ELSE 0

=============================================================================
