# Verification of the yos sandbox

yos runs WebAssembly programs in an emulated multi-process POSIX system. Each
process is a host pthread with its own wasm3 runtime; one host process holds
them all, with one process table and one set of host descriptors. This
directory holds TLA+ models of the C runtime under `src/src`, of the call
trampolines beside it, of the proof of concept of fork (`src/poc/fork`) and of
the C++ predecessor (`src/obsolete`), with the TLC runs that check them and the
TLAPS proofs about them.

## The system

| part | state | operations | interaction |
|---|---|---|---|
| process table (`yos-process.c`, `yos-types.h`) | `procs[64]` (ids, state, exit code, `exited`, lock, condition), `next_pid`, `proc_lock` | alloc, find, exit, fork, wait family, kill, setpgid, setsid, id reads | shared by all threads; `ctx->proc` of each context points into it |
| execution context (`yos-exec-ctx.c`, `yos-main.c`) | wasm runtime and memory, `fds[]`, `dirs[]`, cwd, heap | create, fork, init_stdio, run, destroy | owned by one thread; destroyed when its thread ends |
| guest heap (`yos-memory.c`, sbrk and brk in `yos-runtime.c`) | `heap_end`, `free_list_head`, block headers in linear memory | malloc, calloc, free, realloc, sbrk, brk | called by the guest's thread; reset by fork |
| descriptors (`yos-vfs.c`) | `fds[256]`, `dirs[64]` | open, close, dup, dup2, pipe, opendir, closedir, one-descriptor calls | own tables over the shared descriptors of the host |
| paths (`yos-vfs.c`) | `cwd`, stored paths | resolve, chdir, fchdir, getcwd, path calls | host calls |
| variadic calls (`yos-wrapper-generator.py`, `varargs_trampoline.S`, `yos_varargs_call` in `yos-runtime.c`) | the registers and the stack of one call; a packed argument list | emitted wrappers, `call_native_varargs`, packed printf | read guest memory, call libc |
| fork pump (`poc/fork`) | `next_pid`, memory and asyncify state of each guest, `ChildArgs` | fork by unwind, snapshot, thread, join and rewind | proof of concept, apart from the runtime |
| predecessor: file systems (`obsolete/src/vfs.cpp`, `hostfs.cpp`) | mounts, growing descriptor table, directory handles, normalised cwd | path and descriptor calls | one VFS per program over the host's descriptors |
| predecessor: processes (`obsolete/src/process.cpp`, `runtime.cpp`, `syscalls.cpp`) | table nobody leaves, program and memory snapshot of each process | fork, vfork, spawn, exec, exit and wait, in two interfaces | one thread per process |

What is hard here: `proc_exit` holds the lock of a slot and wait-any the lock
of the table, so neither excludes the other; several writes hold no lock at
all; a found slot pointer outlives the lock it was found under; a killed
process goes on running; slots are reused while threads still point to them;
host calls of different contexts interleave over one descriptor table;
operations of several host calls fail half way; the allocator computes in
`uint32_t` over sizes of type `size_t`; the working directory is a string that
the host knows nothing of, and paths are stored at open to be used much later;
fork must leave a call stack once in the parent and once in the child; a
process changes its program while its vfork parent waits for it; guest and host
lay out one variadic call each on its own.

What makes each part correct: pids are unique; a running process owns its
slot; a child is reaped once, with the status of its exit; a waiter is always
woken; owned memory never overlaps and keeps its contents; a descriptor is
what its guest opened, and every host descriptor has one owner; a path means to
the host what it means to the guest; each fork returns twice and memories stay
apart; a vfork parent sleeps until it is woken and then goes on; a called
function finds its arguments and gives back the stack.

## Modules

| module | models | specification |
|---|---|---|
| `ProcTable` | process table, threads, all calls on them | `Spec`, `FairSpec` |
| `ProcTableInv` | the inductive invariants | |
| `ProcTableProofs` | TLAPS proofs: types and pids; what waits promise; that the table implements `ProcLife` | |
| `ProcLife` | abstract: what the process calls promise | `LifeSpec` |
| `ProcRefinement` | the mapping from `ProcTable` to `ProcLife` | `LifeCycle` |
| `Heap` | allocator and break of one context | `Spec` |
| `HeapProofs` | TLAPS proofs: areas, free list, sizes and contents, for any number of blocks | |
| `FdTable` | descriptor tables of all contexts over the host's | `Spec` |
| `FdTableProofs` | TLAPS proofs: owners and entries, for any number of contexts | |
| `HostTree` | the tree of the host's files and how a path is walked; used by `Paths` and `HostFs` | |
| `Paths`, `MCPaths` | path names, working directory, stored paths of one context | `Spec` |
| `PathsProofs` | TLAPS proofs: what paths mean, for paths of any length and any tree | |
| `ForkPump` | fork by asyncify, for processes that fork on | `Spec`, `FairSpec` |
| `ForkPumpProofs` | TLAPS proofs: one thread at a time, pids, memories, returns | |
| `HostFs` | the file system of the predecessor over the host's descriptors; used by `OldVfs` | |
| `OldVfs`, `MCOldVfs` | mounts, descriptors, handles and cwd of the predecessor | `Spec` |
| `OldVfsProofs` | TLAPS proofs: paths, entries and owners, for any mounts | |
| `OldProcs` | processes of the predecessor | `Spec`, `FairSpec` |
| `OldProcsProofs` | TLAPS proofs: vfork, images, statuses | |
| `Trampoline` | the wrapper of a variadic call and `call_native_varargs` | `CallSpec` |
| `VarArgPack` | printf by a packed list, guest's and host's side | `PrintSpec` |
| `VarargsProofs` | TLAPS proofs: arguments, alignment, frame; packed lists of any length | |
| `MCVarargs` | composes `Trampoline` and `VarArgPack`, one call at a time | `Spec` |

The configurations give the constants their values directly, or name a
definition of the MC module where the value is a set of paths. A file
`<Module>_<run>.cfg` or `<Module>.cfg` belongs to module `<Module>`. A
definition under a comment "Faulty form" is what a likely mistake in the code
would make of the definition below it; no specification uses it, and each
property is known to fail with one of them.

### ProcTable

`procs`, `next_pid` are the fields of the runtime, `lock[s]` the holder of
`procs[s].lock`, `proc[p]` is `ctx->proc`. `thr[p]` is the host thread that was
made for pid `p`: the call it is in, the point it has reached, and its locals
(the slot pointer, the pid argument, a status). `declared`, `reaped` and
`status` record what guests did and saw; no action reads them.

One action is one critical section, or the unlocked accesses between two.
`proc_lock` never spans two actions, so it needs no variable.

| code | actions |
|---|---|
| `yos_exec_ctx_create` | `CreateInit` |
| `yos_fork` | `ForkAlloc` (proc_alloc), `ForkIds`, `ForkMemory` (the mallocs, `state = RUNNING`), `ForkSpawn` (pthread_create) |
| `fork_thread_func`, `yos_exec_ctx_run`, `main` | `ThreadStart`, `GuestReturns`, `ThreadEnd` |
| `yos_exit`, `yos_kill`, `yos_raise`, `yos_proc_exit` | `ExitCall`, `KillCall`, then `ProcExitState`, `ProcExitCode`, `ProcExitFlag` |
| `wait_internal`, pid > 0 | `WaitFind`, `WaitCheck`, `SpuriousWakeup`, `WaitFree` |
| `wait_internal`, pid <= 0 | `WaitAny` |
| `yos_setpgid`, `yos_setsid` | `SetpgidFind`, `SetpgidWrite`, `Setsid` |

`proc_exit` is three actions because wait-any and `proc_find` read the slot
without its lock. Every access is taken to be atomic and in program order;
what a weaker memory order of the unlocked accesses adds is left out. When
`main` returns, the host program ends (`up`), and with it all threads.
`pthread_mutex_init` and `pthread_cond_init` of a reused slot are modelled as
what they do: the lock is free again, sleepers on the old condition are not
found by a later broadcast. vfork is fork. A call that fails without a change
of state is no step. `Calls` and `Faults` choose what guests and host do, so
that one module serves every regime.

### Heap

Memory is counted in cells of 8 bytes; `heap` holds the cells from
`__heap_base` on, `heap_end` and `free_list_head`. `MallocOf`, `FreeOf` and
`ReallocOf` are the functions of the code on that record, with `uint32_t`
arithmetic (`Word`); the loop of `find_free_block` is the function `Trail`,
without recursion. A context is run by one thread, so a call is one action.
`areas` is what the guest owns and knows of its contents. Guests free what
they were given, also twice; they do not write outside their areas, reallocate
freed blocks or move the break below blocks of malloc. `Fork` goes on in the
child: its program starts anew on the copied memory, and what its parent owned
becomes areas of kind "inherited".

### FdTable

`fds` and `dirs` are the tables, `host` the descriptors of the host process.
An action is one host call with the local work around it, so that other
contexts come between the close and the dup of `dup2` (`Dup2`, `Dup2Dup`) and
between the closes of a failing open or pipe (`Undo`) or of `exec_ctx_destroy`
(`Destroy`). The kernel gives the lowest free descriptor. `meant` is what the
guest put on each descriptor. `Olds` and `News` are the descriptors guests pass to
dup and dup2; the passing runs leave 0, 1 and 2 out of `News`.

### Paths

The host process has one working directory, which no call of the runtime
changes. `cwd` is `ctx->cwd`; `fds[fd]` is the node the host has open and the
path stored with it. `ResolvePath` puts `cwd` before a relative path, cuts an
absolute one that is too long, and the host walks the result from its own
working directory. `Open` stores the resolved path, `Openat` the path as it was
given, `Pipe` a word; `Dup` and `Dup2` copy it, and `Fchdir` makes it the working
directory, of whatever the descriptor is. `Fork` follows into the child, which
starts in the working directory of the host. The calls that only look at
something are `Look`, `LookAt` and `UseFd`; those that change the tree have an
action each, and `Rename` moves a directory with all under it.

`place` is the directory the guest takes for its own, and each call records in
`astray` whether it acted on another node than the guest named from there. The
code loses the guest's directory in some steps: then `place` is `Lost`, and nothing
is expected of a relative path until a chdir to an absolute path, or a good
fchdir, ends that. It is lost exactly when a directory on `ctx->cwd` goes or gets
another name, when fchdir takes a path that does not start at the root or names
no directory, when chdir takes one that is cut, and at fork. `sure` says the same
of the path of a descriptor. A node is the sequence of names that leads to it;
links to directories are left out, so a path has one meaning, and a file with two
links is two files. `Steps` of `HostTree` gives the nodes a walk passes, one for
each name. A call is one step: how host calls of contexts interleave is
`FdTable`'s matter.

### ForkPump

| code | actions |
|---|---|
| `fork_impl` | `ForkCall` and `ForkUnwind` (the two halves of `next_pid++`, then `asyncify_start_unwind`), `ForkReturns` (when rewinding) |
| `fork_pump` | `PumpFork` (stop the unwind, copy memory and globals, `pthread_create`), `JoinReturns`, `ParentRewind`, `PumpEnds` |
| `child_thread` | `ChildStart` (restore, `asyncify_start_rewind`), then as its own pump |
| the guest | `Write`, `GuestEnds` |

`mem` is the linear memory: what guests wrote, the call stack asyncify saved in
it, and the asyncify state. A call stack is abstracted to the results of the
forks the guest has made, which tells where in the program it is. `born`
records the parent, its stack and its data at the fork, for the properties.

### OldVfs

`HostFs` is `hostfs.cpp`: each call of a file system as a call of the host, on a
path put after the file system's root. `Mounts` are such file systems, each at a
path, with a node of the host's tree as root. `MakeAbsolute` and `Normal` are
the predecessor's, which normalises relative paths only; `Resolve` takes the
first matching mount of a map that goes downwards, the longest one, and gives
the file system with the rest of the path. `fdTable` grows at its end (`Alloc`),
`dirHandles` never gets shorter.
`Dup2` copies an entry through a pointer into a vector that may have moved
(`Copies`: what it reads then is not determined). `called` is the name the guest
gave for what it put on a descriptor: it is there that fchdir should lead.
`NewProgram` is the end of a
program or its exec: its VFS is deleted, and `left` are the host descriptors its
destructor leaves open. `astray` is as in `Paths`, `place` the name of the guest's
directory. Directories on which the guest stands, or which are open, are neither
removed nor renamed (`MayGo`, a bound).

### OldProcs

| code | actions |
|---|---|
| `ProcessTable::exit` | `ExitState`, `ExitDone`: two, since listings read the state without the lock |
| `forkProcess`, `vforkProcess`, `spawnProcess` | `Fork`, `Vfork`, `Spawn`, `VforkReturns` |
| `runProcess` | `Start` (load and run a program), `RunOn` (what it does with the result), `MainReturns` |
| ends of a guest | `Return`, `Trap`, `Exit` (libc's name), `YosExit`, `YosExec` |
| `yos_wait`, `waitpid`, `wait` | `YosWait`, `Waitpid`, `WaitAny`, then `WaitReturns` or `GoesOn` |

`image` is the program a process runs, the processes that have run in its
memory, and the snapshot it is to start with. For the properties, and read by no
action: `asked` and `declared` record what was asked for and the code a process
exited with; `awaited` is the vfork child of each process that has called neither
yos_exec nor yos_exit yet, `disturbed` the parents whose vfork child called them
once more, and `rewritten` the processes that called yos_exit.

### Trampoline and VarArgPack

A call through the trampoline is `WrapperPacks` (the emitted wrapper),
`Prologue`, `Align`, `PushLoop` (one turn at a time), `LoadAndCall`, the called
function (`CalleeReturns`, external: it keeps the registers that are not its
own and may write its parameters and all below them), `Epilogue` and
`BackInGuest`; `HookedCall` is the wrapper of a function that yos itself
implements. The stack is counted in slots of 8 bytes; a slot with an even number
begins at a multiple of 16.

printf by a packed list is `CallsPrintf`, `PackNext` and `PackEnds` (the code
which `obsolete/src/codegen/gen-syscalls.py` emits into the guest), then
`HostEnters` (which function `func` names), `CopyText`, `FormatValue` and
`Output` (`yos_varargs_call`; the same reader stands in
`obsolete/src/runtime.cpp:478`). Both read the format on their own, so that what
they agree on is worth a property. `values` is one array of guest words to the
one and of host words to the other. `out` is how far the host has come, `held` how
much text is in the buffer: the two part where snprintf cuts a value and tells
its full length (`Written`). What the end of the string overwrites when `out` is
behind the buffer is not modelled. Formats that end inside a conversion, as in a
lone "%" at the end, are left out: there the host reads on behind the end of the
string (`yos-runtime.c:123`).

## Runs that pass

| run | bounds | shows |
|---|---|---|
| `full` | 2 slots, 3 pids, kill, wait-any and setsid included | `TypeOK`, `PidsUnique` |
| `by_pid` | 3 slots, 4 pids, all host failures, statuses 0 and 263 | `OwnsSlot`, `ReapedOnce`, `StatusFaithful`, `NoLostWakeup`, `ZombieUntilReaped` |
| `refine` | 2 slots, 3 pids, `FairSpec` | `LifeCycle`, `WaitReturns` |
| `heap` | 5 cells, sizes 0 to 2 cells, all seven calls | `TypeOK`, `AreasDisjoint`, `FreeListSound`, `BigEnough`, `ContentsKept` |
| `fd` | 2 contexts, 5 descriptors, 12 host descriptors; the second context calls close and dup2 only | `TypeOK`, `EntryFaithful`, `HostFdsOwned` |
| `paths` | 2 descriptors, paths of 3 names and one that is cut, a tree of depth 1 under the host's directory, renames of directories, pipes | `ActsOnMeant`, `CwdFaithful` |
| `fork_pump` | 4 threads, 3 marks in a memory, `FairSpec` | `OneThreadRuns`, `PidsUnique`, `ReturnsTwice`, `MemoryIsolated`, `ChildStarts`, `ParentResumes` |
| `old_vfs` | mounts at / and /m, 5 host descriptors, 5 descriptors, 2 handles, depth 1 | `ActsOnMeant`, `CwdFaithful`, `EntryFaithful`, `HostFdsOwned` |
| `old_procs` | 3 pids, three programs of which one has no entry point, code 263; the first process ends by a return only; `FairSpec` | `StatusFaithful`, `VforkHolds`, `ImageRight`, `BlockedGoOn` |
| `varargs` | 1 to 4 fixed and up to 18 variable arguments; formats of 4 pieces, 3 values of up to 2 characters, a buffer of 4 | `ParametersFound`, `ArgsArrive`, `StackAligned`, `FrameRestored`, `PrintedInOrder`, `OneValueKept`, `TextInBuf` |

Several properties hold in a regime of guests only, and the constants say which.
That is not a choice of convenience: outside of it the code breaks them, as the
next two sections tell. Waits: guests wait by pid and send no signals. Heap: only
fresh memory is taken to be zero, and sizes stay clear of 2^32. Descriptors:
nobody dups onto 0, 1 or 2, and the host has descriptors for all tables. Paths:
the `*at` calls get descriptors, never AT_FDCWD. Predecessor: dup2 stays within the
table, fchdir gets what was opened by an absolute path, only the first program
forks, and snapshots fit. Variadic calls: arguments are ints, values have the
widths of a guest's word or of a lone long, and formats have conversions both
readers know.

Other differences are in the runs, and the properties leave out what they hit:
`CwdFaithful` and `ActsOnMeant` expect nothing of a working directory that the code
has lost, `VforkHolds` nothing of a parent whose earlier vfork child signals
again, `StatusFaithful` of `OldProcs` nothing of children that called yos_exit,
`BlockedGoOn` nothing of vfork children that end without yos_exit.

Bounds: two slots with three pids make a slot be used twice; three slots let a
child fork, wait and be waited for while another slot is taken. Pids end at
`MaxPid`; after that fork is not called. `reaped` stops at two. Status 263 is
cut to 7. Five cells hold a block of one cell and one of two, so that the
second block of the list can be the one that is taken. `NumHostFds` of `fd` is
above what both tables together can hold; in `old_vfs` it is not, so that dup2
fails there. Four threads hold a fork in a child of a child, and a parent that
forks again after its child has ended. Two descriptors and paths of three names
hold a chdir, an open relative to it and a fchdir back from elsewhere. In `paths`
descriptors 0 to 2 are left as they are, and so are the directories from the root
to the one of the host process (`MayGo`). Three pids hold a child of a child, which
is where vfork and exec get in each other's way. Of the first process nobody waits
for the end, so that it ends by a return only (`Leavers`); `Execd` and `Spawned` are
the paths guests exec and spawn. Eighteen variable arguments are more than the 16
the wrapper takes and more than the six registers; a format of 4 pieces has more
conversions than 3 values, and with values of 2 characters more text than a buffer
of 4 holds, also where a value begins inside and ends outside.

Fairness: `WF_vars(Internal(p))` of `ProcTable` and `OldProcs` and
`WF_vars(Host(t))` of `ForkPump` say that a thread which can go on, does; guests
may loop for ever, and a wake-up without a broadcast need not happen. pthreads
under a preemptive scheduler give this. Locks are held for a bounded number of
steps, so weak fairness is enough.

Deadlock is checked in `varargs` only. Elsewhere the system may stop: all threads
may have ended or wait for children that never exit, the threads or pids of the
model may be used up, a guest may have no call left that succeeds.

## Runs with a violation

Each checks one property stated by the repository.

| run | the repository says | the code |
|---|---|---|
| `ended` | `yos-types.h:30`, a process survives in ZOMBIE state until reaped | a child that returns from its entry function stays RUNNING; its parent's waitpid never returns |
| `double_reap` | `yos-types.h:30`, `:224` | a late `exited = 1` hits the next process of the slot, which is reaped while it runs and once more later |

Differences that change the outcome of the properties above, for which no run is
listed:

Processes. Wait-any may read a status before `proc_exit` has written it (against
`yos-types.h:120`; `StatusFaithful` fails with "wait" in `Calls`). Kill of a
zombie replaces its exit code, which `test_yos_process.c:844` calls a bug. A
killed process goes on running (`yos-types.h:35`). Fork's `state = RUNNING`
undoes a kill of the child (`yos-types.h:110`).

Heap. The break and the free list of a forked child start anew over the copied
blocks (`yos-exec-ctx.c:152`), though `yos-types.h:180` promises an independent
copy; so `InheritedSpared` is no property of a run. Calloc returns a used block as it is
(`yos-memory.c:146` speaks of zeros). A size that rounds up to 2^32 is served by
any free block (`yos-memory.c:47`; `BigEnough` fails with 536870912 in `Sizes`).

Descriptors. A dup2 onto 0, 1 or 2 closes the stdio of every context
(`yos-vfs.c:186` against the own table of `yos-types.h:166`; `EntryFaithful`
fails with 1 in `News`). A dup2 that fails in the host leaves an entry with the
number of a closed descriptor (`yos-types.h:141`; fails with a small
`NumHostFds`). A forked child gets none of its parent's descriptors but stdio
(`yos-types.h:166`).

Paths. The `*at` calls hand AT_FDCWD to the host, whose working directory is not
the guest's (`ActsOnMeant` fails with "AT_FDCWD" in `AtBases`). The rest is part of
the run, and loses the guest's directory: a forked child starts in the working
directory of the host process (`yos-exec-ctx.c:236`), though `yos-types.h:45` draws the
copy of cwd at fork and `yos-types.h:180` calls it an independent copy; fchdir
takes any open descriptor and copies the path stored with it (`yos-vfs.c:359`), a
file's, "pipe:read", or one that openat stored as it was given, relative to
another directory; a cwd goes astray when a directory it leads
through, with ".." too, is removed or renamed; an absolute path that is too long
is cut and used (`yos-vfs.c:32`).

Predecessor. A dup2 beyond the table reads through a pointer that the growth has
invalidated (`vfs.cpp:221`; `Growing`). A fchdir to what was opened by a relative
path makes that path the working directory (`vfs.cpp:347`; `CwdFaithful` fails with
FALSE in `FchdirTo`). A deleted VFS closes none of its descriptors (`vfs.cpp:36`;
`left`). fork and vfork start the program of init, also for a child of a process
that called exec (`runtime.cpp:143`; `ExecdForks`). A snapshot that does not fit is
left out in silence (`runtime.cpp:118`; `Fits`). A vfork child that calls yos_exec
wakes its parent again when it exits or calls yos_exec once more, and lets a later
vfork return before its child has called either (`runtime.cpp:180` against
`syscalls.cpp:36`, "Parent blocks until child calls exec or exit"; `VforkHolds` fails
without `disturbed`). A vfork child that returns, traps or calls libc's exit never
wakes its parent (`runtime.cpp:387` against the same line). The code of yos_exit is
replaced by 1 (`runtime.cpp:352`), though `process.hpp:67` says that wait returns the
exit code; a waiter sees one or the other (`StatusFaithful` of `OldProcs` fails
without `rewritten`). The generated execve ends its process with 1. A child with
a negative code is no child to waitpid (`runtime.cpp:440`).

Variadic calls. Pointers among the variable arguments arrive as offsets in the
guest's memory (`tests/unit/wasm-src/test_printf.c:37` prints with %s;
`ArgsArrive` fails with "pointer" in `Kinds`), arguments of 8 bytes are split
over two slots ("int64"), and 16 are taken where `docs/design.md:441` says 32. In
the packed list host longs are twice the guest's, so that only the first value
is what it was (`yos-runtime.h:89`: "must match"); "%f", "%*d" and "%5%" are
counted differently by the two readers (`PrintedInOrder` fails); a full list has
its end mark written over its first value; where snprintf cuts a value its full
length moves `out` past the buffer, and the end of the string is written there
(`yos-runtime.c:164`; in the run, and `TextInBuf` says when); a format that ends
in "%" is read on behind its end (`yos-runtime.c:123`); number 6 is sscanf to the
guest and vasprintf to the host. In the current build nothing calls
`yos_varargs_call`.

## Proofs

`ProcTableProofs`, for every number of slots and pids, every set of calls and
failures, from `ProcTableAssumption` alone:

- `TypeCorrect`: `Spec => []TypeOK`. `TypeOK` is not inductive, since a pid or
  a pointer of a call in progress may be written to the table later; `TypeInv`
  adds `CallsHold`: a call in progress holds a slot, and a pid where it needs
  one. One lemma per action shows that it is kept.
- `PidsAreUnique`: `Spec => []PidsUnique`, whatever races happen. With
  `TypeInv` it is inductive: only `proc_alloc` writes `pid`, `ppid` and
  `next_pid` (lemma `IdentitiesKept`), and it writes a pid no slot has had.

Its second part, for every number of slots and pids and every set of failures,
from `ProcTableAssumption` and the hypothesis `ByPidOnly` (no kill and no wait
for any child among `Calls`), which the violated runs show to be needed:

- `SlotsOwned`, `ChildrenReapedOnce`, `StatusesFaithful`, `WakeupsNotLost`:
  `Spec => []P` for `OwnsSlot`, `ReapedOnce`, `StatusFaithful` and
  `NoLostWakeup`; `ZombiesStay`: `Spec => ZombieUntilReaped`: only the parent takes
  a zombie out, in a wait call that named it, and is told of it once and with
  its exit code; what a wait call returns was a zombie until then.
- None of the five is inductive. `Inv` is `TypeInv`, `PidsUnique` and
  `ByPidInv`, which says for each thread what its slot pointer still refers
  to: `ThreadSlots` and `ExitSlots` for a process, `ForkSlots` for the child a
  fork is making, `WaitSlots` for the child a wait has found; for each slot
  with `exited` set that its thread is over and its status was declared
  (`ExitedSlots`); and for each pid that was returned, that it left the table
  (`Reports`).
- The heart of it are three lemmas on who may hold a pointer to a slot:
  `AliveAlone`, `ForkAlone` and `WaitAlone`. The last one uses `PidsUnique`:
  two waits on one slot are waits of the same parent, and a parent is in one
  call at a time. `Moves`, `ForkWrites` and `ExitStepKeeps` treat alike the
  steps that have the same effect on what `ByPidInv` speaks of.

Its third part, under the same hypothesis:

- `Implements`: `Spec => LifeCycle`, the life cycle of `ProcLife` under the
  mapping of `ProcRefinement`. With unique pids the mapping of a pid can be
  read from its own slot (`Looks`), so a step that writes one slot changes the
  image of one pid (`OthersUntouched`, `OneChange`). `Inv` then says which
  stage that pid is in before and after. `ProcExitState` and `ProcExitCode`
  are stutters: the abstract exit is the write of the flag, and waits by pid
  see nothing earlier.

`FdTableProofs`, for any number of contexts, table sizes and host descriptors,
under two hypotheses which the code needs: nobody dups onto 0 to 2
(`StdioStays`), and the host always has a descriptor left (`[]HostHasRoom`):

- `NoneLeaks` (`HostFdsOwned`), `EntriesKept` (`EntryFaithful`) and `TypesKept`.
- `HostFdsOwned` counts owners; the proof says instead that an open descriptor
  above stdio has an owner and never two (`Sole`, over the set of all
  `Places`). `Shaped` adds that tables hold nothing of stdio beyond their first
  three entries, and what a dup2 in progress still relies on; `Faithful` is
  `EntryFaithful` extended to that moment. It is inductive only together with
  `Sole`, from which it follows that a foreign close spares an entry.
- Actions are few to `Sole`: a place gains a host descriptor (`EntryGains`,
  `EntriesGain`, `CallGains`, `DirGains`), loses one (`EntryLoses`,
  `CallLoses`, `DirLoses`), or nothing moves (`NothingMoves`).

`ForkPumpProofs`, for any number of threads and any size of memory, from
`ForkPumpAssumption` alone:

- `OneAtATime`, `PidsNeverShared`, `MemoriesIsolated`, `ForksReturnTwice`:
  `Spec => []P` for `OneThreadRuns`, `PidsUnique`, `MemoryIsolated` and
  `ReturnsTwice`.
- `Chain` says that the threads which sleep in `pthread_join` form a chain down
  to the one that runs. So the pid that was read in the first half of
  `next_pid++` cannot be read by another before the second (`Claims`), although
  no lock is held. `Apart` keeps the memories apart, `Stacks` says for every
  live guest where its call stack is: on the stack, in its memory, or in the
  arguments of its thread.

`OldProcsProofs`, for any number of pids:

- `TypesHold`: `Spec => [](Types /\ Targets)`, from `OldProcsAssumption` alone.
- `VforkSafe`: `Spec => []VforkHolds`, from the same. `VforkInv` says of every
  process that is not `disturbed` that its flag is set only while it waits in
  vfork and not before the child it waits for has signalled.
- `ImageSafe`: `Spec => []ImageRight` if only the first program forks and
  snapshots fit; `ImageInv` follows the snapshot from fork to `Start`.
- `StatusSafe`: `Spec => []StatusFaithful` if exit codes are not negative, for
  children that did not call yos_exit; `CodesInv` follows a code from the
  guest's call to the table, `AnswersInv` from the table to the waiter. One lemma
  per action says what it changes.

`HeapProofs`, for a memory of any size below 4 GB, any number of blocks, any
sizes and increments, under the hypothesis `ClearOfWrap` (requests stay clear of
the wrap of a `uint32_t`), which `BigEnough` fails without:

- `TypesOfHeap`, `AreasStayApart`, `FreeListKept`, `LargeEnoughBlocks`,
  `ContentsStay`: `Spec => []P` for the five properties of the run.
- `WellFormed(h, H, L)` says of a heap `h`, the pointers `H` ever handed out and
  those in use `L`: the blocks lie apart below the break, and the free list is
  a chain through the blocks of `H` not in `L`. `Fits` ties each area of
  the guest to a block or to a stretch of sbrk, `Kept` says that the memory
  holds what the guest knows. `IInv` is the three together; none is inductive
  alone, since an area could be overwritten by a header that the list misplaces.
- `find_free_block` is a recursive function; its values are not computed but
  compared with the chain, turn by turn (`TrailIsChain`). That a chain ends
  within the turns a list can take is an argument on cardinality (`ChainFits`):
  it goes through no cell twice. Then there is one lemma for each function of
  the code (`FreeOfFacts`, `UnlinkFacts`, `GrowFacts`, `MallocOfFacts`) and one
  for each call (`MallocStep` and on).

`PathsProofs`, for paths of any length, any tree, any number of descriptors and
any directory of the host process, under `Regular`: the `*at` calls start at
descriptors. Files, pipes and relative paths given to fchdir, renames of
directories, forks and cut paths are all covered.

- `CallsOnMeant` (`ActsOnMeant`) and `CwdStays` (`CwdFaithful`), both from
  `Inductive`: `Regular => (Spec => []IInv)`.
- `Leads(dirs, names, node)`: the walk by `names` ends at `node` and passes
  directories only. `IInv` says that `ctx->cwd`, unless it is lost, leads to the
  guest's directory, and a stored path that is `sure` to what the descriptor is
  open on. A walk that leads
  somewhere goes on doing so as the tree grows (`LeadsGrown`), and as it
  shrinks elsewhere (`LeadsLess`); `WalkOn` says that a path put after another is
  walked from where that one ends, which is why putting `cwd` before a path
  gives what the guest means, dots included.
- `Steps` is a recursive function: `WalksExist` gives a function that its equation
  describes, so that it is one. Facts on all prefixes of a path are proved for a
  least prefix that would break them (`LeastNumber`), in place of an induction.

`OldVfsProofs`, for any mounts with one at /, any tables and limits of the host,
under `Regular`: dup2 stays within the table, fchdir gets what was opened by an
absolute path, and absolute paths have no dots:

- `CallsOnMeant` (`ActsOnMeant`), `CwdStays` (`CwdFaithful`), `EntriesStay`
  (`EntryFaithful`) and `HostFdsStay` (`HostFdsOwned`), all from `Inductive`.
- `PathsKept`: `_cwd` and the stored paths are normalised names of what was
  meant. `NormalTwice` says that normalising twice changes nothing, `Innermost`
  that the mount `Resolve` finds is the longest whose path begins the name, and
  the only such.
- `BooksKept`: the descriptors that entries, handles and deleted file systems
  own, put together (`Sole`): each open descriptor above stdio has one owner,
  which is open on what it takes it for. Every call adds a descriptor to one
  of the books or takes one away (`BooksFdAdded`, `BooksFdTaken`,
  `BooksDirAdded`, `BooksDirTaken`), or starts them anew (`BooksOfNew`).

`VarargsProofs`, first of `CallSpec`, which `MCVarargs` runs on the variables
`passing`, for every set of fixed arguments, every `MaxArgs` and every stack with
room for the 32 slots of `_args`:

- `AlignedCalls` (`StackAligned`), `CallsWithAll` (`ParametersFound`) and
  `ReturnsClean` (`FrameRestored`). The loop's invariant `Pushing` says which
  arguments already lie above the stack pointer; `Outside` that the saved
  registers lie beyond what the called function may write.
- `ArgumentsArrive` (`ArgsArrive`), if all variable arguments are ints and at most
  16 parameters are fixed (`IntsOnly`; other kinds arrive wrong, as said above).
  `IntArea` computes the guest's area: the k-th word is the k-th argument.

Then of `PrintSpec`, which it runs on the variables `packing`, for formats of any
length, any `VARG_MAX` and any buffer:

- `ReadersAgree` (`PrintedInOrder`), if the formats hold text, "%%" and the
  conversions both readers know (`KnownPieces`). `Packed` says of every moment of
  the packing what part of the format is done, and what types and words the
  list holds; `WrittenInOrder` says of every moment of the formatting that the
  lines written follow `Shown` of what was read.
- `LoneValueKept` (`OneValueKept`), if `VARG_MAX` is above 1: with room for one
  value, the end mark would be written over it.
- `TextFits` (`TextInBuf`), under `KnownPieces`, for values of any length.
  `TextHeld` says that `out` and the text part only where a value is cut, and
  then for good.

The hypotheses `ByPidOnly`, `StdioStays`, `ClearOfWrap`, both `Regular`,
`IntsOnly` and `KnownPieces` are met by the constants of the runs
that pass, and each names what the code cannot do; the properties fail where
the section above says so.

## Only model-checked

The four liveness properties, `WaitReturns`, `ChildStarts`, `ParentResumes` and
`BlockedGoOn`, which the prover cannot treat. Every other property of a run that
passes is proved. What stays with the runs besides is that the hypotheses are
enough for the guests of interest, and that the host's part (`HostHasRoom`)
can be met.

## Not modelled

- execve of the runtime: it stores a path and a flag that nothing in the
  source reads; the old program goes on.
- `main` frees the runtime while threads may use it: undefined behaviour; the
  host program ends at once in the model.
- argv in linear memory, growth of linear memory (`memory.grow`).
- F_DUPFD of fcntl, which hands out a host number the table does not know.
- wait() with living children, which the code answers with -ECHILD.
- the data that read, write and their kin move; only the node they act on.
- signals other than kill, uname, uid, mmap: constants or one host call.
- the va_list forms of variadic calls, whose list is taken for a pack, and the
  predecessor's own copy of the formatter.
- of the fork pump: a failing `pthread_create` and the sizes of its buffers.
- of the predecessor: groups, sessions, umask, sbrk and brk, the linking of
  calls; its process file system, which no call reaches; mounts that change
  while a program runs.
- the wrapper generator but for its variadic wrappers, the guest headers and
  stubs (declarations), logging.

## Plan

1. `ProcTable`, `ProcTableInv`, `ProcLife`, `ProcRefinement`, with
   `ProcTableProofs`: done.
2. `Heap`, with `HeapProofs`: done.
3. `FdTable`, with `FdTableProofs`: done.
4. `Paths` and `HostTree`, with `PathsProofs`: done.
5. `ForkPump`, with `ForkPumpProofs`: done.
6. `Trampoline` and `VarArgPack`, with `VarargsProofs`: done.
7. `OldVfs` and `HostFs`, with `OldVfsProofs`; `OldProcs`, with `OldProcsProofs`:
   done.
8. Left: a composition of `ProcTable` and `FdTable`, for the destruction of a
   context against its parent's wait and the descriptors of killed processes.
