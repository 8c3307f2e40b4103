----------------------------- MODULE ProcTable -----------------------------
(***************************************************************************)
(* The process table of the yos runtime (src/src/yos-process.c) and the    *)
(* host threads that run the processes (src/src/yos-exec-ctx.c).           *)
(*                                                                         *)
(* A process is a slot of rt->procs[].  A process that was forked runs on  *)
(* a detached pthread of its own, with an execution context whose          *)
(* ctx->proc points to the slot.  A thread is named here by the pid its    *)
(* slot had when the thread was made, so that a thread and the slot it     *)
(* points to can come apart, as they do in the program.                    *)
(*                                                                         *)
(* One action is one stretch of code another thread cannot interleave      *)
(* with: a critical section, or the unlocked accesses between two of them. *)
(* yos_proc_exit is three actions, because waiters for any child read the  *)
(* slot under proc_lock, which yos_proc_exit does not hold.                *)
(***************************************************************************)
EXTENDS Integers, FiniteSets

CONSTANTS NumProcs,  \* YOS_MAX_PROCS, the slots of the table
          MaxPid,    \* bound: pids are allocated up to this one
          Codes,     \* the statuses guests pass to exit()
          Signals,   \* the fatal signals guests send: SIGKILL, SIGTERM
          Calls,     \* what the guest programs do, a subset of AllCalls
          Faults     \* the host failures that happen, a subset of AllFaults

AllCalls == {"fork", "exit", "return", "waitpid", "poll", "wait", "kill",
             "setpgid", "setsid"}
AllFaults == {"memory", "thread", "context"}

ASSUME ProcTableAssumption ==
  /\ NumProcs \in Nat \ {0}
  /\ MaxPid \in Nat \ {0}
  /\ Codes \subseteq Int
  /\ Signals \subseteq {9, 15}
  /\ Calls \subseteq AllCalls
  /\ Faults \subseteq AllFaults

Slot == 1 .. NumProcs
Pid  == 1 .. MaxPid
NULL == 0                        \* no slot, no thread, no pid
InitPid == 1

State == {"FREE", "READY", "RUNNING", "ZOMBIE"}

\* Faulty form: the status is not cut to a byte.
WStatusWide(code) == code * 256

\* *status as wait_internal stores it: WEXITSTATUS format.
WStatus(code) == (code % 256) * 256

VARIABLES
  procs,     \* rt->procs[]
  next_pid,  \* rt->next_pid
  lock,      \* the thread that holds procs[s].lock, or NULL
  thr,       \* the host thread of each pid: its call and its locals
  proc,      \* ctx->proc of each thread
  up,        \* the host program has not returned from main()
  \* What the guests observed, for the properties only:
  declared,  \* the set of statuses each process passed to exit()
  reaped,    \* how often each pid was returned by a wait call
  status     \* the *status of the last such call

ghosts == <<declared, reaped, status>>
vars == <<procs, next_pid, lock, thr, proc, up, declared, reaped, status>>

-----------------------------------------------------------------------------
(* Threads *)

\* A thread's position: the call its guest made, the point it has reached
\* in that call, the slot pointer, the pid argument and the status it holds.
Frame(call, pc, ptr, pid, code) ==
  [call |-> call, pc |-> pc, ptr |-> ptr, pid |-> pid, code |-> code]

Guest == Frame("none", "run", NULL, 0, 0)     \* executing wasm code
NoThread == Frame("none", "none", NULL, 0, 0)
Leaving == Frame("none", "leave", NULL, 0, 0) \* back in yos_exec_ctx_run
Gone == Frame("none", "gone", NULL, 0, 0)

Goto(p, frame) == thr' = [thr EXCEPT ![p] = frame]
Step(p, pc) == Goto(p, [thr[p] EXCEPT !.pc = pc])

InGuest(p) == up /\ thr[p] = Guest
At(p, calls, pc) == up /\ thr[p].call \in calls /\ thr[p].pc = pc

MyPid(p) == procs[proc[p]].pid                \* ctx->proc->pid

-----------------------------------------------------------------------------
(* Operations on the table *)

EmptyProc == [pid |-> 0, ppid |-> 0, pgid |-> 0, sid |-> 0, state |-> "FREE",
              exit_code |-> 0, exited |-> FALSE]

NewProc(pid, ppid) ==
  [pid |-> pid, ppid |-> ppid, pgid |-> pid, sid |-> pid, state |-> "READY",
   exit_code |-> 0, exited |-> FALSE]

\* Faulty form: the pid counter stays.
SamePid(n) == n

NextPid(n) == n + 1

\* Faulty form: a zombie's slot is taken before it is reaped.
FirstFreeOrZombie(s) ==
  /\ procs[s].state \in {"FREE", "ZOMBIE"}
  /\ \A t \in 1 .. (s - 1) : procs[t].state \notin {"FREE", "ZOMBIE"}

\* Slot s is the first free one.
FirstFree(s) ==
  /\ procs[s].state = "FREE"
  /\ \A t \in 1 .. (s - 1) : procs[t].state # "FREE"

Matches(s, pid) == procs[s].pid = pid /\ procs[s].state # "FREE"

\* yos_proc_find returns slot s.
ProcFind(pid, s) == Matches(s, pid) /\ \A t \in 1 .. (s - 1) : ~Matches(t, pid)

SetProc(s, entry) == procs' = [procs EXCEPT ![s] = entry]
SetState(s, st) == SetProc(s, [procs[s] EXCEPT !.state = st])

-----------------------------------------------------------------------------
(* Creation of the first process and of its table entry *)

\* Faulty form: the counter is left as calloc made it.
FirstPidZero == 0

FirstPid == 1

\* yos_runtime_create.
Init ==
  /\ procs = [s \in Slot |-> EmptyProc]
  /\ next_pid = FirstPid
  /\ lock = [s \in Slot |-> NULL]
  /\ thr = [p \in Pid |-> NoThread]
  /\ proc = [p \in Pid |-> NULL]
  /\ up = TRUE
  /\ declared = [p \in Pid |-> {}]
  /\ reaped = [p \in Pid |-> 0]
  /\ status = [p \in Pid |-> 0]

\* yos_exec_ctx_create, called by main before any other thread exists.
CreateInit ==
  /\ up /\ next_pid = InitPid
  /\ next_pid' = NextPid(next_pid)
  /\ proc' = [proc EXCEPT ![InitPid] = 1]
  /\ \/ /\ SetProc(1, [NewProc(InitPid, 0) EXCEPT !.state = "RUNNING"])
        /\ Goto(InitPid, Guest)
        /\ UNCHANGED up
     \/ /\ "context" \in Faults
        /\ SetProc(1, [NewProc(InitPid, 0) EXCEPT !.state = "FREE"])
        /\ up' = FALSE
        /\ UNCHANGED thr
  /\ UNCHANGED <<lock, ghosts>>

-----------------------------------------------------------------------------
(* yos_fork *)

\* yos_proc_alloc, under proc_lock.  The memset and the pthread_mutex_init
\* also reset the slot's lock.
ForkAlloc(p) ==
  /\ InGuest(p) /\ "fork" \in Calls
  /\ next_pid <= MaxPid
  /\ \E s \in Slot :
       /\ FirstFree(s)
       /\ SetProc(s, NewProc(next_pid, MyPid(p)))
       /\ lock' = [lock EXCEPT ![s] = NULL]
       /\ Goto(p, Frame("fork", "ids", s, next_pid, 0))
  /\ next_pid' = NextPid(next_pid)
  /\ UNCHANGED <<proc, up, ghosts>>

ForkIds(p) ==
  /\ At(p, {"fork"}, "ids")
  /\ SetProc(thr[p].ptr, [procs[thr[p].ptr] EXCEPT !.pgid = procs[proc[p]].pgid,
                                                   !.sid = procs[proc[p]].sid])
  /\ Step(p, "memory")
  /\ UNCHANGED <<next_pid, lock, proc, up, ghosts>>

\* The two mallocs; the state is written without a lock.
ForkMemory(p) ==
  /\ At(p, {"fork"}, "memory")
  /\ \/ SetState(thr[p].ptr, "RUNNING") /\ Step(p, "spawn")
     \/ "memory" \in Faults /\ SetState(thr[p].ptr, "FREE") /\ Goto(p, Guest)
  /\ UNCHANGED <<next_pid, lock, proc, up, ghosts>>

\* pthread_create and pthread_detach.
ForkSpawn(p) ==
  /\ At(p, {"fork"}, "spawn")
  /\ \/ /\ thr' = [thr EXCEPT ![p] = Guest,
                              ![thr[p].pid] = Frame("none", "start", NULL, 0, 0)]
        /\ proc' = [proc EXCEPT ![thr[p].pid] = thr[p].ptr]
        /\ UNCHANGED procs
     \/ /\ "thread" \in Faults
        /\ SetState(thr[p].ptr, "FREE")
        /\ Goto(p, Guest)
        /\ UNCHANGED proc
  /\ UNCHANGED <<next_pid, lock, up, ghosts>>

-----------------------------------------------------------------------------
(* The life of a thread: fork_thread_func, yos_exec_ctx_run and main *)

\* yos_exec_ctx_fork fails, or the guest starts.
ThreadStart(p) ==
  /\ At(p, {"none"}, "start")
  /\ \/ Goto(p, Guest)
     \/ "context" \in Faults /\ Goto(p, Gone)
  /\ UNCHANGED <<procs, next_pid, lock, proc, up, ghosts>>

\* The entry function returns or traps: yos_exec_ctx_run returns and nothing
\* is written to the process table.
GuestReturns(p) ==
  /\ InGuest(p) /\ "return" \in Calls
  /\ Goto(p, Leaving)
  /\ UNCHANGED <<procs, next_pid, lock, proc, up, ghosts>>

\* yos_exec_ctx_destroy and the end of the thread.  When main returns, the
\* host program ends and with it every thread.
ThreadEnd(p) ==
  /\ At(p, {"none"}, "leave")
  /\ Goto(p, Gone)
  /\ up' = (p # InitPid)
  /\ UNCHANGED <<procs, next_pid, lock, proc, ghosts>>

-----------------------------------------------------------------------------
(* yos_exit, yos_kill, yos_raise and yos_proc_exit *)

\* The wrapper of exit() traps after yos_exit returns, so the guest never
\* runs again.
ExitCall(p) ==
  /\ InGuest(p) /\ "exit" \in Calls
  /\ \E c \in Codes :
       /\ Goto(p, Frame("exit", "state", proc[p], 0, c))
       /\ declared' = [declared EXCEPT ![p] = @ \cup {c}]
  /\ UNCHANGED <<procs, next_pid, lock, proc, up, reaped, status>>

\* SIGKILL and SIGTERM; signal 0, other signals and -ESRCH change nothing.
\* yos_raise is the case pid = MyPid(p).
KillCall(p) ==
  /\ InGuest(p) /\ "kill" \in Calls
  /\ \E pid \in Pid, s \in Slot, sig \in Signals :
       ProcFind(pid, s) /\ Goto(p, Frame("kill", "state", s, pid, 128 + sig))
  /\ UNCHANGED <<procs, next_pid, lock, proc, up, ghosts>>

Dying == {"exit", "kill"}

\* yos_proc_exit takes proc->lock and writes, in this order, the state, the
\* exit code and the flag.
ProcExitState(p) ==
  /\ At(p, Dying, "state")
  /\ lock[thr[p].ptr] = NULL
  /\ lock' = [lock EXCEPT ![thr[p].ptr] = p]
  /\ SetState(thr[p].ptr, "ZOMBIE")
  /\ Step(p, "code")
  /\ UNCHANGED <<next_pid, proc, up, ghosts>>

ProcExitCode(p) ==
  /\ At(p, Dying, "code")
  /\ SetProc(thr[p].ptr, [procs[thr[p].ptr] EXCEPT !.exit_code = thr[p].code])
  /\ Step(p, "flag")
  /\ UNCHANGED <<next_pid, lock, proc, up, ghosts>>

\* Faulty form: nobody is woken.
WokenByNobody(s) == {}

\* The threads that pthread_cond_broadcast on slot s wakes.  A thread that
\* slept on an earlier use of the slot is lost: the condition variable was
\* initialised again under it.
Woken(s) == {q \in Pid : /\ thr[q].pc = "sleep"
                         /\ thr[q].ptr = s
                         /\ thr[q].pid = procs[s].pid}

ProcExitFlag(p) ==
  /\ At(p, Dying, "flag")
  /\ SetProc(thr[p].ptr, [procs[thr[p].ptr] EXCEPT !.exited = TRUE])
  /\ lock' = [lock EXCEPT ![thr[p].ptr] = NULL]
  /\ thr' = [q \in Pid |->
               IF q = p THEN IF thr[p].call = "exit" THEN Leaving ELSE Guest
               ELSE IF q \in Woken(thr[p].ptr) THEN [thr[q] EXCEPT !.pc = "lock"]
               ELSE thr[q]]
  /\ UNCHANGED <<next_pid, proc, up, ghosts>>

-----------------------------------------------------------------------------
(* wait_internal: "waitpid" blocks, "poll" is waitpid with WNOHANG, "wait" *)
(* stands for every call with pid <= 0.                                    *)

Waiting == {"waitpid", "poll"}

MaxReports == 2                  \* bound of the counter: more than once

\* What a wait call that returns pid with this status shows its guest.
Report(pid, code) ==
  /\ reaped' = [reaped EXCEPT ![pid] = IF @ < MaxReports THEN @ + 1 ELSE @]
  /\ status' = [status EXCEPT ![pid] = WStatus(code)]
  /\ UNCHANGED declared

\* Faulty form: any process may be waited for.
AnyProcess(p, s) == TRUE

IsChild(p, s) == procs[s].ppid = MyPid(p)

\* proc_find and the test of ppid; -ECHILD changes nothing.
WaitFind(p) ==
  /\ InGuest(p)
  /\ \E call \in Waiting \cap Calls, pid \in Pid, s \in Slot :
       /\ ProcFind(pid, s)
       /\ IsChild(p, s)
       /\ Goto(p, Frame(call, "lock", s, pid, 0))
  /\ UNCHANGED <<procs, next_pid, lock, proc, up, ghosts>>

\* Faulty form: the flag is not looked at.
ExitedUnchecked(p) == TRUE

HasExited(p) == procs[thr[p].ptr].exited

\* The critical section under child->lock, up to pthread_cond_wait or to
\* the unlock after the exit code was read.
WaitCheck(p) ==
  /\ At(p, Waiting, "lock")
  /\ lock[thr[p].ptr] = NULL
  /\ \/ HasExited(p) /\ Goto(p, [thr[p] EXCEPT !.pc = "free",
                                               !.code = procs[thr[p].ptr].exit_code])
     \/ ~HasExited(p) /\ thr[p].call = "waitpid" /\ Step(p, "sleep")
     \/ ~HasExited(p) /\ thr[p].call = "poll" /\ Goto(p, Guest)
  /\ UNCHANGED <<procs, next_pid, lock, proc, up, ghosts>>

\* pthread_cond_wait may return without a broadcast.
SpuriousWakeup(p) ==
  /\ At(p, {"waitpid"}, "sleep")
  /\ Step(p, "lock")
  /\ UNCHANGED <<procs, next_pid, lock, proc, up, ghosts>>

\* Faulty form: the slot is left as it is.
KeepSlot(s) == UNCHANGED procs

FreeSlot(s) == SetState(s, "FREE")

\* The slot is freed after the unlock.
WaitFree(p) ==
  /\ At(p, Waiting, "free")
  /\ FreeSlot(thr[p].ptr)
  /\ Report(thr[p].pid, thr[p].code)
  /\ Goto(p, Guest)
  /\ UNCHANGED <<next_pid, lock, proc, up>>

\* Faulty form: any child will do, dead or alive.
AnyChild(p, s) == IsChild(p, s) /\ procs[s].state # "FREE"

ZombieChild(p, s) == IsChild(p, s) /\ procs[s].state = "ZOMBIE"

\* The scan for a zombie child, under proc_lock.  It never blocks: without
\* one the call returns 0 (WNOHANG) or -ECHILD, which changes nothing.
WaitAny(p) ==
  /\ InGuest(p) /\ "wait" \in Calls
  /\ \E s \in Slot :
       /\ ZombieChild(p, s)
       /\ \A t \in 1 .. (s - 1) : ~ZombieChild(p, t)
       /\ FreeSlot(s)
       /\ Report(procs[s].pid, procs[s].exit_code)
  /\ UNCHANGED <<next_pid, lock, thr, proc, up>>

-----------------------------------------------------------------------------
(* yos_setpgid and yos_setsid; getpid, getppid, getpgrp and getsid only read *)

SetpgidFind(p) ==
  /\ InGuest(p) /\ "setpgid" \in Calls
  /\ \E pid, pgid \in Pid \cup {0}, s \in Slot :
       LET target  == IF pid = 0 THEN MyPid(p) ELSE pid
           newpgid == IF pgid = 0 THEN target ELSE pgid
       IN  ProcFind(target, s) /\ Goto(p, Frame("setpgid", "write", s, newpgid, 0))
  /\ UNCHANGED <<procs, next_pid, lock, proc, up, ghosts>>

\* The group is written without a lock.
SetpgidWrite(p) ==
  /\ At(p, {"setpgid"}, "write")
  /\ SetProc(thr[p].ptr, [procs[thr[p].ptr] EXCEPT !.pgid = thr[p].pid])
  /\ Goto(p, Guest)
  /\ UNCHANGED <<next_pid, lock, proc, up, ghosts>>

Setsid(p) ==
  /\ InGuest(p) /\ "setsid" \in Calls
  /\ MyPid(p) # procs[proc[p]].sid
  /\ SetProc(proc[p], [procs[proc[p]] EXCEPT !.pgid = MyPid(p), !.sid = MyPid(p)])
  /\ UNCHANGED <<next_pid, lock, thr, proc, up, ghosts>>

-----------------------------------------------------------------------------

\* What a thread does once its guest has made a call; its scheduler runs it.
Internal(p) ==
  \/ ForkIds(p) \/ ForkMemory(p) \/ ForkSpawn(p)
  \/ ThreadStart(p) \/ ThreadEnd(p)
  \/ ProcExitState(p) \/ ProcExitCode(p) \/ ProcExitFlag(p)
  \/ WaitCheck(p) \/ WaitFree(p)
  \/ SetpgidWrite(p)

\* What the guest chooses to do.
GuestCall(p) ==
  \/ ForkAlloc(p) \/ GuestReturns(p) \/ ExitCall(p) \/ KillCall(p)
  \/ WaitFind(p) \/ WaitAny(p) \/ SetpgidFind(p) \/ Setsid(p)

Next == CreateInit \/ \E p \in Pid : Internal(p) \/ GuestCall(p) \/ SpuriousWakeup(p)

Spec == Init /\ [][Next]_vars

\* Every host thread that can run is run.
FairSpec == Spec /\ \A p \in Pid : WF_vars(Internal(p))

-----------------------------------------------------------------------------
(* Properties *)

Proc == [pid : 0 .. MaxPid, ppid : 0 .. MaxPid, pgid : 0 .. MaxPid, sid : 0 .. MaxPid,
         state : State, exit_code : Int, exited : BOOLEAN]

Call  == {"none", "fork", "exit", "kill", "waitpid", "poll", "setpgid"}
Point == {"none", "start", "run", "leave", "gone", "ids", "memory", "spawn",
          "state", "code", "flag", "lock", "sleep", "free", "write"}

Thread == [call : Call, pc : Point, ptr : 0 .. NumProcs, pid : 0 .. MaxPid, code : Int]

\* Every variable has its type; a thread that exists has a slot
\* (yos-types.h: "ctx->proc is NEVER NULL").
TypeOK ==
  /\ procs \in [Slot -> Proc]
  /\ next_pid \in 1 .. (MaxPid + 1)
  /\ lock \in [Slot -> Pid \cup {NULL}]
  /\ thr \in [Pid -> Thread]
  /\ proc \in [Pid -> Slot \cup {NULL}]
  /\ up \in BOOLEAN
  /\ declared \in [Pid -> SUBSET Codes]
  /\ reaped \in [Pid -> 0 .. MaxReports]
  /\ status \in [Pid -> Int]
  /\ \A p \in Pid : thr[p].pc # "none" => proc[p] # NULL

\* No two slots ever hold the same pid, dead or alive, and every process is
\* younger than its parent, so that parentage has no cycle.
PidsUnique ==
  /\ \A s, t \in Slot : procs[s].pid = procs[t].pid => s = t \/ procs[s].pid = 0
  /\ \A s \in Slot : procs[s].pid # 0 =>
       procs[s].ppid < procs[s].pid /\ procs[s].pid < next_pid

\* A thread between its start and the end of its yos_proc_exit works on its
\* own slot, which still names its pid and is in use: no wait, no failed
\* fork and no reuse of the slot took it away under the running process.
Alive(p) == thr[p].pc \notin {"none", "leave", "gone"}
OwnsSlot == \A p \in Pid : Alive(p) => Matches(proc[p], p)

\* A process is returned by at most one wait call.
ReapedOnce == \A p \in Pid : reaped[p] <= 1

\* A wait call returns the status of the exit() the child made, so it also
\* never returns a child that did not call exit().
StatusFaithful ==
  \A p \in Pid : reaped[p] > 0 =>
    \E c \in declared[p] : status[p] % 256 = 0 /\ status[p] \div 256 = c % 256

\* No lost wake-up: no waitpid sleeps on a child whose flag is set, and the
\* slot it sleeps on is still that child.
NoLostWakeup ==
  \A p \in Pid : thr[p].call = "waitpid" /\ thr[p].pc = "sleep" =>
    procs[thr[p].ptr].pid = thr[p].pid /\ ~procs[thr[p].ptr].exited

\* Thread p collects the process in slot s: p runs its parent, is in a wait
\* call for it, and is told of it for the first time, with its exit code.
Collects(p, s) ==
  LET k == procs[s].pid
  IN  /\ thr[p].call \in Waiting /\ thr[p].pid = k
      /\ procs[s].ppid = MyPid(p)
      /\ reaped[k] = 0 /\ reaped' = [reaped EXCEPT ![k] = 1]
      /\ status'[k] = WStatus(procs[s].exit_code)

\* A zombie stays in its slot until its parent collects it, in a wait call
\* that named it, and what a wait call returns is a zombie that leaves its slot.
ZombieUntilReaped ==
  [][/\ \A s \in Slot : procs[s].state = "ZOMBIE" =>
          \/ procs'[s].state = "ZOMBIE" /\ procs'[s].pid = procs[s].pid
          \/ procs'[s].state = "FREE" /\ \E p \in Pid : Collects(p, s)
     /\ reaped' # reaped =>
          \E s \in Slot : procs[s].state = "ZOMBIE" /\ procs'[s].state = "FREE"]_vars

\* A blocked waitpid returns once the child it waits for calls exit().
WaitReturns ==
  \A p, q \in Pid :
    (thr[p].call = "waitpid" /\ thr[p].pid = q /\ declared[q] # {})
      ~> (thr[p].call # "waitpid" \/ ~up)

\* yos-types.h: a process "Survives after process exits (ZOMBIE state) until
\* reaped by wait()".  A process whose thread has ended is a zombie, or was
\* returned by a wait call.
EndedIsZombie ==
  \A p \in Pid : thr[p].pc = "gone" /\ up =>
    reaped[p] > 0 \/ \E s \in Slot : procs[s].pid = p /\ procs[s].state = "ZOMBIE"

=============================================================================
