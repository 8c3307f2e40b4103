---------------------------- MODULE ProcTableInv ----------------------------
(***************************************************************************)
(* The inductive invariants behind the proofs about the process table.     *)
(***************************************************************************)
EXTENDS ProcTable

Ended == {"leave", "gone"}

\* A call in progress holds a slot, and a pid where it uses one.
CallsHold ==
  \A p \in Pid :
    /\ thr[p].call # "none" => thr[p].ptr \in Slot
    /\ thr[p].call \in {"fork", "waitpid", "poll"} => thr[p].pid \in Pid
    /\ thr[p].call = "none" => thr[p].pc \in {"none", "start", "run"} \cup Ended
    /\ thr[p].call # "none" => thr[p].pc \notin {"none", "start", "run"} \cup Ended

TypeInv == TypeOK /\ CallsHold

\* The guests wait by pid only and send no signals.
ByPidOnly == Calls \cap {"wait", "kill"} = {}

NoKills == \A p \in Pid : thr[p].call # "kill"

Exiting(p) == thr[p].call = "exit" /\ thr[p].pc \in {"code", "flag"}

\* A pid that was not allocated names nothing.
UnusedPids ==
  /\ \A p \in Pid : p >= next_pid =>
       thr[p].pc = "none" /\ reaped[p] = 0
  /\ \A s \in Slot : procs[s].state # "FREE" => procs[s].pid \in Pid

\* The slot of a thread that runs or exits.
ThreadSlots ==
  \A p \in Pid : Alive(p) =>
    /\ procs[proc[p]].pid = p
    /\ ~procs[proc[p]].exited
    /\ procs[proc[p]].state = IF Exiting(p) THEN "ZOMBIE" ELSE "RUNNING"

ExitSlots ==
  \A p \in Pid : thr[p].call = "exit" =>
    /\ thr[p].ptr = proc[p]
    /\ thr[p].code \in declared[p]
    /\ thr[p].pc \in {"state", "code", "flag"}
    /\ thr[p].pc = "flag" => procs[proc[p]].exit_code = thr[p].code

\* The slot of a fork in progress names a process without a thread.
ForkSlots ==
  \A p \in Pid : thr[p].call = "fork" =>
    /\ procs[thr[p].ptr].pid = thr[p].pid
    /\ procs[thr[p].ptr].ppid = p
    /\ procs[thr[p].ptr].state \in {"READY", "RUNNING"}
    /\ thr[p].pc = "spawn" => procs[thr[p].ptr].state = "RUNNING"
    /\ ~procs[thr[p].ptr].exited
    /\ thr[thr[p].pid].pc = "none"

\* The slot of a wait in progress is the child, to the end of the call.
WaitSlots ==
  \A p \in Pid : thr[p].call \in Waiting =>
    /\ Matches(thr[p].ptr, thr[p].pid)
    /\ procs[thr[p].ptr].ppid = p
    /\ thr[p].pc = "sleep" => ~procs[thr[p].ptr].exited
    /\ thr[p].pc = "free" => /\ procs[thr[p].ptr].exited
                             /\ thr[p].code = procs[thr[p].ptr].exit_code

\* A slot whose flag is set is a zombie, its thread is over, and it holds
\* the status its process passed to exit().
ExitedSlots ==
  \A s \in Slot : procs[s].state # "FREE" /\ procs[s].exited =>
    /\ procs[s].state = "ZOMBIE"
    /\ thr[procs[s].pid].pc \in Ended
    /\ procs[s].exit_code \in declared[procs[s].pid]

LockHolders ==
  \A s \in Slot : lock[s] # NULL => Exiting(lock[s]) /\ proc[lock[s]] = s

\* What a wait returned is over and left the table.
Reports ==
  \A p \in Pid : reaped[p] > 0 =>
    /\ reaped[p] = 1
    /\ thr[p].pc \in Ended
    /\ \A s \in Slot : ~Matches(s, p)
    /\ \E c \in declared[p] : status[p] = WStatus(c)

ByPidInv ==
  /\ NoKills /\ UnusedPids /\ ThreadSlots /\ ExitSlots /\ ForkSlots /\ WaitSlots
  /\ ExitedSlots /\ LockHolders /\ Reports

=============================================================================
