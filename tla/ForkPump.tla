------------------------------ MODULE ForkPump ------------------------------
(***************************************************************************)
(* The proof of concept of fork (poc/fork): a guest that calls fork is     *)
(* unwound by asyncify, which saves its call stack in its own linear       *)
(* memory; the host copies that memory into a new wasm3 runtime on a       *)
(* thread of its own, waits for the thread to end, and then rewinds the    *)
(* parent.  Parent and child both come back out of the same call of fork.  *)
(*                                                                         *)
(* What a guest has on its call stack is abstracted to what tells where it *)
(* is: the results of the forks it has made.  next_pid is read and written *)
(* without a lock, in two steps.                                           *)
(***************************************************************************)
EXTENDS Integers, Sequences

CONSTANTS Threads,   \* host threads, numbers; 1 runs main
          MaxData    \* bound: how much guests write to their memory

ASSUME ForkPumpAssumption ==
  /\ Threads \subseteq Nat \ {0} /\ 1 \in Threads
  /\ MaxData \in Nat

VARIABLES
  next_pid,   \* next_pid
  proc,       \* ForkProcess of each thread
  mem,        \* linear memory and the asyncify state, a global of the guest
  stack,      \* the call stack of the guest
  args,       \* ChildArgs of the thread
  thr,        \* where the thread is, its local child_pid, the thread it joins
  born        \* for the properties: the guest's parent and history at the fork

vars == <<next_pid, proc, mem, stack, args, thr, born>>

-----------------------------------------------------------------------------

Process(pid, ret, pending) == [pid |-> pid, fork_return |-> ret, fork_pending |-> pending]
NoProcess == Process(0, 0, FALSE)
Memory(data, saved, state) == [data |-> data, saved |-> saved, state |-> state]
Fresh == Memory(<<>>, <<>>, "normal")
Args(memory, pid) == [memory |-> memory, child_pid |-> pid]
At(pc, child_pid, child) == [pc |-> pc, child_pid |-> child_pid, child |-> child]
Goto(t, pc) == thr' = [thr EXCEPT ![t].pc = pc]

\* main has called _start of the first process.
Init ==
  /\ next_pid = 2
  /\ proc = [t \in Threads |-> IF t = 1 THEN Process(1, 0, FALSE) ELSE NoProcess]
  /\ mem = [t \in Threads |-> Fresh]
  /\ stack = [t \in Threads |-> <<>>]
  /\ args = [t \in Threads |-> Args(Fresh, 0)]
  /\ thr = [t \in Threads |-> At(IF t = 1 THEN "guest" ELSE "none", 0, 0)]
  /\ born = [t \in Threads |-> [parent |-> 0, stack |-> <<>>, data |-> <<>>]]

-----------------------------------------------------------------------------
(* The guest *)

\* It leaves its mark in its memory.
Write(t) ==
  /\ thr[t].pc = "guest" /\ Len(mem[t].data) < MaxData
  /\ mem' = [mem EXCEPT ![t].data = Append(@, t)]
  /\ UNCHANGED <<next_pid, proc, stack, args, thr, born>>

\* _start returns, or impl_exit traps.
GuestEnds(t) ==
  /\ thr[t].pc = "guest"
  /\ Goto(t, "pump")
  /\ UNCHANGED <<next_pid, proc, mem, stack, args, born>>

\* A guest that forks finds a thread for its child: the bound on processes.
Unused(u) == thr[u].pc = "none"
HasThread == \E u \in Threads : Unused(u)

\* fork_impl, not rewinding: the first half of next_pid++.
ForkCall(t) ==
  /\ thr[t].pc = "guest" /\ mem[t].state # "rewinding" /\ HasThread
  /\ thr' = [thr EXCEPT ![t] = At("fork", next_pid, 0)]
  /\ UNCHANGED <<next_pid, proc, mem, stack, args, born>>

\* Faulty form: the call stack stays where it is.
NothingSaved(m, s) == [m EXCEPT !.state = "unwinding"]

\* asyncify_start_unwind: on its way out the guest saves its call stack in
\* the buffer, which was reset to empty.
Unwound(m, s) == [m EXCEPT !.saved = s, !.state = "unwinding"]

ForkUnwind(t) ==
  /\ thr[t].pc = "fork"
  /\ next_pid' = thr[t].child_pid + 1
  /\ proc' = [proc EXCEPT ![t].fork_return = thr[t].child_pid, ![t].fork_pending = TRUE]
  /\ mem' = [mem EXCEPT ![t] = Unwound(@, stack[t])]
  /\ stack' = [stack EXCEPT ![t] = <<>>]
  /\ Goto(t, "pump")
  /\ UNCHANGED <<args, born>>

-----------------------------------------------------------------------------
(* fork_pump and child_thread *)

\* Faulty form: the parent goes on without waiting.
NoJoin(t, u) == thr' = [thr EXCEPT ![t] = At("joined", 0, u), ![u] = At("created", 0, 0)]

\* pthread_create and the wait in pthread_join.
CreateAndJoin(t, u) ==
  thr' = [thr EXCEPT ![t] = At("join", 0, u), ![u] = At("created", 0, 0)]

\* Faulty form: the child is given the parent's result.
SameResult(t) == Args([mem[t] EXCEPT !.state = "normal"], proc[t].pid)

\* asyncify_stop_unwind comes before the memory and the globals are copied.
Snapshot(t) == Args([mem[t] EXCEPT !.state = "normal"], proc[t].fork_return)

PumpFork(t) ==
  /\ thr[t].pc = "pump" /\ proc[t].fork_pending
  /\ \E u \in Threads :
       /\ Unused(u) /\ \A v \in Threads : v < u => ~Unused(v)
       /\ args' = [args EXCEPT ![u] = Snapshot(t)]
       /\ CreateAndJoin(t, u)
       /\ born' = [born EXCEPT ![u] =
            [parent |-> t, stack |-> mem[t].saved, data |-> mem[t].data]]
  /\ proc' = [proc EXCEPT ![t].fork_pending = FALSE]
  /\ mem' = [mem EXCEPT ![t].state = "normal"]
  /\ UNCHANGED <<next_pid, stack>>

\* Faulty form: the child's memory is that of a program that starts anew.
NotRestored(a) == [Fresh EXCEPT !.state = "rewinding"]

\* Faulty form: the child runs on without being rewound.
NoRewind(a) == [a.memory EXCEPT !.state = "unwinding"]

\* Memory and globals are restored, then asyncify_start_rewind.
Restored(a) == [a.memory EXCEPT !.state = "rewinding"]

\* child_thread, up to the call of _start.
ChildStart(t) ==
  /\ thr[t].pc = "created"
  /\ proc' = [proc EXCEPT ![t] = Process(args[t].child_pid, 0, FALSE)]
  /\ mem' = [mem EXCEPT ![t] = Restored(args[t])]
  /\ Goto(t, "rewind")
  /\ UNCHANGED <<next_pid, stack, args, born>>

JoinReturns(t) ==
  /\ thr[t].pc = "join" /\ thr[thr[t].child].pc = "ended"
  /\ Goto(t, "joined")
  /\ UNCHANGED <<next_pid, proc, mem, stack, args, born>>

\* Faulty form: the parent is started without asyncify_start_rewind.
NotRewound(m) == [m EXCEPT !.state = "normal"]

Rewound(m) == [m EXCEPT !.state = "rewinding"]

\* The child has ended: asyncify_start_rewind and _start.
ParentRewind(t) ==
  /\ thr[t].pc = "joined"
  /\ mem' = [mem EXCEPT ![t] = Rewound(@)]
  /\ Goto(t, "rewind")
  /\ UNCHANGED <<next_pid, proc, stack, args, born>>

\* Rewinding calls fork_impl again, which stops it: the guest is back where
\* it was, with the result of this call.
ForkReturns(t) ==
  /\ thr[t].pc = "rewind" /\ mem[t].state = "rewinding"
  /\ stack' = [stack EXCEPT ![t] = Append(mem[t].saved, proc[t].fork_return)]
  /\ mem' = [mem EXCEPT ![t].state = "normal"]
  /\ Goto(t, "guest")
  /\ UNCHANGED <<next_pid, proc, args, born>>

\* The loop ends with the guest: a child's thread ends, main returns.
PumpEnds(t) ==
  /\ thr[t].pc = "pump" /\ ~proc[t].fork_pending
  /\ Goto(t, "ended")
  /\ UNCHANGED <<next_pid, proc, mem, stack, args, born>>

-----------------------------------------------------------------------------

Host(t) ==
  \/ ForkUnwind(t) \/ PumpFork(t) \/ ChildStart(t) \/ JoinReturns(t)
  \/ ParentRewind(t) \/ ForkReturns(t) \/ PumpEnds(t)

Next == \E t \in Threads : Write(t) \/ GuestEnds(t) \/ ForkCall(t) \/ Host(t)

Spec == Init /\ [][Next]_vars

\* What is not up to the guest is done by host threads, which go on.
FairSpec == Spec /\ \A t \in Threads : WF_vars(Host(t))

-----------------------------------------------------------------------------
(* Properties *)

Started(t) == thr[t].pc \notin {"none", "created"}

\* Busy, or about to go on because the thread it joins has ended.
Busy(t) ==
  \/ thr[t].pc \notin {"none", "join", "ended"}
  \/ thr[t].pc = "join" /\ thr[thr[t].child].pc = "ended"

\* However deep guests fork, one thread at a time has something to do: this
\* is what lets fork_impl take pids without a lock.
OneThreadRuns == \A t, u \in Threads : Busy(t) /\ Busy(u) => t = u

\* No two processes ever have the same pid.
PidsUnique == \A t, u \in Threads :
  Started(t) /\ Started(u) /\ proc[t].pid = proc[u].pid => t = u

Prefix(s, r) == Len(s) <= Len(r) /\ SubSeq(r, 1, Len(s)) = s

\* Each fork returns once in the child, with 0, and once in the parent, with
\* the pid of that child, and both find their call stack as it was.
ReturnsTwice ==
  \A u \in Threads :
    LET p == born[u].parent
    IN  /\ p # 0 /\ thr[u].pc = "guest" => Prefix(Append(born[u].stack, 0), stack[u])
        /\ p # 0 /\ thr[u].pc = "ended" /\ thr[p].pc = "guest"
             => Prefix(Append(born[u].stack, proc[u].pid), stack[p])

\* A child finds what its parent wrote before the fork; what it writes itself
\* its parent never sees.
MemoryIsolated ==
  \A u \in Threads : born[u].parent # 0 /\ Started(u) =>
    /\ Prefix(born[u].data, mem[u].data)
    /\ \A i \in 1 .. Len(mem[born[u].parent].data) : mem[born[u].parent].data[i] # u

\* A guest that has called fork comes back out of it in the child.
ChildStarts ==
  \A t \in Threads : thr[t].pc = "fork" ~> \E u \in Threads :
    born[u].parent = t /\ thr[u].pc = "guest"

\* When a child has ended, its parent goes on: nobody is left waiting.
ParentResumes ==
  \A t \in Threads : (thr[t].pc = "join" /\ thr[thr[t].child].pc = "ended")
    ~> thr[t].pc = "guest"

=============================================================================
