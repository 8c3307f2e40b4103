--------------------------- MODULE ForkPumpProofs ---------------------------
(***************************************************************************)
(* That the fork pump runs one thread at a time, gives each process its    *)
(* own pid, keeps memories apart and lets each fork return twice, for any  *)
(* number of threads and however deep guests fork.                         *)
(***************************************************************************)
EXTENDS ForkPump, SequenceTheorems, TLAPS

-----------------------------------------------------------------------------
(* Types *)

PCs == {"none", "guest", "fork", "pump", "created", "join", "joined", "rewind", "ended"}
States == {"normal", "unwinding", "rewinding"}
Memories == [data : Seq(Threads), saved : Seq(Nat), state : States]
Processes == [pid : Nat, fork_return : Nat, fork_pending : BOOLEAN]
HostThreads == [pc : PCs, child_pid : Nat, child : Threads \cup {0}]
Arguments == [memory : Memories, child_pid : Nat]
Births == [parent : Threads \cup {0}, stack : Seq(Nat), data : Seq(Threads)]

Types ==
  /\ next_pid \in Nat
  /\ proc \in [Threads -> Processes]
  /\ mem \in [Threads -> Memories]
  /\ stack \in [Threads -> Seq(Nat)]
  /\ args \in [Threads -> Arguments]
  /\ thr \in [Threads -> HostThreads]
  /\ born \in [Threads -> Births]

LEMMA MemoryFacts ==
  ASSUME NEW m \in Memories
  PROVE  m.data \in Seq(Threads) /\ m.saved \in Seq(Nat) /\ m.state \in States
BY DEF Memories

LEMMA StateFacts ==
  ASSUME NEW m \in Memories, NEW s \in States
  PROVE  LET n == [m EXCEPT !.state = s]
         IN  n \in Memories /\ n.data = m.data /\ n.saved = m.saved /\ n.state = s
BY DEF Memories

LEMMA DataFacts ==
  ASSUME NEW m \in Memories, NEW t \in Threads
  PROVE  LET n == [m EXCEPT !.data = Append(@, t)]
         IN  /\ n \in Memories /\ n.data = Append(m.data, t)
             /\ n.saved = m.saved /\ n.state = m.state
<1>1. m.data \in Seq(Threads)
  BY MemoryFacts
<1>2. Append(m.data, t) \in Seq(Threads)
  BY <1>1
<1> QED
  BY <1>2 DEF Memories

LEMMA UnwoundFacts ==
  ASSUME NEW m \in Memories, NEW s \in Seq(Nat)
  PROVE  LET n == Unwound(m, s)
         IN  n \in Memories /\ n.data = m.data /\ n.saved = s
BY DEF Memories, Unwound, States

LEMMA ProcessFacts ==
  ASSUME NEW p \in Processes
  PROVE  /\ p.pid \in Nat /\ p.fork_return \in Nat /\ p.fork_pending \in BOOLEAN
         /\ LET q == [p EXCEPT !.fork_pending = FALSE]
            IN  q \in Processes /\ q.pid = p.pid /\ q.fork_return = p.fork_return /\ ~q.fork_pending
         /\ \A n \in Nat : LET q == [p EXCEPT !.fork_return = n, !.fork_pending = TRUE]
              IN  q \in Processes /\ q.pid = p.pid /\ q.fork_return = n /\ q.fork_pending
BY DEF Processes

LEMMA ThreadFacts ==
  ASSUME NEW h \in HostThreads
  PROVE  /\ h.pc \in PCs /\ h.child_pid \in Nat /\ h.child \in Threads \cup {0}
         /\ \A pc \in PCs : LET g == [h EXCEPT !.pc = pc]
              IN  g \in HostThreads /\ g.pc = pc /\ g.child_pid = h.child_pid /\ g.child = h.child
BY DEF HostThreads

LEMMA ConstructorFacts ==
  /\ \A pid, ret \in Nat, pending \in BOOLEAN :
       LET p == Process(pid, ret, pending)
       IN  p \in Processes /\ p.pid = pid /\ p.fork_return = ret /\ p.fork_pending = pending
  /\ \A m \in Memories, pid \in Nat :
       LET a == Args(m, pid)
       IN  a \in Arguments /\ a.memory = m /\ a.child_pid = pid
  /\ \A pc \in PCs, pid \in Nat, c \in Threads \cup {0} :
       LET h == At(pc, pid, c)
       IN  h \in HostThreads /\ h.pc = pc /\ h.child_pid = pid /\ h.child = c
BY DEF Process, Processes, Args, Arguments, At, HostThreads

LEMMA FreshFacts ==
  Fresh \in Memories /\ Fresh.data = <<>> /\ Fresh.saved = <<>> /\ Fresh.state = "normal"
BY DEF Fresh, Memory, Memories, States

-----------------------------------------------------------------------------
(* What each action does to the thread that takes it, and that it leaves   *)
(* the others alone                                                        *)

Kept(v) ==
  /\ proc'[v] = proc[v] /\ mem'[v] = mem[v] /\ stack'[v] = stack[v]
  /\ args'[v] = args[v] /\ thr'[v] = thr[v] /\ born'[v] = born[v]

OthersKept(t) == \A v \in Threads \ {t} : Kept(v)

\* Thread t goes to pc; its local variables, arguments and origin are kept.
MovesTo(t, pc) ==
  /\ thr'[t].pc = pc /\ thr'[t].child_pid = thr[t].child_pid /\ thr'[t].child = thr[t].child
  /\ args'[t] = args[t] /\ born'[t] = born[t]

LEMMA GotoMoves ==
  ASSUME Types, NEW t \in Threads, NEW pc \in PCs, Goto(t, pc)
  PROVE  /\ thr' \in [Threads -> HostThreads]
         /\ \A v \in Threads \ {t} : thr'[v] = thr[v]
         /\ thr'[t].pc = pc /\ thr'[t].child_pid = thr[t].child_pid /\ thr'[t].child = thr[t].child
<1>1. thr[t] \in HostThreads
  BY DEF Types
<1>2. thr' = [thr EXCEPT ![t] = [thr[t] EXCEPT !.pc = pc]]
  BY DEF Goto
<1>3. [thr[t] EXCEPT !.pc = pc] \in HostThreads
  BY <1>1, ThreadFacts
<1> QED
  BY <1>1, <1>2, <1>3, ThreadFacts DEF Types

LEMMA WriteDoes ==
  ASSUME Types, NEW t \in Threads, Write(t)
  PROVE  /\ Types' /\ OthersKept(t) /\ next_pid' = next_pid
         /\ thr[t].pc = "guest" /\ thr' = thr /\ proc' = proc /\ stack' = stack
         /\ args' = args /\ born' = born
         /\ mem'[t].data = Append(mem[t].data, t) /\ mem'[t].saved = mem[t].saved
         /\ mem'[t].state = mem[t].state
<1>1. mem[t] \in Memories
  BY DEF Types
<1> DEFINE n == [mem[t] EXCEPT !.data = Append(@, t)]
<1>3. /\ n \in Memories /\ n.data = Append(mem[t].data, t) /\ n.saved = mem[t].saved
      /\ n.state = mem[t].state
  BY <1>1, DataFacts
<1>4. mem' = [mem EXCEPT ![t] = n]
  BY DEF Write
<1> HIDE DEF n
<1>5. /\ thr[t].pc = "guest" /\ thr' = thr /\ proc' = proc /\ stack' = stack
      /\ args' = args /\ born' = born /\ next_pid' = next_pid
  BY DEF Write
<1> QED
  BY <1>3, <1>4, <1>5 DEF Types, OthersKept, Kept

\* GuestEnds, JoinReturns and PumpEnds only move on.
LEMMA MoveDoes ==
  ASSUME Types, NEW t \in Threads, NEW pc \in PCs,
         Goto(t, pc), UNCHANGED <<next_pid, proc, mem, stack, args, born>>
  PROVE  /\ Types' /\ OthersKept(t) /\ MovesTo(t, pc)
BY GotoMoves DEF Types, OthersKept, Kept, MovesTo

LEMMA ForkCallDoes ==
  ASSUME Types, NEW t \in Threads, ForkCall(t)
  PROVE  /\ Types' /\ OthersKept(t) /\ next_pid' = next_pid
         /\ thr[t].pc = "guest" /\ proc' = proc /\ mem' = mem /\ stack' = stack
         /\ args' = args /\ born' = born
         /\ thr'[t].pc = "fork" /\ thr'[t].child_pid = next_pid /\ thr'[t].child = 0
<1>1. /\ thr[t].pc = "guest" /\ thr' = [thr EXCEPT ![t] = At("fork", next_pid, 0)]
      /\ UNCHANGED <<next_pid, proc, mem, stack, args, born>>
  BY DEF ForkCall
<1>2. next_pid \in Nat /\ "fork" \in PCs
  BY DEF Types, PCs
<1> QED
  BY <1>1, <1>2, ConstructorFacts DEF Types, OthersKept, Kept

LEMMA ForkUnwindDoes ==
  ASSUME Types, NEW t \in Threads, ForkUnwind(t)
  PROVE  /\ Types' /\ OthersKept(t) /\ MovesTo(t, "pump")
         /\ thr[t].pc = "fork" /\ next_pid' = thr[t].child_pid + 1
         /\ proc'[t].pid = proc[t].pid /\ proc'[t].fork_return = thr[t].child_pid
         /\ proc'[t].fork_pending
         /\ mem'[t].data = mem[t].data /\ mem'[t].saved = stack[t]
<1>1. /\ thr[t] \in HostThreads /\ proc[t] \in Processes /\ mem[t] \in Memories
      /\ stack[t] \in Seq(Nat)
  BY DEF Types
<1>2. thr[t].child_pid \in Nat
  BY <1>1, ThreadFacts
<1> DEFINE p == [proc[t] EXCEPT !.fork_return = thr[t].child_pid, !.fork_pending = TRUE]
           n == Unwound(mem[t], stack[t])
<1>3. /\ p \in Processes /\ p.pid = proc[t].pid /\ p.fork_return = thr[t].child_pid
      /\ p.fork_pending
  BY <1>1, <1>2, ProcessFacts
<1>4. n \in Memories /\ n.data = mem[t].data /\ n.saved = stack[t]
  BY <1>1, UnwoundFacts
<1>5. proc' = [proc EXCEPT ![t] = p]
  BY DEF ForkUnwind
<1>6. mem' = [mem EXCEPT ![t] = n]
  BY DEF ForkUnwind
<1> HIDE DEF p, n
<1>7. /\ thr[t].pc = "fork" /\ next_pid' = thr[t].child_pid + 1
      /\ stack' = [stack EXCEPT ![t] = <<>>] /\ UNCHANGED <<args, born>>
      /\ Goto(t, "pump")
  BY DEF ForkUnwind
<1>8. <<>> \in Seq(Nat) /\ "pump" \in PCs
  BY DEF PCs
<1>9. /\ thr' \in [Threads -> HostThreads] /\ \A v \in Threads \ {t} : thr'[v] = thr[v]
      /\ MovesTo(t, "pump")
  BY <1>7, <1>8, GotoMoves DEF MovesTo
<1>10. Types'
  <2>1. next_pid' \in Nat
    BY <1>2, <1>7
  <2>2. proc' \in [Threads -> Processes] /\ mem' \in [Threads -> Memories]
    BY <1>3, <1>4, <1>5, <1>6 DEF Types
  <2> QED
    BY <1>7, <1>8, <1>9, <2>1, <2>2 DEF Types
<1>11. OthersKept(t)
  BY <1>5, <1>6, <1>7, <1>9 DEF OthersKept, Kept
<1> QED
  BY <1>3, <1>4, <1>5, <1>6, <1>7, <1>9, <1>10, <1>11 DEF Types

\* The child u of a fork: the first thread that is not used yet.
PumpForkTo(t, u) ==
  /\ thr[u].pc = "none" /\ thr'[u].pc = "created" /\ thr'[u].child = 0
  /\ args'[u].memory.data = mem[t].data /\ args'[u].memory.saved = mem[t].saved
  /\ args'[u].child_pid = proc[t].fork_return
  /\ proc'[u] = proc[u] /\ mem'[u] = mem[u] /\ stack'[u] = stack[u]
  /\ born'[u].parent = t /\ born'[u].stack = mem[t].saved /\ born'[u].data = mem[t].data
  /\ thr'[t].pc = "join" /\ thr'[t].child = u
  /\ args'[t] = args[t] /\ born'[t] = born[t] /\ stack'[t] = stack[t]
  /\ mem'[t].data = mem[t].data /\ mem'[t].saved = mem[t].saved
  /\ proc'[t].pid = proc[t].pid /\ proc'[t].fork_return = proc[t].fork_return
  /\ ~proc'[t].fork_pending
  /\ \A v \in Threads \ {t, u} : Kept(v)

LEMMA PumpForkDoes ==
  ASSUME Types, NEW t \in Threads, PumpFork(t)
  PROVE  /\ Types' /\ next_pid' = next_pid
         /\ thr[t].pc = "pump" /\ proc[t].fork_pending
         /\ \E u \in Threads : u # t /\ PumpForkTo(t, u)
<1>1. PICK u \in Threads :
        /\ thr[u].pc = "none"
        /\ args' = [args EXCEPT ![u] = Snapshot(t)]
        /\ thr' = [thr EXCEPT ![t] = At("join", 0, u), ![u] = At("created", 0, 0)]
        /\ born' = [born EXCEPT ![u] =
             [parent |-> t, stack |-> mem[t].saved, data |-> mem[t].data]]
  BY DEF PumpFork, Unused, CreateAndJoin
<1>2. /\ thr[t].pc = "pump" /\ proc[t].fork_pending
      /\ next_pid' = next_pid /\ stack' = stack
  BY DEF PumpFork
<1>3. u # t
  BY <1>1, <1>2
<1>4. proc[t] \in Processes /\ mem[t] \in Memories
  BY DEF Types
<1> DEFINE p == [proc[t] EXCEPT !.fork_pending = FALSE]
           n == [mem[t] EXCEPT !.state = "normal"]
           b == [parent |-> t, stack |-> mem[t].saved, data |-> mem[t].data]
<1>5. /\ p \in Processes /\ p.pid = proc[t].pid /\ p.fork_return = proc[t].fork_return
      /\ ~p.fork_pending
  BY <1>4, ProcessFacts
<1>6. n \in Memories /\ n.data = mem[t].data /\ n.saved = mem[t].saved
  BY <1>4, StateFacts DEF States
<1>7. b \in Births /\ b.parent = t /\ b.stack = mem[t].saved /\ b.data = mem[t].data
  BY <1>4, MemoryFacts DEF Births
<1>8. proc' = [proc EXCEPT ![t] = p] /\ mem' = [mem EXCEPT ![t] = n]
  BY DEF PumpFork
<1>9. Snapshot(t) = Args(n, proc[t].fork_return)
  BY DEF Snapshot
<1>10. born' = [born EXCEPT ![u] = b]
  BY <1>1
<1> HIDE DEF p, n, b
<1>11. proc[t].fork_return \in Nat
  BY <1>4, ProcessFacts
<1>12. /\ Snapshot(t) \in Arguments /\ Snapshot(t).memory = n
       /\ Snapshot(t).child_pid = proc[t].fork_return
  BY <1>6, <1>9, <1>11, ConstructorFacts
<1>13. /\ At("join", 0, u) \in HostThreads /\ At("join", 0, u).pc = "join"
       /\ At("join", 0, u).child = u
       /\ At("created", 0, 0) \in HostThreads /\ At("created", 0, 0).pc = "created"
       /\ At("created", 0, 0).child = 0
  BY ConstructorFacts DEF PCs
<1>14. /\ thr' \in [Threads -> HostThreads]
       /\ thr'[t] = At("join", 0, u) /\ thr'[u] = At("created", 0, 0)
       /\ \A v \in Threads \ {t, u} : thr'[v] = thr[v]
  BY <1>1, <1>3, <1>13 DEF Types
<1>15. /\ args' \in [Threads -> Arguments]
       /\ args'[u] = Snapshot(t) /\ \A v \in Threads \ {u} : args'[v] = args[v]
  BY <1>1, <1>12 DEF Types
<1>16. /\ proc' \in [Threads -> Processes]
       /\ proc'[t] = p /\ \A v \in Threads \ {t} : proc'[v] = proc[v]
  BY <1>5, <1>8 DEF Types
<1>17. /\ mem' \in [Threads -> Memories]
       /\ mem'[t] = n /\ \A v \in Threads \ {t} : mem'[v] = mem[v]
  BY <1>6, <1>8 DEF Types
<1>18. /\ born' \in [Threads -> Births]
       /\ born'[u] = b /\ \A v \in Threads \ {u} : born'[v] = born[v]
  BY <1>7, <1>10 DEF Types
<1>19. Types'
  BY <1>2, <1>14, <1>15, <1>16, <1>17, <1>18 DEF Types
<1>20. PumpForkTo(t, u)
  BY <1>1, <1>2, <1>3, <1>5, <1>6, <1>7, <1>12, <1>13, <1>14, <1>15, <1>16, <1>17, <1>18
  DEF PumpForkTo, Kept
<1> QED
  BY <1>2, <1>3, <1>19, <1>20

LEMMA ChildStartDoes ==
  ASSUME Types, NEW t \in Threads, ChildStart(t)
  PROVE  /\ Types' /\ OthersKept(t) /\ MovesTo(t, "rewind") /\ next_pid' = next_pid
         /\ thr[t].pc = "created"
         /\ proc'[t].pid = args[t].child_pid /\ proc'[t].fork_return = 0
         /\ ~proc'[t].fork_pending
         /\ mem'[t].data = args[t].memory.data /\ mem'[t].saved = args[t].memory.saved
<1>1. args[t].memory \in Memories /\ args[t].child_pid \in Nat
  BY DEF Types, Arguments
<1> DEFINE p == Process(args[t].child_pid, 0, FALSE)
           n == [args[t].memory EXCEPT !.state = "rewinding"]
<1>2. p \in Processes /\ p.pid = args[t].child_pid /\ p.fork_return = 0 /\ ~p.fork_pending
  BY <1>1 DEF Process, Processes
<1>3. n \in Memories /\ n.data = args[t].memory.data /\ n.saved = args[t].memory.saved
  BY <1>1, StateFacts DEF States
<1>4. /\ thr[t].pc = "created" /\ proc' = [proc EXCEPT ![t] = p]
      /\ mem' = [mem EXCEPT ![t] = n] /\ Goto(t, "rewind")
      /\ UNCHANGED <<next_pid, stack, args, born>>
  BY DEF ChildStart, Restored
<1> HIDE DEF p, n
<1>5. /\ thr' \in [Threads -> HostThreads] /\ \A v \in Threads \ {t} : thr'[v] = thr[v]
      /\ MovesTo(t, "rewind")
  BY <1>4, GotoMoves DEF MovesTo, PCs
<1>6. /\ proc' \in [Threads -> Processes] /\ proc'[t] = p
      /\ mem' \in [Threads -> Memories] /\ mem'[t] = n
      /\ \A v \in Threads \ {t} : proc'[v] = proc[v] /\ mem'[v] = mem[v]
  BY <1>2, <1>3, <1>4 DEF Types
<1>7. Types' /\ OthersKept(t)
  BY <1>4, <1>5, <1>6 DEF Types, OthersKept, Kept
<1> QED
  BY <1>2, <1>3, <1>4, <1>5, <1>6, <1>7

LEMMA ParentRewindDoes ==
  ASSUME Types, NEW t \in Threads, ParentRewind(t)
  PROVE  /\ Types' /\ OthersKept(t) /\ MovesTo(t, "rewind") /\ next_pid' = next_pid
         /\ thr[t].pc = "joined" /\ proc' = proc /\ stack' = stack
         /\ mem'[t].data = mem[t].data /\ mem'[t].saved = mem[t].saved
<1>1. mem[t] \in Memories
  BY DEF Types
<1> DEFINE n == [mem[t] EXCEPT !.state = "rewinding"]
<1>2. n \in Memories /\ n.data = mem[t].data /\ n.saved = mem[t].saved
  BY <1>1, StateFacts DEF States
<1>3. /\ thr[t].pc = "joined" /\ mem' = [mem EXCEPT ![t] = n] /\ Goto(t, "rewind")
      /\ next_pid' = next_pid /\ proc' = proc /\ stack' = stack /\ args' = args /\ born' = born
  BY DEF ParentRewind, Rewound
<1> HIDE DEF n
<1>4. /\ thr' \in [Threads -> HostThreads] /\ \A v \in Threads \ {t} : thr'[v] = thr[v]
      /\ MovesTo(t, "rewind")
  BY <1>3, GotoMoves DEF MovesTo, PCs
<1>5. /\ mem' \in [Threads -> Memories] /\ mem'[t] = n
      /\ \A v \in Threads \ {t} : mem'[v] = mem[v]
  BY <1>2, <1>3 DEF Types
<1>6. Types' /\ OthersKept(t)
  BY <1>3, <1>4, <1>5 DEF Types, OthersKept, Kept
<1> QED
  BY <1>2, <1>3, <1>4, <1>5, <1>6

LEMMA ForkReturnsDoes ==
  ASSUME Types, NEW t \in Threads, ForkReturns(t)
  PROVE  /\ Types' /\ OthersKept(t) /\ MovesTo(t, "guest") /\ next_pid' = next_pid
         /\ thr[t].pc = "rewind" /\ proc' = proc
         /\ stack'[t] = Append(mem[t].saved, proc[t].fork_return)
         /\ mem'[t].data = mem[t].data /\ mem'[t].saved = mem[t].saved
<1>1. mem[t] \in Memories /\ proc[t] \in Processes
  BY DEF Types
<1> DEFINE n == [mem[t] EXCEPT !.state = "normal"]
           s == Append(mem[t].saved, proc[t].fork_return)
<1>2. n \in Memories /\ n.data = mem[t].data /\ n.saved = mem[t].saved
  BY <1>1, StateFacts DEF States
<1>3. s \in Seq(Nat)
  <2>1. mem[t].saved \in Seq(Nat) /\ proc[t].fork_return \in Nat
    BY <1>1, MemoryFacts, ProcessFacts
  <2> QED
    BY <2>1
<1>4. /\ thr[t].pc = "rewind" /\ stack' = [stack EXCEPT ![t] = s]
      /\ mem' = [mem EXCEPT ![t] = n] /\ Goto(t, "guest")
      /\ next_pid' = next_pid /\ proc' = proc /\ args' = args /\ born' = born
  BY DEF ForkReturns
<1> HIDE DEF n, s
<1>5. /\ thr' \in [Threads -> HostThreads] /\ \A v \in Threads \ {t} : thr'[v] = thr[v]
      /\ MovesTo(t, "guest")
  BY <1>4, GotoMoves DEF MovesTo, PCs
<1>6. /\ mem' \in [Threads -> Memories] /\ mem'[t] = n
      /\ stack' \in [Threads -> Seq(Nat)] /\ stack'[t] = s
      /\ \A v \in Threads \ {t} : mem'[v] = mem[v] /\ stack'[v] = stack[v]
  BY <1>2, <1>3, <1>4 DEF Types
<1>7. Types' /\ OthersKept(t)
  BY <1>4, <1>5, <1>6 DEF Types, OthersKept, Kept
<1> QED
  BY <1>2, <1>4, <1>5, <1>6, <1>7 DEF s

LEMMA TypesKept == Types /\ [Next]_vars => Types'
<1> SUFFICES ASSUME Types, [Next]_vars PROVE Types'
  OBVIOUS
<1>1. CASE UNCHANGED vars
  BY <1>1 DEF Types, vars
<1>2. ASSUME NEW t \in Threads, GuestEnds(t) \/ JoinReturns(t) \/ PumpEnds(t) PROVE Types'
  BY <1>2, MoveDoes DEF GuestEnds, JoinReturns, PumpEnds, PCs
<1> QED
  BY <1>1, <1>2, WriteDoes, ForkCallDoes, ForkUnwindDoes, PumpForkDoes, ChildStartDoes,
     ParentRewindDoes, ForkReturnsDoes
  DEF Next, Host

LEMMA TypesAtFirst == Init => Types
<1> SUFFICES ASSUME Init PROVE Types
  OBVIOUS
<1>1. /\ Process(1, 0, FALSE) \in Processes /\ NoProcess \in Processes
      /\ Args(Fresh, 0) \in Arguments
      /\ At("guest", 0, 0) \in HostThreads /\ At("none", 0, 0) \in HostThreads
  BY ConstructorFacts, FreshFacts DEF NoProcess, PCs
<1>2. <<>> \in Seq(Nat) /\ <<>> \in Seq(Threads) /\ next_pid \in Nat
  BY DEF Init
<1>3. [parent |-> 0, stack |-> <<>>, data |-> <<>>] \in Births
  BY <1>2 DEF Births
<1> QED
  BY <1>1, <1>2, <1>3, FreshFacts DEF Init, Types

-----------------------------------------------------------------------------
(* One thread runs: the threads that are in pthread_join form a chain      *)

Chain ==
  /\ \A t \in Threads : thr[t].pc = "join" =>
       thr[t].child \in Threads /\ thr[thr[t].child].pc # "none"
  /\ \A t, u \in Threads :
       thr[t].pc = "join" /\ thr[u].pc = "join" /\ thr[t].child = thr[u].child => t = u

LEMMA PcsAtFirst ==
  Init => \A t \in Threads : thr[t].pc = IF t = 1 THEN "guest" ELSE "none"
<1> SUFFICES ASSUME Init, NEW t \in Threads
             PROVE  thr[t].pc = IF t = 1 THEN "guest" ELSE "none"
  OBVIOUS
<1>1. thr[t] = At(IF t = 1 THEN "guest" ELSE "none", 0, 0)
  BY DEF Init
<1>2. CASE t = 1
  BY <1>1, <1>2 DEF At
<1>3. CASE t # 1
  BY <1>1, <1>3 DEF At
<1> QED
  BY <1>2, <1>3

LEMMA ChainAtFirst == Init => Chain /\ OneThreadRuns
BY PcsAtFirst DEF Chain, OneThreadRuns, Busy

\* A step of the busy thread to another place than pthread_join.
LEMMA ChainMoves ==
  ASSUME Chain, OneThreadRuns, NEW t \in Threads,
         Busy(t), thr[t].pc # "none",
         \A v \in Threads \ {t} : thr'[v] = thr[v],
         thr'[t].pc \notin {"none", "join"}
  PROVE  Chain' /\ OneThreadRuns'
<1>1. Chain'
  BY DEF Chain
<1>2. ASSUME NEW v \in Threads \ {t}, Busy(v)' PROVE /\ thr[v].pc = "join" /\ thr[v].child = t
                                                    /\ thr'[t].pc = "ended"
  BY <1>2 DEF Busy, OneThreadRuns, Chain
<1>3. OneThreadRuns'
  BY <1>2 DEF OneThreadRuns, Busy, Chain
<1> QED
  BY <1>1, <1>3

LEMMA ChainGrows ==
  ASSUME Chain, OneThreadRuns, NEW t \in Threads, thr[t].pc = "pump",
         NEW u \in Threads, u # t, PumpForkTo(t, u)
  PROVE  Chain' /\ OneThreadRuns'
<1>1. /\ thr[u].pc = "none" /\ thr'[u].pc = "created" /\ thr'[t].pc = "join" /\ thr'[t].child = u
      /\ \A v \in Threads \ {t, u} : thr'[v] = thr[v]
  BY DEF PumpForkTo, Kept
<1>2. Busy(t)
  BY DEF Busy
<1>3. Chain'
  BY <1>1 DEF Chain
<1>4. ASSUME NEW v \in Threads, Busy(v)' PROVE v = u
  BY <1>1, <1>2, <1>4 DEF Busy, OneThreadRuns, Chain
<1> QED
  BY <1>3, <1>4 DEF OneThreadRuns

LEMMA ChainKept == Types /\ Chain /\ OneThreadRuns /\ [Next]_vars => Chain' /\ OneThreadRuns'
<1> SUFFICES ASSUME Types, Chain, OneThreadRuns, [Next]_vars PROVE Chain' /\ OneThreadRuns'
  OBVIOUS
<1>1. ASSUME NEW t \in Threads, Write(t) PROVE Chain' /\ OneThreadRuns'
  BY <1>1 DEF Write, Chain, OneThreadRuns, Busy
<1>2. ASSUME NEW t \in Threads, PumpFork(t) PROVE Chain' /\ OneThreadRuns'
  BY <1>2, PumpForkDoes, ChainGrows
<1>3. ASSUME NEW t \in Threads,
             GuestEnds(t) \/ ForkCall(t) \/ ForkUnwind(t) \/ ChildStart(t) \/ JoinReturns(t)
               \/ ParentRewind(t) \/ ForkReturns(t) \/ PumpEnds(t)
      PROVE  Chain' /\ OneThreadRuns'
  <2>1. Busy(t) /\ thr[t].pc # "none"
    BY <1>3 DEF GuestEnds, ForkCall, ForkUnwind, ChildStart, JoinReturns, ParentRewind,
                ForkReturns, PumpEnds, Busy
  <2>2. \E pc \in PCs \ {"none", "join"} :
          \/ Goto(t, pc)
          \/ pc = "fork" /\ ForkCall(t)
    BY <1>3 DEF GuestEnds, ForkUnwind, ChildStart, JoinReturns, ParentRewind,
                ForkReturns, PumpEnds, PCs
  <2>3. /\ \A v \in Threads \ {t} : thr'[v] = thr[v]
        /\ thr'[t].pc \notin {"none", "join"}
    BY <2>2, GotoMoves, ForkCallDoes DEF OthersKept, Kept
  <2> QED
    BY <2>1, <2>3, ChainMoves
<1>4. CASE UNCHANGED vars
  BY <1>4 DEF vars, Chain, OneThreadRuns, Busy
<1> QED
  BY <1>1, <1>2, <1>3, <1>4 DEF Next, Host

-----------------------------------------------------------------------------
(* Pids: each is claimed once, by fork_impl, and handed on to the child    *)

Unclaimed(pid) == \A u \in Threads : Started(u) => proc[u].pid # pid

Claims ==
  /\ \A t \in Threads : Started(t) => proc[t].pid < next_pid
  /\ \A t \in Threads : thr[t].pc = "fork" => thr[t].child_pid = next_pid
  /\ \A t \in Threads : proc[t].fork_pending =>
       thr[t].pc = "pump" /\ proc[t].fork_return < next_pid /\ Unclaimed(proc[t].fork_return)
  /\ \A t \in Threads : thr[t].pc = "created" =>
       args[t].child_pid < next_pid /\ Unclaimed(args[t].child_pid)

LEMMA ClaimsAtFirst == Init => Claims /\ PidsUnique
<1>1. Init => /\ next_pid = 2
              /\ \A t \in Threads : /\ thr[t].pc = IF t = 1 THEN "guest" ELSE "none"
                                    /\ t = 1 => proc[t].pid = 1
                                    /\ ~proc[t].fork_pending
  BY DEF Init, At, Process, NoProcess
<1> QED
  BY <1>1 DEF Claims, PidsUnique, Started, Unclaimed

\* A step that claims no pid and starts no thread.
LEMMA ClaimsStay ==
  ASSUME Types, Claims, PidsUnique, NEW t \in Threads, OthersKept(t), next_pid' = next_pid,
         Started(t), proc'[t] = proc[t], args'[t] = args[t],
         thr'[t].pc \notin {"none", "created", "fork"},
         proc[t].fork_pending => thr'[t].pc = "pump"
  PROVE  Claims' /\ PidsUnique'
<1>1. \A v \in Threads :
        /\ proc'[v] = proc[v] /\ args'[v] = args[v] /\ (v # t => thr'[v] = thr[v])
        /\ Started(v)' <=> Started(v)
  BY DEF OthersKept, Kept, Started
<1>2. \A pid : Unclaimed(pid)' <=> Unclaimed(pid)
  BY <1>1 DEF Unclaimed
<1>3. PidsUnique'
  BY <1>1 DEF PidsUnique
<1>4. Claims'
  BY <1>1, <1>2 DEF Claims
<1> QED
  BY <1>3, <1>4

LEMMA ClaimsKept ==
  Types /\ OneThreadRuns /\ Claims /\ PidsUnique /\ [Next]_vars => Claims' /\ PidsUnique'
<1> SUFFICES ASSUME Types, OneThreadRuns, Claims, PidsUnique, [Next]_vars
             PROVE  Claims' /\ PidsUnique'
  OBVIOUS
<1>t. \A v \in Threads : /\ proc[v].pid \in Nat /\ proc[v].fork_return \in Nat
                         /\ args[v].child_pid \in Nat /\ next_pid \in Nat
  BY ProcessFacts DEF Types, Arguments
<1>1. ASSUME NEW t \in Threads, Write(t) PROVE Claims' /\ PidsUnique'
  BY <1>1, WriteDoes DEF Claims, PidsUnique, Unclaimed, Started
<1>2. ASSUME NEW t \in Threads, GuestEnds(t) \/ JoinReturns(t) \/ PumpEnds(t)
      PROVE  Claims' /\ PidsUnique'
  <2>1. /\ Started(t) /\ proc' = proc /\ next_pid' = next_pid
        /\ proc[t].fork_pending => thr'[t].pc = "pump"
        /\ OthersKept(t) /\ args'[t] = args[t]
        /\ thr'[t].pc \notin {"none", "created", "fork"}
    BY <1>2, MoveDoes
    DEF GuestEnds, JoinReturns, PumpEnds, PCs, MovesTo, Started, Claims
  <2> QED
    BY <2>1, ClaimsStay
<1>3. ASSUME NEW t \in Threads, ParentRewind(t) PROVE Claims' /\ PidsUnique'
  <2>1. Started(t) /\ ~proc[t].fork_pending
    BY <1>3, ParentRewindDoes DEF Claims, Started
  <2> QED
    BY <1>3, <2>1, ParentRewindDoes, ClaimsStay DEF MovesTo
<1>4. ASSUME NEW t \in Threads, ForkReturns(t) PROVE Claims' /\ PidsUnique'
  <2>1. Started(t) /\ ~proc[t].fork_pending
    BY <1>4, ForkReturnsDoes DEF Claims, Started
  <2> QED
    BY <1>4, <2>1, ForkReturnsDoes, ClaimsStay DEF MovesTo
<1>5. ASSUME NEW t \in Threads, ForkCall(t) PROVE Claims' /\ PidsUnique'
  <2>1. \A v \in Threads :
          /\ v # t => thr'[v] = thr[v]
          /\ proc'[v] = proc[v] /\ args'[v] = args[v]
          /\ Started(v)' <=> Started(v)
    BY <1>5, ForkCallDoes DEF OthersKept, Kept, Started
  <2>2. \A pid : Unclaimed(pid)' <=> Unclaimed(pid)
    BY <2>1 DEF Unclaimed
  <2>3. ~proc[t].fork_pending
    BY <1>5, ForkCallDoes DEF Claims
  <2> QED
    BY <1>5, <2>1, <2>2, <2>3, ForkCallDoes DEF Claims, PidsUnique
<1>6. ASSUME NEW t \in Threads, ForkUnwind(t) PROVE Claims' /\ PidsUnique'
  <2>1. /\ thr[t].child_pid = next_pid /\ next_pid' = next_pid + 1
        /\ proc'[t].pid = proc[t].pid /\ proc'[t].fork_return = next_pid
        /\ thr'[t].pc = "pump" /\ thr[t].pc = "fork"
        /\ \A v \in Threads : /\ proc'[v].pid = proc[v].pid /\ args'[v] = args[v]
                              /\ v # t => Kept(v)
    BY <1>6, ForkUnwindDoes DEF Claims, OthersKept, Kept, MovesTo
  <2>2. \A v \in Threads : Started(v)' <=> Started(v)
    BY <2>1 DEF Started, Kept
  <2>3. \A pid : Unclaimed(pid)' <=> Unclaimed(pid)
    BY <2>1, <2>2 DEF Unclaimed
  <2>4. PidsUnique'
    BY <2>1, <2>2 DEF PidsUnique
  <2>5. Unclaimed(next_pid)
    BY <1>t DEF Claims, Unclaimed
  <2>6. \A v \in Threads : v # t => thr[v].pc # "fork"
    BY <2>1 DEF OneThreadRuns, Busy
  <2> QED
    BY <1>t, <2>1, <2>2, <2>3, <2>4, <2>5, <2>6 DEF Claims, Kept
<1>7. ASSUME NEW t \in Threads, PumpFork(t) PROVE Claims' /\ PidsUnique'
  <2>1. PICK u \in Threads : u # t /\ PumpForkTo(t, u)
    BY <1>7, PumpForkDoes
  <2>2. /\ next_pid' = next_pid /\ thr[t].pc = "pump" /\ proc[t].fork_pending
    BY <1>7, PumpForkDoes
  <2>3. \A v \in Threads : /\ proc'[v].pid = proc[v].pid
                           /\ Started(v)' <=> Started(v)
                           /\ v # u => args'[v] = args[v]
                           /\ v # u /\ v # t => Kept(v)
    BY <2>1, <2>2 DEF PumpForkTo, Kept, Started
  <2>4. \A pid : Unclaimed(pid)' <=> Unclaimed(pid)
    BY <2>3 DEF Unclaimed
  <2>5. PidsUnique'
    BY <2>3 DEF PidsUnique
  <2>6. /\ thr[u].pc = "none" /\ thr'[u].pc = "created" /\ thr'[t].pc = "join"
        /\ args'[u].child_pid = proc[t].fork_return /\ proc'[u] = proc[u]
        /\ ~proc'[t].fork_pending
    BY <2>1 DEF PumpForkTo
  <2>7. proc[t].fork_return < next_pid /\ Unclaimed(proc[t].fork_return) /\ ~proc[u].fork_pending
    BY <2>2, <2>6 DEF Claims
  <2> QED
    BY <2>2, <2>3, <2>4, <2>5, <2>6, <2>7 DEF Claims, Kept
<1>8. ASSUME NEW t \in Threads, ChildStart(t) PROVE Claims' /\ PidsUnique'
  <2>1. /\ next_pid' = next_pid /\ thr[t].pc = "created" /\ thr'[t].pc = "rewind"
        /\ proc'[t].pid = args[t].child_pid /\ ~proc'[t].fork_pending /\ args'[t] = args[t]
        /\ \A v \in Threads : v # t => Kept(v)
    BY <1>8, ChildStartDoes DEF OthersKept, MovesTo
  <2>2. args[t].child_pid < next_pid /\ Unclaimed(args[t].child_pid)
    BY <2>1 DEF Claims
  <2>3. \A v \in Threads : v # t => /\ thr[v].pc \notin {"created", "pump", "fork"}
                                    /\ ~proc[v].fork_pending
    BY <2>1 DEF OneThreadRuns, Busy, Claims
  <2>4. PidsUnique'
    BY <2>1, <2>2 DEF PidsUnique, Unclaimed, Started, Kept
  <2> QED
    BY <2>1, <2>2, <2>3, <2>4 DEF Claims, Started, Kept
<1>9. CASE UNCHANGED vars
  BY <1>9 DEF vars, Claims, PidsUnique, Unclaimed, Started
<1> QED
  BY <1>1, <1>2, <1>3, <1>4, <1>5, <1>6, <1>7, <1>8, <1>9 DEF Next, Host

-----------------------------------------------------------------------------
(* Sequences and their prefixes                                            *)

LEMMA PrefixMeans ==
  ASSUME NEW S, NEW s \in Seq(S), NEW r \in Seq(S)
  PROVE  Prefix(s, r) <=> Len(s) <= Len(r) /\ \A i \in 1 .. Len(s) : s[i] = r[i]
<1>1. CASE Len(s) <= Len(r)
  <2>1. /\ SubSeq(r, 1, Len(s)) \in Seq(S) /\ Len(SubSeq(r, 1, Len(s))) = Len(s)
        /\ \A i \in 1 .. Len(s) : SubSeq(r, 1, Len(s))[i] = r[i]
    BY <1>1
  <2> QED
    BY <1>1, <2>1, SeqEqual DEF Prefix
<1>2. CASE ~(Len(s) <= Len(r))
  BY <1>2 DEF Prefix
<1> QED
  BY <1>1, <1>2

LEMMA PrefixOfSelf ==
  ASSUME NEW S, NEW s \in Seq(S) PROVE Prefix(s, s)
BY PrefixMeans

LEMMA PrefixOfLonger ==
  ASSUME NEW S, NEW s \in Seq(S), NEW r \in Seq(S), NEW x \in S, Prefix(s, r)
  PROVE  Prefix(s, Append(r, x))
<1> DEFINE q == Append(r, x)
<1>1. q \in Seq(S) /\ Len(q) = Len(r) + 1
  OBVIOUS
<1>2. \A i \in 1 .. Len(r) : q[i] = r[i]
  OBVIOUS
<1>3. Len(s) <= Len(r) /\ \A i \in 1 .. Len(s) : s[i] = r[i]
  BY PrefixMeans
<1>4. Len(s) \in Nat /\ Len(r) \in Nat
  OBVIOUS
<1> HIDE DEF q
<1>5. Prefix(s, q)
  BY <1>1, <1>2, <1>3, <1>4, PrefixMeans
<1> QED
  BY <1>5 DEF q

-----------------------------------------------------------------------------
(* Memories: nothing a child writes gets into its parent's                 *)

Holds(s, u) == \E i \in 1 .. Len(s) : s[i] = u

UnusedUnknown ==
  \A u \in Threads : thr[u].pc = "none" =>
    born[u].parent = 0 /\ \A t \in Threads : ~Holds(mem[t].data, u)

CreatedAsBorn ==
  \A u \in Threads : thr[u].pc = "created" =>
    /\ args[u].memory.data = born[u].data
    /\ args[u].memory.saved = born[u].stack
    /\ \A v \in Threads : thr[v].pc = "none" => ~Holds(args[u].memory.data, v)

ParentsStarted ==
  \A u \in Threads : born[u].parent # 0 =>
    born[u].parent # u /\ Started(born[u].parent) /\ thr[u].pc # "none"

ParentsUnaware ==
  \A u \in Threads : born[u].parent # 0 => ~Holds(mem[born[u].parent].data, u)

ChildrenRemember ==
  \A u \in Threads : born[u].parent # 0 /\ Started(u) => Prefix(born[u].data, mem[u].data)

Apart ==
  UnusedUnknown /\ CreatedAsBorn /\ ParentsStarted /\ ParentsUnaware /\ ChildrenRemember

LEMMA ApartAtFirst == Init => Apart
<1>1. ASSUME Init, NEW t \in Threads PROVE born[t].parent = 0 /\ mem[t].data = <<>>
  <2>1. born[t] = [parent |-> 0, stack |-> <<>>, data |-> <<>>] /\ mem[t] = Fresh
    BY <1>1 DEF Init
  <2> QED
    BY <2>1, FreshFacts
<1> QED
  BY <1>1, PcsAtFirst
  DEF Apart, UnusedUnknown, CreatedAsBorn, ParentsStarted, ParentsUnaware,
      ChildrenRemember, Holds, Started

\* A step that only moves a thread on.
LEMMA ApartStays ==
  ASSUME Types, Apart, NEW t \in Threads, OthersKept(t), Started(t),
         args'[t] = args[t], born'[t] = born[t], mem'[t].data = mem[t].data,
         thr'[t].pc \notin {"none", "created"}
  PROVE  Apart'
<1>1. \A v \in Threads :
        /\ born'[v] = born[v] /\ args'[v] = args[v] /\ mem'[v].data = mem[v].data
        /\ thr'[v].pc = "none" <=> thr[v].pc = "none"
        /\ thr'[v].pc = "created" <=> thr[v].pc = "created"
        /\ Started(v)' <=> Started(v)
  BY DEF OthersKept, Kept, Started
<1>2. \A v \in Threads : born[v].parent \in Threads \cup {0}
  BY DEF Types, Births
<1> QED
  BY <1>1, <1>2
  DEF Apart, UnusedUnknown, CreatedAsBorn, ParentsStarted, ParentsUnaware, ChildrenRemember

LEMMA ApartKept == Types /\ Apart /\ [Next]_vars => Apart'
<1> SUFFICES ASSUME Types, Apart, [Next]_vars PROVE Apart'
  OBVIOUS
<1>t. \A v \in Threads : /\ born[v].parent \in Threads \cup {0} /\ born[v].data \in Seq(Threads)
                         /\ mem[v].data \in Seq(Threads) /\ v # 0
  BY ForkPumpAssumption, MemoryFacts DEF Types, Births
<1>1. ASSUME NEW t \in Threads, Write(t) PROVE Apart'
  <2>1. /\ thr[t].pc = "guest" /\ thr' = thr /\ args' = args /\ born' = born
        /\ mem'[t].data = Append(mem[t].data, t)
        /\ \A v \in Threads \ {t} : mem'[v] = mem[v]
    BY <1>1, WriteDoes DEF OthersKept, Kept
  <2>2. ASSUME NEW u \in Threads, u # t, ~Holds(mem[t].data, u)
        PROVE  ~Holds(mem'[t].data, u)
    BY <1>t, <2>1, <2>2 DEF Holds
  <2>3. ASSUME Prefix(born[t].data, mem[t].data) PROVE Prefix(born[t].data, mem'[t].data)
    BY <1>t, <2>1, <2>3, PrefixOfLonger
  <2>21. UnusedUnknown'
    BY <1>t, <2>1, <2>2, <2>3
    DEF Apart, UnusedUnknown, CreatedAsBorn, ParentsStarted, ParentsUnaware,
        ChildrenRemember, Started
  <2>22. CreatedAsBorn'
    BY <1>t, <2>1, <2>2, <2>3
    DEF Apart, UnusedUnknown, CreatedAsBorn, ParentsStarted, ParentsUnaware,
        ChildrenRemember, Started
  <2>23. ParentsStarted'
    BY <1>t, <2>1, <2>2, <2>3
    DEF Apart, UnusedUnknown, CreatedAsBorn, ParentsStarted, ParentsUnaware,
        ChildrenRemember, Started
  <2>24. ParentsUnaware'
    <3> SUFFICES ASSUME NEW u \in Threads, born[u].parent # 0
                 PROVE  ~Holds(mem'[born[u].parent].data, u)
      BY <2>1 DEF ParentsUnaware
    <3>1. /\ born[u].parent \in Threads /\ born[u].parent # u
          /\ ~Holds(mem[born[u].parent].data, u)
      BY <1>t DEF Apart, ParentsUnaware, ParentsStarted
    <3>2. CASE born[u].parent = t
      BY <2>2, <3>1, <3>2
    <3>3. CASE born[u].parent # t
      BY <2>1, <3>1, <3>3
    <3> QED
      BY <3>2, <3>3
  <2>25. ChildrenRemember'
    BY <1>t, <2>1, <2>2, <2>3
    DEF Apart, UnusedUnknown, CreatedAsBorn, ParentsStarted, ParentsUnaware,
        ChildrenRemember, Started
  <2> QED
    BY <2>21, <2>22, <2>23, <2>24, <2>25 DEF Apart
<1>2. ASSUME NEW t \in Threads, GuestEnds(t) \/ JoinReturns(t) \/ PumpEnds(t) PROVE Apart'
  <2>1. /\ Started(t) /\ OthersKept(t) /\ args'[t] = args[t] /\ born'[t] = born[t]
        /\ mem'[t].data = mem[t].data /\ thr'[t].pc \notin {"none", "created"}
    BY <1>2, MoveDoes DEF GuestEnds, JoinReturns, PumpEnds, PCs, MovesTo, Started
  <2> QED
    BY <2>1, ApartStays
<1>3. ASSUME NEW t \in Threads, ForkCall(t) PROVE Apart'
  BY <1>3, ForkCallDoes, ApartStays DEF Started
<1>4. ASSUME NEW t \in Threads, ForkUnwind(t) PROVE Apart'
  BY <1>4, ForkUnwindDoes, ApartStays DEF Started, MovesTo
<1>5. ASSUME NEW t \in Threads, PumpFork(t) PROVE Apart'
  <2>1. PICK u \in Threads : u # t /\ PumpForkTo(t, u)
    BY <1>5, PumpForkDoes
  <2>2. /\ thr[t].pc = "pump" /\ thr'[t].pc = "join"
        /\ thr[u].pc = "none" /\ thr'[u].pc = "created"
        /\ args'[u].memory.data = mem[t].data /\ args'[u].memory.saved = mem[t].saved
        /\ born'[u].parent = t /\ born'[u].stack = mem[t].saved /\ born'[u].data = mem[t].data
        /\ \A v \in Threads : mem'[v].data = mem[v].data
        /\ \A v \in Threads \ {u} : args'[v] = args[v] /\ born'[v] = born[v]
        /\ \A v \in Threads \ {t, u} : thr'[v] = thr[v]
    BY <1>5, <2>1, PumpForkDoes DEF PumpForkTo, Kept
  <2>3. /\ \A v \in Threads : Started(v)' <=> Started(v)
        /\ ~Started(u) /\ Started(t)
    BY <2>2 DEF Started
  <2>4. \A v \in Threads : born[v].parent # u
    BY <1>t, <2>3 DEF Apart, ParentsStarted
  <2>21. UnusedUnknown'
    <3> SUFFICES ASSUME NEW w \in Threads, thr'[w].pc = "none"
                 PROVE  born'[w].parent = 0 /\ \A v \in Threads : ~Holds(mem'[v].data, w)
      BY DEF UnusedUnknown
    <3>1. w # u /\ thr[w].pc = "none" /\ born'[w] = born[w]
      BY <2>2
    <3> QED
      BY <2>2, <3>1 DEF Apart, UnusedUnknown
  <2>22. CreatedAsBorn'
    <3> SUFFICES ASSUME NEW w \in Threads, thr'[w].pc = "created"
                 PROVE  /\ args'[w].memory.data = born'[w].data
                        /\ args'[w].memory.saved = born'[w].stack
                        /\ \A v \in Threads : thr'[v].pc = "none" =>
                             ~Holds(args'[w].memory.data, v)
      BY DEF CreatedAsBorn
    <3>1. \A v \in Threads : thr'[v].pc = "none" => thr[v].pc = "none"
      BY <2>2
    <3>2. CASE w = u
      BY <2>2, <3>1, <3>2 DEF Apart, UnusedUnknown
    <3>3. CASE w # u
      <4>1. args'[w] = args[w] /\ born'[w] = born[w] /\ thr[w].pc = "created"
        BY <2>2, <3>3
      <4> QED
        BY <3>1, <4>1 DEF Apart, CreatedAsBorn
    <3> QED
      BY <3>2, <3>3
  <2>23. ParentsStarted'
    <3> SUFFICES ASSUME NEW w \in Threads, born'[w].parent # 0
                 PROVE  /\ born'[w].parent # w /\ Started(born[w].parent)'
                        /\ thr'[w].pc # "none"
      BY DEF ParentsStarted
    <3>1. CASE w = u
      BY <2>1, <2>2, <2>3, <3>1
    <3>2. CASE w # u
      <4>1. born'[w] = born[w] /\ born[w].parent \in Threads
        BY <1>t, <2>2, <3>2
      <4>2. born[w].parent # w /\ Started(born[w].parent) /\ thr[w].pc # "none"
        BY <4>1 DEF Apart, ParentsStarted
      <4>3. thr'[w].pc # "none"
        BY <2>2, <3>2, <4>2
      <4> QED
        BY <2>3, <4>1, <4>2, <4>3
    <3> QED
      BY <3>1, <3>2
  <2>24. ParentsUnaware'
    <3> SUFFICES ASSUME NEW w \in Threads, born'[w].parent # 0
                 PROVE  ~Holds(mem'[born'[w].parent].data, w)
      BY DEF ParentsUnaware
    <3>1. CASE w = u
      BY <2>1, <2>2, <3>1 DEF Apart, UnusedUnknown
    <3>2. CASE w # u
      <4>1. born'[w] = born[w] /\ born[w].parent \in Threads
        BY <1>t, <2>2, <3>2
      <4> QED
        BY <2>2, <4>1 DEF Apart, ParentsUnaware
    <3> QED
      BY <3>1, <3>2
  <2>25. ChildrenRemember'
    <3> SUFFICES ASSUME NEW w \in Threads, born'[w].parent # 0, Started(w)'
                 PROVE  Prefix(born'[w].data, mem'[w].data)
      BY DEF ChildrenRemember
    <3>1. w # u /\ Started(w)
      BY <2>3
    <3>2. born'[w] = born[w] /\ mem'[w].data = mem[w].data
      BY <2>2, <3>1
    <3> QED
      BY <3>1, <3>2 DEF Apart, ChildrenRemember
  <2> QED
    BY <2>21, <2>22, <2>23, <2>24, <2>25 DEF Apart
<1>6. ASSUME NEW t \in Threads, ChildStart(t) PROVE Apart'
  <2>1. /\ thr[t].pc = "created" /\ thr'[t].pc = "rewind"
        /\ mem'[t].data = args[t].memory.data
        /\ args'[t] = args[t] /\ born'[t] = born[t]
        /\ \A v \in Threads \ {t} : Kept(v)
    BY <1>6, ChildStartDoes DEF OthersKept, MovesTo
  <2>2. ~Started(t) /\ \A v \in Threads : born[v].parent # t
    BY <1>t, <2>1 DEF Apart, ParentsStarted, Started
  <2>3. args[t].memory.data = born[t].data
    BY <2>1 DEF Apart, CreatedAsBorn
  <2>4. Prefix(born[t].data, mem'[t].data)
    BY <1>t, <2>1, <2>3, PrefixOfSelf
  <2>21. UnusedUnknown'
    <3> SUFFICES ASSUME NEW w \in Threads, thr'[w].pc = "none", NEW v \in Threads
                 PROVE  born'[w].parent = 0 /\ ~Holds(mem'[v].data, w)
      BY DEF UnusedUnknown
    <3>1. w # t /\ thr[w].pc = "none" /\ born'[w] = born[w]
      BY <2>1 DEF Kept
    <3>2. CASE v = t
      BY <2>1, <3>1, <3>2 DEF Apart, UnusedUnknown, CreatedAsBorn
    <3>3. CASE v # t
      <4>1. mem'[v] = mem[v]
        BY <2>1, <3>3 DEF Kept
      <4> QED
        BY <3>1, <4>1 DEF Apart, UnusedUnknown
    <3> QED
      BY <3>2, <3>3
  <2>22. CreatedAsBorn'
    <3> SUFFICES ASSUME NEW w \in Threads, thr'[w].pc = "created"
                 PROVE  /\ args'[w].memory.data = born'[w].data
                        /\ args'[w].memory.saved = born'[w].stack
                        /\ \A v \in Threads : thr'[v].pc = "none" =>
                             ~Holds(args'[w].memory.data, v)
      BY DEF CreatedAsBorn
    <3>1. \A v \in Threads : thr'[v].pc = "none" => thr[v].pc = "none"
      BY <2>1 DEF Kept
    <3>2. args'[w] = args[w] /\ born'[w] = born[w] /\ thr[w].pc = "created"
      BY <2>1 DEF Kept
    <3> QED
      BY <3>1, <3>2 DEF Apart, CreatedAsBorn
  <2>23. ParentsStarted'
    <3> SUFFICES ASSUME NEW w \in Threads, born'[w].parent # 0
                 PROVE  /\ born'[w].parent # w /\ Started(born[w].parent)'
                        /\ thr'[w].pc # "none"
      BY DEF ParentsStarted
    <3>1. born'[w] = born[w] /\ born[w].parent \in Threads \ {t}
      BY <1>t, <2>1, <2>2 DEF Kept
    <3>2. born[w].parent # w /\ Started(born[w].parent) /\ thr[w].pc # "none"
      BY <3>1 DEF Apart, ParentsStarted
    <3>3. thr'[w].pc # "none" /\ thr'[born[w].parent] = thr[born[w].parent]
      BY <2>1, <3>1, <3>2 DEF Kept
    <3> QED
      BY <3>1, <3>2, <3>3 DEF Started
  <2>24. ParentsUnaware'
    <3> SUFFICES ASSUME NEW w \in Threads, born'[w].parent # 0
                 PROVE  ~Holds(mem'[born'[w].parent].data, w)
      BY DEF ParentsUnaware
    <3>1. born'[w] = born[w] /\ born[w].parent \in Threads \ {t}
      BY <1>t, <2>1, <2>2 DEF Kept
    <3>2. mem'[born[w].parent] = mem[born[w].parent]
      BY <2>1, <3>1 DEF Kept
    <3> QED
      BY <3>1, <3>2 DEF Apart, ParentsUnaware
  <2>25. ChildrenRemember'
    <3> SUFFICES ASSUME NEW w \in Threads, born'[w].parent # 0, Started(w)'
                 PROVE  Prefix(born'[w].data, mem'[w].data)
      BY DEF ChildrenRemember
    <3>1. CASE w = t
      BY <2>1, <2>4, <3>1
    <3>2. CASE w # t
      <4>1. born'[w] = born[w] /\ mem'[w] = mem[w] /\ thr'[w] = thr[w]
        BY <2>1, <3>2 DEF Kept
      <4> QED
        BY <4>1 DEF Apart, ChildrenRemember, Started
    <3> QED
      BY <3>1, <3>2
  <2> QED
    BY <2>21, <2>22, <2>23, <2>24, <2>25 DEF Apart
<1>7. ASSUME NEW t \in Threads, ParentRewind(t) PROVE Apart'
  BY <1>7, ParentRewindDoes, ApartStays DEF Started, MovesTo
<1>8. ASSUME NEW t \in Threads, ForkReturns(t) PROVE Apart'
  BY <1>8, ForkReturnsDoes, ApartStays DEF Started, MovesTo
<1>9. CASE UNCHANGED vars
  BY <1>9
  DEF vars, Apart, UnusedUnknown, CreatedAsBorn, ParentsStarted, ParentsUnaware,
      ChildrenRemember, Started
<1> QED
  BY <1>1, <1>2, <1>3, <1>4, <1>5, <1>6, <1>7, <1>8, <1>9 DEF Next, Host

LEMMA ApartIsolates == Types /\ Apart => MemoryIsolated
BY DEF Types, Births, Apart, ParentsUnaware, ChildrenRemember, MemoryIsolated, Holds

-----------------------------------------------------------------------------
(* Call stacks: a fork comes back to the stack it was called with          *)

PidOf(u) == IF thr[u].pc = "created" THEN args[u].child_pid ELSE proc[u].pid

\* The guest of t will go on, with the call stack LineOf(t) when it does.
Live(t) ==
  \/ thr[t].pc \in {"guest", "fork", "join", "joined", "rewind"}
  \/ thr[t].pc = "pump" /\ proc[t].fork_pending
LineOf(t) == IF thr[t].pc \in {"guest", "fork"} THEN stack[t] ELSE mem[t].saved

\* t is in the fork that made u.
InForkOf(t, u) == thr[t].pc \in {"join", "joined", "rewind"} /\ thr[t].child = u

ChildSide(u) ==
  /\ thr[u].pc = "rewind" =>
       Prefix(Append(born[u].stack, 0), Append(mem[u].saved, proc[u].fork_return))
  /\ Live(u) /\ thr[u].pc # "rewind" => Prefix(Append(born[u].stack, 0), LineOf(u))

ParentSide(t, u) ==
  /\ InForkOf(t, u) => mem[t].saved = born[u].stack /\ proc[t].fork_return = PidOf(u)
  /\ Live(t) /\ ~InForkOf(t, u) => Prefix(Append(born[u].stack, PidOf(u)), LineOf(t))

Stacks ==
  \A u \in Threads : born[u].parent # 0 => ChildSide(u) /\ ParentSide(born[u].parent, u)

LEMMA StacksAtFirst == Init => Stacks
<1>1. ASSUME Init, NEW t \in Threads PROVE born[t].parent = 0
  <2>1. born[t] = [parent |-> 0, stack |-> <<>>, data |-> <<>>]
    BY <1>1 DEF Init
  <2> QED
    BY <2>1
<1> QED
  BY <1>1 DEF Stacks

LEMMA StackTypes ==
  ASSUME Types, NEW t \in Threads
  PROVE  /\ stack[t] \in Seq(Nat) /\ mem[t].saved \in Seq(Nat) /\ born[t].stack \in Seq(Nat)
         /\ LineOf(t) \in Seq(Nat) /\ PidOf(t) \in Nat /\ proc[t].fork_return \in Nat
         /\ born[t].parent \in Threads \cup {0} /\ t # 0
         /\ \A n \in Nat : Append(born[t].stack, n) \in Seq(Nat)
<1>1. /\ stack[t] \in Seq(Nat) /\ mem[t].saved \in Seq(Nat) /\ born[t].stack \in Seq(Nat)
      /\ proc[t].pid \in Nat /\ proc[t].fork_return \in Nat /\ args[t].child_pid \in Nat
      /\ born[t].parent \in Threads \cup {0} /\ t # 0
  BY ForkPumpAssumption, MemoryFacts, ProcessFacts DEF Types, Births, Arguments
<1>2. \A n \in Nat : Append(born[t].stack, n) \in Seq(Nat)
  BY <1>1
<1> QED
  BY <1>1, <1>2 DEF LineOf, PidOf

\* A step of t that starts no thread: what is left to show is its own side.
LEMMA StacksStep ==
  ASSUME Types, ParentsStarted, Stacks, NEW t \in Threads, OthersKept(t),
         born'[t] = born[t], PidOf(t)' = PidOf(t),
         born[t].parent # 0 => ChildSide(t)',
         \A u \in Threads \ {t} : born[u].parent = t => ParentSide(t, u)'
  PROVE  Stacks'
<1> SUFFICES ASSUME NEW u \in Threads, born'[u].parent # 0
             PROVE  ChildSide(u)' /\ ParentSide(born[u].parent, u)'
  BY DEF Stacks
<1>1. born'[u] = born[u] /\ PidOf(u)' = PidOf(u)
  BY DEF OthersKept, Kept, PidOf
<1> DEFINE p == born[u].parent
<1>2. p \in Threads /\ p # u /\ ChildSide(u) /\ ParentSide(p, u)
  BY <1>1, StackTypes DEF ParentsStarted, Stacks
<1> HIDE DEF p
<1>3. p = born[u].parent /\ p' = p
  BY <1>1 DEF p
<1>4. ChildSide(u)'
  <2>1. CASE u = t
    BY <1>1, <2>1
  <2>2. CASE u # t
    BY <1>2, <2>2 DEF OthersKept, Kept, ChildSide, Live, LineOf
  <2> QED
    BY <2>1, <2>2
<1>5. ParentSide(p, u)'
  <2>1. CASE p = t
    BY <1>2, <1>3, <2>1
  <2>2. CASE p # t
    BY <1>1, <1>2, <1>3, <2>2 DEF OthersKept, Kept, ParentSide, InForkOf, Live, LineOf
  <2> QED
    BY <2>1, <2>2
<1> QED
  BY <1>4, <1>5 DEF p

\* A step of t that keeps its call stack.
LEMMA StacksStay ==
  ASSUME Types, ParentsStarted, Stacks, NEW t \in Threads, OthersKept(t),
         born'[t] = born[t], PidOf(t)' = PidOf(t),
         thr'[t].pc # "rewind", thr[t].pc # "rewind", Live(t)' => Live(t) /\ LineOf(t)' = LineOf(t),
         \A u \in Threads : InForkOf(t, u)' <=> InForkOf(t, u),
         \A u \in Threads : InForkOf(t, u) =>
           mem'[t].saved = mem[t].saved /\ proc'[t].fork_return = proc[t].fork_return
  PROVE  Stacks'
<1>1. ASSUME born[t].parent # 0 PROVE ChildSide(t)'
  BY <1>1 DEF Stacks, ChildSide
<1>2. ASSUME NEW u \in Threads \ {t}, born[u].parent = t PROVE ParentSide(t, u)'
  <2>1. born'[u] = born[u] /\ PidOf(u)' = PidOf(u)
    BY DEF OthersKept, Kept, PidOf
  <2>2. ParentSide(t, u)
    BY <1>2, StackTypes DEF Stacks
  <2> QED
    BY <2>1, <2>2 DEF ParentSide
<1> QED
  BY <1>1, <1>2, StacksStep

LEMMA StacksKept ==
  Types /\ Claims /\ Apart /\ Stacks /\ [Next]_vars => Stacks'
<1> SUFFICES ASSUME Types, Claims, Apart, Stacks, [Next]_vars PROVE Stacks'
  OBVIOUS
<1>p. ParentsStarted
  BY DEF Apart
<1>1. ASSUME NEW t \in Threads, Write(t) PROVE Stacks'
  BY <1>1, <1>p, WriteDoes, StacksStay DEF Live, LineOf, InForkOf, PidOf
<1>2. ASSUME NEW t \in Threads, GuestEnds(t) PROVE Stacks'
  <2>1. /\ thr[t].pc = "guest" /\ proc' = proc /\ mem' = mem /\ stack' = stack
        /\ OthersKept(t) /\ MovesTo(t, "pump")
    BY <1>2, MoveDoes DEF GuestEnds, PCs
  <2>2. ~proc[t].fork_pending
    BY <2>1 DEF Claims
  <2> QED
    BY <1>p, <2>1, <2>2, StacksStay DEF Live, LineOf, InForkOf, PidOf, MovesTo
<1>3. ASSUME NEW t \in Threads, JoinReturns(t) PROVE Stacks'
  <2>1. /\ thr[t].pc = "join" /\ proc' = proc /\ mem' = mem /\ stack' = stack
        /\ OthersKept(t) /\ MovesTo(t, "joined")
    BY <1>3, MoveDoes DEF JoinReturns, PCs
  <2> QED
    BY <1>p, <2>1, StacksStay DEF Live, LineOf, InForkOf, PidOf, MovesTo
<1>4. ASSUME NEW t \in Threads, PumpEnds(t) PROVE Stacks'
  <2>1. /\ thr[t].pc = "pump" /\ proc' = proc /\ mem' = mem /\ stack' = stack
        /\ OthersKept(t) /\ MovesTo(t, "ended")
    BY <1>4, MoveDoes DEF PumpEnds, PCs
  <2> QED
    BY <1>p, <2>1, StacksStay DEF Live, LineOf, InForkOf, PidOf, MovesTo
<1>5. ASSUME NEW t \in Threads, ForkCall(t) PROVE Stacks'
  BY <1>5, <1>p, ForkCallDoes, StacksStay DEF Live, LineOf, InForkOf, PidOf
<1>6. ASSUME NEW t \in Threads, ForkUnwind(t) PROVE Stacks'
  BY <1>6, <1>p, ForkUnwindDoes, StacksStay DEF Live, LineOf, InForkOf, PidOf, MovesTo
<1>7. ASSUME NEW t \in Threads, ChildStart(t) PROVE Stacks'
  <2>1. /\ thr[t].pc = "created" /\ thr'[t].pc = "rewind" /\ OthersKept(t)
        /\ born'[t] = born[t] /\ args'[t] = args[t]
        /\ proc'[t].pid = args[t].child_pid /\ proc'[t].fork_return = 0
        /\ mem'[t].saved = args[t].memory.saved
    BY <1>7, ChildStartDoes DEF MovesTo
  <2>2. PidOf(t)' = PidOf(t)
    BY <2>1 DEF PidOf
  <2>3. args[t].memory.saved = born[t].stack
    BY <2>1 DEF Apart, CreatedAsBorn
  <2>4. ChildSide(t)'
    <3>1. Append(born[t].stack, 0) \in Seq(Nat)
      BY StackTypes
    <3>2. Prefix(Append(born[t].stack, 0), Append(born[t].stack, 0))
      BY <3>1, PrefixOfSelf
    <3> QED
      BY <2>1, <2>3, <3>2 DEF ChildSide
  <2>5. \A u \in Threads \ {t} : born[u].parent # t
    BY <1>p, <2>1, StackTypes DEF ParentsStarted, Started
  <2> QED
    BY <1>p, <2>1, <2>2, <2>4, <2>5, StacksStep
<1>8. ASSUME NEW t \in Threads, ParentRewind(t) PROVE Stacks'
  <2>1. /\ thr[t].pc = "joined" /\ thr'[t].pc = "rewind" /\ thr'[t].child = thr[t].child
        /\ proc' = proc /\ stack' = stack /\ OthersKept(t) /\ born'[t] = born[t]
        /\ args'[t] = args[t] /\ mem'[t].saved = mem[t].saved
    BY <1>8, ParentRewindDoes DEF MovesTo
  <2>2. PidOf(t)' = PidOf(t)
    BY <2>1 DEF PidOf
  <2>3. ASSUME born[t].parent # 0 PROVE ChildSide(t)'
    <3>1. Prefix(Append(born[t].stack, 0), mem[t].saved)
      BY <2>1, <2>3 DEF Stacks, ChildSide, Live, LineOf
    <3>2. Prefix(Append(born[t].stack, 0), Append(mem[t].saved, proc[t].fork_return))
      <4>1. /\ Append(born[t].stack, 0) \in Seq(Nat) /\ mem[t].saved \in Seq(Nat)
            /\ proc[t].fork_return \in Nat
        BY StackTypes
      <4> QED
        BY <3>1, <4>1, PrefixOfLonger
    <3> QED
      BY <2>1, <3>2 DEF ChildSide
  <2>4. ASSUME NEW u \in Threads \ {t}, born[u].parent = t PROVE ParentSide(t, u)'
    <3>1. born'[u] = born[u] /\ PidOf(u)' = PidOf(u)
      BY <2>1 DEF OthersKept, Kept, PidOf
    <3>2. ParentSide(t, u)
      BY <2>4, StackTypes DEF Stacks
    <3> QED
      BY <2>1, <3>1, <3>2 DEF ParentSide, InForkOf, Live, LineOf
  <2> QED
    BY <1>p, <2>1, <2>2, <2>3, <2>4, StacksStep
<1>9. ASSUME NEW t \in Threads, ForkReturns(t) PROVE Stacks'
  <2>1. /\ thr[t].pc = "rewind" /\ thr'[t].pc = "guest" /\ proc' = proc
        /\ OthersKept(t) /\ born'[t] = born[t] /\ args'[t] = args[t]
        /\ stack'[t] = Append(mem[t].saved, proc[t].fork_return)
    BY <1>9, ForkReturnsDoes DEF MovesTo
  <2>2. PidOf(t)' = PidOf(t)
    BY <2>1 DEF PidOf
  <2>3. ASSUME born[t].parent # 0 PROVE ChildSide(t)'
    <3>1. Prefix(Append(born[t].stack, 0), stack'[t])
      BY <2>1, <2>3 DEF Stacks, ChildSide
    <3> QED
      BY <2>1, <3>1 DEF ChildSide, LineOf
  <2>4. ASSUME NEW u \in Threads \ {t}, born[u].parent = t PROVE ParentSide(t, u)'
    <3>1. born'[u] = born[u] /\ PidOf(u)' = PidOf(u)
      BY <2>1 DEF OthersKept, Kept, PidOf
    <3>2. ParentSide(t, u)
      BY <2>4, StackTypes DEF Stacks
    <3>3. /\ Append(born[u].stack, PidOf(u)) \in Seq(Nat) /\ mem[t].saved \in Seq(Nat)
          /\ proc[t].fork_return \in Nat
      BY StackTypes
    <3>4. Prefix(Append(born[u].stack, PidOf(u)), stack'[t])
      <4>1. CASE InForkOf(t, u)
        <5>1. stack'[t] = Append(born[u].stack, PidOf(u))
          BY <2>1, <3>2, <4>1 DEF ParentSide
        <5> QED
          BY <3>3, <5>1, PrefixOfSelf
      <4>2. CASE ~InForkOf(t, u)
        <5>1. Prefix(Append(born[u].stack, PidOf(u)), mem[t].saved)
          BY <2>1, <3>2, <4>2 DEF ParentSide, Live, LineOf
        <5> QED
          BY <2>1, <3>3, <5>1, PrefixOfLonger
      <4> QED
        BY <4>1, <4>2
    <3> QED
      BY <2>1, <3>1, <3>4 DEF ParentSide, InForkOf, LineOf
  <2> QED
    BY <1>p, <2>1, <2>2, <2>3, <2>4, StacksStep
<1>10. ASSUME NEW t \in Threads, PumpFork(t) PROVE Stacks'
  <2>1. PICK c \in Threads : c # t /\ PumpForkTo(t, c)
    BY <1>10, PumpForkDoes
  <2>2. /\ thr[t].pc = "pump" /\ proc[t].fork_pending
        /\ thr[c].pc = "none" /\ thr'[c].pc = "created"
        /\ args'[c].child_pid = proc[t].fork_return
        /\ born'[c].parent = t /\ born'[c].stack = mem[t].saved
        /\ thr'[t].pc = "join" /\ thr'[t].child = c /\ born'[t] = born[t]
        /\ mem'[t].saved = mem[t].saved /\ args'[t] = args[t]
        /\ proc'[t].pid = proc[t].pid /\ proc'[t].fork_return = proc[t].fork_return
        /\ \A v \in Threads \ {t, c} : Kept(v)
    BY <1>10, <2>1, PumpForkDoes DEF PumpForkTo
  <2>3. ChildSide(c)' /\ ParentSide(t, c)'
    BY <2>2 DEF ChildSide, ParentSide, Live, InForkOf, PidOf
  <2>4. ASSUME NEW u \in Threads \ {c}, born[u].parent # 0
        PROVE  ChildSide(u)' /\ ParentSide(born[u].parent, u)'
    <3>1. born'[u] = born[u] /\ PidOf(u)' = PidOf(u)
      BY <2>2 DEF Kept, PidOf
    <3>2. ChildSide(u) /\ ParentSide(born[u].parent, u)
      BY <2>4 DEF Stacks
    <3>3. ChildSide(u)'
      BY <2>2, <3>1, <3>2 DEF ChildSide, Live, LineOf, Kept
    <3> DEFINE p == born[u].parent
    <3>4. p \in Threads /\ p # c
      BY <1>p, <2>2, <2>4, StackTypes DEF ParentsStarted, Started
    <3> HIDE DEF p
    <3>5. p = born[u].parent /\ p' = p
      BY <3>1 DEF p
    <3>6. CASE p = t
      <4>1. Prefix(Append(born[u].stack, PidOf(u)), mem[t].saved)
        BY <2>2, <3>2, <3>5, <3>6 DEF ParentSide, InForkOf, Live, LineOf
      <4>2. ~InForkOf(t, u)' /\ LineOf(t)' = mem[t].saved
        BY <2>2, <2>4 DEF InForkOf, LineOf
      <4> QED
        BY <3>1, <3>3, <3>5, <3>6, <4>1, <4>2 DEF ParentSide
    <3>7. CASE p # t
      <4>1. Kept(p)
        BY <2>2, <3>4, <3>7
      <4> QED
        BY <3>1, <3>2, <3>3, <3>5, <4>1 DEF ParentSide, InForkOf, Live, LineOf, Kept
    <3> QED
      BY <3>6, <3>7
  <2>5. \A u \in Threads \ {c} : born'[u] = born[u]
    BY <2>2 DEF Kept
  <2> QED
    BY <2>2, <2>3, <2>4, <2>5 DEF Stacks
<1>11. CASE UNCHANGED vars
  BY <1>11 DEF vars, Stacks, ChildSide, ParentSide, Live, LineOf, InForkOf, PidOf
<1> QED
  BY <1>1, <1>2, <1>3, <1>4, <1>5, <1>6, <1>7, <1>8, <1>9, <1>10, <1>11 DEF Next, Host

LEMMA StacksReturn == Types /\ Stacks => ReturnsTwice
<1> SUFFICES ASSUME Types, Stacks, NEW u \in Threads, born[u].parent # 0
             PROVE  LET p == born[u].parent
                    IN  /\ thr[u].pc = "guest" => Prefix(Append(born[u].stack, 0), stack[u])
                        /\ thr[u].pc = "ended" /\ thr[p].pc = "guest"
                             => Prefix(Append(born[u].stack, proc[u].pid), stack[p])
  BY DEF ReturnsTwice
<1>1. ChildSide(u) /\ ParentSide(born[u].parent, u)
  BY DEF Stacks
<1> QED
  BY <1>1 DEF ChildSide, ParentSide, Live, LineOf, InForkOf, PidOf

-----------------------------------------------------------------------------

Inv ==
  Types /\ Chain /\ OneThreadRuns /\ Claims /\ PidsUnique /\ Apart /\ Stacks

LEMMA Invariant == Spec => []Inv
<1>1. Init => Inv
  BY TypesAtFirst, ChainAtFirst, ClaimsAtFirst, ApartAtFirst, StacksAtFirst DEF Inv
<1>2. Inv /\ [Next]_vars => Inv'
  BY TypesKept, ChainKept, ClaimsKept, ApartKept, StacksKept DEF Inv
<1> QED
  BY <1>1, <1>2, PTL DEF Spec

\* However deep guests fork, one thread at a time has something to do: fork_impl
\* needs no lock for next_pid.
THEOREM OneAtATime == Spec => []OneThreadRuns
<1>1. Inv => OneThreadRuns
  BY DEF Inv
<1> QED
  BY <1>1, Invariant, PTL

\* Two processes never have the same pid, though next_pid++ is not atomic.
THEOREM PidsNeverShared == Spec => []PidsUnique
<1>1. Inv => PidsUnique
  BY DEF Inv
<1> QED
  BY <1>1, Invariant, PTL

\* fork_pump gives a child what its parent had written before the fork, and
\* gives the parent nothing of the child.
THEOREM MemoriesIsolated == Spec => []MemoryIsolated
<1>1. Inv => MemoryIsolated
  BY ApartIsolates DEF Inv
<1> QED
  BY <1>1, Invariant, PTL

\* Each fork comes back in the child with 0 and in the parent with the child's
\* pid, and both find the call stack they had.
THEOREM ForksReturnTwice == Spec => []ReturnsTwice
<1>1. Inv => ReturnsTwice
  BY StacksReturn DEF Inv
<1> QED
  BY <1>1, Invariant, PTL

=============================================================================
