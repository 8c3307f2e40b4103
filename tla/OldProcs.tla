------------------------------ MODULE OldProcs ------------------------------
(***************************************************************************)
(* Processes of the C++ predecessor (obsolete/src/process.cpp, runtime.cpp,*)
(* syscalls.cpp): a host thread for each, which runs a program, and        *)
(* another one in its place after exec, in a table nobody leaves.          *)
(*                                                                         *)
(* Guests have two interfaces to the same runtime: the handlers of         *)
(* syscalls.cpp (yos_exit, yos_exec, yos_wait, yos_spawn) and the methods  *)
(* of Runtime under their libc names (exit, execve, waitpid).  Groups and  *)
(* sessions, which nothing else reads, are left out.                       *)
(***************************************************************************)
EXTENDS Integers

CONSTANTS MaxPid,     \* bound: pids that are given out
          Main,       \* the program of the first process, _wasmBytes
          Programs,   \* the programs that can be loaded, Main among them
          Entryless,  \* those that have no entry point
          Execd,      \* the paths guests exec; not all can be loaded
          Spawned,    \* the paths they spawn
          Codes,      \* the codes guests exit with
          Leavers,    \* the processes that end in other ways than by a return
          ExecdForks, \* whether programs other than Main fork
          Fits        \* whether a snapshot fits into the child's memory

ASSUME OldProcsAssumption ==
  /\ MaxPid \in Nat \ {0}
  /\ Main \in Programs /\ Entryless \subseteq Programs
  /\ Codes \subseteq Int /\ Leavers \subseteq Nat
  /\ ExecdForks \in BOOLEAN
  /\ Fits \subseteq BOOLEAN

Pid == 1 .. MaxPid
NoPid == -1

VARIABLES
  nextPid,   \* _nextPid
  procs,     \* _processes
  image,     \* the program each process runs, its memory, and the snapshot
  thr,       \* the thread of each process
  up,        \* main has not returned
  \* For the properties:
  asked,     \* the program and the memory each process should have
  declared,  \* the code each process exited with, once it is known
  awaited,   \* the vfork child of each process that has not yet called
             \* yos_exec or yos_exit
  disturbed, \* parents of vfork children that called them a second time
  rewritten  \* processes that called yos_exit, whose code is written twice

table == <<nextPid, procs>>
signals == <<awaited, disturbed, rewritten>>
history == <<asked, declared, signals>>
vars == <<table, image, thr, up, history>>

-----------------------------------------------------------------------------

Proc(parentPid, state) ==
  [parentPid |-> parentPid, state |-> state, exitCode |-> 0, exited |-> FALSE,
   vforkParentPid |-> NoPid, vforkChildDone |-> FALSE]
NoProc == Proc(NoPid, "none")

\* Memory is the processes that have run in it.
Image(prog, memory, snapshot) ==
  [prog |-> prog, memory |-> memory, snapshot |-> snapshot]
Asks(prog, memory) == [prog |-> prog, memory |-> memory]
NoProgram == "none"
Freed == Image(NoProgram, {}, {})

\* Where a thread is, the process or path the call is about, its code, and
\* what follows it.
Thread(pc, arg, code, next) == [pc |-> pc, arg |-> arg, code |-> code, next |-> next]
At(pc) == Thread(pc, NoPid, 0, "none")
Goto(p, t) == thr' = [thr EXCEPT ![p] = t]
Guest(p) == up /\ thr[p].pc = "guest"

Init ==
  /\ nextPid = 2
  /\ procs = [p \in Pid |-> IF p = 1 THEN Proc(0, "Running") ELSE NoProc]
  /\ image = [p \in Pid |-> IF p = 1 THEN Image(Main, {}, {}) ELSE Freed]
  /\ thr = [p \in Pid |-> At(IF p = 1 THEN "start" ELSE "none")]
  /\ up = TRUE
  /\ asked = [p \in Pid |-> IF p = 1 THEN Asks(Main, {p}) ELSE Asks(NoProgram, {})]
  /\ declared = [p \in Pid |-> {}]
  /\ awaited = [p \in Pid |-> NoPid]
  /\ disturbed = {} /\ rewritten = {}

-----------------------------------------------------------------------------
(* ProcessTable::exit, under the lock of the process *)

\* The state is written first; listings read it without the lock.
ExitState(p) ==
  /\ up /\ thr[p].pc = "exit"
  /\ procs' = [procs EXCEPT ![p].state = "Exited"]
  /\ Goto(p, [thr[p] EXCEPT !.pc = "exited"])
  /\ UNCHANGED <<nextPid, image, up, history>>

\* Faulty form: the flag is forgotten.
Unflagged(proc, code) == [proc EXCEPT !.exitCode = code]

Finished(proc, code) == [proc EXCEPT !.exitCode = code, !.exited = TRUE]

ExitDone(p) ==
  /\ up /\ thr[p].pc = "exited"
  /\ procs' = [procs EXCEPT ![p] = Finished(@, thr[p].code)]
  /\ Goto(p, At(thr[p].next))
  /\ UNCHANGED <<nextPid, image, up, history>>

Exiting(p, code, next) == Goto(p, Thread("exit", NoPid, code, next))

-----------------------------------------------------------------------------
(* fork, vfork and spawn *)

\* Faulty form: the child does not know whom to wake.
NobodyToWake(p, kind) == NoPid

VforkParent(p, kind) == IF kind = "vfork" THEN p ELSE NoPid

\* The child enters the table and its thread starts; after vfork the parent
\* waits.
NewChild(p, kind, prog) ==
  LET c == nextPid
  IN  /\ c <= MaxPid
      /\ nextPid' = c + 1
      /\ procs' = [procs EXCEPT ![c] =
           [Proc(p, "Running") EXCEPT !.vforkParentPid = VforkParent(p, kind)]]
      /\ image' = [image EXCEPT ![c] =
           Image(prog, {}, IF kind = "fork" THEN image[p].memory ELSE {})]
      /\ thr' = [thr EXCEPT ![c] = At("start"),
           ![p] = IF kind = "vfork" THEN Thread("vfork", c, 0, "none") ELSE @]
      /\ awaited' = IF kind = "vfork" THEN [awaited EXCEPT ![p] = c] ELSE awaited
      /\ UNCHANGED <<up, declared, disturbed, rewritten>>

\* The child of fork and of vfork runs the program that init was started
\* with; fork copies the memory of its parent.
forkProcess(p) == NewChild(p, "fork", Main)
vforkProcess(p) == NewChild(p, "vfork", Main)

loadWasm(path) == path \in Programs
spawnProcess(p, path) == loadWasm(path) /\ NewChild(p, "spawn", path)

Fork(p) ==
  /\ Guest(p) /\ (ExecdForks \/ image[p].prog = Main)
  /\ forkProcess(p)
  /\ asked' = [asked EXCEPT ![nextPid] =
       Asks(image[p].prog, image[p].memory \cup {nextPid})]

Vfork(p) ==
  /\ Guest(p) /\ (ExecdForks \/ image[p].prog = Main)
  /\ vforkProcess(p)
  /\ asked' = [asked EXCEPT ![nextPid] = Asks(image[p].prog, {nextPid})]

Spawn(p) ==
  /\ Guest(p)
  /\ \E path \in Spawned :
       /\ spawnProcess(p, path)
       /\ asked' = [asked EXCEPT ![nextPid] = Asks(path, {nextPid})]

\* Faulty form: the flag stays for the next vfork.
StaysDone(proc) == proc

ResetDone(proc) == [proc EXCEPT !.vforkChildDone = FALSE]

VforkReturns(p) ==
  /\ up /\ thr[p].pc = "vfork" /\ procs[p].vforkChildDone
  /\ procs' = [procs EXCEPT ![p] = ResetDone(@)]
  /\ Goto(p, At("guest"))
  /\ UNCHANGED <<nextPid, image, up, history>>

\* vforkChildDone: the parent of a vfork child, and nobody else, is woken.
WakeVforkParent(p) ==
  LET parent == procs[p].vforkParentPid
  IN  procs' = IF parent = NoPid THEN procs
               ELSE [procs EXCEPT ![parent].vforkChildDone = TRUE]

-----------------------------------------------------------------------------
(* runProcess *)

\* History: the process exits with this code and wants no program any more.
Ends(p, code) ==
  /\ declared' = [declared EXCEPT ![p] = {code}]
  /\ asked' = [asked EXCEPT ![p] = Asks(NoProgram, {})]

\* History: a vfork child calls yos_exec or yos_exit, or does so again.
Signals(p) ==
  LET parent == procs[p].vforkParentPid
  IN  /\ awaited' = [q \in Pid |-> IF awaited[q] = p THEN NoPid ELSE awaited[q]]
      /\ disturbed' = IF parent = NoPid \/ awaited[parent] = p
                      THEN disturbed ELSE disturbed \cup {parent}

\* Faulty form: the snapshot is there for the next program too.
Kept(snapshot) == snapshot

Cleared(snapshot) == {}

\* A snapshot that does not fit into the new memory is not copied, without a
\* word.
CreateWasmProcess(p) ==
  \E fits \in Fits :
    image' = [image EXCEPT ![p] =
      Image(@.prog, (IF fits THEN @.snapshot ELSE {}) \cup {p}, Cleared(@.snapshot))]

\* The loop of runProcess; a program without an entry point ends with 127.
Start(p) ==
  /\ up /\ thr[p].pc = "start"
  /\ IF image[p].prog \in Entryless
     THEN /\ Exiting(p, 127, "gone")
          /\ image' = [image EXCEPT ![p] = Freed]
          /\ Ends(p, 127)
     ELSE /\ Goto(p, At("guest"))
          /\ CreateWasmProcess(p)
          /\ UNCHANGED <<asked, declared>>
  /\ UNCHANGED <<table, up, signals>>

\* The guest's entry function returns; a vfork child that does leaves its
\* parent waiting.
Return(p) ==
  /\ Guest(p)
  /\ Goto(p, At("returned"))
  /\ Ends(p, 0)
  /\ UNCHANGED <<table, image, up, signals>>

\* It traps; so does execve of Runtime, after it has stored a path.
Trap(p) ==
  /\ Guest(p) /\ p \in Leavers
  /\ Goto(p, At("trapped"))
  /\ Ends(p, 1)
  /\ UNCHANGED <<table, image, up, signals>>

\* exit and _exit of Runtime.
Exit(p) ==
  /\ Guest(p) /\ p \in Leavers
  /\ \E code \in Codes :
       /\ Exiting(p, code, "left")
       /\ Ends(p, code)
  /\ UNCHANGED <<table, image, up, signals>>

\* yos_exit, whose trap runProcess takes for an error: a second exit follows,
\* with the code 1.
YosExit(p) ==
  /\ Guest(p) /\ p \in Leavers
  /\ WakeVforkParent(p)
  /\ \E code \in Codes :
       /\ Exiting(p, code, "trapped")
       /\ Ends(p, code)
  /\ Signals(p)
  /\ rewritten' = rewritten \cup {p}
  /\ UNCHANGED <<nextPid, image, up>>

\* yos_exec.
YosExec(p) ==
  /\ Guest(p)
  /\ WakeVforkParent(p)
  /\ \E path \in Execd :
       /\ Goto(p, Thread("exec", path, 0, "none"))
       /\ IF loadWasm(path)
          THEN asked' = [asked EXCEPT ![p] = Asks(path, {p})] /\ UNCHANGED declared
          ELSE Ends(p, 126)
  /\ Signals(p)
  /\ UNCHANGED <<nextPid, image, up, rewritten>>

\* What runProcess does with the result, once it has deleted the context: the
\* process exits or, after yos_exec, another program is loaded and started.
RunEnded(p) ==
  /\ \/ thr[p].pc = "returned" /\ Exiting(p, 0, "gone")
     \/ thr[p].pc = "trapped" /\ Exiting(p, 1, "gone")
     \/ thr[p].pc = "left" /\ Goto(p, At("gone"))
     \/ thr[p].pc = "exec" /\ ~loadWasm(thr[p].arg) /\ Exiting(p, 126, "gone")
  /\ image' = [image EXCEPT ![p] = Freed]

RunExec(p) ==
  /\ thr[p].pc = "exec" /\ loadWasm(thr[p].arg)
  /\ image' = [image EXCEPT ![p] = Image(thr[p].arg, {}, @.snapshot)]
  /\ Goto(p, At("start"))

RunOn(p) ==
  /\ up
  /\ RunEnded(p) \/ RunExec(p)
  /\ UNCHANGED <<table, up, history>>

\* The process of the host ends, with every thread in it.
MainReturns ==
  /\ up /\ thr[1].pc = "gone"
  /\ up' = FALSE
  /\ procs' = [p \in Pid |-> NoProc]
  /\ image' = [p \in Pid |-> Freed]
  /\ thr' = [p \in Pid |-> At("none")]
  /\ asked' = [p \in Pid |-> Asks(NoProgram, {})]
  /\ declared' = [p \in Pid |-> {}]
  /\ awaited' = [p \in Pid |-> NoPid]
  /\ disturbed' = {} /\ rewritten' = {}
  /\ UNCHANGED nextPid

-----------------------------------------------------------------------------
(* wait *)

IsChild(p, c) == procs[c].state # "none" /\ procs[c].parentPid = p

\* A child that was waited for stays in the table for ever: how often it is
\* waited for plays no part.
WaitFor(p, how) ==
  /\ Guest(p)
  /\ \E c \in Pid : IsChild(p, c) /\ Goto(p, Thread("wait", c, 0, how))
  /\ UNCHANGED <<table, image, up, history>>

YosWait(p) == WaitFor(p, "yos_wait")
Waitpid(p) == WaitFor(p, "waitpid")

\* wait and waitpid of any child take the first that is listed as exited, in
\* a listing without an order; they do not wait for one.
WaitAny(p) ==
  /\ Guest(p)
  /\ \E c \in Pid :
       /\ IsChild(p, c) /\ procs[c].state = "Exited"
       /\ Goto(p, Thread("wait", c, 0, "waitpid"))
  /\ UNCHANGED <<table, image, up, history>>

\* Faulty form: the state is looked at, without the lock.
LooksExited(c) == procs[c].state = "Exited"

HasExited(c) == procs[c].exited /\ thr[c].pc # "exited"

ECHILD == -10

\* yos_wait returns the code, waitpid stores the exit status and takes a
\* code below zero for the absence of a child.
Told(how, code) ==
  IF how = "yos_wait" THEN code ELSE IF code < 0 THEN ECHILD ELSE code % 256

WaitReturns(p) ==
  LET c == thr[p].arg
  IN  /\ up /\ thr[p].pc = "wait"
      /\ HasExited(c)
      /\ Goto(p, Thread("answered", c, Told(thr[p].next, procs[c].exitCode), thr[p].next))
      /\ UNCHANGED <<table, image, up, history>>

GoesOn(p) ==
  /\ up /\ thr[p].pc = "answered"
  /\ Goto(p, At("guest"))
  /\ UNCHANGED <<table, image, up, history>>

-----------------------------------------------------------------------------

Calls(p) ==
  \/ Fork(p) \/ Vfork(p) \/ Spawn(p)
  \/ Return(p) \/ Trap(p) \/ Exit(p) \/ YosExit(p) \/ YosExec(p)
  \/ YosWait(p) \/ Waitpid(p) \/ WaitAny(p)

Internal(p) ==
  \/ ExitState(p) \/ ExitDone(p) \/ VforkReturns(p)
  \/ Start(p) \/ RunOn(p) \/ WaitReturns(p) \/ GoesOn(p)

Next == (\E p \in Pid : Calls(p) \/ Internal(p)) \/ MainReturns

Spec == Init /\ [][Next]_vars

\* A host thread that can go on does; guests may run for ever.
FairSpec == Spec /\ \A p \in Pid : WF_vars(Internal(p))

-----------------------------------------------------------------------------
(* Properties *)

\* A wait says of a child what that child exited with, cut to a byte by
\* waitpid, also when it is asked again or while the child is still in
\* ProcessTable::exit.  Children that called yos_exit are left out: of them a
\* wait says the code they gave or, later, 1.
StatusFaithful ==
  \A p \in Pid : thr[p].pc = "answered" /\ thr[p].arg \notin rewritten =>
    \E code \in declared[thr[p].arg] :
      thr[p].code = IF thr[p].next = "yos_wait" THEN code ELSE code % 256

\* A vfork child that has not called yos_exec or yos_exit runs alone: its
\* parent waits in vfork.  One thing only breaks this: an earlier vfork child
\* of that parent, after yos_exec, calls yos_exec or yos_exit again, at that
\* moment or, through the flag that leaves set, before.
VforkHolds ==
  \A p \in Pid : awaited[p] # NoPid => thr[p].pc = "vfork" \/ p \in disturbed

\* Each process runs the program it was made or asked for; its memory is the
\* parent's at fork for a child of fork, and fresh in all other cases.
ImageRight ==
  \A p \in Pid : thr[p].pc \in {"guest", "wait", "answered", "vfork"} =>
    Asks(image[p].prog, image[p].memory) = asked[p]

\* Those that children can have.
Parents == 1 .. (MaxPid - 1)

\* A parent that waits for a child goes on wherever the child ends, and one
\* that waits in vfork once the child has called yos_exec or yos_exit, unless
\* the host program ends first.
CanGoOn(p) ==
  \/ thr[p].pc = "wait" /\ declared[thr[p].arg] # {}
  \/ thr[p].pc = "vfork" /\ awaited[p] # thr[p].arg

BlockedGoOn ==
  \A p \in Parents : CanGoOn(p) ~> (thr[p].pc \notin {"wait", "vfork"} \/ ~up)

=============================================================================
