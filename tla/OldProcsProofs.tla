--------------------------- MODULE OldProcsProofs ---------------------------
(***************************************************************************)
(* What holds of the predecessor's processes for any number of processes   *)
(* and any programs: a vfork child runs alone, waits tell the truth, and   *)
(* every process runs what it was made for.                                *)
(***************************************************************************)
EXTENDS OldProcs, TLAPS

USE OldProcsAssumption DEF NoPid, signals

-----------------------------------------------------------------------------
(* Types *)

Pcs == {"none", "start", "guest", "vfork", "wait", "answered", "returned",
        "trapped", "left", "exec", "exit", "exited", "gone"}
Procs == [parentPid : Int, state : {"none", "Running", "Exited"}, exitCode : Int, exited : BOOLEAN,
          vforkParentPid : Pid \cup {NoPid}, vforkChildDone : BOOLEAN]
Threads == [pc : Pcs, arg : Pid \cup Execd \cup {NoPid}, code : Int,
            next : {"none", "gone", "left", "trapped", "yos_wait", "waitpid"}]
Images == [prog : Programs \cup {NoProgram}, memory : SUBSET Pid, snapshot : SUBSET Pid]
Wishes == [prog : Programs \cup {NoProgram}, memory : SUBSET Pid]

\* Every variable has its type, and pids from nextPid on are not in use.
Types ==
  /\ nextPid \in Nat /\ nextPid > 1
  /\ procs \in [Pid -> Procs]
  /\ thr \in [Pid -> Threads]
  /\ image \in [Pid -> Images]
  /\ asked \in [Pid -> Wishes]
  /\ declared \in [Pid -> SUBSET Int]
  /\ awaited \in [Pid -> Pid \cup {NoPid}]
  /\ disturbed \in SUBSET Pid

\* A thread that waits knows for which process.
Targets ==
  /\ \A p \in Pid : thr[p].pc \in {"wait", "answered", "vfork"} => thr[p].arg \in Pid
  /\ \A p \in Pid : thr[p].pc \in {"exit", "exited"} => thr[p].next \in {"gone", "left", "trapped"}
  /\ \A c \in Pid : c >= nextPid => ~procs[c].exited /\ thr[c].pc = "none"

LEMMA ThreadFacts ==
  ASSUME NEW pc \in Pcs, NEW arg \in Pid \cup Execd \cup {NoPid}, NEW code \in Int,
         NEW next \in {"none", "gone", "left", "trapped", "yos_wait", "waitpid"}
  PROVE  LET t == Thread(pc, arg, code, next)
         IN  t \in Threads /\ t.pc = pc /\ t.arg = arg /\ t.code = code /\ t.next = next
BY DEF Thread, Threads

LEMMA AtFacts ==
  ASSUME NEW pc \in Pcs
  PROVE  At(pc) \in Threads /\ At(pc).pc = pc /\ At(pc).arg = NoPid
         /\ At(pc).code = 0 /\ At(pc).next = "none"
BY ThreadFacts DEF At

LEMMA ProcFacts ==
  ASSUME NEW q \in Int, NEW st \in {"none", "Running", "Exited"}
  PROVE  LET r == Proc(q, st)
         IN  r \in Procs /\ r.parentPid = q /\ r.state = st /\ r.exitCode = 0 /\ ~r.exited
             /\ r.vforkParentPid = NoPid /\ ~r.vforkChildDone
BY DEF Proc, Procs

LEMMA ImageFacts ==
  ASSUME NEW prog \in Programs \cup {NoProgram}, NEW mem \in SUBSET Pid, NEW snap \in SUBSET Pid
  PROVE  LET i == Image(prog, mem, snap)
         IN  i \in Images /\ i.prog = prog /\ i.memory = mem /\ i.snapshot = snap
BY DEF Image, Images

LEMMA WishFacts ==
  ASSUME NEW prog \in Programs \cup {NoProgram}, NEW mem \in SUBSET Pid
  PROVE  LET i == Asks(prog, mem) IN  i \in Wishes /\ i.prog = prog /\ i.memory = mem
BY DEF Asks, Wishes

LEMMA InitTypes == Init => Types /\ Targets
<1> SUFFICES ASSUME Init PROVE Types /\ Targets
  OBVIOUS
<1>1. 1 \in Pid /\ Main \in Programs
  BY DEF Pid
<1>2. \A p \in Pid : Proc(0, "Running") \in Procs /\ NoProc \in Procs
  BY ProcFacts DEF NoProc
<1>3. procs \in [Pid -> Procs]
  BY <1>2 DEF Init
<1>4. At("start") \in Threads /\ At("none") \in Threads /\ At("start").pc = "start" /\ At("none").pc = "none"
  BY AtFacts DEF Pcs
<1>5. thr \in [Pid -> Threads] /\ \A p \in Pid : thr[p].pc \in {"start", "none"}
  BY <1>4 DEF Init
<1>6. Freed \in Images /\ Image(Main, {}, {}) \in Images
  BY <1>1, ImageFacts DEF Freed
<1>7. image \in [Pid -> Images]
  BY <1>6 DEF Init
<1>8. Asks(NoProgram, {}) \in Wishes /\ Asks(Main, {1}) \in Wishes
  BY <1>1, WishFacts
<1>9. asked \in [Pid -> Wishes]
  BY <1>8 DEF Init
<1>10. \A c \in Pid : c >= nextPid => ~procs[c].exited /\ thr[c].pc = "none"
  BY <1>4, ProcFacts DEF Init, NoProc, Pid
<1> QED
  <2>1. nextPid = 2 /\ declared \in [Pid -> SUBSET Int] /\ awaited \in [Pid -> Pid \cup {NoPid}]
      /\ disturbed \in SUBSET Pid
    BY DEF Init
  <2>2. Types
    BY <1>3, <1>5, <1>7, <1>9, <2>1 DEF Types
  <2>3. Targets
    BY <1>5, <1>10 DEF Targets
  <2> QED
    BY <2>2, <2>3

-----------------------------------------------------------------------------
(* What a write to one entry does *)

LEMMA GotoFacts ==
  ASSUME Types, NEW p \in Pid, NEW t \in Threads, Goto(p, t)
  PROVE  thr' \in [Pid -> Threads] /\ thr'[p] = t /\ \A q \in Pid : q # p => thr'[q] = thr[q]
BY DEF Goto, Types

LEMMA ProcsWrite ==
  ASSUME Types, NEW p \in Pid, NEW r \in Procs, procs' = [procs EXCEPT ![p] = r]
  PROVE  procs' \in [Pid -> Procs] /\ procs'[p] = r /\ \A q \in Pid : q # p => procs'[q] = procs[q]
BY DEF Types

LEMMA ImageWrite ==
  ASSUME Types, NEW p \in Pid, NEW r \in Images, image' = [image EXCEPT ![p] = r]
  PROVE  image' \in [Pid -> Images] /\ image'[p] = r /\ \A q \in Pid : q # p => image'[q] = image[q]
BY DEF Types

LEMMA AskedWrite ==
  ASSUME Types, NEW p \in Pid, NEW r \in Wishes, asked' = [asked EXCEPT ![p] = r]
  PROVE  asked' \in [Pid -> Wishes] /\ asked'[p] = r /\ \A q \in Pid : q # p => asked'[q] = asked[q]
BY DEF Types

LEMMA EndsFacts ==
  ASSUME Types, NEW p \in Pid, NEW code \in Int, Ends(p, code)
  PROVE  /\ declared' \in [Pid -> SUBSET Int] /\ declared'[p] = {code}
         /\ \A q \in Pid : q # p => declared'[q] = declared[q]
         /\ asked' \in [Pid -> Wishes] /\ asked'[p] = Asks(NoProgram, {})
         /\ \A q \in Pid : q # p => asked'[q] = asked[q]
<1>1. Asks(NoProgram, {}) \in Wishes
  BY WishFacts
<1> QED
  BY <1>1, AskedWrite DEF Ends, Types

\* The ways the entry of a process is changed in place.
LEMMA StateFacts ==
  ASSUME NEW r \in Procs
  PROVE  LET e == [r EXCEPT !.state = "Exited"]
         IN  e \in Procs /\ e.parentPid = r.parentPid /\ e.exitCode = r.exitCode /\ e.exited = r.exited
             /\ e.vforkParentPid = r.vforkParentPid /\ e.vforkChildDone = r.vforkChildDone
BY DEF Procs

LEMMA FinishedFacts ==
  ASSUME NEW r \in Procs, NEW code \in Int
  PROVE  LET e == Finished(r, code)
         IN  e \in Procs /\ e.parentPid = r.parentPid /\ e.exitCode = code /\ e.exited
             /\ e.vforkParentPid = r.vforkParentPid /\ e.vforkChildDone = r.vforkChildDone
BY DEF Procs, Finished

LEMMA DoneFacts ==
  ASSUME NEW r \in Procs, NEW done \in BOOLEAN
  PROVE  LET e == [r EXCEPT !.vforkChildDone = done]
         IN  e \in Procs /\ e.parentPid = r.parentPid /\ e.exitCode = r.exitCode /\ e.exited = r.exited
             /\ e.vforkParentPid = r.vforkParentPid /\ e.vforkChildDone = done
BY DEF Procs

LEMMA ChildFacts ==
  ASSUME NEW q \in Int, NEW v \in Pid \cup {NoPid}
  PROVE  LET e == [Proc(q, "Running") EXCEPT !.vforkParentPid = v]
         IN  e \in Procs /\ e.parentPid = q /\ ~e.exited /\ e.vforkParentPid = v /\ ~e.vforkChildDone
<1> PICK r \in Procs : r = Proc(q, "Running") /\ r.parentPid = q /\ ~r.exited /\ ~r.vforkChildDone
  BY ProcFacts
<1> QED
  BY DEF Procs

LEMMA PcFacts ==
  ASSUME NEW t \in Threads, NEW pc \in Pcs
  PROVE  LET e == [t EXCEPT !.pc = pc]
         IN  e \in Threads /\ e.pc = pc /\ e.arg = t.arg /\ e.code = t.code /\ e.next = t.next
BY DEF Threads

\* Only the flag of the vfork parent changes.
LEMMA WakeFacts ==
  ASSUME Types, NEW p \in Pid, WakeVforkParent(p)
  PROVE  /\ procs' \in [Pid -> Procs]
         /\ \A q \in Pid : /\ procs'[q].exited = procs[q].exited
                           /\ procs'[q].exitCode = procs[q].exitCode
                           /\ procs'[q].vforkParentPid = procs[q].vforkParentPid
                           /\ procs'[q].vforkChildDone =
                                (procs[q].vforkChildDone \/ q = procs[p].vforkParentPid)
<1> PICK v \in Pid \cup {NoPid} : v = procs[p].vforkParentPid
  BY DEF Types, Procs
<1>1. CASE v = NoPid
  BY <1>1 DEF WakeVforkParent, Types, Pid, Procs
<1>2. CASE v # NoPid
  <2>0. v \in Pid /\ procs[v] \in Procs
    BY <1>2 DEF Types
  <2> PICK r : r = [procs[v] EXCEPT !.vforkChildDone = TRUE]
    OBVIOUS
  <2>2. /\ r \in Procs /\ r.exited = procs[v].exited /\ r.exitCode = procs[v].exitCode
        /\ r.vforkParentPid = procs[v].vforkParentPid /\ r.vforkChildDone = TRUE
    BY <2>0, DoneFacts
  <2>1. procs' = [procs EXCEPT ![v] = r]
    BY <1>2 DEF WakeVforkParent
  <2>3. procs' \in [Pid -> Procs] /\ procs'[v] = r /\ \A q \in Pid : q # v => procs'[q] = procs[q]
    BY <2>0, <2>1, <2>2, ProcsWrite
  <2>4. \A q \in Pid : procs[q].vforkChildDone \in BOOLEAN
    BY DEF Types, Procs
  <2> QED
    BY <2>0, <2>2, <2>3, <2>4
<1> QED
  BY <1>1, <1>2

-----------------------------------------------------------------------------
(* What each action changes *)

LEMMA ExitStateFacts ==
  ASSUME Types, NEW p \in Pid, ExitState(p)
  PROVE  /\ Types'
         /\ thr[p].pc = "exit" /\ thr'[p].pc = "exited"
         /\ thr'[p].code = thr[p].code /\ thr'[p].next = thr[p].next
         /\ \A q \in Pid : q # p => thr'[q] = thr[q]
         /\ \A q \in Pid : /\ procs'[q].exited = procs[q].exited
                           /\ procs'[q].exitCode = procs[q].exitCode
                           /\ procs'[q].vforkParentPid = procs[q].vforkParentPid
                           /\ procs'[q].vforkChildDone = procs[q].vforkChildDone
         /\ UNCHANGED <<nextPid, image, up, history>>
<1>1. thr[p] \in Threads /\ procs[p] \in Procs /\ "exited" \in Pcs
  BY DEF Types, Pcs
<1> PICK t : t = [thr[p] EXCEPT !.pc = "exited"]
  OBVIOUS
<1>5. t \in Threads /\ t.pc = "exited" /\ t.code = thr[p].code /\ t.next = thr[p].next
  BY <1>1, PcFacts
<1>2. thr' \in [Pid -> Threads] /\ thr'[p] = t /\ \A q \in Pid : q # p => thr'[q] = thr[q]
  BY <1>5, GotoFacts DEF ExitState
<1> PICK r \in Procs : r = [procs[p] EXCEPT !.state = "Exited"] /\ r.exitCode = procs[p].exitCode
                      /\ r.exited = procs[p].exited /\ r.vforkParentPid = procs[p].vforkParentPid
                      /\ r.vforkChildDone = procs[p].vforkChildDone
  BY <1>1, StateFacts
<1>3. procs' = [procs EXCEPT ![p] = r]
  BY DEF ExitState
<1>4. procs' \in [Pid -> Procs] /\ procs'[p] = r /\ \A q \in Pid : q # p => procs'[q] = procs[q]
  BY <1>3, ProcsWrite
<1> QED
  BY <1>2, <1>4, <1>5 DEF ExitState, Types, history

LEMMA ExitDoneFacts ==
  ASSUME Types, Targets, NEW p \in Pid, ExitDone(p)
  PROVE  /\ Types'
         /\ thr[p].pc = "exited" /\ thr'[p].pc = thr[p].next
         /\ \A q \in Pid : q # p => thr'[q] = thr[q] /\ procs'[q] = procs[q]
         /\ procs'[p].exited /\ procs'[p].exitCode = thr[p].code
         /\ procs'[p].vforkParentPid = procs[p].vforkParentPid
         /\ procs'[p].vforkChildDone = procs[p].vforkChildDone
         /\ UNCHANGED <<nextPid, image, up, history>>
<1>0. thr[p] \in Threads /\ procs[p] \in Procs
  BY DEF Types
<1>1. procs[p] \in Procs /\ thr[p].next \in Pcs /\ thr[p].code \in Int
  BY <1>0 DEF Pcs, ExitDone, Targets, Threads
<1> PICK t \in Threads : t = At(thr[p].next) /\ t.pc = thr[p].next
  BY <1>1, AtFacts
<1>2. thr' \in [Pid -> Threads] /\ thr'[p] = t /\ \A q \in Pid : q # p => thr'[q] = thr[q]
  BY GotoFacts DEF ExitDone
<1> PICK r \in Procs : r = Finished(procs[p], thr[p].code) /\ r.exitCode = thr[p].code
                      /\ r.exited /\ r.vforkParentPid = procs[p].vforkParentPid
                      /\ r.vforkChildDone = procs[p].vforkChildDone
  BY <1>1, FinishedFacts
<1>3. procs' = [procs EXCEPT ![p] = r]
  BY DEF ExitDone
<1>4. procs' \in [Pid -> Procs] /\ procs'[p] = r /\ \A q \in Pid : q # p => procs'[q] = procs[q]
  BY <1>3, ProcsWrite
<1> QED
  BY <1>2, <1>4 DEF ExitDone, Types, history

LEMMA VforkReturnsFacts ==
  ASSUME Types, NEW p \in Pid, VforkReturns(p)
  PROVE  /\ Types'
         /\ thr[p].pc = "vfork" /\ thr'[p].pc = "guest" /\ procs[p].vforkChildDone
         /\ \A q \in Pid : q # p => thr'[q] = thr[q] /\ procs'[q] = procs[q]
         /\ procs'[p].exited = procs[p].exited /\ procs'[p].exitCode = procs[p].exitCode
         /\ procs'[p].vforkParentPid = procs[p].vforkParentPid
         /\ ~procs'[p].vforkChildDone
         /\ UNCHANGED <<nextPid, image, up, history>>
<1>1. procs[p] \in Procs /\ "guest" \in Pcs
  BY DEF Types, Pcs
<1> PICK t \in Threads : t = At("guest") /\ t.pc = "guest"
  BY <1>1, AtFacts
<1>2. thr' \in [Pid -> Threads] /\ thr'[p] = t /\ \A q \in Pid : q # p => thr'[q] = thr[q]
  BY GotoFacts DEF VforkReturns
<1> PICK r \in Procs : r = ResetDone(procs[p]) /\ r.exitCode = procs[p].exitCode
                      /\ r.exited = procs[p].exited /\ r.vforkParentPid = procs[p].vforkParentPid
                      /\ ~r.vforkChildDone
  BY <1>1, DoneFacts DEF ResetDone
<1>3. procs' = [procs EXCEPT ![p] = r]
  BY DEF VforkReturns
<1>4. procs' \in [Pid -> Procs] /\ procs'[p] = r /\ \A q \in Pid : q # p => procs'[q] = procs[q]
  BY <1>3, ProcsWrite
<1> QED
  BY <1>2, <1>4 DEF VforkReturns, Types, history

\* fork, vfork and spawn.
LEMMA NewChildFacts ==
  ASSUME Types, Targets, NEW p \in Pid, NEW kind, NEW prog \in Programs, NewChild(p, kind, prog),
         Guest(p)
  PROVE  /\ nextPid \in Pid /\ nextPid' = nextPid + 1 /\ nextPid # p
         /\ procs' \in [Pid -> Procs] /\ thr' \in [Pid -> Threads] /\ image' \in [Pid -> Images]
         /\ \A q \in Pid : q # nextPid => procs'[q] = procs[q] /\ image'[q] = image[q]
         /\ \A q \in Pid : q # nextPid /\ q # p => thr'[q] = thr[q]
         /\ ~procs'[nextPid].exited /\ ~procs'[nextPid].vforkChildDone
         /\ procs'[nextPid].vforkParentPid = (IF kind = "vfork" THEN p ELSE NoPid)
         /\ thr'[nextPid].pc = "start"
         /\ IF kind = "vfork" THEN thr'[p].pc = "vfork" /\ thr'[p].arg = nextPid ELSE thr'[p] = thr[p]
         /\ image'[nextPid].prog = prog
         /\ image'[nextPid].snapshot = (IF kind = "fork" THEN image[p].memory ELSE {})
         /\ UNCHANGED <<up, declared, disturbed, rewritten>>
         /\ awaited' = IF kind = "vfork" THEN [awaited EXCEPT ![p] = nextPid] ELSE awaited
<1> PICK c : c = nextPid
  OBVIOUS
<1>1. c \in Pid /\ c # p /\ nextPid' = c + 1
  <2>1. c <= MaxPid /\ nextPid' = c + 1
    BY DEF NewChild
  <2>2. c \in Pid /\ c >= nextPid
    BY <2>1 DEF Types, Pid
  <2>3. thr[c].pc = "none" /\ thr[p].pc = "guest"
    BY <2>2 DEF Targets, Guest
  <2> QED
    BY <2>1, <2>2, <2>3
<1> PICK v : v = VforkParent(p, kind)
  OBVIOUS
<1>9. p \in Int /\ v \in Pid \cup {NoPid} /\ v = IF kind = "vfork" THEN p ELSE NoPid
  BY DEF VforkParent, Pid
<1> PICK r : r = [Proc(p, "Running") EXCEPT !.vforkParentPid = v]
  OBVIOUS
<1>10. r \in Procs /\ ~r.exited /\ ~r.vforkChildDone /\ r.vforkParentPid = v
  BY <1>9, ChildFacts
<1>2. procs' = [procs EXCEPT ![c] = r]
  BY DEF NewChild
<1>3. procs' \in [Pid -> Procs] /\ procs'[c] = r /\ \A q \in Pid : q # c => procs'[q] = procs[q]
  BY <1>1, <1>2, <1>10, ProcsWrite
<1>4. image[p].memory \in SUBSET Pid
  BY DEF Types, Images
<1> PICK i \in Images : i = Image(prog, {}, IF kind = "fork" THEN image[p].memory ELSE {})
                       /\ i.prog = prog /\ i.snapshot = (IF kind = "fork" THEN image[p].memory ELSE {})
  BY <1>4, ImageFacts
<1>5. image' = [image EXCEPT ![c] = i]
  BY DEF NewChild
<1>6. image' \in [Pid -> Images] /\ image'[c] = i /\ \A q \in Pid : q # c => image'[q] = image[q]
  BY <1>1, <1>5, ImageWrite
<1> PICK t \in Threads : t = At("start") /\ t.pc = "start"
  BY AtFacts DEF Pcs
<1> PICK w \in Threads : w = Thread("vfork", c, 0, "none") /\ w.pc = "vfork" /\ w.arg = c
  BY <1>1, ThreadFacts DEF Pcs
<1> PICK u \in Threads : u = (IF kind = "vfork" THEN w ELSE thr[p])
  BY DEF Types
<1>7. thr' = [thr EXCEPT ![c] = t, ![p] = u]
  BY <1>1 DEF NewChild
<1>8. thr' \in [Pid -> Threads] /\ thr'[c] = t /\ thr'[p] = u /\ \A q \in Pid : q # c /\ q # p => thr'[q] = thr[q]
  BY <1>1, <1>7 DEF Types
<1> QED
  BY <1>1, <1>3, <1>6, <1>8, <1>9, <1>10 DEF NewChild



LEMMA AskedKept ==
  ASSUME Types, Targets, NEW p \in Pid, Fork(p) \/ Vfork(p) \/ Spawn(p)
  PROVE  /\ Guest(p)
         /\ \E kind \in {"fork", "vfork", "spawn"}, prog \in Programs :
              /\ NewChild(p, kind, prog)
              /\ asked' \in [Pid -> Wishes]
              /\ \A q \in Pid : q # nextPid => asked'[q] = asked[q]
              /\ kind = "fork" => /\ prog = Main /\ (ExecdForks \/ image[p].prog = Main)
                                 /\ asked'[nextPid] = Asks(image[p].prog, image[p].memory \cup {nextPid})
              /\ kind = "vfork" => /\ prog = Main /\ (ExecdForks \/ image[p].prog = Main)
                                  /\ asked'[nextPid] = Asks(image[p].prog, {nextPid})
              /\ kind = "spawn" => asked'[nextPid] = Asks(prog, {nextPid})
<1>0. image[p].prog \in Programs \cup {NoProgram} /\ image[p].memory \in SUBSET Pid
  BY DEF Types, Images
<1>1. CASE Fork(p)
  <2>1. nextPid \in Pid
    BY <1>1, NewChildFacts DEF Fork, forkProcess
  <2>2. Asks(image[p].prog, image[p].memory \cup {nextPid}) \in Wishes
    BY <1>0, <2>1, WishFacts
  <2> QED
    BY <1>1, <2>1, <2>2, AskedWrite DEF Fork, forkProcess
<1>2. CASE Vfork(p)
  <2>1. nextPid \in Pid
    BY <1>2, NewChildFacts DEF Vfork, vforkProcess
  <2>2. Asks(image[p].prog, {nextPid}) \in Wishes
    BY <1>0, <2>1, WishFacts
  <2> QED
    BY <1>2, <2>1, <2>2, AskedWrite DEF Vfork, vforkProcess
<1>3. CASE Spawn(p)
  <2> PICK path \in Spawned \cap Programs :
         /\ NewChild(p, "spawn", path)
         /\ asked' = [asked EXCEPT ![nextPid] = Asks(path, {nextPid})]
    BY <1>3 DEF Spawn, spawnProcess, loadWasm
  <2>1. nextPid \in Pid
    BY <1>3, NewChildFacts DEF Spawn, spawnProcess, loadWasm
  <2>2. Asks(path, {nextPid}) \in Wishes
    BY <2>1, WishFacts
  <2> QED
    BY <1>3, <2>1, <2>2, AskedWrite DEF Spawn, spawnProcess, loadWasm
<1> QED
  BY <1>1, <1>2, <1>3

\* A guest that returns, traps or calls exit.
LEMMA EndFacts ==
  ASSUME Types, NEW p \in Pid, Return(p) \/ Trap(p) \/ Exit(p)
  PROVE  /\ Types' /\ thr[p].pc = "guest"
         /\ \A q \in Pid : q # p => thr'[q] = thr[q] /\ declared'[q] = declared[q] /\ asked'[q] = asked[q]
         /\ \/ thr'[p].pc = "returned" /\ declared'[p] = {0}
            \/ thr'[p].pc = "trapped" /\ declared'[p] = {1}
            \/ \E code \in Codes : /\ thr'[p].pc = "exit" /\ thr'[p].code = code
                                   /\ thr'[p].next = "left" /\ declared'[p] = {code}
         /\ UNCHANGED <<nextPid, procs, image, up, signals>>
<1>0. {"returned", "trapped", "exit"} \subseteq Pcs /\ NoPid \in Pid \cup Execd \cup {NoPid}
  BY DEF Pcs
<1>1. CASE Return(p)
  <2> PICK t : t = At("returned")
    OBVIOUS
  <2>1. t \in Threads /\ t.pc = "returned"
    BY <1>0, AtFacts
  <2>2. thr' \in [Pid -> Threads] /\ thr'[p] = t /\ \A q \in Pid : q # p => thr'[q] = thr[q]
    BY <1>1, <2>1, GotoFacts DEF Return
  <2>3. Ends(p, 0) /\ {0} \in SUBSET Int
    BY <1>1 DEF Return
  <2> QED
    BY <1>1, <2>1, <2>2, <2>3, EndsFacts DEF Return, Types, table, Guest
<1>2. CASE Trap(p)
  <2> PICK t : t = At("trapped")
    OBVIOUS
  <2>1. t \in Threads /\ t.pc = "trapped"
    BY <1>0, AtFacts
  <2>2. thr' \in [Pid -> Threads] /\ thr'[p] = t /\ \A q \in Pid : q # p => thr'[q] = thr[q]
    BY <1>2, <2>1, GotoFacts DEF Trap
  <2>3. Ends(p, 1) /\ {1} \in SUBSET Int
    BY <1>2 DEF Trap
  <2> QED
    BY <1>2, <2>1, <2>2, <2>3, EndsFacts DEF Trap, Types, table, Guest
<1>3. CASE Exit(p)
  <2> PICK code \in Codes : Exiting(p, code, "left") /\ Ends(p, code)
    BY <1>3 DEF Exit
  <2> PICK t : t = Thread("exit", NoPid, code, "left")
    OBVIOUS
  <2>4. code \in Int
    BY OldProcsAssumption
  <2>1. t \in Threads /\ t.pc = "exit" /\ t.code = code /\ t.next = "left"
    BY <1>0, <2>4 DEF Thread, Threads
  <2>2. thr' \in [Pid -> Threads] /\ thr'[p] = t /\ \A q \in Pid : q # p => thr'[q] = thr[q]
    BY <2>1, GotoFacts DEF Exiting
  <2>3. {code} \in SUBSET Int
    BY <2>4
  <2> QED
    BY <1>3, <2>1, <2>2, <2>3, EndsFacts DEF Exit, Types, table, Guest
<1> QED
  BY <1>1, <1>2, <1>3

\* yos_exit and yos_exec.
LEMMA YosFacts ==
  ASSUME Types, NEW p \in Pid, YosExit(p) \/ YosExec(p)
  PROVE  /\ Types' /\ thr[p].pc = "guest" /\ WakeVforkParent(p) /\ Signals(p)
         /\ \A q \in Pid : q # p => thr'[q] = thr[q] /\ declared'[q] = declared[q] /\ asked'[q] = asked[q]
         /\ \/ \E code \in Codes : /\ thr'[p].pc = "exit" /\ thr'[p].code = code
                                   /\ thr'[p].next = "trapped" /\ declared'[p] = {code}
                                   /\ rewritten' = rewritten \cup {p}
            \/ /\ thr'[p].pc = "exec" /\ thr'[p].arg \in Programs
               /\ declared'[p] = declared[p] /\ asked'[p] = Asks(thr'[p].arg, {p})
               /\ rewritten' = rewritten
            \/ /\ thr'[p].pc = "exec" /\ thr'[p].arg \notin Programs /\ declared'[p] = {126}
               /\ rewritten' = rewritten
         /\ UNCHANGED <<nextPid, image, up>>
<1>0. {"exec", "exit"} \subseteq Pcs /\ NoPid \in Pid \cup Execd \cup {NoPid}
  BY DEF Pcs
<1>9. WakeVforkParent(p) /\ Signals(p)
  BY DEF YosExit, YosExec
<1>10. /\ procs' \in [Pid -> Procs] /\ awaited' \in [Pid -> Pid \cup {NoPid}]
       /\ disturbed' \in SUBSET Pid
  <2>1. procs' \in [Pid -> Procs]
    BY <1>9, WakeFacts
  <2>2. procs[p].vforkParentPid \in Pid \cup {NoPid}
    BY DEF Types, Procs
  <2>3. awaited' \in [Pid -> Pid \cup {NoPid}] /\ disturbed' \in SUBSET Pid
    BY <1>9, <2>2 DEF Signals, Types
  <2> QED
    BY <2>1, <2>3
<1>1. CASE YosExit(p)
  <2> PICK code \in Codes : Exiting(p, code, "trapped") /\ Ends(p, code)
    BY <1>1 DEF YosExit
  <2> PICK t : t = Thread("exit", NoPid, code, "trapped")
    OBVIOUS
  <2>4. code \in Int
    BY OldProcsAssumption
  <2>1. t \in Threads /\ t.pc = "exit" /\ t.code = code /\ t.next = "trapped"
    BY <1>0, <2>4 DEF Thread, Threads
  <2>2. thr' \in [Pid -> Threads] /\ thr'[p] = t /\ \A q \in Pid : q # p => thr'[q] = thr[q]
    BY <2>1, GotoFacts DEF Exiting
  <2>3. {code} \in SUBSET Int
    BY <2>4
  <2> QED
    BY <1>1, <1>9, <1>10, <2>1, <2>2, <2>3, EndsFacts DEF YosExit, Types, Guest
<1>2. CASE YosExec(p)
  <2> PICK path \in Execd :
       /\ Goto(p, Thread("exec", path, 0, "none"))
       /\ IF path \in Programs
          THEN asked' = [asked EXCEPT ![p] = Asks(path, {p})] /\ UNCHANGED declared
          ELSE Ends(p, 126)
    BY <1>2 DEF loadWasm, YosExec
  <2> PICK t : t = Thread("exec", path, 0, "none")
    OBVIOUS
  <2>1. t \in Threads /\ t.pc = "exec" /\ t.arg = path
    BY <1>0, ThreadFacts
  <2>2. thr' \in [Pid -> Threads] /\ thr'[p] = t /\ \A q \in Pid : q # p => thr'[q] = thr[q]
    BY <2>1, GotoFacts
  <2>3. {126} \in SUBSET Int
    OBVIOUS
  <2>4. CASE path \in Programs
    <3>1. Asks(path, {p}) \in Wishes
      BY <2>4, WishFacts
    <3> PICK w : w = Asks(path, {p})
      OBVIOUS
    <3>2. w \in Wishes /\ asked' = [asked EXCEPT ![p] = w] /\ declared' = declared
      BY <2>4, <3>1
    <3>3. asked' \in [Pid -> Wishes] /\ asked'[p] = w /\ \A q \in Pid : q # p => asked'[q] = asked[q]
      BY <3>2, AskedWrite
    <3>4. thr[p].pc = "guest" /\ UNCHANGED <<nextPid, image, up, rewritten>>
      BY <1>2 DEF YosExec, Guest
    <3>5. Types'
      BY <1>10, <2>2, <2>1, <3>2, <3>3, <3>4 DEF Types
    <3> QED
      BY <1>9, <2>1, <2>2, <2>4, <3>2, <3>3, <3>4, <3>5
  <2>5. CASE path \notin Programs
    BY <1>2, <1>9, <1>10, <2>1, <2>2, <2>3, <2>5, EndsFacts DEF YosExec, Types, Guest
  <2> QED
    BY <2>4, <2>5
<1> QED
  BY <1>1, <1>2

LEMMA StartFacts ==
  ASSUME Types, NEW p \in Pid, Start(p)
  PROVE  /\ Types' /\ thr[p].pc = "start"
         /\ \A q \in Pid : q # p => /\ thr'[q] = thr[q] /\ declared'[q] = declared[q]
                                    /\ asked'[q] = asked[q] /\ image'[q] = image[q]
         /\ \/ /\ thr'[p].pc = "exit" /\ thr'[p].code = 127 /\ thr'[p].next = "gone"
               /\ declared'[p] = {127}
            \/ /\ thr'[p].pc = "guest" /\ UNCHANGED <<asked, declared>>
               /\ image'[p].prog = image[p].prog /\ image'[p].snapshot = {}
         /\ UNCHANGED <<nextPid, procs, up, signals>>
<1>0. {"guest", "exit"} \subseteq Pcs /\ NoPid \in Pid \cup Execd \cup {NoPid}
  BY DEF Pcs
<1>8. image[p] \in Images
  BY DEF Types
<1>1. CASE image[p].prog \in Entryless
  <2> PICK t : t = Thread("exit", NoPid, 127, "gone")
    OBVIOUS
  <2>1. t \in Threads /\ t.pc = "exit" /\ t.code = 127 /\ t.next = "gone"
    BY <1>0, ThreadFacts
  <2>2. thr' \in [Pid -> Threads] /\ thr'[p] = t /\ \A q \in Pid : q # p => thr'[q] = thr[q]
    BY <1>1, <2>1, GotoFacts DEF Start, Exiting
  <2>3. Freed \in Images /\ {127} \in SUBSET Int
    <3>1. NoProgram \in Programs \cup {NoProgram} /\ {} \in SUBSET Pid
      OBVIOUS
    <3> QED
      BY <3>1 DEF Freed, Image, Images
  <2>4. Ends(p, 127) /\ image' = [image EXCEPT ![p] = Freed]
    BY <1>1 DEF Start
  <2>5. /\ declared' \in [Pid -> SUBSET Int] /\ declared'[p] = {127} /\ asked' \in [Pid -> Wishes]
        /\ \A q \in Pid : q # p => declared'[q] = declared[q] /\ asked'[q] = asked[q]
    BY <2>3, <2>4, EndsFacts
  <2>6. image' \in [Pid -> Images] /\ \A q \in Pid : q # p => image'[q] = image[q]
    BY <2>3, <2>4, ImageWrite
  <2> QED
    BY <2>1, <2>2, <2>5, <2>6 DEF Start, Types, table
<1>2. CASE image[p].prog \notin Entryless
  <2> PICK fits \in Fits : image' = [image EXCEPT ![p] =
          Image(@.prog, (IF fits THEN @.snapshot ELSE {}) \cup {p}, Cleared(@.snapshot))]
    BY <1>2 DEF Start, CreateWasmProcess
  <2> PICK i : i = Image(image[p].prog, (IF fits THEN image[p].snapshot ELSE {}) \cup {p}, {})
    OBVIOUS
  <2>1. image[p].prog \in Programs \cup {NoProgram} /\ image[p].snapshot \in SUBSET Pid
    BY <1>8 DEF Images
  <2>2. /\ i \in Images /\ i.prog = image[p].prog /\ i.snapshot = {}
    BY <2>1, ImageFacts
  <2>3. image' = [image EXCEPT ![p] = i]
    BY DEF Cleared
  <2>4. image' \in [Pid -> Images] /\ image'[p] = i /\ \A q \in Pid : q # p => image'[q] = image[q]
    BY <2>2, <2>3, ImageWrite
  <2> PICK t : t = At("guest")
    OBVIOUS
  <2>5. t \in Threads /\ t.pc = "guest"
    BY <1>0, AtFacts
  <2>6. thr' \in [Pid -> Threads] /\ thr'[p] = t /\ \A q \in Pid : q # p => thr'[q] = thr[q]
    BY <1>2, <2>5, GotoFacts DEF Start
  <2> QED
    BY <1>2, <2>2, <2>4, <2>5, <2>6 DEF Start, Types, table
<1> QED
  BY <1>1, <1>2

\* A snapshot that fits becomes the memory.
LEMMA StartMemory ==
  ASSUME Types, NEW p \in Pid, Start(p), Fits \subseteq {TRUE}, thr'[p].pc = "guest"
  PROVE  image'[p].memory = image[p].snapshot \cup {p}
<1>1. thr[p].pc = "start" /\ image[p].snapshot \in SUBSET Pid
  BY DEF Start, Types, Images
<1>2. image[p].prog \notin Entryless
  <2> SUFFICES ASSUME image[p].prog \in Entryless PROVE FALSE
    OBVIOUS
  <2> PICK t : t = Thread("exit", NoPid, 127, "gone")
    OBVIOUS
  <2>1. t \in Threads /\ t.pc = "exit"
    BY DEF Thread, Threads, Pcs
  <2>2. thr'[p] = t
    BY <2>1, GotoFacts DEF Start, Exiting
  <2> QED
    BY <2>1, <2>2
<1> PICK fits \in Fits : image' = [image EXCEPT ![p] =
       Image(@.prog, (IF fits THEN @.snapshot ELSE {}) \cup {p}, Cleared(@.snapshot))]
  BY <1>2 DEF Start, CreateWasmProcess
<1>3. fits = TRUE
  OBVIOUS
<1>4. image'[p] = Image(image[p].prog, image[p].snapshot \cup {p}, {})
  BY <1>3 DEF Types, Cleared
<1> QED
  BY <1>4 DEF Image

\* What runProcess does after the guest.
LEMMA RunFacts ==
  ASSUME Types, NEW p \in Pid, RunOn(p)
  PROVE  /\ Types'
         /\ \A q \in Pid : q # p => thr'[q] = thr[q] /\ image'[q] = image[q]
         /\ \/ /\ thr[p].pc \in {"returned", "trapped"} \/ (thr[p].pc = "exec" /\ thr[p].arg \notin Programs)
               /\ thr'[p].pc = "exit" /\ thr'[p].next = "gone"
               /\ thr'[p].code = IF thr[p].pc = "returned" THEN 0
                                 ELSE IF thr[p].pc = "trapped" THEN 1 ELSE 126
            \/ thr[p].pc = "left" /\ thr'[p].pc = "gone"
            \/ /\ thr[p].pc = "exec" /\ thr[p].arg \in Programs /\ thr'[p].pc = "start"
               /\ image'[p].prog = thr[p].arg /\ image'[p].snapshot = image[p].snapshot
         /\ UNCHANGED <<nextPid, procs, up, asked, declared, signals>>
<1>0. {"start", "gone", "exit"} \subseteq Pcs /\ NoPid \in Pid \cup Execd \cup {NoPid}
  BY DEF Pcs
<1>1. UNCHANGED <<nextPid, procs, up, asked, declared, signals>>
  BY DEF RunOn, table, history
<1>2. CASE RunEnded(p)
  <2>1. image' \in [Pid -> Images] /\ \A q \in Pid : q # p => image'[q] = image[q]
    BY <1>2, <1>0 DEF RunEnded, Types, Freed, Image, Images
  <2>2. CASE thr[p].pc = "left" /\ Goto(p, At("gone"))
    <3> PICK t : t = At("gone")
      OBVIOUS
    <3>1. t \in Threads /\ t.pc = "gone"
      BY <1>0, AtFacts
    <3>2. thr' \in [Pid -> Threads] /\ thr'[p] = t /\ \A q \in Pid : q # p => thr'[q] = thr[q]
      BY <2>2, <3>1, GotoFacts
    <3> QED
      BY <1>1, <2>1, <2>2, <3>1, <3>2 DEF Types
  <2>3. ASSUME NEW code \in Int, Exiting(p, code, "gone")
        PROVE  /\ thr' \in [Pid -> Threads] /\ \A q \in Pid : q # p => thr'[q] = thr[q]
               /\ thr'[p].pc = "exit" /\ thr'[p].code = code /\ thr'[p].next = "gone"
    <3> PICK t : t = Thread("exit", NoPid, code, "gone")
      OBVIOUS
    <3>1. t \in Threads /\ t.pc = "exit" /\ t.code = code /\ t.next = "gone"
      BY <1>0 DEF Thread, Threads
    <3>2. thr' \in [Pid -> Threads] /\ thr'[p] = t /\ \A q \in Pid : q # p => thr'[q] = thr[q]
      BY <2>3, <3>1, GotoFacts DEF Exiting
    <3> QED
      BY <3>1, <3>2
  <2>4. CASE thr[p].pc = "returned" /\ Exiting(p, 0, "gone")
    BY <1>1, <2>1, <2>3, <2>4 DEF Types
  <2>5. CASE thr[p].pc = "trapped" /\ Exiting(p, 1, "gone")
    BY <1>1, <2>1, <2>3, <2>5 DEF Types
  <2>6. CASE thr[p].pc = "exec" /\ thr[p].arg \notin Programs /\ Exiting(p, 126, "gone")
    BY <1>1, <2>1, <2>3, <2>6 DEF Types
  <2> QED
    BY <1>2, <2>2, <2>4, <2>5, <2>6 DEF loadWasm, RunEnded
<1>3. CASE RunExec(p)
  <2>1. thr[p].pc = "exec" /\ thr[p].arg \in Programs /\ image[p] \in Images
    BY <1>3 DEF loadWasm, RunExec, Types
  <2> PICK t : t = At("start")
    OBVIOUS
  <2>2. t \in Threads /\ t.pc = "start"
    BY <1>0, AtFacts
  <2>3. thr' \in [Pid -> Threads] /\ thr'[p] = t /\ \A q \in Pid : q # p => thr'[q] = thr[q]
    BY <1>3, <2>2, GotoFacts DEF RunExec
  <2> PICK i : i = Image(thr[p].arg, {}, image[p].snapshot)
    OBVIOUS
  <2>4. i \in Images /\ i.prog = thr[p].arg /\ i.snapshot = image[p].snapshot
    BY <2>1 DEF Image, Images
  <2>5. image' = [image EXCEPT ![p] = i]
    BY <1>3 DEF RunExec
  <2>6. image' \in [Pid -> Images] /\ image'[p] = i /\ \A q \in Pid : q # p => image'[q] = image[q]
    BY <2>4, <2>5, ImageWrite
  <2> QED
    BY <1>1, <2>1, <2>2, <2>3, <2>4, <2>6 DEF Types
<1> QED
  BY <1>2, <1>3 DEF RunOn

LEMMA WaitFacts ==
  ASSUME Types, NEW p \in Pid, YosWait(p) \/ Waitpid(p) \/ WaitAny(p)
  PROVE  /\ Types' /\ thr[p].pc = "guest" /\ thr'[p].pc = "wait" /\ thr'[p].arg \in Pid
         /\ \A q \in Pid : q # p => thr'[q] = thr[q]
         /\ UNCHANGED <<nextPid, procs, image, up, history>>
<1> PICK c \in Pid, how \in {"yos_wait", "waitpid"} : Goto(p, Thread("wait", c, 0, how))
  BY DEF YosWait, Waitpid, WaitFor, WaitAny
<1> PICK t : t = Thread("wait", c, 0, how)
  OBVIOUS
<1>1. t \in Threads /\ t.pc = "wait" /\ t.arg = c
  BY DEF Thread, Threads, Pcs
<1>2. thr' \in [Pid -> Threads] /\ thr'[p] = t /\ \A q \in Pid : q # p => thr'[q] = thr[q]
  BY <1>1, GotoFacts
<1> QED
  BY <1>1, <1>2 DEF YosWait, Waitpid, WaitFor, WaitAny, Types, table, history, Guest

LEMMA WaitReturnsFacts ==
  ASSUME Types, Targets, NEW p \in Pid, WaitReturns(p)
  PROVE  /\ Types' /\ thr[p].pc = "wait" /\ thr'[p].pc = "answered"
         /\ thr'[p].arg = thr[p].arg /\ thr[p].arg \in Pid /\ HasExited(thr[p].arg)
         /\ thr'[p].code = Told(thr'[p].next, procs[thr[p].arg].exitCode)
         /\ \A q \in Pid : q # p => thr'[q] = thr[q]
         /\ UNCHANGED <<nextPid, procs, image, up, history>>
<1> PICK c : c = thr[p].arg
  OBVIOUS
<1>0. thr[p].pc = "wait" /\ c \in Pid /\ HasExited(c)
  BY DEF WaitReturns, Targets
<1> PICK how \in {"none", "gone", "left", "trapped", "yos_wait", "waitpid"} :
      how = thr[p].next
  BY DEF Types, Threads
<1>g. Goto(p, Thread("answered", c, Told(how, procs[c].exitCode), how))
  BY DEF WaitReturns
<1> PICK code : code = Told(how, procs[c].exitCode)
  OBVIOUS
<1>1. code \in Int
  <2>1. procs[c].exitCode \in Int
    BY <1>0 DEF Types, Procs
  <2> QED
    BY <2>1 DEF Told, ECHILD
<1> PICK t : t = Thread("answered", c, code, how)
  OBVIOUS
<1>2. t \in Threads /\ t.pc = "answered" /\ t.arg = c /\ t.code = code /\ t.next = how
  BY <1>0, <1>1 DEF Thread, Threads, Pcs
<1>3. thr' \in [Pid -> Threads] /\ thr'[p] = t /\ \A q \in Pid : q # p => thr'[q] = thr[q]
  BY <1>g, <1>2, GotoFacts
<1>4. UNCHANGED <<nextPid, procs, image, up, asked, declared, signals>>
  BY DEF WaitReturns, table, history
<1>5. Types'
  BY <1>3, <1>4 DEF Types
<1> QED
  BY <1>0, <1>2, <1>3, <1>4, <1>5 DEF history

LEMMA GoesOnFacts ==
  ASSUME Types, NEW p \in Pid, GoesOn(p)
  PROVE  /\ Types' /\ thr[p].pc = "answered" /\ thr'[p].pc = "guest"
         /\ \A q \in Pid : q # p => thr'[q] = thr[q]
         /\ UNCHANGED <<nextPid, procs, image, up, history>>
<1> PICK t : t = At("guest")
  OBVIOUS
<1>1. t \in Threads /\ t.pc = "guest"
  BY AtFacts DEF Pcs
<1>2. thr' \in [Pid -> Threads] /\ thr'[p] = t /\ \A q \in Pid : q # p => thr'[q] = thr[q]
  BY <1>1, GotoFacts DEF GoesOn
<1> QED
  BY <1>1, <1>2 DEF GoesOn, Types, table, history

LEMMA MainFacts ==
  ASSUME Types, MainReturns
  PROVE  /\ Types' /\ nextPid' = nextPid
         /\ \A p \in Pid : /\ thr'[p].pc = "none" /\ declared'[p] = {}
                           /\ procs'[p].vforkParentPid = NoPid /\ ~procs'[p].vforkChildDone
                           /\ ~procs'[p].exited
<1> PICK r : r = NoProc
  OBVIOUS
<1>1. r \in Procs /\ r.vforkParentPid = NoPid /\ ~r.vforkChildDone /\ ~r.exited
  BY DEF NoProc, Proc, Procs
<1> PICK t : t = At("none")
  OBVIOUS
<1>2. t \in Threads /\ t.pc = "none"
  BY AtFacts DEF Pcs
<1>3. Freed \in Images /\ Asks(NoProgram, {}) \in Wishes
  BY DEF Freed, Image, Images, Asks, Wishes
<1>4. /\ procs' = [p \in Pid |-> r] /\ thr' = [p \in Pid |-> t] /\ image' = [p \in Pid |-> Freed]
      /\ asked' = [p \in Pid |-> Asks(NoProgram, {})] /\ declared' = [p \in Pid |-> {}]
      /\ awaited' = [p \in Pid |-> NoPid] /\ disturbed' = {} /\ nextPid' = nextPid
  BY DEF MainReturns
<1> QED
  BY <1>1, <1>2, <1>3, <1>4 DEF Types

-----------------------------------------------------------------------------

LEMMA InUse ==
  ASSUME Types, Targets, NEW p \in Pid, thr[p].pc # "none"
  PROVE  ~(p >= nextPid)
BY DEF Targets

\* A step of a process in use, that changes no other's thread.
LEMMA TargetsKept ==
  ASSUME Types, Targets, NEW p \in Pid, thr[p].pc # "none", nextPid' = nextPid,
         \A q \in Pid : q # p => thr'[q] = thr[q],
         \A q \in Pid : q # p => procs'[q].exited = procs[q].exited,
         thr'[p].pc \in {"wait", "answered", "vfork"} => thr'[p].arg \in Pid,
         thr'[p].pc \in {"exit", "exited"} => thr'[p].next \in {"gone", "left", "trapped"}
  PROVE  Targets'
<1>1. ~(p >= nextPid)
  BY InUse
<1> QED
  BY <1>1 DEF Targets

\* Every step keeps the types.
LEMMA TypesKept ==
  ASSUME Types, Targets, [Next]_vars
  PROVE  Types' /\ Targets'
<1>1. ASSUME NEW p \in Pid, ExitState(p) PROVE Types' /\ Targets'
  BY <1>1, ExitStateFacts DEF Targets
<1>2. ASSUME NEW p \in Pid, ExitDone(p) PROVE Types' /\ Targets'
  <2>1. thr[p].next \in {"gone", "left", "trapped"}
    BY <1>2 DEF ExitDone, Targets
  <2> QED
    BY <1>2, <2>1, ExitDoneFacts, TargetsKept
<1>3. ASSUME NEW p \in Pid, VforkReturns(p) PROVE Types' /\ Targets'
  BY <1>3, VforkReturnsFacts DEF Targets
<1>4. ASSUME NEW p \in Pid, Fork(p) \/ Vfork(p) \/ Spawn(p) PROVE Types' /\ Targets'
  <2> PICK kind \in {"fork", "vfork", "spawn"}, prog \in Programs :
         NewChild(p, kind, prog) /\ asked' \in [Pid -> Wishes] /\ Guest(p)
    BY <1>4, AskedKept
  <2> PICK c : c = nextPid
    OBVIOUS
  <2>1. /\ c \in Pid /\ nextPid' = c + 1 /\ c # p
        /\ procs' \in [Pid -> Procs] /\ thr' \in [Pid -> Threads] /\ image' \in [Pid -> Images]
        /\ \A q \in Pid : q # c => procs'[q] = procs[q]
        /\ \A q \in Pid : q # c /\ q # p => thr'[q] = thr[q]
        /\ thr'[c].pc = "start"
        /\ IF kind = "vfork" THEN thr'[p].pc = "vfork" /\ thr'[p].arg = c ELSE thr'[p] = thr[p]
        /\ UNCHANGED <<up, declared, disturbed, rewritten>>
         /\ awaited' = IF kind = "vfork" THEN [awaited EXCEPT ![p] = nextPid] ELSE awaited
    BY NewChildFacts
  <2>2. Types'
    BY <2>1 DEF Types
  <2>3. p < c /\ c \in Nat
    BY DEF Guest, Targets, Types, Pid
  <2>6. \A q \in Pid : q >= nextPid' => ~procs'[q].exited /\ thr'[q].pc = "none"
    <3> SUFFICES ASSUME NEW q \in Pid, q >= nextPid' PROVE ~procs'[q].exited /\ thr'[q].pc = "none"
      OBVIOUS
    <3>1. q >= nextPid /\ q # c /\ q # p
      BY <2>1, <2>3 DEF Pid
    <3>2. ~procs[q].exited /\ thr[q].pc = "none"
      BY <3>1 DEF Targets
    <3> QED
      BY <2>1, <3>1, <3>2
  <2>7. \A q \in Pid : thr'[q].pc \in {"wait", "answered", "vfork"} => thr'[q].arg \in Pid
    BY <2>1 DEF Targets
  <2>8. \A q \in Pid : thr'[q].pc \in {"exit", "exited"} => thr'[q].next \in {"gone", "left", "trapped"}
    BY <2>1 DEF Targets
  <2>4. Targets'
    BY <2>6, <2>7, <2>8 DEF Targets
  <2> QED
    BY <2>2, <2>4
<1>5. ASSUME NEW p \in Pid, Return(p) \/ Trap(p) \/ Exit(p) PROVE Types' /\ Targets'
  BY <1>5, EndFacts DEF Targets
<1>6. ASSUME NEW p \in Pid, YosExit(p) \/ YosExec(p) PROVE Types' /\ Targets'
  <2>1. Types' /\ WakeVforkParent(p) /\ thr[p].pc = "guest" /\ nextPid' = nextPid
    BY <1>6, YosFacts
  <2>2. /\ \A q \in Pid : q # p => thr'[q] = thr[q]
        /\ thr'[p].pc \in {"exit", "exec"} /\ (thr'[p].pc = "exit" => thr'[p].next = "trapped")
    BY <1>6, YosFacts
  <2>3. \A q \in Pid : procs'[q].exited = procs[q].exited
    BY <2>1, WakeFacts
  <2> QED
    BY <2>1, <2>2, <2>3 DEF Targets
<1>7. ASSUME NEW p \in Pid, Start(p) PROVE Types' /\ Targets'
  BY <1>7, StartFacts, TargetsKept
<1>8. ASSUME NEW p \in Pid, RunOn(p) PROVE Types' /\ Targets'
  BY <1>8, RunFacts DEF Targets
<1>9. ASSUME NEW p \in Pid, YosWait(p) \/ Waitpid(p) \/ WaitAny(p) PROVE Types' /\ Targets'
  BY <1>9, WaitFacts DEF Targets
<1>10. ASSUME NEW p \in Pid, WaitReturns(p) PROVE Types' /\ Targets'
  BY <1>10, WaitReturnsFacts DEF Targets
<1>11. ASSUME NEW p \in Pid, GoesOn(p) PROVE Types' /\ Targets'
  BY <1>11, GoesOnFacts DEF Targets
<1>12. CASE MainReturns
  BY <1>12, MainFacts DEF Targets
<1>13. CASE UNCHANGED vars
  BY <1>13 DEF vars, table, history, Types, Targets
<1> QED
  BY <1>1, <1>2, <1>3, <1>4, <1>5, <1>6, <1>7, <1>8, <1>9, <1>10, <1>11, <1>12, <1>13
  DEF Next, Calls, Internal

\* Every variable stays within its type; a thread that waits does so for a
\* process, and the pids not yet given have never run or exited.
THEOREM TypesHold == Spec => [](Types /\ Targets)
<1>1. Init => Types /\ Targets
  BY InitTypes
<1>2. Types /\ Targets /\ [Next]_vars => (Types /\ Targets)'
  BY TypesKept
<1> QED
  BY <1>1, <1>2, PTL DEF Spec

-----------------------------------------------------------------------------
(* A vfork child runs alone *)

\* While nobody has signalled twice to a process, its flag is set only while
\* it waits in vfork, and not before the child it waits for has signalled.
VforkInv ==
  \A q \in Pid : q \notin disturbed =>
    /\ awaited[q] # NoPid => thr[q].pc = "vfork" /\ ~procs[q].vforkChildDone
    /\ procs[q].vforkChildDone => thr[q].pc = "vfork"

\* A step of a thread that is not in vfork, and stays out of it.
LEMMA VforkFrame ==
  ASSUME Types, VforkInv, NEW p \in Pid, thr[p].pc # "vfork",
         awaited' = awaited, disturbed' = disturbed,
         \A q \in Pid : q # p => thr'[q] = thr[q],
         \A q \in Pid : procs'[q].vforkChildDone = procs[q].vforkChildDone
  PROVE  VforkInv'
BY DEF VforkInv

LEMMA VforkInvKept ==
  ASSUME Types, Targets, VforkInv, [Next]_vars
  PROVE  VforkInv'
<1>1. ASSUME NEW p \in Pid, ExitState(p) PROVE VforkInv'
  BY <1>1, ExitStateFacts, VforkFrame DEF history
<1>2. ASSUME NEW p \in Pid, ExitDone(p) PROVE VforkInv'
  BY <1>2, ExitDoneFacts, VforkFrame DEF history
<1>3. ASSUME NEW p \in Pid, VforkReturns(p) PROVE VforkInv'
  \* The flag is set, so the child the parent waits for has signalled.
  <2>1. /\ procs[p].vforkChildDone /\ ~procs'[p].vforkChildDone
        /\ \A q \in Pid : q # p => thr'[q] = thr[q] /\ procs'[q] = procs[q]
        /\ awaited' = awaited /\ disturbed' = disturbed
    BY <1>3, VforkReturnsFacts DEF history
  <2>2. p \notin disturbed => awaited[p] = NoPid
    BY <2>1 DEF VforkInv
  <2> QED
    BY <2>1, <2>2 DEF VforkInv
<1>4. ASSUME NEW p \in Pid, Fork(p) \/ Vfork(p) \/ Spawn(p) PROVE VforkInv'
  <2> PICK kind \in {"fork", "vfork", "spawn"}, prog \in Programs : NewChild(p, kind, prog) /\ Guest(p)
    BY <1>4, AskedKept
  <2> PICK c : c = nextPid
    OBVIOUS
  <2>1. /\ c \in Pid /\ c # p
        /\ \A q \in Pid : q # c => procs'[q] = procs[q]
        /\ \A q \in Pid : q # c /\ q # p => thr'[q] = thr[q]
        /\ ~procs'[c].vforkChildDone
        /\ IF kind = "vfork" THEN thr'[p].pc = "vfork" ELSE thr'[p] = thr[p]
        /\ awaited' = IF kind = "vfork" THEN [awaited EXCEPT ![p] = c] ELSE awaited
        /\ disturbed' = disturbed
    BY NewChildFacts
  <2>2. thr[p].pc = "guest" /\ thr[c].pc = "none"
    BY <2>1 DEF Guest, Targets, Types
  <2>3. \A q \in Pid : q # p => awaited'[q] = awaited[q]
    BY <2>1 DEF Types
  <2>4. p \notin disturbed => ~procs[p].vforkChildDone /\ awaited[p] = NoPid
    BY <2>2 DEF VforkInv
  <2>5. c \notin disturbed => awaited'[c] = NoPid
    BY <2>1, <2>2, <2>3 DEF VforkInv
  <2>6. ASSUME NEW q \in Pid, q \notin disturbed
        PROVE  /\ awaited'[q] # NoPid => thr'[q].pc = "vfork" /\ ~procs'[q].vforkChildDone
               /\ procs'[q].vforkChildDone => thr'[q].pc = "vfork"
    <3>1. CASE q = p
      BY <2>1, <2>4, <2>6, <3>1
    <3>2. CASE q = c
      BY <2>1, <2>5, <2>6, <3>2
    <3>3. CASE q # p /\ q # c
      BY <2>1, <2>3, <2>6, <3>3 DEF VforkInv
    <3> QED
      BY <3>1, <3>2, <3>3
  <2> QED
    BY <2>1, <2>6 DEF VforkInv
<1>5. ASSUME NEW p \in Pid, Return(p) \/ Trap(p) \/ Exit(p) PROVE VforkInv'
  BY <1>5, EndFacts, VforkFrame
<1>6. ASSUME NEW p \in Pid, YosExit(p) \/ YosExec(p) PROVE VforkInv'
  <2>1. /\ thr[p].pc = "guest" /\ \A q \in Pid : q # p => thr'[q] = thr[q]
        /\ Signals(p) /\ WakeVforkParent(p)
    BY <1>6, YosFacts
  <2> PICK v \in Pid \cup {NoPid} : v = procs[p].vforkParentPid
    BY DEF Types, Procs
  <2>2. \A q \in Pid : procs'[q].vforkChildDone = (procs[q].vforkChildDone \/ q = v)
    BY <2>1, WakeFacts
  <2>3. p \notin disturbed => awaited[p] = NoPid /\ ~procs[p].vforkChildDone
    BY <2>1 DEF VforkInv
  <2>4. \A q \in Pid : q # v => /\ awaited'[q] \in {awaited[q], NoPid}
                                /\ q \in disturbed' <=> q \in disturbed
    BY <2>1 DEF Signals
  <2>5. v \in Pid /\ v \notin disturbed' =>
          v \notin disturbed /\ awaited[v] = p /\ awaited'[v] = NoPid
    BY <2>1 DEF Signals, Types, Pid
  <2>6. ASSUME NEW q \in Pid, q \notin disturbed'
        PROVE  /\ awaited'[q] # NoPid => thr'[q].pc = "vfork" /\ ~procs'[q].vforkChildDone
               /\ procs'[q].vforkChildDone => thr'[q].pc = "vfork"
    <3>1. CASE q = v
      <4>1. q \notin disturbed /\ awaited[q] # NoPid /\ awaited'[q] = NoPid
        BY <2>5, <2>6, <3>1 DEF Pid
      <4>2. thr[q].pc = "vfork" /\ q # p
        BY <2>1, <4>1 DEF VforkInv
      <4> QED
        BY <2>1, <4>1, <4>2
    <3>2. CASE q # v
      <4>1. q \notin disturbed /\ awaited'[q] \in {awaited[q], NoPid}
        BY <2>4, <2>6, <3>2
      <4>2. procs[q].vforkChildDone \in BOOLEAN /\ procs'[q].vforkChildDone = procs[q].vforkChildDone
        BY <2>2, <3>2 DEF Types, Procs
      <4>3. q # p => thr'[q] = thr[q]
        BY <2>1
      <4> QED
        BY <2>3, <4>1, <4>2, <4>3 DEF VforkInv
    <3> QED
      BY <3>1, <3>2
  <2> QED
    BY <2>6 DEF VforkInv
<1>7. ASSUME NEW p \in Pid, Start(p) PROVE VforkInv'
  BY <1>7, StartFacts, VforkFrame
<1>8. ASSUME NEW p \in Pid, RunOn(p) PROVE VforkInv'
  BY <1>8, RunFacts, VforkFrame
<1>9. ASSUME NEW p \in Pid, YosWait(p) \/ Waitpid(p) \/ WaitAny(p) PROVE VforkInv'
  BY <1>9, WaitFacts, VforkFrame DEF history
<1>10. ASSUME NEW p \in Pid, WaitReturns(p) PROVE VforkInv'
  BY <1>10, WaitReturnsFacts, VforkFrame DEF history
<1>11. ASSUME NEW p \in Pid, GoesOn(p) PROVE VforkInv'
  BY <1>11, GoesOnFacts, VforkFrame DEF history
<1>12. CASE MainReturns
  <2>1. \A p \in Pid : awaited'[p] = NoPid
    BY <1>12 DEF MainReturns
  <2> QED
    BY <1>12, <2>1, MainFacts DEF VforkInv
<1>13. CASE UNCHANGED vars
  BY <1>13 DEF vars, table, history, VforkInv
<1> QED
  BY <1>1, <1>2, <1>3, <1>4, <1>5, <1>6, <1>7, <1>8, <1>9, <1>10, <1>11, <1>12, <1>13
  DEF Next, Calls, Internal

\* A vfork child that has called neither yos_exec nor yos_exit runs while its
\* parent waits in vfork, unless an earlier vfork child of that parent has
\* called them a second time.
THEOREM VforkSafe == Spec => []VforkHolds
<1>1. Init => VforkInv
  <2> PICK r : r = Proc(0, "Running")
    OBVIOUS
  <2> PICK n : n = NoProc
    OBVIOUS
  <2>1. ~r.vforkChildDone /\ ~n.vforkChildDone
    BY DEF Proc, NoProc
  <2>2. Init => procs = [p \in Pid |-> IF p = 1 THEN r ELSE n] /\ awaited = [p \in Pid |-> NoPid]
    BY DEF Init
  <2> QED
    BY <2>1, <2>2 DEF VforkInv
<1>2. Types /\ Targets /\ VforkInv /\ [Next]_vars => VforkInv'
  BY VforkInvKept
<1>3. VforkInv => VforkHolds
  BY DEF VforkInv, VforkHolds
<1> QED
  BY <1>1, <1>2, <1>3, TypesHold, PTL DEF Spec

-----------------------------------------------------------------------------
(* Every process runs what it was made for *)

\* What a thread is about to load, or runs, is what was asked for; and a
\* snapshot is kept only until the first program has started.
ImageInv ==
  \A p \in Pid :
    /\ thr[p].pc \in {"guest", "wait", "answered", "vfork"} =>
         Asks(image[p].prog, image[p].memory) = asked[p] /\ image[p].snapshot = {}
    /\ thr[p].pc = "start" => asked[p] = Asks(image[p].prog, image[p].snapshot \cup {p})
    /\ (thr[p].pc = "exec" /\ thr[p].arg \in Programs) =>
         asked[p] = Asks(thr[p].arg, {p}) /\ image[p].snapshot = {}

Running == {"guest", "wait", "answered", "vfork"}

\* A thread that stays at work, or leaves it for good.
LEMMA ImageFrame ==
  ASSUME Types, ImageInv, NEW p \in Pid, 
         \A q \in Pid : q # p => thr'[q] = thr[q] /\ asked'[q] = asked[q] /\ image'[q] = image[q],
         \/ thr'[p].pc \notin Running \cup {"start", "exec"}
         \/ thr'[p].pc \in Running /\ thr[p].pc \in Running /\ asked'[p] = asked[p] /\ image'[p] = image[p]
  PROVE  ImageInv'
BY DEF ImageInv, Running

\* A thread that reaches a program to load, or starts it.
LEMMA ImageMoved ==
  ASSUME ImageInv, NEW p \in Pid,
         \A q \in Pid : q # p => thr'[q] = thr[q] /\ asked'[q] = asked[q] /\ image'[q] = image[q],
         \/ thr'[p].pc = "guest" /\ asked'[p] = Asks(image'[p].prog, image'[p].memory)
              /\ image'[p].snapshot = {}
         \/ thr'[p].pc = "start" /\ asked'[p] = Asks(image'[p].prog, image'[p].snapshot \cup {p})
         \/ thr'[p].pc = "exec" /\ (thr'[p].arg \in Programs =>
                asked'[p] = Asks(thr'[p].arg, {p}) /\ image'[p].snapshot = {})
  PROVE  ImageInv'
BY DEF ImageInv

LEMMA ImageInvKept ==
  ASSUME Types, Targets, ImageInv, ~ExecdForks, Fits \subseteq {TRUE}, [Next]_vars
  PROVE  ImageInv'
<1>1. ASSUME NEW p \in Pid, ExitState(p) PROVE ImageInv'
  BY <1>1, ExitStateFacts, ImageFrame DEF history, Running
<1>2. ASSUME NEW p \in Pid, ExitDone(p) PROVE ImageInv'
  <2>1. thr'[p].pc \in {"gone", "left", "trapped"}
    BY <1>2, ExitDoneFacts DEF Targets
  <2> QED
    BY <1>2, <2>1, ExitDoneFacts, ImageFrame DEF history, Running
<1>3. ASSUME NEW p \in Pid, VforkReturns(p) PROVE ImageInv'
  BY <1>3, VforkReturnsFacts, ImageFrame DEF history, Running
<1>4. ASSUME NEW p \in Pid, Fork(p) \/ Vfork(p) \/ Spawn(p) PROVE ImageInv'
  <2> PICK c : c = nextPid
    OBVIOUS
  <2> PICK kind \in {"fork", "vfork", "spawn"}, prog \in Programs :
          /\ NewChild(p, kind, prog) /\ Guest(p)
          /\ \A q \in Pid : q # c => asked'[q] = asked[q]
          /\ kind = "fork" => prog = Main /\ image[p].prog = Main
                              /\ asked'[c] = Asks(image[p].prog, image[p].memory \cup {c})
          /\ kind = "vfork" => prog = Main /\ image[p].prog = Main /\ asked'[c] = Asks(image[p].prog, {c})
          /\ kind = "spawn" => asked'[c] = Asks(prog, {c})
    BY <1>4, AskedKept
  <2>1. /\ c \in Pid /\ c # p
        /\ \A q \in Pid : q # c => image'[q] = image[q]
        /\ \A q \in Pid : q # c /\ q # p => thr'[q] = thr[q]
        /\ thr'[c].pc = "start"
        /\ IF kind = "vfork" THEN thr'[p].pc = "vfork" /\ thr'[p].arg = c ELSE thr'[p] = thr[p]
        /\ image'[c].prog = prog
        /\ image'[c].snapshot = (IF kind = "fork" THEN image[p].memory ELSE {})
    BY NewChildFacts
  <2>2. thr[p].pc = "guest"
    BY DEF Guest
  <2>3. asked'[c] = Asks(image'[c].prog, image'[c].snapshot \cup {c})
    BY <2>1
  <2> SUFFICES ASSUME NEW q \in Pid
               PROVE  /\ thr'[q].pc \in {"guest", "wait", "answered", "vfork"} =>
                           Asks(image'[q].prog, image'[q].memory) = asked'[q] /\ image'[q].snapshot = {}
                      /\ thr'[q].pc = "start" => asked'[q] = Asks(image'[q].prog, image'[q].snapshot \cup {q})
                      /\ (thr'[q].pc = "exec" /\ thr'[q].arg \in Programs) =>
                           asked'[q] = Asks(thr'[q].arg, {q}) /\ image'[q].snapshot = {}
    BY DEF ImageInv
  <2>4. CASE q = c
    BY <2>1, <2>3, <2>4
  <2>5. CASE q # c
    <3>1. image'[q] = image[q] /\ asked'[q] = asked[q] /\ (thr'[q] = thr[q] \/ (q = p /\ thr'[q].pc = "vfork"))
      BY <2>1, <2>5
    <3> QED
      BY <2>2, <3>1 DEF ImageInv
  <2> QED
    BY <2>4, <2>5
<1>5. ASSUME NEW p \in Pid, Return(p) \/ Trap(p) \/ Exit(p) PROVE ImageInv'
  BY <1>5, EndFacts, ImageFrame DEF Running
<1>6. ASSUME NEW p \in Pid, YosExit(p) \/ YosExec(p) PROVE ImageInv'
  <2>1. /\ \A q \in Pid : q # p => thr'[q] = thr[q] /\ asked'[q] = asked[q] /\ image'[q] = image[q]
        /\ image'[p].snapshot = image[p].snapshot /\ thr[p].pc = "guest"
        /\ \/ thr'[p].pc = "exit"
           \/ thr'[p].pc = "exec" /\ (thr'[p].arg \in Programs => asked'[p] = Asks(thr'[p].arg, {p}))
    BY <1>6, YosFacts
  <2>2. image[p].snapshot = {}
    BY <2>1 DEF ImageInv
  <2> QED
    BY <2>1, <2>2, ImageFrame, ImageMoved DEF Running
<1>7. ASSUME NEW p \in Pid, Start(p) PROVE ImageInv'
  <2>1. /\ thr[p].pc = "start"
        /\ \A q \in Pid : q # p => thr'[q] = thr[q] /\ asked'[q] = asked[q] /\ image'[q] = image[q]
        /\ \/ thr'[p].pc = "exit"
           \/ /\ thr'[p].pc = "guest" /\ asked'[p] = asked[p]
              /\ image'[p].prog = image[p].prog /\ image'[p].snapshot = {}
    BY <1>7, StartFacts
  <2>3. thr'[p].pc = "guest" => image'[p].memory = image[p].snapshot \cup {p}
    BY <1>7, StartMemory
  <2>2. asked[p] = Asks(image[p].prog, image[p].snapshot \cup {p})
    BY <2>1 DEF ImageInv
  <2> QED
    BY <2>1, <2>2, <2>3, ImageFrame, ImageMoved DEF Running
<1>8. ASSUME NEW p \in Pid, RunOn(p) PROVE ImageInv'
  <2>1. /\ \A q \in Pid : q # p => thr'[q] = thr[q] /\ asked'[q] = asked[q] /\ image'[q] = image[q]
        /\ asked'[p] = asked[p]
        /\ \/ thr'[p].pc \in {"exit", "gone"}
           \/ /\ thr[p].pc = "exec" /\ thr[p].arg \in Programs /\ thr'[p].pc = "start"
              /\ image'[p].prog = thr[p].arg /\ image'[p].snapshot = image[p].snapshot
    BY <1>8, RunFacts
  <2>2. CASE thr'[p].pc \in {"exit", "gone"}
    BY <2>1, <2>2, ImageFrame DEF Running
  <2>3. CASE thr'[p].pc \notin {"exit", "gone"}
    <3>1. asked[p] = Asks(thr[p].arg, {p}) /\ image[p].snapshot = {}
      BY <2>1, <2>3 DEF ImageInv
    <3>2. image'[p].snapshot \cup {p} = {p}
      BY <2>1, <2>3, <3>1
    <3> QED
      BY <2>1, <2>3, <3>1, <3>2, ImageMoved
  <2> QED
    BY <2>2, <2>3
<1>9. ASSUME NEW p \in Pid, YosWait(p) \/ Waitpid(p) \/ WaitAny(p) PROVE ImageInv'
  BY <1>9, WaitFacts, ImageFrame DEF history, Running
<1>10. ASSUME NEW p \in Pid, WaitReturns(p) PROVE ImageInv'
  BY <1>10, WaitReturnsFacts, ImageFrame DEF history, Running
<1>11. ASSUME NEW p \in Pid, GoesOn(p) PROVE ImageInv'
  BY <1>11, GoesOnFacts, ImageFrame DEF history, Running
<1>12. CASE MainReturns
  BY <1>12, MainFacts DEF ImageInv
<1>13. CASE UNCHANGED vars
  BY <1>13 DEF vars, table, history, ImageInv
<1> QED
  BY <1>1, <1>2, <1>3, <1>4, <1>5, <1>6, <1>7, <1>8, <1>9, <1>10, <1>11, <1>12, <1>13
  DEF Next, Calls, Internal

\* If only the first program forks and snapshots fit, every process runs the
\* program and the memory it was made for.
THEOREM ImageSafe == ASSUME ~ExecdForks, Fits \subseteq {TRUE} PROVE Spec => []ImageRight
<1>1. Init => ImageInv
  <2> SUFFICES ASSUME Init PROVE ImageInv
    OBVIOUS
  <2>1. \A p \in Pid : thr[p].pc = IF p = 1 THEN "start" ELSE "none"
    BY AtFacts DEF Init, Pcs
  <2>2. 1 \in Pid => image[1] = Image(Main, {}, {}) /\ asked[1] = Asks(Main, {1})
    BY DEF Init
  <2>3. Image(Main, {}, {}).prog = Main /\ Image(Main, {}, {}).snapshot = {}
    BY DEF Image
  <2>4. {} \cup {1} = {1}
    OBVIOUS
  <2>5. 1 \in Pid => asked[1] = Asks(image[1].prog, image[1].snapshot \cup {1})
    BY <2>2, <2>3, <2>4
  <2> QED
    BY <2>1, <2>5 DEF ImageInv
<1>2. Types /\ Targets /\ ImageInv /\ [Next]_vars => ImageInv'
  BY ImageInvKept
<1>3. ImageInv => ImageRight
  BY DEF ImageInv, ImageRight
<1> QED
  BY <1>1, <1>2, <1>3, TypesHold, PTL DEF Spec

-----------------------------------------------------------------------------
(* Waits tell the truth *)

\* The part of CodesInv about one process; twice says that it has called
\* yos_exit.  Without that, a thread on its way out holds the code that is
\* declared, and so does a process whose flag is set, which runs no guest.
CodesOf(t, proc, codes, twice) ==
  /\ codes \in SUBSET Nat
  /\ proc.exited => t.pc \in {"exit", "exited", "trapped", "left", "gone"}
  /\ ~twice =>
       /\ t.pc \in {"exit", "exited"} => t.code \in codes /\ t.next # "trapped"
       /\ t.pc = "returned" => 0 \in codes
       /\ t.pc = "trapped" => 1 \in codes
       /\ (t.pc = "exec" /\ t.arg \notin Programs) => 126 \in codes
       /\ proc.exited => proc.exitCode \in codes

CodesInv == \A p \in Pid : CodesOf(thr[p], procs[p], declared[p], p \in rewritten)

\* What a thread has been told is true of a process that has exited, and
\* stays true.
AnswersInv ==
  \A p \in Pid : thr[p].pc = "answered" =>
    /\ procs[thr[p].arg].exited
    /\ thr[p].arg \notin rewritten =>
         \E code \in declared[thr[p].arg] :
           thr[p].code = IF thr[p].next = "yos_wait" THEN code ELSE code % 256

\* A step of one process keeps the codes of the others.
LEMMA CodesFrame ==
  ASSUME CodesInv, NEW p \in Pid,
         \A q \in Pid : q # p => thr'[q] = thr[q] /\ declared'[q] = declared[q],
         \A q \in Pid : q # p => procs'[q].exited = procs[q].exited /\ procs'[q].exitCode = procs[q].exitCode,
         \A q \in Pid : q # p => (q \in rewritten' <=> q \in rewritten),
         CodesOf(thr'[p], procs'[p], declared'[p], p \in rewritten')
  PROVE  CodesInv'
<1>1. \A q \in Pid : q # p => CodesOf(thr'[q], procs'[q], declared'[q], q \in rewritten')
  BY DEF CodesInv, CodesOf
<1> QED
  BY <1>1 DEF CodesInv

\* A step keeps the answers if exited processes stay what they are.
LEMMA AnswersFrame ==
  ASSUME Types, Targets, AnswersInv, NEW p \in Pid, thr'[p].pc # "answered",
         \A q \in Pid : q # p => thr'[q].pc # "answered" \/ thr'[q] = thr[q],
         \A c \in Pid : procs[c].exited =>
           procs'[c].exited /\ declared'[c] = declared[c] /\ (c \in rewritten' <=> c \in rewritten)
  PROVE  AnswersInv'
<1> SUFFICES ASSUME NEW q \in Pid, thr'[q].pc = "answered"
             PROVE  /\ procs'[thr'[q].arg].exited
                    /\ thr'[q].arg \notin rewritten' =>
                         \E code \in declared'[thr'[q].arg] :
                           thr'[q].code = IF thr'[q].next = "yos_wait" THEN code ELSE code % 256
  BY DEF AnswersInv
<1>1. q # p /\ thr'[q] = thr[q]
  OBVIOUS
<1>2. thr[q].arg \in Pid /\ procs[thr[q].arg].exited
  BY <1>1 DEF Targets, AnswersInv
<1>3. thr[q].arg \notin rewritten =>
        \E code \in declared[thr[q].arg] :
          thr[q].code = IF thr[q].next = "yos_wait" THEN code ELSE code % 256
  BY <1>1 DEF AnswersInv
<1> QED
  BY <1>1, <1>2, <1>3

StatusInv == CodesInv /\ AnswersInv

LEMMA StatusInvKept ==
  ASSUME Types, Targets, StatusInv, Codes \subseteq Nat, [Next]_vars
  PROVE  StatusInv'
<1> USE DEF StatusInv
<1>0. \A q \in Pid : CodesOf(thr[q], procs[q], declared[q], q \in rewritten)
  BY DEF CodesInv
<1>1. ASSUME NEW p \in Pid, ExitState(p) PROVE StatusInv'
  <2>1. CodesOf(thr'[p], procs'[p], declared'[p], p \in rewritten')
    BY <1>0, <1>1, ExitStateFacts DEF CodesOf, history
  <2> QED
    BY <1>1, <2>1, ExitStateFacts, CodesFrame, AnswersFrame DEF history
<1>2. ASSUME NEW p \in Pid, ExitDone(p) PROVE StatusInv'
  <2>1. /\ thr'[p].pc \in {"gone", "left", "trapped"} /\ thr'[p].pc = thr[p].next
        /\ thr[p].pc = "exited" /\ procs'[p].exited /\ procs'[p].exitCode = thr[p].code
        /\ declared' = declared /\ rewritten' = rewritten
        /\ \A q \in Pid : q # p => thr'[q] = thr[q] /\ procs'[q] = procs[q]
    BY <1>2, ExitDoneFacts DEF Targets, history
  <2>2. CodesOf(thr'[p], procs'[p], declared'[p], p \in rewritten')
    BY <1>0, <2>1 DEF CodesOf
  <2> QED
    BY <2>1, <2>2, CodesFrame, AnswersFrame
<1>3. ASSUME NEW p \in Pid, VforkReturns(p) PROVE StatusInv'
  <2>1. CodesOf(thr'[p], procs'[p], declared'[p], p \in rewritten')
    BY <1>0, <1>3, VforkReturnsFacts DEF CodesOf, history
  <2> QED
    BY <1>3, <2>1, VforkReturnsFacts, CodesFrame, AnswersFrame DEF history
<1>4. ASSUME NEW p \in Pid, Fork(p) \/ Vfork(p) \/ Spawn(p) PROVE StatusInv'
  <2> PICK kind \in {"fork", "vfork", "spawn"}, prog \in Programs : NewChild(p, kind, prog) /\ Guest(p)
    BY <1>4, AskedKept
  <2> PICK c : c = nextPid
    OBVIOUS
  <2>1. /\ c \in Pid /\ c # p
        /\ \A q \in Pid : q # c => procs'[q] = procs[q]
        /\ \A q \in Pid : q # c /\ q # p => thr'[q] = thr[q]
        /\ ~procs'[c].exited /\ thr'[c].pc = "start"
        /\ IF kind = "vfork" THEN thr'[p].pc = "vfork" /\ thr'[p].arg = c ELSE thr'[p] = thr[p]
        /\ declared' = declared /\ rewritten' = rewritten
    BY NewChildFacts
  <2>2. thr[p].pc = "guest" /\ ~procs[c].exited
    BY <2>1 DEF Guest, Targets, Types
  <2>3. CodesOf(thr'[c], procs'[c], declared'[c], c \in rewritten')
    BY <1>0, <2>1 DEF CodesOf
  <2>4. CodesOf(thr'[p], procs'[p], declared'[p], p \in rewritten')
    BY <1>0, <2>1, <2>2 DEF CodesOf
  <2>5. \A q \in Pid : q # c /\ q # p => CodesOf(thr'[q], procs'[q], declared'[q], q \in rewritten')
    BY <1>0, <2>1
  <2>6. CodesInv'
    BY <2>3, <2>4, <2>5 DEF CodesInv
  <2>7. thr'[p].pc # "answered" /\ \A q \in Pid : q # p => thr'[q].pc # "answered" \/ thr'[q] = thr[q]
    BY <2>1, <2>2
  <2>8. \A d \in Pid : procs[d].exited =>
          procs'[d].exited /\ declared'[d] = declared[d] /\ (d \in rewritten' <=> d \in rewritten)
    BY <2>1, <2>2
  <2> QED
    BY <2>6, <2>7, <2>8, AnswersFrame
<1>5. ASSUME NEW p \in Pid, Return(p) \/ Trap(p) \/ Exit(p) PROVE StatusInv'
  <2>1. /\ thr[p].pc = "guest" /\ procs' = procs /\ rewritten' = rewritten
        /\ \A q \in Pid : q # p => thr'[q] = thr[q] /\ declared'[q] = declared[q]
        /\ \/ thr'[p].pc = "returned" /\ declared'[p] = {0}
           \/ thr'[p].pc = "trapped" /\ declared'[p] = {1}
           \/ \E code \in Codes : /\ thr'[p].pc = "exit" /\ thr'[p].code = code
                                  /\ thr'[p].next = "left" /\ declared'[p] = {code}
    BY <1>5, EndFacts
  <2>2. ~procs[p].exited
    BY <1>0, <2>1 DEF CodesOf
  <2>3. CodesOf(thr'[p], procs'[p], declared'[p], p \in rewritten')
    BY <2>1, <2>2 DEF CodesOf
  <2>4. CodesInv'
    BY <2>1, <2>3, CodesFrame
  <2> QED
    BY <2>1, <2>2, <2>4, AnswersFrame
<1>6. ASSUME NEW p \in Pid, YosExit(p) \/ YosExec(p) PROVE StatusInv'
  <2>1. /\ thr[p].pc = "guest" /\ WakeVforkParent(p)
        /\ \A q \in Pid : q # p => thr'[q] = thr[q] /\ declared'[q] = declared[q]
        /\ \/ \E code \in Codes : /\ thr'[p].pc = "exit" /\ thr'[p].code = code
                                  /\ thr'[p].next = "trapped" /\ declared'[p] = {code}
                                  /\ rewritten' = rewritten \cup {p}
           \/ thr'[p].pc = "exec" /\ thr'[p].arg \in Programs /\ declared'[p] = declared[p]
              /\ rewritten' = rewritten
           \/ thr'[p].pc = "exec" /\ thr'[p].arg \notin Programs /\ declared'[p] = {126}
              /\ rewritten' = rewritten
    BY <1>6, YosFacts
  <2>2. \A q \in Pid : procs'[q].exited = procs[q].exited /\ procs'[q].exitCode = procs[q].exitCode
    BY <2>1, WakeFacts
  <2>3. ~procs[p].exited /\ declared[p] \in SUBSET Nat
    BY <1>0, <2>1 DEF CodesOf
  <2>4. CodesOf(thr'[p], procs'[p], declared'[p], p \in rewritten')
    BY <2>1, <2>2, <2>3 DEF CodesOf
  <2>5. CodesInv'
    BY <2>1, <2>2, <2>4, CodesFrame
  <2> QED
    BY <2>1, <2>2, <2>3, <2>5, AnswersFrame
<1>7. ASSUME NEW p \in Pid, Start(p) PROVE StatusInv'
  <2>1. /\ thr[p].pc = "start" /\ procs' = procs /\ rewritten' = rewritten
        /\ \A q \in Pid : q # p => thr'[q] = thr[q] /\ declared'[q] = declared[q]
        /\ \/ thr'[p].pc = "exit" /\ thr'[p].code = 127 /\ thr'[p].next = "gone" /\ declared'[p] = {127}
           \/ thr'[p].pc = "guest" /\ declared' = declared /\ rewritten' = rewritten
    BY <1>7, StartFacts
  <2>2. ~procs[p].exited /\ declared[p] \in SUBSET Nat
    BY <1>0, <2>1 DEF CodesOf
  <2>3. CodesOf(thr'[p], procs'[p], declared'[p], p \in rewritten')
    BY <2>1, <2>2 DEF CodesOf
  <2>4. CodesInv'
    BY <2>1, <2>3, CodesFrame
  <2> QED
    BY <2>1, <2>2, <2>4, AnswersFrame
<1>8. ASSUME NEW p \in Pid, RunOn(p) PROVE StatusInv'
  <2>1. /\ procs' = procs /\ declared' = declared /\ rewritten' = rewritten
        /\ \A q \in Pid : q # p => thr'[q] = thr[q]
        /\ \/ /\ thr[p].pc \in {"returned", "trapped"} \/ (thr[p].pc = "exec" /\ thr[p].arg \notin Programs)
              /\ thr'[p].pc = "exit" /\ thr'[p].next = "gone"
              /\ thr'[p].code = IF thr[p].pc = "returned" THEN 0
                                ELSE IF thr[p].pc = "trapped" THEN 1 ELSE 126
           \/ thr[p].pc = "left" /\ thr'[p].pc = "gone"
           \/ thr[p].pc = "exec" /\ thr[p].arg \in Programs /\ thr'[p].pc = "start"
    BY <1>8, RunFacts
  <2>2. CodesOf(thr'[p], procs'[p], declared'[p], p \in rewritten')
    BY <1>0, <2>1 DEF CodesOf
  <2>3. CodesInv'
    BY <2>1, <2>2, CodesFrame
  <2> QED
    BY <2>1, <2>3, AnswersFrame
<1>9. ASSUME NEW p \in Pid, YosWait(p) \/ Waitpid(p) \/ WaitAny(p) PROVE StatusInv'
  <2>1. /\ procs' = procs /\ declared' = declared /\ rewritten' = rewritten /\ thr[p].pc = "guest" /\ thr'[p].pc = "wait"
        /\ \A q \in Pid : q # p => thr'[q] = thr[q]
    BY <1>9, WaitFacts DEF history
  <2>2. CodesOf(thr'[p], procs'[p], declared'[p], p \in rewritten')
    BY <1>0, <2>1 DEF CodesOf
  <2>3. CodesInv'
    BY <2>1, <2>2, CodesFrame
  <2> QED
    BY <2>1, <2>3, AnswersFrame
<1>10. ASSUME NEW p \in Pid, WaitReturns(p) PROVE StatusInv'
  <2> PICK c \in Pid : c = thr[p].arg
    BY <1>10, WaitReturnsFacts
  <2>1. /\ procs' = procs /\ declared' = declared /\ rewritten' = rewritten /\ thr[p].pc = "wait" /\ thr'[p].pc = "answered"
        /\ \A q \in Pid : q # p => thr'[q] = thr[q]
        /\ thr'[p].arg = c /\ procs[c].exited
        /\ thr'[p].code = Told(thr'[p].next, procs[c].exitCode)
    BY <1>10, WaitReturnsFacts DEF history, HasExited
  <2>2. CodesOf(thr'[p], procs'[p], declared'[p], p \in rewritten')
    BY <1>0, <2>1 DEF CodesOf
  <2>3. CodesInv'
    BY <2>1, <2>2, CodesFrame
  <2>4. CodesOf(thr[c], procs[c], declared[c], c \in rewritten)
    BY <1>0
  <2>5. c \notin rewritten =>
          \E code \in declared[c] :
            thr'[p].code = IF thr'[p].next = "yos_wait" THEN code ELSE code % 256
    <3> SUFFICES ASSUME c \notin rewritten
                 PROVE  \E code \in declared[c] :
                          thr'[p].code = IF thr'[p].next = "yos_wait" THEN code ELSE code % 256
      OBVIOUS
    <3>1. procs[c].exitCode \in declared[c] /\ procs[c].exitCode \in Nat
      BY <2>1, <2>4 DEF CodesOf
    <3>2. thr'[p].code = IF thr'[p].next = "yos_wait" THEN procs[c].exitCode ELSE procs[c].exitCode % 256
      BY <2>1, <3>1 DEF Told
    <3> QED
      BY <3>1, <3>2
  <2>6. AnswersInv'
    <3> SUFFICES ASSUME NEW q \in Pid, thr'[q].pc = "answered"
                 PROVE  /\ procs'[thr'[q].arg].exited
                        /\ thr'[q].arg \notin rewritten' =>
                             \E code \in declared'[thr'[q].arg] :
                               thr'[q].code = IF thr'[q].next = "yos_wait" THEN code ELSE code % 256
      BY DEF AnswersInv
    <3>1. CASE q = p
      BY <2>1, <2>5, <3>1
    <3>2. CASE q # p
      BY <2>1, <3>2 DEF AnswersInv
    <3> QED
      BY <3>1, <3>2
  <2> QED
    BY <2>3, <2>6
<1>11. ASSUME NEW p \in Pid, GoesOn(p) PROVE StatusInv'
  <2>1. /\ procs' = procs /\ declared' = declared /\ rewritten' = rewritten /\ thr[p].pc = "answered" /\ thr'[p].pc = "guest"
        /\ \A q \in Pid : q # p => thr'[q] = thr[q]
    BY <1>11, GoesOnFacts DEF history
  <2>2. CodesOf(thr'[p], procs'[p], declared'[p], p \in rewritten')
    BY <1>0, <2>1 DEF CodesOf
  <2>3. CodesInv'
    BY <2>1, <2>2, CodesFrame
  <2> QED
    BY <2>1, <2>3, AnswersFrame
<1>12. CASE MainReturns
  BY <1>12, MainFacts DEF CodesInv, CodesOf, AnswersInv
<1>13. CASE UNCHANGED vars
  BY <1>13 DEF vars, table, history, CodesInv, AnswersInv
<1> QED
  BY <1>1, <1>2, <1>3, <1>4, <1>5, <1>6, <1>7, <1>8, <1>9, <1>10, <1>11, <1>12, <1>13
  DEF Next, Calls, Internal

\* If guests exit with codes that are not negative, every wait, of either
\* interface and asked as often as one likes, tells what the child exited with,
\* unless that child called yos_exit, whose code is overwritten by 1.
THEOREM StatusSafe == ASSUME Codes \subseteq Nat PROVE Spec => []StatusFaithful
<1>1. Init => StatusInv
  <2> SUFFICES ASSUME Init PROVE StatusInv
    OBVIOUS
  <2>1. \A p \in Pid : thr[p].pc \in {"start", "none"}
    BY AtFacts DEF Init, Pcs
  <2> PICK r : r = Proc(0, "Running")
    OBVIOUS
  <2> PICK n : n = NoProc
    OBVIOUS
  <2>2. ~r.exited /\ ~n.exited
    BY DEF Proc, NoProc
  <2>3. procs = [p \in Pid |-> IF p = 1 THEN r ELSE n] /\ declared = [p \in Pid |-> {}]
    BY DEF Init
  <2> QED
    BY <2>1, <2>2, <2>3 DEF StatusInv, CodesInv, CodesOf, AnswersInv
<1>2. Types /\ Targets /\ StatusInv /\ [Next]_vars => StatusInv'
  BY StatusInvKept
<1>3. StatusInv => StatusFaithful
  BY DEF StatusInv, AnswersInv, StatusFaithful
<1> QED
  BY <1>1, <1>2, <1>3, TypesHold, PTL DEF Spec

=============================================================================
