--------------------------- MODULE ProcTableProofs ---------------------------
(***************************************************************************)
(* The process table, for any number of slots and pids and whichever host  *)
(* calls fail: the types and the pids, whatever the guests do; what waits  *)
(* promise to guests that wait for their children by pid and send no       *)
(* signals; and that the table then implements ProcLife.                   *)
(***************************************************************************)
EXTENDS ProcTableInv, ProcRefinement, TLAPS

USE ProcTableAssumption DEF NULL, InitPid, FirstPid

-----------------------------------------------------------------------------
(* Records *)

LEMMA SlotPid == 1 \in Slot /\ 1 \in Pid /\ 0 \notin Slot /\ 0 \notin Pid
BY DEF Slot, Pid

LEMMA FrameFacts ==
  ASSUME NEW call \in Call, NEW pc \in Point, NEW ptr \in 0 .. NumProcs,
         NEW pid \in 0 .. MaxPid, NEW code \in Int
  PROVE  LET f == Frame(call, pc, ptr, pid, code)
         IN  f \in Thread /\ f.call = call /\ f.pc = pc /\ f.ptr = ptr /\ f.pid = pid /\ f.code = code
BY DEF Frame, Thread

LEMMA GuestFacts ==
  /\ Guest \in Thread /\ Guest.call = "none" /\ Guest.pc = "run"
  /\ Gone \in Thread /\ Gone.call = "none" /\ Gone.pc = "gone"
  /\ Leaving \in Thread /\ Leaving.call = "none" /\ Leaving.pc = "leave"
  /\ NoThread \in Thread /\ NoThread.call = "none" /\ NoThread.pc = "none"
BY DEF Guest, Gone, Leaving, NoThread, Frame, Thread, Call, Point

LEMMA StepFacts ==
  ASSUME NEW r \in Thread, NEW pc \in Point
  PROVE  LET f == [r EXCEPT !.pc = pc]
         IN  f \in Thread /\ f.pc = pc /\ f.call = r.call /\ f.ptr = r.ptr /\ f.pid = r.pid /\ f.code = r.code
BY DEF Thread

LEMMA NewProcFacts ==
  ASSUME NEW pid \in 0 .. MaxPid, NEW ppid \in 0 .. MaxPid
  PROVE  LET r == NewProc(pid, ppid)
         IN  r \in Proc /\ r.pid = pid /\ r.ppid = ppid /\ r.state = "READY" /\ ~r.exited
BY DEF NewProc, Proc, State

\* The five ways an entry of the table is changed in place.
LEMMA StateFacts ==
  ASSUME NEW r \in Proc, NEW st \in State
  PROVE  LET e == [r EXCEPT !.state = st]
         IN  e \in Proc /\ e.state = st /\ e.pid = r.pid /\ e.ppid = r.ppid
             /\ e.exited = r.exited /\ e.exit_code = r.exit_code
BY DEF Proc

LEMMA CodeFacts ==
  ASSUME NEW r \in Proc, NEW c \in Int
  PROVE  LET e == [r EXCEPT !.exit_code = c]
         IN  e \in Proc /\ e.exit_code = c /\ e.pid = r.pid /\ e.ppid = r.ppid
             /\ e.exited = r.exited /\ e.state = r.state
BY DEF Proc

LEMMA FlagFacts ==
  ASSUME NEW r \in Proc
  PROVE  LET e == [r EXCEPT !.exited = TRUE]
         IN  e \in Proc /\ e.exited /\ e.pid = r.pid /\ e.ppid = r.ppid
             /\ e.exit_code = r.exit_code /\ e.state = r.state
BY DEF Proc

LEMMA GroupFacts ==
  ASSUME NEW r \in Proc, NEW g \in 0 .. MaxPid, NEW h \in 0 .. MaxPid
  PROVE  LET e == [r EXCEPT !.pgid = g, !.sid = h]
         IN  e \in Proc /\ e.pid = r.pid /\ e.ppid = r.ppid /\ e.state = r.state
             /\ e.exited = r.exited /\ e.exit_code = r.exit_code
BY DEF Proc

LEMMA PgidFacts ==
  ASSUME NEW r \in Proc, NEW g \in 0 .. MaxPid
  PROVE  LET e == [r EXCEPT !.pgid = g]
         IN  e \in Proc /\ e.pid = r.pid /\ e.ppid = r.ppid /\ e.state = r.state
             /\ e.exited = r.exited /\ e.exit_code = r.exit_code
BY DEF Proc

-----------------------------------------------------------------------------
(* Effects of a write to one entry and of a move of one thread *)

LEMMA Written ==
  ASSUME procs \in [Slot -> Proc], NEW s \in Slot, NEW e \in Proc, SetProc(s, e)
  PROVE  /\ procs' \in [Slot -> Proc]
         /\ \A t \in Slot : procs'[t] = IF t = s THEN e ELSE procs[t]
BY DEF SetProc

LEMMA Moved ==
  ASSUME thr \in [Pid -> Thread], NEW p \in Pid, NEW f \in Thread, Goto(p, f)
  PROVE  /\ thr' \in [Pid -> Thread]
         /\ \A q \in Pid : thr'[q] = IF q = p THEN f ELSE thr[q]
BY DEF Goto

\* A thread that is in a call or in its guest has a slot.
LEMMA HasSlot ==
  ASSUME TypeInv, NEW p \in Pid, thr[p].pc # "none"
  PROVE  proc[p] \in Slot /\ MyPid(p) \in 0 .. MaxPid /\ thr[p] \in Thread
BY DEF TypeInv, TypeOK, MyPid, Proc

LEMMA InGuestFacts ==
  ASSUME TypeInv, NEW p \in Pid, InGuest(p)
  PROVE  /\ thr[p].pc = "run" /\ thr[p].call = "none" /\ up
         /\ proc[p] \in Slot /\ MyPid(p) \in 0 .. MaxPid /\ thr[p] \in Thread
BY GuestFacts, HasSlot DEF InGuest

LEMMA InCallFacts ==
  ASSUME TypeInv, NEW p \in Pid, thr[p].call # "none"
  PROVE  /\ proc[p] \in Slot /\ MyPid(p) \in 0 .. MaxPid /\ thr[p] \in Thread
         /\ thr[p].ptr \in Slot /\ procs[thr[p].ptr] \in Proc
         /\ thr[p].call \in {"fork", "waitpid", "poll"} => thr[p].pid \in Pid
<1>1. thr[p].pc # "none"
  BY DEF TypeInv, CallsHold
<1> QED
  BY <1>1, HasSlot DEF TypeInv, TypeOK, CallsHold

\* What the type invariant asks of one thread.
Fits(f) ==
  /\ f \in Thread
  /\ f.call # "none" => f.ptr \in Slot
  /\ f.call \in {"fork", "waitpid", "poll"} => f.pid \in Pid
  /\ f.call = "none" => f.pc \in {"none", "start", "run"} \cup Ended
  /\ f.call # "none" => f.pc \notin {"none", "start", "run"} \cup Ended

LEMMA FitsAll ==
  ASSUME TypeInv, NEW p \in Pid, thr[p].pc # "none",
         NEW f \in Thread, Fits(f), Goto(p, f), proc' = proc
  PROVE  /\ thr' \in [Pid -> Thread]
         /\ CallsHold'
         /\ \A q \in Pid : thr'[q].pc # "none" => proc'[q] # NULL
         /\ \A q \in Pid : thr'[q] = IF q = p THEN f ELSE thr[q]
<1>1. /\ thr' \in [Pid -> Thread]
      /\ \A q \in Pid : thr'[q] = IF q = p THEN f ELSE thr[q]
  BY Moved DEF TypeInv, TypeOK
<1> QED
  BY <1>1 DEF TypeInv, TypeOK, CallsHold, Fits

LEMMA GuestFits == Fits(Guest) /\ Fits(Gone) /\ Fits(Leaving)
BY GuestFacts DEF Fits, Ended

LEMMA FrameFits ==
  ASSUME NEW call \in Call \ {"none"}, NEW pc \in Point \ ({"none", "start", "run"} \cup Ended),
         NEW ptr \in Slot, NEW pid \in 0 .. MaxPid, NEW code \in Int,
         call \in {"fork", "waitpid", "poll"} => pid \in Pid
  PROVE  LET f == Frame(call, pc, ptr, pid, code)
         IN  Fits(f) /\ f.call = call /\ f.pc = pc /\ f.ptr = ptr /\ f.pid = pid /\ f.code = code
<1> DEFINE f == Frame(call, pc, ptr, pid, code)
<1>1. ptr \in 0 .. NumProcs
  BY DEF Slot
<1>2. f \in Thread /\ f.call = call /\ f.pc = pc /\ f.ptr = ptr /\ f.pid = pid /\ f.code = code
  BY <1>1, FrameFacts
<1> HIDE DEF f
<1>3. Fits(f)
  BY <1>2 DEF Fits
<1> QED
  BY <1>2, <1>3 DEF f

LEMMA StepFits ==
  ASSUME NEW r \in Thread, Fits(r), r.call # "none",
         NEW pc \in Point \ ({"none", "start", "run"} \cup Ended)
  PROVE  Fits([r EXCEPT !.pc = pc])
BY StepFacts DEF Fits

LEMMA ThreadFits ==
  ASSUME TypeInv, NEW p \in Pid
  PROVE  Fits(thr[p])
BY DEF TypeInv, TypeOK, CallsHold, Fits

-----------------------------------------------------------------------------
(* Every action keeps the types *)

LEMMA TypeForkAlloc ==
  ASSUME TypeInv, NEW p \in Pid, ForkAlloc(p)
  PROVE  TypeInv'
<1>1. /\ proc[p] \in Slot /\ MyPid(p) \in 0 .. MaxPid /\ thr[p].pc # "none"
  BY InGuestFacts DEF ForkAlloc
<1>2. PICK s \in Slot :
        /\ SetProc(s, NewProc(next_pid, MyPid(p)))
        /\ lock' = [lock EXCEPT ![s] = NULL]
        /\ Goto(p, Frame("fork", "ids", s, next_pid, 0))
  BY DEF ForkAlloc
<1>3. next_pid \in Pid /\ next_pid' \in 1 .. (MaxPid + 1)
  BY DEF ForkAlloc, TypeInv, TypeOK, Pid, NextPid
<1>4. procs' \in [Slot -> Proc]
  BY <1>1, <1>2, <1>3, NewProcFacts, Written DEF TypeInv, TypeOK, Pid
<1>5. Fits(Frame("fork", "ids", s, next_pid, 0))
  BY <1>3, FrameFits DEF Call, Point, Pid, Ended
<1> QED
  BY <1>1, <1>2, <1>3, <1>4, <1>5, FitsAll DEF TypeInv, TypeOK, ForkAlloc, ghosts, Fits

LEMMA TypeForkIds ==
  ASSUME TypeInv, NEW p \in Pid, ForkIds(p)
  PROVE  TypeInv'
<1> DEFINE s == thr[p].ptr
           e == [procs[s] EXCEPT !.pgid = procs[proc[p]].pgid, !.sid = procs[proc[p]].sid]
           f == [thr[p] EXCEPT !.pc = "memory"]
<1>1. thr[p].call # "none" /\ thr[p].pc # "none"
  BY DEF ForkIds, At
<1>2. s \in Slot /\ procs[s] \in Proc /\ procs[proc[p]] \in Proc
  BY <1>1, InCallFacts DEF TypeInv, TypeOK
<1>3. procs[proc[p]].pgid \in 0 .. MaxPid /\ procs[proc[p]].sid \in 0 .. MaxPid
  BY <1>2 DEF Proc
<1>4. e \in Proc
  BY <1>2, <1>3, GroupFacts
<1>5. SetProc(s, e) /\ Goto(p, f)
  BY DEF ForkIds, Step
<1>6. Fits(f)
  BY <1>1, ThreadFits, StepFits DEF Fits, Point, Ended
<1> HIDE DEF s, e, f
<1>7. procs' \in [Slot -> Proc]
  BY <1>2, <1>4, <1>5, Written DEF TypeInv, TypeOK
<1> QED
  BY <1>1, <1>5, <1>6, <1>7, FitsAll DEF TypeInv, TypeOK, ForkIds, ghosts, Fits

LEMMA TypeForkMemory ==
  ASSUME TypeInv, NEW p \in Pid, ForkMemory(p)
  PROVE  TypeInv'
<1>1. thr[p].call # "none" /\ thr[p].pc # "none"
  BY DEF ForkMemory, At
<1>2. PICK st \in State, f \in Thread : SetState(thr[p].ptr, st) /\ Goto(p, f) /\ Fits(f)
  <2>1. Fits([thr[p] EXCEPT !.pc = "spawn"])
    BY <1>1, ThreadFits, StepFits DEF Fits, Point, Ended
  <2> QED
    BY <2>1, GuestFits DEF ForkMemory, Step, State, Fits
<1>3. thr[p].ptr \in Slot /\ [procs[thr[p].ptr] EXCEPT !.state = st] \in Proc
  BY <1>1, InCallFacts, StateFacts
<1>4. procs' \in [Slot -> Proc]
  BY <1>2, <1>3, Written DEF TypeInv, TypeOK, SetState
<1> QED
  BY <1>1, <1>2, <1>4, FitsAll DEF TypeInv, TypeOK, ForkMemory, ghosts

LEMMA TypeForkSpawn ==
  ASSUME TypeInv, NEW p \in Pid, ForkSpawn(p)
  PROVE  TypeInv'
<1> DEFINE k == thr[p].pid
           start == Frame("none", "start", NULL, 0, 0)
<1>1. thr[p].call = "fork" /\ thr[p].pc # "none" /\ thr[p].ptr \in Slot /\ k \in Pid
  BY InCallFacts DEF ForkSpawn, At
<1>2. Fits(start) /\ start.pc = "start"
  <2>1. start \in Thread /\ start.call = "none" /\ start.pc = "start"
    BY FrameFacts DEF Call, Point
  <2> HIDE DEF start
  <2> QED
    BY <2>1 DEF Fits
<1> HIDE DEF start
<1>3. CASE /\ thr' = [thr EXCEPT ![p] = Guest, ![k] = start]
           /\ proc' = [proc EXCEPT ![k] = thr[p].ptr]
           /\ UNCHANGED procs
  <2>1. /\ thr' \in [Pid -> Thread]
        /\ \A q \in Pid : thr'[q] = IF q = k THEN start ELSE IF q = p THEN Guest ELSE thr[q]
    BY <1>1, <1>2, <1>3, GuestFits DEF TypeInv, TypeOK, Fits
  <2>2. CallsHold'
    BY <1>2, <2>1, GuestFits DEF TypeInv, CallsHold, Fits
  <2>3. /\ proc' \in [Pid -> Slot \cup {NULL}]
        /\ \A q \in Pid : proc'[q] = IF q = k THEN thr[p].ptr ELSE proc[q]
    BY <1>1, <1>3 DEF TypeInv, TypeOK
  <2>4. \A q \in Pid : thr'[q].pc # "none" => proc'[q] # NULL
    BY <1>1, <2>1, <2>3, SlotPid DEF TypeInv, TypeOK
  <2> QED
    BY <1>3, <2>1, <2>2, <2>3, <2>4 DEF TypeInv, TypeOK, ForkSpawn, ghosts
<1>4. CASE SetState(thr[p].ptr, "FREE") /\ Goto(p, Guest) /\ UNCHANGED proc
  <2>1. procs' \in [Slot -> Proc]
    BY <1>1, <1>4, StateFacts, Written DEF TypeInv, TypeOK, SetState, State
  <2> QED
    BY <1>1, <1>4, <2>1, GuestFits, FitsAll DEF TypeInv, TypeOK, ForkSpawn, ghosts, Fits
<1> QED
  BY <1>3, <1>4 DEF ForkSpawn, start

\* The steps that only move a thread.
LEMMA TypeMove ==
  ASSUME TypeInv, NEW p \in Pid,
         \/ ThreadStart(p) \/ GuestReturns(p) \/ ThreadEnd(p) \/ SpuriousWakeup(p)
         \/ ExitCall(p) \/ KillCall(p) \/ WaitFind(p) \/ WaitCheck(p) \/ SetpgidFind(p)
  PROVE  TypeInv'
<1>1. /\ thr[p].pc # "none" /\ proc[p] \in Slot /\ MyPid(p) \in 0 .. MaxPid /\ thr[p] \in Thread
      /\ thr[p].call # "none" => thr[p].ptr \in Slot
  <2>1. thr[p].pc # "none"
    BY GuestFacts DEF ThreadStart, GuestReturns, ThreadEnd, SpuriousWakeup, ExitCall, KillCall,
                      WaitFind, WaitCheck, SetpgidFind, InGuest, At
  <2> QED
    BY <2>1, HasSlot, InCallFacts
<1>2. \E f \in Thread : Goto(p, f) /\ Fits(f)
  <2>1. CASE ThreadStart(p) \/ GuestReturns(p) \/ ThreadEnd(p)
    BY <2>1, GuestFits DEF ThreadStart, GuestReturns, ThreadEnd, Fits
  <2>2. CASE SpuriousWakeup(p)
    <3>1. thr[p].call # "none" /\ Goto(p, [thr[p] EXCEPT !.pc = "lock"])
      BY <2>2 DEF SpuriousWakeup, At, Step
    <3>2. Fits([thr[p] EXCEPT !.pc = "lock"])
      BY <1>1, <3>1, ThreadFits, StepFits DEF Point, Ended
    <3> QED
      BY <3>1, <3>2 DEF Fits
  <2>3. CASE ExitCall(p)
    <3>1. PICK c \in Codes : Goto(p, Frame("exit", "state", proc[p], 0, c))
      BY <2>3 DEF ExitCall
    <3>2. c \in Int /\ 0 \in 0 .. MaxPid
      OBVIOUS
    <3>3. Fits(Frame("exit", "state", proc[p], 0, c))
      BY <1>1, <3>2, FrameFits DEF Call, Point, Ended
    <3> QED
      BY <3>1, <3>3 DEF Fits
  <2>4. CASE KillCall(p)
    <3>1. PICK pid \in Pid, s \in Slot, sig \in Signals :
                 Goto(p, Frame("kill", "state", s, pid, 128 + sig))
      BY <2>4 DEF KillCall
    <3>2. Fits(Frame("kill", "state", s, pid, 128 + sig))
      BY FrameFits DEF Call, Point, Ended, Pid
    <3> QED
      BY <3>1, <3>2 DEF Fits
  <2>5. CASE WaitFind(p)
    <3>1. PICK call \in Waiting, pid \in Pid, s \in Slot :
                 Goto(p, Frame(call, "lock", s, pid, 0))
      BY <2>5 DEF WaitFind
    <3>2. Fits(Frame(call, "lock", s, pid, 0))
      BY FrameFits DEF Call, Point, Ended, Pid, Waiting
    <3> QED
      BY <3>1, <3>2 DEF Fits
  <2>6. CASE WaitCheck(p)
    <3>1. thr[p].call \in Waiting /\ thr[p].call # "none"
      BY <2>6 DEF WaitCheck, At, Waiting
    <3> DEFINE c == procs[thr[p].ptr].exit_code
               f == [thr[p] EXCEPT !.pc = "free", !.code = c]
    <3>2. c \in Int
      BY <3>1, InCallFacts DEF Proc
    <3>3. f \in Thread /\ f.pc = "free" /\ f.call = thr[p].call /\ f.ptr = thr[p].ptr
            /\ f.pid = thr[p].pid
      BY <1>1, <3>2 DEF Thread, Point
    <3>4. Goto(p, f) \/ Step(p, "sleep") \/ Goto(p, Guest)
      BY <2>6 DEF WaitCheck
    <3> HIDE DEF f
    <3>5. Fits(f)
      BY <3>1, <3>3, ThreadFits DEF Fits, Ended
    <3>6. Fits([thr[p] EXCEPT !.pc = "sleep"])
      BY <1>1, <3>1, ThreadFits, StepFits DEF Point, Ended
    <3> QED
      BY <3>4, <3>5, <3>6, GuestFits DEF Fits, Step
  <2>7. CASE SetpgidFind(p)
    <3>1. PICK pid \in Pid \cup {0}, pgid \in Pid \cup {0}, s \in Slot :
            LET target  == IF pid = 0 THEN MyPid(p) ELSE pid
                newpgid == IF pgid = 0 THEN target ELSE pgid
            IN  Goto(p, Frame("setpgid", "write", s, newpgid, 0))
      BY <2>7 DEF SetpgidFind
    <3> DEFINE g == IF pgid = 0 THEN IF pid = 0 THEN MyPid(p) ELSE pid ELSE pgid
    <3>2. g \in 0 .. MaxPid
      BY <1>1 DEF Pid
    <3>3. Goto(p, Frame("setpgid", "write", s, g, 0))
      BY <3>1
    <3> HIDE DEF g
    <3>4. Fits(Frame("setpgid", "write", s, g, 0))
      BY <3>2, FrameFits DEF Call, Point, Ended
    <3> QED
      BY <3>3, <3>4 DEF Fits
  <2> QED
    BY <2>1, <2>2, <2>3, <2>4, <2>5, <2>6, <2>7
<1>3. UNCHANGED <<procs, next_pid, lock, proc, reaped, status>>
  BY DEF ThreadStart, GuestReturns, ThreadEnd, SpuriousWakeup, ExitCall, KillCall, WaitFind,
         WaitCheck, SetpgidFind, ghosts
<1>4. up' \in BOOLEAN
  BY DEF ThreadStart, GuestReturns, ThreadEnd, SpuriousWakeup, ExitCall, KillCall, WaitFind,
         WaitCheck, SetpgidFind, TypeInv, TypeOK
<1>5. declared' \in [Pid -> SUBSET Codes]
  BY DEF ThreadStart, GuestReturns, ThreadEnd, SpuriousWakeup, ExitCall, KillCall, WaitFind,
         WaitCheck, SetpgidFind, ghosts, TypeInv, TypeOK
<1> QED
  BY <1>1, <1>2, <1>3, <1>4, <1>5, FitsAll DEF TypeInv, TypeOK

LEMMA ReportTypes ==
  ASSUME TypeInv, NEW pid, NEW code \in Int, Report(pid, code)
  PROVE  reaped' \in [Pid -> 0 .. MaxReports] /\ status' \in [Pid -> Int] /\ declared' = declared
<1>1. WStatus(code) \in Int
  BY DEF WStatus
<1>2. \A n \in 0 .. MaxReports : (IF n < MaxReports THEN n + 1 ELSE n) \in 0 .. MaxReports
  BY DEF MaxReports
<1>3. /\ reaped \in [Pid -> 0 .. MaxReports] /\ status \in [Pid -> Int]
  BY DEF TypeInv, TypeOK
<1>4. reaped' = [reaped EXCEPT ![pid] = IF @ < MaxReports THEN @ + 1 ELSE @]
  BY DEF Report
<1>5. reaped' \in [Pid -> 0 .. MaxReports]
  <2>1. CASE pid \in Pid
    BY <1>2, <1>3, <1>4, <2>1
  <2>2. CASE pid \notin Pid
    BY <1>3, <1>4, <2>2
  <2> QED
    BY <2>1, <2>2
<1> QED
  BY <1>1, <1>3, <1>5 DEF Report

\* The steps that write one entry in place.
LEMMA TypeWrite ==
  ASSUME TypeInv, NEW p \in Pid,
         ProcExitState(p) \/ ProcExitCode(p) \/ WaitFree(p) \/ SetpgidWrite(p)
  PROVE  TypeInv'
<1> DEFINE s == thr[p].ptr
<1>1. /\ thr[p].call # "none" /\ thr[p].pc # "none" /\ thr[p] \in Thread
      /\ s \in Slot /\ procs[s] \in Proc /\ thr[p].pid \in 0 .. MaxPid /\ thr[p].code \in Int
  <2>1. thr[p].call # "none" /\ thr[p].pc # "none"
    BY DEF ProcExitState, ProcExitCode, WaitFree, SetpgidWrite, At, Dying, Waiting
  <2> QED
    BY <2>1, InCallFacts DEF Thread
<1> HIDE DEF s
<1>2. \E e \in Proc : SetProc(s, e)
  <2>1. /\ [procs[s] EXCEPT !.state = "ZOMBIE"] \in Proc
        /\ [procs[s] EXCEPT !.state = "FREE"] \in Proc
    BY <1>1, StateFacts DEF State
  <2>2. [procs[s] EXCEPT !.exit_code = thr[p].code] \in Proc
    BY <1>1, CodeFacts
  <2>3. [procs[s] EXCEPT !.pgid = thr[p].pid] \in Proc
    BY <1>1, PgidFacts
  <2> QED
    BY <2>1, <2>2, <2>3 DEF ProcExitState, ProcExitCode, WaitFree, SetpgidWrite, SetState,
                            FreeSlot, s
<1>3. procs' \in [Slot -> Proc]
  BY <1>1, <1>2, Written DEF TypeInv, TypeOK
<1>4. \E f \in Thread : Goto(p, f) /\ Fits(f)
  <2>1. /\ Fits([thr[p] EXCEPT !.pc = "code"])
        /\ Fits([thr[p] EXCEPT !.pc = "flag"])
    BY <1>1, ThreadFits, StepFits DEF Point, Ended
  <2> QED
    BY <2>1, GuestFits DEF ProcExitState, ProcExitCode, WaitFree, SetpgidWrite, Step, Fits
<1>5. lock' \in [Slot -> Pid \cup {NULL}]
  BY DEF ProcExitState, ProcExitCode, WaitFree, SetpgidWrite, TypeInv, TypeOK
<1>6. reaped' \in [Pid -> 0 .. MaxReports] /\ status' \in [Pid -> Int] /\ declared' = declared
  <2>1. CASE WaitFree(p)
    BY <1>1, <2>1, ReportTypes DEF WaitFree
  <2>2. CASE ProcExitState(p) \/ ProcExitCode(p) \/ SetpgidWrite(p)
    BY <2>2 DEF ProcExitState, ProcExitCode, SetpgidWrite, ghosts, TypeInv, TypeOK
  <2> QED
    BY <2>1, <2>2
<1>7. UNCHANGED <<next_pid, proc, up>>
  BY DEF ProcExitState, ProcExitCode, WaitFree, SetpgidWrite
<1> QED
  BY <1>1, <1>3, <1>4, <1>5, <1>6, <1>7, FitsAll DEF TypeInv, TypeOK

LEMMA TypeProcExitFlag ==
  ASSUME TypeInv, NEW p \in Pid, ProcExitFlag(p)
  PROVE  TypeInv'
<1> DEFINE s == thr[p].ptr
<1>1. thr[p].call # "none" /\ thr[p].pc = "flag" /\ s \in Slot /\ procs[s] \in Proc
  <2>1. thr[p].call # "none" /\ thr[p].pc = "flag"
    BY DEF ProcExitFlag, At, Dying
  <2> QED
    BY <2>1, InCallFacts
<1>2. procs' \in [Slot -> Proc]
  BY <1>1, FlagFacts, Written DEF ProcExitFlag, TypeInv, TypeOK
<1>3. \A q \in Pid : Fits(thr'[q]) /\ (thr'[q].pc # "none" => thr[q].pc # "none")
  <2> SUFFICES ASSUME NEW q \in Pid
               PROVE  Fits(thr'[q]) /\ (thr'[q].pc # "none" => thr[q].pc # "none")
    OBVIOUS
  <2>1. \/ q = p /\ thr'[q] \in {Guest, Leaving}
        \/ thr[q].pc = "sleep" /\ thr'[q] = [thr[q] EXCEPT !.pc = "lock"]
        \/ thr'[q] = thr[q]
    BY DEF ProcExitFlag, Woken
  <2>2. CASE q = p /\ thr'[q] \in {Guest, Leaving}
    BY <1>1, <2>2, GuestFits
  <2>3. CASE thr[q].pc = "sleep" /\ thr'[q] = [thr[q] EXCEPT !.pc = "lock"]
    <3>1. thr[q] \in Thread /\ thr[q].call # "none"
      BY <2>3 DEF TypeInv, TypeOK, CallsHold, Ended
    <3>2. Fits([thr[q] EXCEPT !.pc = "lock"])
      BY <3>1, ThreadFits, StepFits DEF Point, Ended
    <3> QED
      BY <2>3, <3>2
  <2>4. CASE thr'[q] = thr[q]
    BY <2>4, ThreadFits
  <2> QED
    BY <2>1, <2>2, <2>3, <2>4
<1>4. thr' = [q \in Pid |-> thr'[q]]
  BY DEF ProcExitFlag
<1>5. thr' \in [Pid -> Thread] /\ CallsHold'
  BY <1>3, <1>4 DEF Fits, CallsHold
<1>6. \A q \in Pid : thr'[q].pc # "none" => proc'[q] # NULL
  BY <1>3 DEF ProcExitFlag, TypeInv, TypeOK
<1>7. /\ lock' \in [Slot -> Pid \cup {NULL}]
      /\ UNCHANGED <<next_pid, proc, up, declared, reaped, status>>
  BY DEF ProcExitFlag, ghosts, TypeInv, TypeOK
<1> QED
  BY <1>2, <1>5, <1>6, <1>7 DEF TypeInv, TypeOK

\* The steps of a guest that do not move its thread.
LEMMA TypeStay ==
  ASSUME TypeInv, NEW p \in Pid, WaitAny(p) \/ Setsid(p)
  PROVE  TypeInv'
<1>1. proc[p] \in Slot /\ MyPid(p) \in 0 .. MaxPid
  BY InGuestFacts DEF WaitAny, Setsid
<1>2. UNCHANGED <<next_pid, lock, thr, proc, up, declared>>
  BY DEF WaitAny, Setsid, Report, ghosts
<1>3. CASE WaitAny(p)
  <2>1. PICK s \in Slot : FreeSlot(s) /\ Report(procs[s].pid, procs[s].exit_code)
    BY <1>3 DEF WaitAny
  <2>2. procs[s] \in Proc /\ procs[s].exit_code \in Int
    BY DEF TypeInv, TypeOK, Proc
  <2>3. procs' \in [Slot -> Proc]
    BY <2>1, <2>2, StateFacts, Written DEF FreeSlot, SetState, State, TypeInv, TypeOK
  <2>4. reaped' \in [Pid -> 0 .. MaxReports] /\ status' \in [Pid -> Int]
    BY <2>1, <2>2, ReportTypes
  <2> QED
    BY <1>2, <2>3, <2>4 DEF TypeInv, TypeOK, CallsHold
<1>4. CASE Setsid(p)
  <2> DEFINE e == [procs[proc[p]] EXCEPT !.pgid = MyPid(p), !.sid = MyPid(p)]
  <2>1. procs[proc[p]] \in Proc
    BY <1>1 DEF TypeInv, TypeOK
  <2>2. e \in Proc
    BY <1>1, <2>1, GroupFacts
  <2>3. SetProc(proc[p], e)
    BY <1>4 DEF Setsid
  <2> HIDE DEF e
  <2>4. procs' \in [Slot -> Proc]
    BY <1>1, <2>2, <2>3, Written DEF TypeInv, TypeOK
  <2> QED
    BY <1>2, <1>4, <2>4 DEF Setsid, ghosts, TypeInv, TypeOK, CallsHold
<1> QED
  BY <1>3, <1>4

LEMMA TypeCreateInit ==
  ASSUME TypeInv, CreateInit
  PROVE  TypeInv'
<1> DEFINE e == NewProc(InitPid, 0)
<1>1. e \in Proc
  BY NewProcFacts
<1>2. [e EXCEPT !.state = "RUNNING"] \in Proc /\ [e EXCEPT !.state = "FREE"] \in Proc
  BY <1>1, StateFacts DEF State
<1>3. SetProc(1, [e EXCEPT !.state = "RUNNING"]) \/ SetProc(1, [e EXCEPT !.state = "FREE"])
  BY DEF CreateInit
<1> HIDE DEF e
<1>4. procs' \in [Slot -> Proc]
  BY <1>2, <1>3, SlotPid, Written DEF TypeInv, TypeOK
<1>5. thr \in [Pid -> Thread] /\ Guest \in Thread
  BY GuestFacts DEF TypeInv, TypeOK
<1>6. Goto(1, Guest) \/ thr' = thr
  BY DEF CreateInit
<1>7. /\ thr' \in [Pid -> Thread]
      /\ \A q \in Pid : thr'[q] = thr[q] \/ (q = 1 /\ thr'[q] = Guest)
  <2>1. CASE Goto(1, Guest)
    BY <1>5, <2>1, SlotPid, Moved
  <2>2. CASE thr' = thr
    BY <1>5, <2>2
  <2> QED
    BY <1>6, <2>1, <2>2
<1>8. CallsHold'
  BY <1>7, GuestFits DEF TypeInv, CallsHold, Fits
<1>9. /\ proc' \in [Pid -> Slot \cup {NULL}]
      /\ \A q \in Pid : proc'[q] = IF q = 1 THEN 1 ELSE proc[q]
  BY SlotPid DEF CreateInit, TypeInv, TypeOK
<1>10. next_pid' = 2
  BY DEF CreateInit, NextPid
<1>11. up' \in BOOLEAN
  <2>1. up' = up \/ up' = FALSE
    BY DEF CreateInit
  <2> QED
    BY <2>1 DEF TypeInv, TypeOK
<1>12. next_pid' \in 1 .. (MaxPid + 1)
  BY <1>10
<1> QED
  BY <1>4, <1>7, <1>8, <1>9, <1>10, <1>12, <1>11 DEF CreateInit, ghosts, TypeInv, TypeOK

LEMMA TypeInit ==
  Init => TypeInv
<1> SUFFICES ASSUME Init PROVE TypeInv
  OBVIOUS
<1>1. EmptyProc \in Proc
  BY DEF EmptyProc, Proc, State
<1>2. \A p \in Pid : thr[p] = NoThread
  BY DEF Init
<1>3. TypeOK
  BY <1>1, <1>2, GuestFacts DEF Init, TypeOK, MaxReports
<1>4. CallsHold
  BY <1>2, GuestFacts DEF CallsHold
<1> QED
  BY <1>3, <1>4 DEF TypeInv

LEMMA TypeNext ==
  TypeInv /\ [Next]_vars => TypeInv'
<1> SUFFICES ASSUME TypeInv, [Next]_vars PROVE TypeInv'
  OBVIOUS
<1>1. CASE CreateInit
  BY <1>1, TypeCreateInit
<1>2. ASSUME NEW p \in Pid, Internal(p) PROVE TypeInv'
  BY <1>2, TypeForkIds, TypeForkMemory, TypeForkSpawn, TypeMove, TypeWrite, TypeProcExitFlag
  DEF Internal
<1>3. ASSUME NEW p \in Pid, GuestCall(p) PROVE TypeInv'
  BY <1>3, TypeForkAlloc, TypeMove, TypeStay DEF GuestCall
<1>4. ASSUME NEW p \in Pid, SpuriousWakeup(p) PROVE TypeInv'
  BY <1>4, TypeMove
<1>5. CASE UNCHANGED vars
  BY <1>5 DEF vars, TypeInv, TypeOK, CallsHold
<1> QED
  BY <1>1, <1>2, <1>3, <1>4, <1>5 DEF Next

\* Every variable has its type, whatever the guests do: a pointer a call
\* works with is a slot of the table, ctx->proc of a thread is never NULL
\* and every number that enters the table is a pid.
THEOREM TypeCorrect == Spec => []TypeOK
<1>1. Spec => []TypeInv
  BY TypeInit, TypeNext, PTL DEF Spec
<1>2. TypeInv => TypeOK
  BY DEF TypeInv
<1> QED
  BY <1>1, <1>2, PTL

-----------------------------------------------------------------------------
(* Pids are unique *)

\* Only yos_proc_alloc changes the identity of a slot or the pid counter.
SameIdentities ==
  /\ next_pid' = next_pid
  /\ \A s \in Slot : procs'[s].pid = procs[s].pid /\ procs'[s].ppid = procs[s].ppid

LEMMA OneEntry ==
  ASSUME TypeInv, NEW s \in Slot, NEW e \in Proc, SetProc(s, e), next_pid' = next_pid,
         e.pid = procs[s].pid, e.ppid = procs[s].ppid
  PROVE  SameIdentities
BY Written DEF SameIdentities, TypeInv, TypeOK

LEMMA SetStateKeeps ==
  ASSUME TypeInv, NEW s \in Slot, NEW st \in State, SetState(s, st), next_pid' = next_pid
  PROVE  SameIdentities
<1>1. procs[s] \in Proc
  BY DEF TypeInv, TypeOK
<1> DEFINE e == [procs[s] EXCEPT !.state = st]
<1>2. e \in Proc /\ e.pid = procs[s].pid /\ e.ppid = procs[s].ppid
  BY <1>1, StateFacts
<1>3. SetProc(s, e)
  BY DEF SetState
<1> HIDE DEF e
<1> QED
  BY <1>2, <1>3, OneEntry

LEMMA SetGroupKeeps ==
  ASSUME TypeInv, NEW s \in Slot, NEW g \in 0 .. MaxPid, NEW h \in 0 .. MaxPid,
         SetProc(s, [procs[s] EXCEPT !.pgid = g, !.sid = h]), next_pid' = next_pid
  PROVE  SameIdentities
<1>1. PICK r \in Proc : r = procs[s]
  BY DEF TypeInv, TypeOK
<1>2. PICK e : e = [r EXCEPT !.pgid = g, !.sid = h]
  OBVIOUS
<1>3. e \in Proc /\ e.pid = r.pid /\ e.ppid = r.ppid
  BY <1>2 DEF Proc
<1>4. SetProc(s, e)
  BY <1>1, <1>2
<1> QED
  BY <1>1, <1>3, <1>4, OneEntry

LEMMA IdentitiesKept ==
  ASSUME TypeInv, NEW p \in Pid, Internal(p) \/ GuestCall(p) \/ SpuriousWakeup(p), ~ForkAlloc(p)
  PROVE  SameIdentities
<1> DEFINE s == thr[p].ptr
<1>1. next_pid' = next_pid
  BY DEF Internal, GuestCall, SpuriousWakeup, ForkIds, ForkMemory, ForkSpawn, ThreadStart,
         ThreadEnd, ProcExitState, ProcExitCode, ProcExitFlag, WaitCheck, WaitFree,
         SetpgidWrite, GuestReturns, ExitCall, KillCall, WaitFind, WaitAny, SetpgidFind, Setsid
<1>2. CASE procs' = procs
  BY <1>1, <1>2 DEF SameIdentities
<1>3. ASSUME thr[p].call # "none"
      PROVE  s \in Slot /\ procs[s] \in Proc /\ thr[p].pid \in 0 .. MaxPid /\ thr[p].code \in Int
             /\ proc[p] \in Slot
  BY <1>3, InCallFacts DEF Thread
<1>4. CASE ForkIds(p)
  <2>1. thr[p].call # "none"
    BY <1>4 DEF ForkIds, At
  <2>2. procs[proc[p]] \in Proc
    BY <1>3, <2>1 DEF TypeInv, TypeOK
  <2>3. procs[proc[p]].pgid \in 0 .. MaxPid /\ procs[proc[p]].sid \in 0 .. MaxPid
    BY <2>2 DEF Proc
  <2>4. SetProc(s, [procs[s] EXCEPT !.pgid = procs[proc[p]].pgid, !.sid = procs[proc[p]].sid])
    BY <1>4 DEF ForkIds
  <2> QED
    BY <1>1, <1>3, <2>1, <2>3, <2>4, SetGroupKeeps
<1>5. CASE ForkMemory(p) \/ ForkSpawn(p) \/ ProcExitState(p) \/ WaitFree(p)
  <2>1. thr[p].call # "none"
    BY <1>5 DEF ForkMemory, ForkSpawn, ProcExitState, WaitFree, At, Dying, Waiting
  <2>2. procs' = procs \/ \E st \in State : SetState(s, st)
    BY <1>5 DEF ForkMemory, ForkSpawn, ProcExitState, WaitFree, FreeSlot, State
  <2> QED
    BY <1>1, <1>2, <1>3, <2>1, <2>2, SetStateKeeps
<1>6. CASE ProcExitCode(p)
  <2>1. thr[p].call # "none" /\ SetProc(s, [procs[s] EXCEPT !.exit_code = thr[p].code])
    BY <1>6 DEF ProcExitCode, At, Dying
  <2> QED
    BY <1>1, <1>3, <2>1, CodeFacts, OneEntry
<1>7. CASE ProcExitFlag(p)
  <2>1. thr[p].call # "none" /\ SetProc(s, [procs[s] EXCEPT !.exited = TRUE])
    BY <1>7 DEF ProcExitFlag, At, Dying
  <2> QED
    BY <1>1, <1>3, <2>1, FlagFacts, OneEntry
<1>8. CASE SetpgidWrite(p)
  <2>1. thr[p].call # "none" /\ SetProc(s, [procs[s] EXCEPT !.pgid = thr[p].pid])
    BY <1>8 DEF SetpgidWrite, At
  <2> QED
    BY <1>1, <1>3, <2>1, PgidFacts, OneEntry
<1>9. CASE WaitAny(p)
  <2>1. \E t \in Slot : SetState(t, "FREE")
    BY <1>9 DEF WaitAny, FreeSlot
  <2> QED
    BY <1>1, <2>1, SetStateKeeps DEF State
<1>10. CASE Setsid(p)
  <2>1. proc[p] \in Slot /\ MyPid(p) \in 0 .. MaxPid
    BY <1>10, InGuestFacts DEF Setsid
  <2>2. SetProc(proc[p], [procs[proc[p]] EXCEPT !.pgid = MyPid(p), !.sid = MyPid(p)])
    BY <1>10 DEF Setsid
  <2> QED
    BY <1>1, <2>1, <2>2, SetGroupKeeps
<1> QED
  BY <1>2, <1>4, <1>5, <1>6, <1>7, <1>8, <1>9, <1>10
  DEF Internal, GuestCall, SpuriousWakeup, ThreadStart, ThreadEnd, WaitCheck, GuestReturns,
      ExitCall, KillCall, WaitFind, SetpgidFind

LEMMA PidsUniqueNext ==
  TypeInv /\ PidsUnique /\ [Next]_vars => PidsUnique'
<1> SUFFICES ASSUME TypeInv, PidsUnique, [Next]_vars PROVE PidsUnique'
  OBVIOUS
<1>1. ASSUME SameIdentities PROVE PidsUnique'
  BY <1>1 DEF SameIdentities, PidsUnique
<1>2. CASE CreateInit
  <2> DEFINE e == NewProc(InitPid, 0)
  <2>1. e \in Proc /\ e.pid = 1 /\ e.ppid = 0
    BY NewProcFacts
  <2>2. PICK st \in State : SetProc(1, [e EXCEPT !.state = st])
    BY <1>2 DEF CreateInit, State
  <2> DEFINE f == [e EXCEPT !.state = st]
  <2> HIDE DEF e
  <2>3. f \in Proc /\ f.pid = 1 /\ f.ppid = 0
    BY <2>1, StateFacts
  <2> HIDE DEF f
  <2>4. \A t \in Slot : procs'[t] = IF t = 1 THEN f ELSE procs[t]
    BY <2>2, <2>3, SlotPid, Written DEF TypeInv, TypeOK, f
  <2>5. next_pid = 1 /\ next_pid' = 2
    BY <1>2 DEF CreateInit, NextPid
  <2>6. \A t \in Slot : procs[t].pid \in 0 .. MaxPid
    BY DEF TypeInv, TypeOK, Proc
  <2> QED
    BY <2>3, <2>4, <2>5, <2>6 DEF PidsUnique
<1>3. ASSUME NEW p \in Pid, ForkAlloc(p) PROVE PidsUnique'
  <2>1. proc[p] \in Slot /\ MyPid(p) \in 0 .. MaxPid
    BY <1>3, InGuestFacts DEF ForkAlloc
  <2>2. next_pid \in Pid
    BY <1>3 DEF ForkAlloc, TypeInv, TypeOK, Pid
  <2>3. PICK s \in Slot : SetProc(s, NewProc(next_pid, MyPid(p)))
    BY <1>3 DEF ForkAlloc
  <2> DEFINE e == NewProc(next_pid, MyPid(p))
  <2>4. e \in Proc /\ e.pid = next_pid /\ e.ppid = MyPid(p)
    BY <2>1, <2>2, NewProcFacts DEF Pid
  <2> HIDE DEF e
  <2>5. \A t \in Slot : procs'[t] = IF t = s THEN e ELSE procs[t]
    BY <2>3, <2>4, Written DEF TypeInv, TypeOK, e
  <2>6. next_pid' = next_pid + 1
    BY <1>3 DEF ForkAlloc, NextPid
  <2>7. \A t \in Slot : procs[t].pid \in 0 .. MaxPid /\ procs[t].ppid \in 0 .. MaxPid
    BY DEF TypeInv, TypeOK, Proc
  <2>8. MyPid(p) < next_pid
    BY <2>1, <2>2, <2>7 DEF PidsUnique, MyPid, Pid
  <2> QED
    BY <2>1, <2>2, <2>4, <2>5, <2>6, <2>7, <2>8 DEF PidsUnique, Pid
<1>4. CASE UNCHANGED vars
  BY <1>4 DEF vars, PidsUnique
<1> QED
  BY <1>1, <1>2, <1>3, <1>4, IdentitiesKept DEF Next

\* Whatever the guests do, kill and every race included, no two slots hold
\* the same pid and every process is younger than its parent.
THEOREM PidsAreUnique == Spec => []PidsUnique
<1>1. Init => PidsUnique
  BY DEF Init, PidsUnique, EmptyProc
<1>2. Spec => []TypeInv
  BY TypeInit, TypeNext, PTL DEF Spec
<1> QED
  BY <1>1, <1>2, PidsUniqueNext, PTL DEF Spec

-----------------------------------------------------------------------------
(* Guests that wait for their children by pid *)

Inv == TypeInv /\ PidsUnique /\ ByPidInv

-----------------------------------------------------------------------------
(* What the invariant says of one thread and of one slot *)

LEMMA AliveFacts ==
  ASSUME Inv, NEW p \in Pid, Alive(p)
  PROVE  /\ proc[p] \in Slot /\ procs[proc[p]] \in Proc
         /\ MyPid(p) = p
         /\ ~procs[proc[p]].exited
         /\ procs[proc[p]].state = IF Exiting(p) THEN "ZOMBIE" ELSE "RUNNING"
<1>1. thr[p].pc # "none"
  BY DEF Alive
<1>2. proc[p] \in Slot
  BY <1>1, HasSlot DEF Inv
<1> QED
  BY <1>2 DEF Inv, ByPidInv, ThreadSlots, MyPid, TypeInv, TypeOK

\* A process that runs or exits is in nobody's hands: no fork is making its
\* slot, no wait has found it over, and it was not returned.
LEMMA AliveAlone ==
  ASSUME Inv, NEW p \in Pid, Alive(p)
  PROVE  /\ reaped[p] = 0
         /\ \A q \in Pid : Alive(q) /\ proc[q] = proc[p] => q = p
         /\ \A q \in Pid : thr[q].call = "fork" => thr[q].ptr # proc[p] /\ thr[q].pid # p
         /\ \A q \in Pid : thr[q].call \in Waiting /\ thr[q].pc = "free" => thr[q].ptr # proc[p]
<1>1. proc[p] \in Slot /\ procs[proc[p]].pid = p /\ ~procs[proc[p]].exited
  BY AliveFacts DEF MyPid
<1>2. thr[p].pc \notin Ended \cup {"none"} /\ reaped[p] \in 0 .. MaxReports
  BY DEF Alive, Ended, Inv, TypeInv, TypeOK
<1>3. reaped[p] = 0
  BY <1>2 DEF Inv, ByPidInv, Reports, MaxReports
<1>4. \A q \in Pid : Alive(q) /\ proc[q] = proc[p] => q = p
  BY <1>1, AliveFacts DEF MyPid
<1>5. \A q \in Pid : thr[q].call = "fork" => thr[q].ptr # proc[p] /\ thr[q].pid # p
  BY <1>1, <1>2 DEF Inv, ByPidInv, ForkSlots
<1>6. \A q \in Pid : thr[q].call \in Waiting /\ thr[q].pc = "free" => thr[q].ptr # proc[p]
  BY <1>1 DEF Inv, ByPidInv, WaitSlots
<1> QED
  BY <1>3, <1>4, <1>5, <1>6

\* The slot of a fork in progress is in no other thread's hands.
LEMMA ForkAlone ==
  ASSUME Inv, NEW p \in Pid, thr[p].call = "fork"
  PROVE  LET s == thr[p].ptr
             k == thr[p].pid
         IN  /\ s \in Slot /\ k \in Pid /\ k < next_pid /\ k # p
             /\ procs[s] \in Proc /\ procs[s].pid = k /\ procs[s].ppid = p
             /\ ~procs[s].exited /\ thr[k].pc = "none" /\ reaped[k] = 0
             /\ \A q \in Pid : Alive(q) => proc[q] # s
             /\ \A q \in Pid \ {p} :
                  thr[q].call \in {"fork"} \cup Waiting => thr[q].ptr # s /\ thr[q].pid # k
             /\ lock[s] = NULL
<1> DEFINE s == thr[p].ptr
           k == thr[p].pid
<1>1. s \in Slot /\ k \in Pid /\ procs[s] \in Proc /\ thr[p].pc \notin {"none"} \cup Ended
  BY InCallFacts DEF Inv, TypeInv, CallsHold
<1>2. procs[s].pid = k /\ procs[s].ppid = p /\ ~procs[s].exited /\ thr[k].pc = "none"
  BY DEF Inv, ByPidInv, ForkSlots
<1>3. k < next_pid /\ k # p
  BY <1>1, <1>2 DEF Inv, PidsUnique, Pid
<1>4. reaped[k] = 0
  <2>1. reaped[k] \in 0 .. MaxReports
    BY <1>1 DEF Inv, TypeInv, TypeOK
  <2> QED
    BY <1>1, <1>2, <2>1 DEF Inv, ByPidInv, Reports, Ended, MaxReports
<1>5. \A q \in Pid : Alive(q) => proc[q] # s
  BY AliveAlone
<1>6. ASSUME NEW q \in Pid \ {p}, thr[q].call \in {"fork"} \cup Waiting
      PROVE  thr[q].ptr # s /\ thr[q].pid # k
  <2>1. thr[q].ptr \in Slot /\ procs[thr[q].ptr].pid = thr[q].pid /\ procs[thr[q].ptr].ppid = q
    BY <1>6, InCallFacts DEF Inv, ByPidInv, ForkSlots, WaitSlots, Matches, Waiting
  <2> QED
    BY <1>1, <1>2, <2>1 DEF Inv, PidsUnique, Pid
<1>7. lock[s] = NULL
  <2>1. lock[s] # NULL => lock[s] \in Pid /\ Alive(lock[s]) /\ proc[lock[s]] = s
    BY <1>1 DEF Inv, TypeInv, TypeOK, ByPidInv, LockHolders, Exiting, Alive
  <2> QED
    BY <1>5, <2>1
<1> QED
  BY <1>1, <1>2, <1>3, <1>4, <1>5, <1>6, <1>7

-----------------------------------------------------------------------------
(* Steps that write nothing to the table that the invariant speaks of *)

SameEntries ==
  \A s \in Slot : /\ procs'[s].pid = procs[s].pid
                  /\ procs'[s].ppid = procs[s].ppid
                  /\ procs'[s].state = procs[s].state
                  /\ procs'[s].exited = procs[s].exited
                  /\ procs'[s].exit_code = procs[s].exit_code

\* Frame f, under which thread p goes on, agrees with the table.
Agrees(p, f) ==
  /\ f.pc # "none" /\ f.call # "kill"
  /\ thr[p].pc \in Ended => f.pc \in Ended
  /\ f.pc \notin {"none", "leave", "gone"} => Alive(p)
  /\ f.call = "exit" => f.pc = "state" /\ f.ptr = proc[p] /\ f.code \in declared'[p]
  /\ f.call = "fork" =>
       /\ thr[p].call = "fork" /\ f.ptr = thr[p].ptr /\ f.pid = thr[p].pid
       /\ f.pc = "spawn" => procs[f.ptr].state = "RUNNING"
  /\ f.call \in Waiting =>
       /\ f.ptr \in Slot /\ Matches(f.ptr, f.pid)
       /\ procs[f.ptr].ppid = p
       /\ f.pc = "sleep" => ~procs[f.ptr].exited
       /\ f.pc = "free" => procs[f.ptr].exited /\ f.code = procs[f.ptr].exit_code

LEMMA Moves ==
  ASSUME Inv, TypeInv', NEW p \in Pid, NEW f, Agrees(p, f),
         thr[p].pc # "none", ~Exiting(p), SameEntries,
         \A q \in Pid : thr'[q] = IF q = p THEN f ELSE thr[q],
         \A q \in Pid : declared[q] \subseteq declared'[q],
         UNCHANGED <<next_pid, lock, proc, reaped, status>>
  PROVE  ByPidInv'
<1>1. NoKills'
  BY DEF Inv, ByPidInv, NoKills, Agrees
<1>2. UnusedPids'
  BY DEF Inv, ByPidInv, UnusedPids, SameEntries
<1>3. ~(f.call = "exit" /\ f.pc \in {"code", "flag"})
  BY DEF Agrees
<1>4. \A q \in Pid : /\ Alive(q)' => Alive(q)
                     /\ Exiting(q)' <=> Exiting(q)
  BY <1>3 DEF Alive, Exiting, Agrees
<1>5. ThreadSlots'
  <2> SUFFICES ASSUME NEW q \in Pid, Alive(q)'
               PROVE  /\ procs'[proc'[q]].pid = q
                      /\ ~procs'[proc'[q]].exited
                      /\ procs'[proc'[q]].state = IF Exiting(q)' THEN "ZOMBIE" ELSE "RUNNING"
    BY DEF ThreadSlots
  <2>1. Alive(q) /\ (Exiting(q)' <=> Exiting(q)) /\ proc'[q] = proc[q]
    BY <1>4
  <2> QED
    BY <2>1, AliveFacts DEF SameEntries, MyPid
<1>6. ExitSlots'
  <2> SUFFICES ASSUME NEW q \in Pid, thr'[q].call = "exit"
               PROVE  /\ thr'[q].ptr = proc[q]
                      /\ thr'[q].code \in declared'[q]
                      /\ thr'[q].pc \in {"state", "code", "flag"}
                      /\ thr'[q].pc = "flag" => procs'[proc[q]].exit_code = thr'[q].code
    BY DEF ExitSlots
  <2>1. CASE q = p
    BY <2>1 DEF Agrees
  <2>2. CASE q # p
    <3>1. thr'[q] = thr[q] /\ thr[q].pc \in {"state", "code", "flag"}
      BY <2>2 DEF Inv, ByPidInv, ExitSlots
    <3>2. proc[q] \in Slot
      BY <3>1, AliveFacts DEF Alive
    <3> QED
      BY <3>1, <3>2 DEF Inv, ByPidInv, ExitSlots, SameEntries
  <2> QED
    BY <2>1, <2>2
<1>7. ForkSlots'
  <2> SUFFICES ASSUME NEW q \in Pid, thr'[q].call = "fork"
               PROVE  /\ procs'[thr'[q].ptr].pid = thr'[q].pid
                      /\ procs'[thr'[q].ptr].ppid = q
                      /\ procs'[thr'[q].ptr].state \in {"READY", "RUNNING"}
                      /\ thr'[q].pc = "spawn" => procs'[thr'[q].ptr].state = "RUNNING"
                      /\ ~procs'[thr'[q].ptr].exited
                      /\ thr'[thr'[q].pid].pc = "none"
    BY DEF ForkSlots
  <2>1. /\ thr[q].call = "fork" /\ thr'[q].ptr = thr[q].ptr /\ thr'[q].pid = thr[q].pid
        /\ thr'[q].pc = "spawn" => procs[thr[q].ptr].state = "RUNNING"
    BY DEF Agrees, Inv, ByPidInv, ForkSlots
  <2>2. thr[q].ptr \in Slot /\ thr[q].pid \in Pid /\ thr[thr[q].pid].pc = "none"
    BY <2>1, ForkAlone
  <2>3. thr'[thr[q].pid] = thr[thr[q].pid]
    BY <2>2
  <2> QED
    BY <2>1, <2>2, <2>3 DEF Inv, ByPidInv, ForkSlots, SameEntries
<1>8. WaitSlots'
  <2> SUFFICES ASSUME NEW q \in Pid, thr'[q].call \in Waiting
               PROVE  /\ procs'[thr'[q].ptr].pid = thr'[q].pid
                      /\ procs'[thr'[q].ptr].state # "FREE"
                      /\ procs'[thr'[q].ptr].ppid = q
                      /\ thr'[q].pc = "sleep" => ~procs'[thr'[q].ptr].exited
                      /\ thr'[q].pc = "free" => /\ procs'[thr'[q].ptr].exited
                                                /\ thr'[q].code = procs'[thr'[q].ptr].exit_code
    BY DEF WaitSlots, Matches
  <2> DEFINE s == thr'[q].ptr
  <2>1. /\ s \in Slot /\ Matches(s, thr'[q].pid) /\ procs[s].ppid = q
        /\ thr'[q].pc = "sleep" => ~procs[s].exited
        /\ thr'[q].pc = "free" => procs[s].exited /\ thr'[q].code = procs[s].exit_code
    <3>1. CASE q = p
      BY <3>1 DEF Agrees
    <3>2. CASE q # p
      <4>1. thr'[q] = thr[q] /\ thr[q].call \in Waiting /\ thr[q].call # "none"
        BY <3>2 DEF Waiting
      <4> QED
        BY <4>1, InCallFacts DEF Inv, ByPidInv, WaitSlots
    <3> QED
      BY <3>1, <3>2
  <2> QED
    BY <2>1 DEF SameEntries, Matches
<1>9. ExitedSlots'
  <2> SUFFICES ASSUME NEW s \in Slot, procs'[s].state # "FREE", procs'[s].exited
               PROVE  /\ procs'[s].state = "ZOMBIE"
                      /\ thr'[procs'[s].pid].pc \in Ended
                      /\ procs'[s].exit_code \in declared'[procs'[s].pid]
    BY DEF ExitedSlots
  <2>1. /\ procs[s].state = "ZOMBIE" /\ procs[s].pid \in Pid
        /\ thr[procs[s].pid].pc \in Ended
        /\ procs[s].exit_code \in declared[procs[s].pid]
    BY DEF SameEntries, Inv, ByPidInv, ExitedSlots, UnusedPids
  <2> QED
    BY <2>1 DEF SameEntries, Agrees
<1>10. LockHolders'
  <2> SUFFICES ASSUME NEW s \in Slot, lock'[s] # NULL
               PROVE  /\ thr'[lock'[s]].call = "exit" /\ thr'[lock'[s]].pc \in {"code", "flag"}
                      /\ proc'[lock'[s]] = s
    BY DEF LockHolders, Exiting
  <2>1. lock'[s] = lock[s] /\ lock[s] \in Pid /\ Exiting(lock[s]) /\ proc[lock[s]] = s
    BY DEF Inv, TypeInv, TypeOK, ByPidInv, LockHolders
  <2>2. thr'[lock[s]] = thr[lock[s]]
    BY <2>1
  <2> QED
    BY <2>1, <2>2 DEF Exiting
<1>11. Reports'
  <2> SUFFICES ASSUME NEW q \in Pid, reaped'[q] > 0
               PROVE  /\ reaped'[q] = 1
                      /\ thr'[q].pc \in Ended
                      /\ \A s \in Slot : ~Matches(s, q)'
                      /\ \E c \in declared'[q] : status'[q] = WStatus(c)
    BY DEF Reports
  <2>1. /\ reaped[q] = 1 /\ thr[q].pc \in Ended
        /\ \A s \in Slot : ~Matches(s, q)
        /\ \E c \in declared[q] : status[q] = WStatus(c)
    BY DEF Inv, ByPidInv, Reports
  <2> QED
    BY <2>1 DEF SameEntries, Matches, Agrees
<1> QED
  BY <1>1, <1>2, <1>5, <1>6, <1>7, <1>8, <1>9, <1>10, <1>11 DEF ByPidInv

LEMMA SameTable ==
  ASSUME procs' = procs
  PROVE  SameEntries
BY DEF SameEntries

\* A step that writes groups only.
LEMMA SameButGroups ==
  ASSUME TypeInv, NEW s \in Slot, NEW e \in Proc, SetProc(s, e),
         e.pid = procs[s].pid, e.ppid = procs[s].ppid, e.state = procs[s].state,
         e.exited = procs[s].exited, e.exit_code = procs[s].exit_code
  PROVE  SameEntries
BY Written DEF SameEntries, TypeInv, TypeOK

LEMMA ThreadSteps ==
  ASSUME Inv, TypeInv', NEW p \in Pid,
         ThreadStart(p) \/ GuestReturns(p) \/ ThreadEnd(p) \/ SpuriousWakeup(p)
  PROVE  ByPidInv'
<1>1. /\ thr[p].pc \in {"start", "run", "leave", "sleep"} /\ thr[p] \in Thread
      /\ thr[p].pc = "sleep" => thr[p].call = "waitpid"
      /\ thr[p].pc # "sleep" => thr[p].call = "none"
      /\ thr[p].pc = "leave" => ThreadEnd(p)
  BY GuestFacts DEF ThreadStart, GuestReturns, ThreadEnd, SpuriousWakeup, At, InGuest, Inv,
                    TypeInv, TypeOK
<1> DEFINE woken == [thr[p] EXCEPT !.pc = "lock"]
<1>2. woken \in Thread /\ woken.pc = "lock" /\ woken.call = thr[p].call
      /\ woken.ptr = thr[p].ptr /\ woken.pid = thr[p].pid
  BY <1>1, StepFacts DEF Point
<1>3. SpuriousWakeup(p) => Goto(p, woken) /\ thr[p].pc = "sleep"
  BY DEF SpuriousWakeup, Step, At
<1> HIDE DEF woken
<1>4. PICK f \in Thread : Goto(p, f) /\ Agrees(p, f)
  <2>1. CASE SpuriousWakeup(p)
    <3>1. thr[p].call = "waitpid" /\ thr[p].ptr \in Slot
      BY <1>1, <1>3, <2>1, InCallFacts DEF Inv
    <3>2. Agrees(p, woken)
      BY <1>2, <1>3, <2>1, <3>1 DEF Agrees, Ended, Alive, Inv, ByPidInv, WaitSlots, Waiting
    <3> QED
      BY <1>2, <1>3, <2>1, <3>2
  <2>2. CASE ThreadStart(p) \/ GuestReturns(p) \/ ThreadEnd(p)
    <3>1. /\ Agrees(p, Gone)
          /\ thr[p].pc \notin Ended => Agrees(p, Leaving)
          /\ thr[p].pc = "start" => Agrees(p, Guest)
      BY <1>1, GuestFacts DEF Agrees, Ended, Alive, Waiting
    <3>2. (ThreadStart(p) => thr[p].pc = "start") /\ (GuestReturns(p) => thr[p].pc = "run")
      BY GuestFacts DEF ThreadStart, At, GuestReturns, InGuest
    <3> QED
      BY <2>2, <3>1, <3>2, GuestFacts DEF ThreadStart, GuestReturns, ThreadEnd, Ended
  <2> QED
    BY <2>1, <2>2
<1>5. UNCHANGED <<procs, next_pid, lock, proc, declared, reaped, status>>
  BY DEF ThreadStart, GuestReturns, ThreadEnd, SpuriousWakeup, ghosts
<1>6. thr[p].pc # "none" /\ ~Exiting(p)
  BY <1>1 DEF Exiting
<1>7. \A q \in Pid : thr'[q] = IF q = p THEN f ELSE thr[q]
  BY <1>4, Moved DEF Inv, TypeInv, TypeOK
<1> QED
  BY <1>4, <1>5, <1>6, <1>7, SameTable, Moves

LEMMA GuestCalls ==
  ASSUME Inv, TypeInv', NEW p \in Pid, ExitCall(p) \/ WaitFind(p) \/ SetpgidFind(p)
  PROVE  ByPidInv'
<1>1. /\ thr[p].pc = "run" /\ thr[p].call = "none" /\ thr[p] \in Thread
      /\ proc[p] \in Slot /\ MyPid(p) \in 0 .. MaxPid
  BY InGuestFacts DEF ExitCall, WaitFind, SetpgidFind, Inv
<1>2. Alive(p) /\ ~Exiting(p) /\ thr[p].pc \notin Ended
  BY <1>1 DEF Alive, Exiting, Ended
<1>3. MyPid(p) = p
  BY <1>2, AliveFacts
<1>4. UNCHANGED <<procs, next_pid, lock, proc, reaped, status>>
  BY DEF ExitCall, WaitFind, SetpgidFind, ghosts
<1>5. \A q \in Pid : declared[q] \subseteq declared'[q]
  BY DEF ExitCall, WaitFind, SetpgidFind, ghosts, Inv, TypeInv, TypeOK
<1>6. PICK f \in Thread : Goto(p, f) /\ Agrees(p, f)
  <2>1. CASE ExitCall(p)
    <3>1. PICK c \in Codes : Goto(p, Frame("exit", "state", proc[p], 0, c)) /\ c \in declared'[p]
      BY <2>1 DEF ExitCall, Inv, TypeInv, TypeOK
    <3> DEFINE f == Frame("exit", "state", proc[p], 0, c)
    <3>2. c \in Int /\ 0 \in 0 .. MaxPid
      OBVIOUS
    <3>3. f \in Thread /\ f.call = "exit" /\ f.pc = "state" /\ f.ptr = proc[p] /\ f.code = c
      BY <1>1, <3>2, FrameFits DEF Call, Point, Ended, Fits
    <3> HIDE DEF f
    <3>4. Agrees(p, f)
      BY <1>2, <3>1, <3>3 DEF Agrees, Ended, Waiting
    <3> QED
      BY <3>1, <3>3, <3>4 DEF f
  <2>2. CASE WaitFind(p)
    <3>1. PICK call \in Waiting, pid \in Pid, s \in Slot :
            /\ Matches(s, pid) /\ procs[s].ppid = p
            /\ Goto(p, Frame(call, "lock", s, pid, 0))
      BY <1>3, <2>2 DEF WaitFind, ProcFind, IsChild
    <3> DEFINE f == Frame(call, "lock", s, pid, 0)
    <3>2. f \in Thread /\ f.call = call /\ f.pc = "lock" /\ f.ptr = s /\ f.pid = pid
      BY FrameFits DEF Call, Point, Pid, Waiting, Ended, Fits
    <3> HIDE DEF f
    <3>3. Agrees(p, f)
      BY <1>2, <3>1, <3>2 DEF Agrees, Ended, Waiting
    <3> QED
      BY <3>1, <3>2, <3>3 DEF f
  <2>3. CASE SetpgidFind(p)
    <3>1. PICK pid \in Pid \cup {0}, pgid \in Pid \cup {0}, s \in Slot :
            LET target  == IF pid = 0 THEN MyPid(p) ELSE pid
                newpgid == IF pgid = 0 THEN target ELSE pgid
            IN  Goto(p, Frame("setpgid", "write", s, newpgid, 0))
      BY <2>3 DEF SetpgidFind
    <3> DEFINE g == IF pgid = 0 THEN IF pid = 0 THEN MyPid(p) ELSE pid ELSE pgid
    <3>2. g \in 0 .. MaxPid
      BY <1>1 DEF Pid
    <3>3. Goto(p, Frame("setpgid", "write", s, g, 0))
      BY <3>1
    <3> HIDE DEF g
    <3> DEFINE f == Frame("setpgid", "write", s, g, 0)
    <3>4. f \in Thread /\ f.call = "setpgid" /\ f.pc = "write"
      BY <3>2, FrameFacts DEF Call, Point, Slot
    <3> HIDE DEF f
    <3>5. Agrees(p, f)
      BY <1>2, <3>4 DEF Agrees, Ended, Waiting
    <3> QED
      BY <3>3, <3>4, <3>5 DEF f
  <2> QED
    BY <2>1, <2>2, <2>3
<1>7. \A q \in Pid : thr'[q] = IF q = p THEN f ELSE thr[q]
  BY <1>6, Moved DEF Inv, TypeInv, TypeOK
<1> QED
  BY <1>1, <1>2, <1>4, <1>5, <1>6, <1>7, SameTable, Moves

LEMMA WaitChecks ==
  ASSUME Inv, TypeInv', NEW p \in Pid, WaitCheck(p)
  PROVE  ByPidInv'
<1>1. /\ thr[p].pc = "lock" /\ thr[p].call \in Waiting /\ thr[p].call # "none" /\ thr[p] \in Thread
      /\ UNCHANGED <<procs, next_pid, lock, proc, declared, reaped, status>>
  BY DEF WaitCheck, At, Waiting, ghosts, Inv, TypeInv, TypeOK
<1>2. Alive(p) /\ ~Exiting(p) /\ thr[p].pc \notin Ended \cup {"none"}
  BY <1>1 DEF Alive, Exiting, Ended
<1>3. /\ thr[p].ptr \in Slot /\ procs[thr[p].ptr] \in Proc
      /\ Matches(thr[p].ptr, thr[p].pid) /\ procs[thr[p].ptr].ppid = p
  BY <1>1, InCallFacts DEF Inv, ByPidInv, WaitSlots
<1> DEFINE c == procs[thr[p].ptr].exit_code
           over == [thr[p] EXCEPT !.pc = "free", !.code = c]
           asleep == [thr[p] EXCEPT !.pc = "sleep"]
<1>4. \/ HasExited(p) /\ Goto(p, over)
      \/ ~HasExited(p) /\ Goto(p, asleep)
      \/ Goto(p, Guest)
  BY DEF WaitCheck, Step
<1>5. c \in Int
  BY <1>3 DEF Proc
<1>6. /\ over \in Thread /\ over.call = thr[p].call /\ over.pc = "free" /\ over.ptr = thr[p].ptr
      /\ over.pid = thr[p].pid /\ over.code = c
  BY <1>1, <1>5 DEF Thread, Point
<1>7. /\ asleep \in Thread /\ asleep.call = thr[p].call /\ asleep.pc = "sleep"
      /\ asleep.ptr = thr[p].ptr /\ asleep.pid = thr[p].pid
  BY <1>1, StepFacts DEF Point
<1> HIDE DEF over, asleep
<1>8. PICK f \in Thread : Goto(p, f) /\ Agrees(p, f)
  <2>1. HasExited(p) => Agrees(p, over)
    BY <1>1, <1>2, <1>3, <1>6 DEF Agrees, HasExited, Waiting
  <2>2. ~HasExited(p) => Agrees(p, asleep)
    BY <1>1, <1>2, <1>3, <1>7 DEF Agrees, HasExited, Waiting
  <2>3. Agrees(p, Guest)
    BY <1>2, GuestFacts DEF Agrees, Waiting
  <2> QED
    BY <1>4, <1>6, <1>7, <2>1, <2>2, <2>3, GuestFacts
<1>9. \A q \in Pid : thr'[q] = IF q = p THEN f ELSE thr[q]
  BY <1>8, Moved DEF Inv, TypeInv, TypeOK
<1> QED
  BY <1>1, <1>2, <1>8, <1>9, SameTable, Moves

LEMMA GroupEntries ==
  ASSUME Inv, NEW p \in Pid, ForkIds(p) \/ SetpgidWrite(p) \/ Setsid(p)
  PROVE  SameEntries
<1>1. /\ thr[p].pc \in {"ids", "write", "run"} /\ thr[p] \in Thread
      /\ thr[p].pc = "ids" => thr[p].call = "fork"
      /\ thr[p].pc = "write" => thr[p].call = "setpgid"
      /\ thr[p].pc = "run" => thr[p].call = "none"
      /\ UNCHANGED <<next_pid, lock, proc, declared, reaped, status>>
  BY GuestFacts DEF ForkIds, SetpgidWrite, Setsid, At, InGuest, ghosts, Inv, TypeInv, TypeOK
<1>2. Alive(p) /\ ~Exiting(p) /\ thr[p].pc \notin Ended \cup {"none"}
  BY <1>1 DEF Alive, Exiting, Ended
<1>3. proc[p] \in Slot /\ procs[proc[p]] \in Proc /\ MyPid(p) = p
  BY <1>2, AliveFacts
<1>4. thr[p].call # "none" => thr[p].ptr \in Slot /\ procs[thr[p].ptr] \in Proc
  BY InCallFacts DEF Inv
<1>5. PICK s \in Slot, g \in 0 .. MaxPid, h \in 0 .. MaxPid :
        \/ SetProc(s, [procs[s] EXCEPT !.pgid = g, !.sid = h])
        \/ SetProc(s, [procs[s] EXCEPT !.pgid = g])
  <2>1. CASE ForkIds(p)
    <3>1. procs[proc[p]].pgid \in 0 .. MaxPid /\ procs[proc[p]].sid \in 0 .. MaxPid
      BY <1>3 DEF Proc
    <3>2. thr[p].ptr \in Slot
      BY <1>4, <2>1 DEF ForkIds, At
    <3> QED
      BY <2>1, <3>1, <3>2 DEF ForkIds
  <2>2. CASE SetpgidWrite(p)
    <3>1. thr[p].pid \in 0 .. MaxPid /\ thr[p].ptr \in Slot
      BY <1>1, <1>4, <2>2 DEF SetpgidWrite, At, Thread
    <3> QED
      BY <2>2, <3>1 DEF SetpgidWrite
  <2>3. CASE Setsid(p)
    <3>1. SetProc(proc[p], [procs[proc[p]] EXCEPT !.pgid = MyPid(p), !.sid = MyPid(p)])
      BY <2>3 DEF Setsid
    <3>2. MyPid(p) \in 0 .. MaxPid
      BY <1>3 DEF Pid
    <3> QED
      BY <1>3, <3>1, <3>2
  <2> QED
    BY <2>1, <2>2, <2>3
<1> QED
  <2> DEFINE r == procs[s]
             e1 == [r EXCEPT !.pgid = g, !.sid = h]
             e2 == [r EXCEPT !.pgid = g]
  <2>1. r \in Proc
    BY DEF Inv, TypeInv, TypeOK
  <2>2. SetProc(s, e1) \/ SetProc(s, e2)
    BY <1>5
  <2> HIDE DEF r
  <2>3. e1 \in Proc /\ e1.pid = r.pid /\ e1.ppid = r.ppid /\ e1.state = r.state
        /\ e1.exited = r.exited /\ e1.exit_code = r.exit_code
    BY <2>1, GroupFacts
  <2>4. e2 \in Proc /\ e2.pid = r.pid /\ e2.ppid = r.ppid /\ e2.state = r.state
        /\ e2.exited = r.exited /\ e2.exit_code = r.exit_code
    BY <2>1, PgidFacts
  <2> HIDE DEF e1, e2
  <2> QED
    BY <2>2, <2>3, <2>4, SameButGroups DEF r, Inv

LEMMA GroupWrites ==
  ASSUME Inv, TypeInv', NEW p \in Pid, ForkIds(p) \/ SetpgidWrite(p) \/ Setsid(p)
  PROVE  ByPidInv'
<1>1. /\ thr[p].pc \in {"ids", "write", "run"} /\ thr[p] \in Thread
      /\ thr[p].pc = "ids" => thr[p].call = "fork"
      /\ thr[p].pc = "write" => thr[p].call = "setpgid"
      /\ thr[p].pc = "run" => thr[p].call = "none"
      /\ UNCHANGED <<next_pid, lock, proc, declared, reaped, status>>
  BY GuestFacts DEF ForkIds, SetpgidWrite, Setsid, At, InGuest, ghosts, Inv, TypeInv, TypeOK
<1>2. Alive(p) /\ ~Exiting(p) /\ thr[p].pc \notin Ended \cup {"none"}
  BY <1>1 DEF Alive, Exiting, Ended
<1> DEFINE next == [thr[p] EXCEPT !.pc = "memory"]
<1>3. next \in Thread /\ next.pc = "memory" /\ next.call = thr[p].call
      /\ next.ptr = thr[p].ptr /\ next.pid = thr[p].pid
  BY <1>1, StepFacts DEF Point
<1>4. \/ Goto(p, next) /\ thr[p].call = "fork"
      \/ Goto(p, Guest)
      \/ thr' = thr /\ thr[p].call = "none"
  BY <1>1, GuestFacts DEF ForkIds, SetpgidWrite, Setsid, Step, At, InGuest
<1> HIDE DEF next
<1>5. PICK f \in Thread : Agrees(p, f) /\ \A q \in Pid : thr'[q] = IF q = p THEN f ELSE thr[q]
  <2>1. thr[p].call = "fork" => Agrees(p, next)
    BY <1>2, <1>3 DEF Agrees, Waiting
  <2>2. Agrees(p, Guest)
    BY <1>2, GuestFacts DEF Agrees, Waiting
  <2>3. thr[p].call = "none" => Agrees(p, thr[p])
    BY <1>1, <1>2 DEF Agrees, Waiting
  <2>4. thr \in [Pid -> Thread]
    BY DEF Inv, TypeInv, TypeOK
  <2> QED
    BY <1>1, <1>3, <1>4, <2>1, <2>2, <2>3, <2>4, GuestFacts, Moved
<1> QED
  BY <1>1, <1>2, <1>5, GroupEntries, Moves

-----------------------------------------------------------------------------
(* Steps of a fork *)

\* A fork writes its slot: it makes it RUNNING, or gives it up.
LEMMA ForkWrites ==
  ASSUME Inv, TypeInv', NEW p \in Pid, thr[p].call = "fork",
         NEW e \in Proc, NEW f \in Thread, SetProc(thr[p].ptr, e), Goto(p, f),
         e.pid = thr[p].pid, e.ppid = p, ~e.exited,
         \/ /\ e.state = "RUNNING" /\ f.call = "fork" /\ f.pc = "spawn"
            /\ f.ptr = thr[p].ptr /\ f.pid = thr[p].pid
         \/ e.state = "FREE" /\ f = Guest,
         UNCHANGED <<next_pid, lock, proc, declared, reaped, status>>
  PROVE  ByPidInv'
<1> DEFINE s == thr[p].ptr
           k == thr[p].pid
<1>1. \A t \in Slot : procs'[t] = IF t = s THEN e ELSE procs[t]
  BY ForkAlone, Written DEF Inv, TypeInv, TypeOK
<1>2. \A q \in Pid : thr'[q] = IF q = p THEN f ELSE thr[q]
  BY Moved DEF Inv, TypeInv, TypeOK
<1>3. /\ s \in Slot /\ k \in Pid /\ k # p /\ thr[k].pc = "none" /\ reaped[k] = 0
      /\ \A q \in Pid : Alive(q) => proc[q] # s
      /\ \A q \in Pid \ {p} :
           thr[q].call \in {"fork"} \cup Waiting => thr[q].ptr # s /\ thr[q].pid # k
  BY ForkAlone
<1>4. thr[p].pc \notin {"none", "run", "start"} \cup Ended /\ Alive(p) /\ ~Exiting(p)
  BY DEF Inv, TypeInv, CallsHold, Alive, Ended, Exiting
<1>5. f.call \notin {"exit", "kill"} \cup Waiting /\ f.pc \in {"run", "spawn"}
  BY GuestFacts DEF Waiting
<1>6. \A q \in Pid : (Alive(q)' => Alive(q)) /\ (Exiting(q)' <=> Exiting(q))
  BY <1>2, <1>4, <1>5 DEF Alive, Exiting
<1> HIDE DEF s, k
<1>7. NoKills'
  BY <1>2, <1>5 DEF Inv, ByPidInv, NoKills
<1>8. UnusedPids'
  BY <1>1, <1>2, <1>3, <1>4, <1>5 DEF Inv, ByPidInv, UnusedPids, k
<1>9. ThreadSlots'
  <2> SUFFICES ASSUME NEW q \in Pid, Alive(q)'
               PROVE  /\ procs'[proc'[q]].pid = q
                      /\ ~procs'[proc'[q]].exited
                      /\ procs'[proc'[q]].state = IF Exiting(q)' THEN "ZOMBIE" ELSE "RUNNING"
    BY DEF ThreadSlots
  <2>1. Alive(q) /\ (Exiting(q)' <=> Exiting(q)) /\ proc'[q] = proc[q] /\ proc[q] # s
    BY <1>3, <1>6
  <2> QED
    BY <1>1, <2>1, AliveFacts DEF MyPid
<1>10. ExitSlots'
  <2> SUFFICES ASSUME NEW q \in Pid, thr'[q].call = "exit"
               PROVE  /\ thr'[q].ptr = proc[q]
                      /\ thr'[q].code \in declared[q]
                      /\ thr'[q].pc \in {"state", "code", "flag"}
                      /\ thr'[q].pc = "flag" => procs'[proc[q]].exit_code = thr'[q].code
    BY DEF ExitSlots
  <2>1. thr'[q] = thr[q] /\ thr[q].pc \in {"state", "code", "flag"}
    BY <1>2, <1>5 DEF Inv, ByPidInv, ExitSlots
  <2>2. proc[q] \in Slot /\ proc[q] # s
    BY <1>3, <2>1, AliveFacts DEF Alive
  <2> QED
    BY <1>1, <2>1, <2>2 DEF Inv, ByPidInv, ExitSlots
<1>11. ForkSlots'
  <2> SUFFICES ASSUME NEW q \in Pid, thr'[q].call = "fork"
               PROVE  /\ procs'[thr'[q].ptr].pid = thr'[q].pid
                      /\ procs'[thr'[q].ptr].ppid = q
                      /\ procs'[thr'[q].ptr].state \in {"READY", "RUNNING"}
                      /\ thr'[q].pc = "spawn" => procs'[thr'[q].ptr].state = "RUNNING"
                      /\ ~procs'[thr'[q].ptr].exited
                      /\ thr'[thr'[q].pid].pc = "none"
    BY DEF ForkSlots
  <2>1. CASE q = p
    BY <1>1, <1>2, <1>3, <2>1, GuestFacts DEF s, k
  <2>2. CASE q # p
    <3>1. thr'[q] = thr[q] /\ thr[q].ptr # s /\ thr[q].ptr \in Slot /\ thr[q].pid \in Pid
          /\ thr[thr[q].pid].pc = "none"
      BY <1>2, <1>3, <2>2, ForkAlone
    <3>2. thr'[thr[q].pid] = thr[thr[q].pid]
      BY <1>2, <1>4, <3>1
    <3> QED
      BY <1>1, <3>1, <3>2 DEF Inv, ByPidInv, ForkSlots
  <2> QED
    BY <2>1, <2>2
<1>12. WaitSlots'
  <2> SUFFICES ASSUME NEW q \in Pid, thr'[q].call \in Waiting
               PROVE  /\ procs'[thr'[q].ptr].pid = thr'[q].pid
                      /\ procs'[thr'[q].ptr].state # "FREE"
                      /\ procs'[thr'[q].ptr].ppid = q
                      /\ thr'[q].pc = "sleep" => ~procs'[thr'[q].ptr].exited
                      /\ thr'[q].pc = "free" => /\ procs'[thr'[q].ptr].exited
                                                /\ thr'[q].code = procs'[thr'[q].ptr].exit_code
    BY DEF WaitSlots, Matches
  <2>1. thr'[q] = thr[q] /\ thr[q].ptr \in Slot /\ thr[q].ptr # s
    BY <1>2, <1>3, <1>5, InCallFacts DEF Inv, Waiting
  <2> QED
    BY <1>1, <2>1 DEF Inv, ByPidInv, WaitSlots, Matches
<1>13. ExitedSlots'
  <2> SUFFICES ASSUME NEW t \in Slot, procs'[t].state # "FREE", procs'[t].exited
               PROVE  /\ procs'[t].state = "ZOMBIE"
                      /\ thr'[procs'[t].pid].pc \in Ended
                      /\ procs'[t].exit_code \in declared'[procs'[t].pid]
    BY DEF ExitedSlots
  <2>1. procs'[t] = procs[t]
    BY <1>1
  <2>2. procs[t].pid \in Pid /\ thr[procs[t].pid].pc \in Ended
    BY <2>1 DEF Inv, ByPidInv, ExitedSlots, UnusedPids
  <2> QED
    BY <1>2, <1>4, <2>1, <2>2 DEF Inv, ByPidInv, ExitedSlots
<1>14. LockHolders'
  <2> SUFFICES ASSUME NEW t \in Slot, lock'[t] # NULL
               PROVE  /\ thr'[lock'[t]].call = "exit" /\ thr'[lock'[t]].pc \in {"code", "flag"}
                      /\ proc'[lock'[t]] = t
    BY DEF LockHolders, Exiting
  <2>1. lock'[t] = lock[t] /\ lock[t] \in Pid /\ Exiting(lock[t]) /\ proc[lock[t]] = t
    BY DEF Inv, TypeInv, TypeOK, ByPidInv, LockHolders
  <2> QED
    BY <1>2, <1>4, <2>1 DEF Exiting
<1>15. Reports'
  <2> SUFFICES ASSUME NEW q \in Pid, reaped[q] > 0
               PROVE  /\ reaped[q] = 1
                      /\ thr'[q].pc \in Ended
                      /\ \A t \in Slot : ~(procs'[t].pid = q /\ procs'[t].state # "FREE")
                      /\ \E c \in declared[q] : status[q] = WStatus(c)
    BY DEF Reports, Matches
  <2>1. /\ reaped[q] = 1 /\ thr[q].pc \in Ended /\ q # k
        /\ \A t \in Slot : ~(procs[t].pid = q /\ procs[t].state # "FREE")
        /\ \E c \in declared[q] : status[q] = WStatus(c)
    BY <1>3 DEF Inv, ByPidInv, Reports, Matches
  <2> QED
    BY <1>1, <1>2, <1>4, <2>1 DEF k
<1> QED
  BY <1>7, <1>8, <1>9, <1>10, <1>11, <1>12, <1>13, <1>14, <1>15 DEF ByPidInv

LEMMA ForkMemoryKeeps ==
  ASSUME Inv, TypeInv', NEW p \in Pid, ForkMemory(p)
  PROVE  ByPidInv'
<1> DEFINE s == thr[p].ptr
           kept == [procs[s] EXCEPT !.state = "RUNNING"]
           given == [procs[s] EXCEPT !.state = "FREE"]
           f == [thr[p] EXCEPT !.pc = "spawn"]
<1>1. thr[p].call = "fork" /\ thr[p] \in Thread
      /\ UNCHANGED <<next_pid, lock, proc, declared, reaped, status>>
  BY DEF ForkMemory, At, ghosts, Inv, TypeInv, TypeOK
<1>2. \/ SetProc(s, kept) /\ Goto(p, f)
      \/ SetProc(s, given) /\ Goto(p, Guest)
  BY DEF ForkMemory, SetState, Step
<1>3. s \in Slot /\ procs[s] \in Proc /\ procs[s].pid = thr[p].pid /\ procs[s].ppid = p
      /\ ~procs[s].exited
  BY <1>1, ForkAlone
<1>4. /\ kept \in Proc /\ kept.state = "RUNNING" /\ kept.pid = thr[p].pid /\ kept.ppid = p
      /\ ~kept.exited
      /\ given \in Proc /\ given.state = "FREE" /\ given.pid = thr[p].pid /\ given.ppid = p
      /\ ~given.exited
  BY <1>3, StateFacts DEF State
<1>5. f \in Thread /\ f.call = "fork" /\ f.pc = "spawn" /\ f.ptr = s /\ f.pid = thr[p].pid
  BY <1>1, StepFacts DEF Point
<1> HIDE DEF kept, given, f
<1> QED
  BY <1>1, <1>2, <1>4, <1>5, ForkWrites, GuestFacts

LEMMA ForkSpawnKeeps ==
  ASSUME Inv, TypeInv', NEW p \in Pid, ForkSpawn(p)
  PROVE  ByPidInv'
<1> PICK s \in Slot, k \in Pid : s = thr[p].ptr /\ k = thr[p].pid
  BY ForkAlone DEF ForkSpawn, At
<1> DEFINE given == [procs[s] EXCEPT !.state = "FREE"]
           start == Frame("none", "start", NULL, 0, 0)
<1>1. /\ thr[p].call = "fork" /\ thr[p].pc = "spawn" /\ thr[p] \in Thread
      /\ procs[s].state = "RUNNING"
      /\ UNCHANGED <<next_pid, lock, declared, reaped, status>>
  BY DEF ForkSpawn, At, ghosts, Inv, TypeInv, TypeOK, ByPidInv, ForkSlots
<1>2. /\ s \in Slot /\ k \in Pid /\ k < next_pid /\ k # p
      /\ procs[s] \in Proc /\ procs[s].pid = k /\ procs[s].ppid = p
      /\ ~procs[s].exited /\ thr[k].pc = "none" /\ reaped[k] = 0
      /\ \A q \in Pid : Alive(q) => proc[q] # s
      /\ \A q \in Pid \ {p} :
           thr[q].call \in {"fork"} \cup Waiting => thr[q].ptr # s /\ thr[q].pid # k
  BY <1>1, ForkAlone
<1>3. given \in Proc /\ given.state = "FREE" /\ given.pid = k /\ given.ppid = p /\ ~given.exited
  BY <1>2, StateFacts DEF State
<1>4. start \in Thread /\ start.call = "none" /\ start.pc = "start"
  BY FrameFacts DEF Call, Point
<1>5. \/ /\ thr' = [thr EXCEPT ![p] = Guest, ![k] = start]
         /\ proc' = [proc EXCEPT ![k] = s]
         /\ UNCHANGED procs
      \/ SetProc(s, given) /\ Goto(p, Guest) /\ UNCHANGED proc
  BY DEF ForkSpawn, SetState
<1> HIDE DEF given, start
<1>6. CASE SetProc(s, given) /\ Goto(p, Guest) /\ UNCHANGED proc
  BY <1>1, <1>3, <1>6, ForkWrites, GuestFacts
<1>7. CASE /\ thr' = [thr EXCEPT ![p] = Guest, ![k] = start]
           /\ proc' = [proc EXCEPT ![k] = s]
           /\ UNCHANGED procs
  <2>1. \A q \in Pid : /\ thr'[q] = IF q = k THEN start ELSE IF q = p THEN Guest ELSE thr[q]
                       /\ proc'[q] = IF q = k THEN s ELSE proc[q]
    BY <1>2, <1>4, <1>7, GuestFacts DEF Inv, TypeInv, TypeOK
  <2>2. procs' = procs
    BY <1>7
  <2>3. Alive(p) /\ ~Exiting(p) /\ ~Exiting(k) /\ thr[p].pc \notin {"none"} \cup Ended
    BY <1>1, <1>2 DEF Alive, Exiting, Ended
  <2>4. \A q \in Pid \ {k} : (Alive(q)' => Alive(q)) /\ (Exiting(q)' <=> Exiting(q))
    BY <2>1, <2>3, GuestFacts DEF Alive, Exiting
  <2>5. ~Exiting(k)'
    BY <1>2, <1>4, <2>1 DEF Exiting
  <2>6. NoKills'
    BY <1>4, <2>1, GuestFacts DEF Inv, ByPidInv, NoKills
  <2>7. UnusedPids'
    <3>1. next_pid \in Int
      BY DEF Inv, TypeInv, TypeOK
    <3>2. \A q \in Pid : q >= next_pid => q # k /\ q # p
      BY <1>2, <2>3, <3>1 DEF Inv, ByPidInv, UnusedPids, Pid
    <3> QED
      BY <1>1, <2>1, <2>2, <3>2 DEF Inv, ByPidInv, UnusedPids
  <2>8. ThreadSlots'
    <3> SUFFICES ASSUME NEW q \in Pid, Alive(q)'
                 PROVE  /\ procs[proc'[q]].pid = q
                        /\ ~procs[proc'[q]].exited
                        /\ procs[proc'[q]].state = IF Exiting(q)' THEN "ZOMBIE" ELSE "RUNNING"
      BY <2>2 DEF ThreadSlots
    <3>1. CASE q = k
      BY <1>1, <1>2, <2>1, <2>5, <3>1
    <3>2. CASE q # k
      BY <2>1, <2>4, <3>2, AliveFacts DEF MyPid
    <3> QED
      BY <3>1, <3>2
  <2>9. ExitSlots'
    BY <1>1, <1>4, <2>2, <2>1, GuestFacts DEF Inv, ByPidInv, ExitSlots
  <2>10. ForkSlots'
    <3> SUFFICES ASSUME NEW q \in Pid, thr'[q].call = "fork"
                 PROVE  /\ procs[thr'[q].ptr].pid = thr'[q].pid
                        /\ procs[thr'[q].ptr].ppid = q
                        /\ procs[thr'[q].ptr].state \in {"READY", "RUNNING"}
                        /\ thr'[q].pc = "spawn" => procs[thr'[q].ptr].state = "RUNNING"
                        /\ ~procs[thr'[q].ptr].exited
                        /\ thr'[thr'[q].pid].pc = "none"
      BY <2>2 DEF ForkSlots
    <3>1. thr'[q] = thr[q] /\ q # p /\ q # k
      BY <1>4, <2>1, GuestFacts
    <3>2. thr[q].pid # k /\ thr[q].pid \in Pid /\ thr[thr[q].pid].pc = "none"
      BY <1>2, <3>1, ForkAlone
    <3>3. thr'[thr[q].pid] = thr[thr[q].pid]
      BY <2>1, <2>3, <3>2
    <3> QED
      BY <3>1, <3>2, <3>3 DEF Inv, ByPidInv, ForkSlots
  <2>11. WaitSlots'
    BY <1>4, <2>2, <2>1, GuestFacts DEF Inv, ByPidInv, WaitSlots, Matches, Waiting
  <2>12. ExitedSlots'
    <3> SUFFICES ASSUME NEW t \in Slot, procs[t].state # "FREE", procs[t].exited
                 PROVE  /\ procs[t].state = "ZOMBIE"
                        /\ thr'[procs[t].pid].pc \in Ended
                        /\ procs[t].exit_code \in declared[procs[t].pid]
      BY <1>1, <2>2 DEF ExitedSlots
    <3>1. /\ procs[t].state = "ZOMBIE" /\ procs[t].pid \in Pid /\ thr[procs[t].pid].pc \in Ended
          /\ procs[t].exit_code \in declared[procs[t].pid]
      BY DEF Inv, ByPidInv, ExitedSlots, UnusedPids
    <3>2. procs[t].pid # k /\ procs[t].pid # p
      BY <1>2, <2>3, <3>1 DEF Ended
    <3> QED
      BY <2>1, <3>1, <3>2
  <2>13. LockHolders'
    <3> SUFFICES ASSUME NEW t \in Slot, lock[t] # NULL
                 PROVE  /\ thr'[lock[t]].call = "exit" /\ thr'[lock[t]].pc \in {"code", "flag"}
                        /\ proc'[lock[t]] = t
      BY <1>1 DEF LockHolders, Exiting
    <3>1. lock[t] \in Pid /\ Exiting(lock[t]) /\ proc[lock[t]] = t
      BY DEF Inv, TypeInv, TypeOK, ByPidInv, LockHolders
    <3> QED
      BY <2>1, <2>3, <3>1 DEF Exiting
  <2>14. Reports'
    <3> SUFFICES ASSUME NEW q \in Pid, reaped[q] > 0
                 PROVE  /\ reaped[q] = 1
                        /\ thr'[q].pc \in Ended
                        /\ \A t \in Slot : ~Matches(t, q)
                        /\ \E c \in declared[q] : status[q] = WStatus(c)
      BY <1>1, <2>2 DEF Reports, Matches
    <3>1. /\ reaped[q] = 1 /\ thr[q].pc \in Ended /\ q # k
          /\ \A t \in Slot : ~Matches(t, q)
          /\ \E c \in declared[q] : status[q] = WStatus(c)
      BY <1>2 DEF Inv, ByPidInv, Reports
    <3> QED
      BY <2>1, <2>3, <3>1
  <2> QED
    BY <2>6, <2>7, <2>8, <2>9, <2>10, <2>11, <2>12, <2>13, <2>14 DEF ByPidInv
<1> QED
  BY <1>5, <1>6, <1>7

LEMMA ForkAllocKeeps ==
  ASSUME Inv, TypeInv', NEW p \in Pid, ForkAlloc(p)
  PROVE  ByPidInv'
<1>1. thr[p].pc = "run" /\ thr[p].call = "none" /\ MyPid(p) \in 0 .. MaxPid
  BY InGuestFacts DEF ForkAlloc, Inv
<1>2. Alive(p) /\ ~Exiting(p) /\ MyPid(p) = p /\ thr[p].pc \notin Ended
  BY <1>1, AliveFacts DEF Alive, Exiting, Ended
<1>3. PICK s \in Slot, k \in Pid :
        /\ k = next_pid /\ procs[s].state = "FREE"
        /\ SetProc(s, NewProc(k, p))
        /\ lock' = [lock EXCEPT ![s] = NULL]
        /\ Goto(p, Frame("fork", "ids", s, k, 0))
  <2>1. next_pid \in Pid
    BY DEF ForkAlloc, Inv, TypeInv, TypeOK, Pid
  <2> QED
    BY <1>2, <2>1 DEF ForkAlloc, FirstFree
<1>4. /\ next_pid' = next_pid + 1 /\ next_pid \in Int
      /\ UNCHANGED <<proc, declared, reaped, status>>
  BY DEF ForkAlloc, NextPid, ghosts, Inv, TypeInv, TypeOK
<1> DEFINE e == NewProc(k, p)
           f == Frame("fork", "ids", s, k, 0)
<1>5. e \in Proc /\ e.pid = k /\ e.ppid = p /\ e.state = "READY" /\ ~e.exited
  BY NewProcFacts DEF Pid
<1>6. f \in Thread /\ f.call = "fork" /\ f.pc = "ids" /\ f.ptr = s /\ f.pid = k
  BY FrameFits DEF Call, Point, Pid, Ended, Fits
<1>7. SetProc(s, e) /\ Goto(p, f)
  BY <1>3
<1> HIDE DEF e, f
<1>8. \A t \in Slot : /\ procs'[t] = IF t = s THEN e ELSE procs[t]
                      /\ lock'[t] = IF t = s THEN NULL ELSE lock[t]
  BY <1>3, <1>5, <1>7, Written DEF Inv, TypeInv, TypeOK
<1>9. \A q \in Pid : thr'[q] = IF q = p THEN f ELSE thr[q]
  BY <1>6, <1>7, Moved DEF Inv, TypeInv, TypeOK
<1>10. \A q \in Pid : q >= k => thr[q].pc = "none" /\ reaped[q] = 0
  BY <1>3 DEF Inv, ByPidInv, UnusedPids
<1>11. thr[k].pc = "none" /\ reaped[k] = 0 /\ k # p
  BY <1>1, <1>10 DEF Pid
<1>12. \A q \in Pid : /\ Alive(q)' => Alive(q)
                      /\ Exiting(q)' <=> Exiting(q)
  BY <1>2, <1>6, <1>9 DEF Alive, Exiting
<1>13. \A q \in Pid : Alive(q) => proc[q] # s
  <2> SUFFICES ASSUME NEW q \in Pid, Alive(q) PROVE procs[proc[q]].state # "FREE"
    BY <1>3
  <2> QED
    BY AliveFacts
<1>14. NoKills'
  BY <1>6, <1>9 DEF Inv, ByPidInv, NoKills
<1>15. UnusedPids'
  <2>1. \A q \in Pid : q >= k + 1 => q >= k /\ q # p
    BY <1>1, <1>10 DEF Pid
  <2> QED
    BY <1>3, <1>4, <1>5, <1>8, <1>9, <2>1, <1>10 DEF Inv, ByPidInv, UnusedPids
<1>16. ThreadSlots'
  <2> SUFFICES ASSUME NEW q \in Pid, Alive(q)'
               PROVE  /\ procs'[proc'[q]].pid = q
                      /\ ~procs'[proc'[q]].exited
                      /\ procs'[proc'[q]].state = IF Exiting(q)' THEN "ZOMBIE" ELSE "RUNNING"
    BY DEF ThreadSlots
  <2>1. Alive(q) /\ (Exiting(q)' <=> Exiting(q)) /\ proc'[q] = proc[q] /\ proc[q] # s
    BY <1>4, <1>12, <1>13
  <2> QED
    BY <1>8, <2>1, AliveFacts DEF MyPid
<1>17. ExitSlots'
  <2> SUFFICES ASSUME NEW q \in Pid, thr'[q].call = "exit"
               PROVE  /\ thr'[q].ptr = proc[q]
                      /\ thr'[q].code \in declared[q]
                      /\ thr'[q].pc \in {"state", "code", "flag"}
                      /\ thr'[q].pc = "flag" => procs'[proc[q]].exit_code = thr'[q].code
    BY <1>4 DEF ExitSlots
  <2>1. thr'[q] = thr[q] /\ thr[q].pc \in {"state", "code", "flag"}
    BY <1>6, <1>9 DEF Inv, ByPidInv, ExitSlots
  <2>2. proc[q] \in Slot /\ proc[q] # s
    BY <1>13, <2>1, AliveFacts DEF Alive
  <2> QED
    BY <1>8, <2>1, <2>2 DEF Inv, ByPidInv, ExitSlots
<1>18. ForkSlots'
  <2> SUFFICES ASSUME NEW q \in Pid, thr'[q].call = "fork"
               PROVE  /\ procs'[thr'[q].ptr].pid = thr'[q].pid
                      /\ procs'[thr'[q].ptr].ppid = q
                      /\ procs'[thr'[q].ptr].state \in {"READY", "RUNNING"}
                      /\ thr'[q].pc = "spawn" => procs'[thr'[q].ptr].state = "RUNNING"
                      /\ ~procs'[thr'[q].ptr].exited
                      /\ thr'[thr'[q].pid].pc = "none"
    BY DEF ForkSlots
  <2>1. CASE q = p
    BY <1>5, <1>6, <1>8, <1>9, <1>11, <2>1
  <2>2. CASE q # p
    <3>1. thr'[q] = thr[q] /\ thr[q].call = "fork"
      BY <1>9, <2>2
    <3>2. /\ thr[q].ptr \in Slot /\ thr[q].ptr # s
          /\ thr[q].pid \in Pid /\ thr[thr[q].pid].pc = "none"
      BY <1>3, <3>1, ForkAlone DEF Inv, ByPidInv, ForkSlots
    <3>3. thr'[thr[q].pid] = thr[thr[q].pid]
      BY <1>1, <1>9, <3>2
    <3> QED
      BY <1>8, <3>1, <3>2, <3>3 DEF Inv, ByPidInv, ForkSlots
  <2> QED
    BY <2>1, <2>2
<1>19. WaitSlots'
  <2> SUFFICES ASSUME NEW q \in Pid, thr'[q].call \in Waiting
               PROVE  /\ procs'[thr'[q].ptr].pid = thr'[q].pid
                      /\ procs'[thr'[q].ptr].state # "FREE"
                      /\ procs'[thr'[q].ptr].ppid = q
                      /\ thr'[q].pc = "sleep" => ~procs'[thr'[q].ptr].exited
                      /\ thr'[q].pc = "free" => /\ procs'[thr'[q].ptr].exited
                                                /\ thr'[q].code = procs'[thr'[q].ptr].exit_code
    BY DEF WaitSlots, Matches
  <2>1. thr'[q] = thr[q] /\ thr[q].ptr \in Slot
    BY <1>6, <1>9, InCallFacts DEF Inv, Waiting
  <2>2. thr[q].ptr # s
    BY <1>3, <2>1 DEF Inv, ByPidInv, WaitSlots, Matches
  <2> QED
    BY <1>8, <2>1, <2>2 DEF Inv, ByPidInv, WaitSlots, Matches
<1>20. ExitedSlots'
  <2> SUFFICES ASSUME NEW t \in Slot, procs'[t].state # "FREE", procs'[t].exited
               PROVE  /\ procs'[t].state = "ZOMBIE"
                      /\ thr'[procs'[t].pid].pc \in Ended
                      /\ procs'[t].exit_code \in declared[procs'[t].pid]
    BY <1>4 DEF ExitedSlots
  <2>1. procs'[t] = procs[t]
    BY <1>5, <1>8
  <2>2. procs[t].pid \in Pid /\ thr[procs[t].pid].pc \in Ended
    BY <2>1 DEF Inv, ByPidInv, ExitedSlots, UnusedPids
  <2> QED
    BY <1>2, <1>9, <2>1, <2>2 DEF Inv, ByPidInv, ExitedSlots
<1>21. LockHolders'
  <2> SUFFICES ASSUME NEW t \in Slot, lock'[t] # NULL
               PROVE  /\ thr'[lock'[t]].call = "exit" /\ thr'[lock'[t]].pc \in {"code", "flag"}
                      /\ proc'[lock'[t]] = t
    BY DEF LockHolders, Exiting
  <2>1. lock'[t] = lock[t] /\ lock[t] \in Pid /\ Exiting(lock[t]) /\ proc[lock[t]] = t
    BY <1>8 DEF Inv, TypeInv, TypeOK, ByPidInv, LockHolders
  <2> QED
    BY <1>2, <1>4, <1>9, <2>1 DEF Exiting
<1>22. Reports'
  <2> SUFFICES ASSUME NEW q \in Pid, reaped[q] > 0
               PROVE  /\ reaped[q] = 1
                      /\ thr'[q].pc \in Ended
                      /\ \A t \in Slot : ~(procs'[t].pid = q /\ procs'[t].state # "FREE")
                      /\ \E c \in declared[q] : status[q] = WStatus(c)
    BY <1>4 DEF Reports, Matches
  <2>1. /\ reaped[q] = 1 /\ thr[q].pc \in Ended /\ q # k
        /\ \A t \in Slot : ~(procs[t].pid = q /\ procs[t].state # "FREE")
        /\ \E c \in declared[q] : status[q] = WStatus(c)
    BY <1>11 DEF Inv, ByPidInv, Reports, Matches
  <2> QED
    BY <1>2, <1>5, <1>8, <1>9, <2>1
<1> QED
  BY <1>14, <1>15, <1>16, <1>17, <1>18, <1>19, <1>20, <1>21, <1>22 DEF ByPidInv

-----------------------------------------------------------------------------
(* The first process *)

LEMMA TableEmpty ==
  ASSUME Inv, CreateInit
  PROVE  \A t \in Slot : procs[t].state = "FREE"
<1>1. next_pid = 1
  BY DEF CreateInit
<1>2. \A t \in Slot : procs[t].pid \in 0 .. MaxPid
  BY DEF Inv, TypeInv, TypeOK, Proc
<1> QED
  BY <1>1, <1>2 DEF Inv, ByPidInv, UnusedPids, PidsUnique, Pid

LEMMA CreateInitKeeps ==
  ASSUME Inv, TypeInv', CreateInit
  PROVE  ByPidInv'
<1>1. /\ next_pid = 1 /\ next_pid' = 2
      /\ UNCHANGED <<lock, declared, reaped, status>>
  BY DEF CreateInit, NextPid, ghosts
<1>2. \A q \in Pid : thr[q].pc = "none" /\ thr[q].call = "none" /\ reaped[q] = 0
  BY <1>1 DEF Inv, ByPidInv, UnusedPids, TypeInv, CallsHold, Ended, Pid
<1>3. \A t \in Slot : procs[t].state = "FREE"
  BY TableEmpty
<1>4. \A t \in Slot : lock[t] = NULL
  BY <1>2 DEF Inv, TypeInv, TypeOK, ByPidInv, LockHolders, Exiting
<1> DEFINE r == NewProc(1, 0)
           begun == [r EXCEPT !.state = "RUNNING"]
           given == [r EXCEPT !.state = "FREE"]
<1>5. \/ SetProc(1, begun) /\ Goto(1, Guest)
      \/ SetProc(1, given) /\ UNCHANGED thr
  BY DEF CreateInit
<1>6. r \in Proc /\ r.pid = 1 /\ ~r.exited
  BY NewProcFacts
<1> HIDE DEF r
<1>7. /\ begun \in Proc /\ begun.pid = 1 /\ ~begun.exited /\ begun.state = "RUNNING"
      /\ given \in Proc /\ given.state = "FREE"
  BY <1>6, StateFacts DEF State
<1> HIDE DEF begun, given
<1>8. proc'[1] = 1
  BY SlotPid DEF CreateInit, Inv, TypeInv, TypeOK
<1>9. CASE SetProc(1, begun) /\ Goto(1, Guest)
  <2>1. /\ \A t \in Slot : procs'[t] = IF t = 1 THEN begun ELSE procs[t]
        /\ \A q \in Pid : thr'[q] = IF q = 1 THEN Guest ELSE thr[q]
    BY <1>7, <1>9, SlotPid, Written, Moved, GuestFacts DEF Inv, TypeInv, TypeOK
  <2>2. NoKills' /\ ExitSlots' /\ ForkSlots' /\ WaitSlots'
    BY <1>2, <2>1, GuestFacts DEF NoKills, ExitSlots, ForkSlots, WaitSlots, Waiting
  <2>3. UnusedPids'
    BY <1>1, <1>2, <1>3, <1>7, <2>1, SlotPid DEF UnusedPids
  <2>4. ThreadSlots'
    BY <1>2, <1>7, <1>8, <2>1, SlotPid, GuestFacts DEF ThreadSlots, Alive, Exiting
  <2>5. ExitedSlots' /\ LockHolders' /\ Reports'
    BY <1>1, <1>2, <1>3, <1>4, <1>7, <2>1 DEF ExitedSlots, LockHolders, Reports
  <2> QED
    BY <2>2, <2>3, <2>4, <2>5 DEF ByPidInv
<1>10. CASE SetProc(1, given) /\ UNCHANGED thr
  <2>1. \A t \in Slot : procs'[t] = IF t = 1 THEN given ELSE procs[t]
    BY <1>7, <1>10, SlotPid, Written DEF Inv, TypeInv, TypeOK
  <2>2. NoKills' /\ ExitSlots' /\ ForkSlots' /\ WaitSlots' /\ ThreadSlots'
    BY <1>2, <1>10 DEF NoKills, ExitSlots, ForkSlots, WaitSlots, ThreadSlots, Alive, Waiting
  <2>3. UnusedPids' /\ ExitedSlots' /\ LockHolders' /\ Reports'
    BY <1>1, <1>2, <1>3, <1>4, <1>7, <1>10, <2>1
    DEF UnusedPids, ExitedSlots, LockHolders, Reports
  <2> QED
    BY <2>2, <2>3 DEF ByPidInv
<1> QED
  BY <1>5, <1>9, <1>10

-----------------------------------------------------------------------------
(* Steps of yos_proc_exit *)

\* What one of these steps writes to the slot of its thread, and where the
\* thread goes; the other threads stay, or are woken.
ExitStep(p, e, f) ==
  /\ \A t \in Slot : procs'[t] = IF t = proc[p] THEN e ELSE procs[t]
  /\ e.pid = p /\ e.ppid = procs[proc[p]].ppid /\ e.state = "ZOMBIE"
  /\ thr'[p] = f
  /\ \/ f.call = "exit" /\ f.ptr = proc[p] /\ f.code = thr[p].code /\ ~e.exited
        /\ \/ f.pc = "code"
           \/ f.pc = "flag" /\ e.exit_code = f.code
     \/ f = Leaving /\ e.exited /\ e.exit_code = thr[p].code
  /\ \A q \in Pid \ {p} :
       \/ /\ thr'[q] = thr[q]
          /\ ~(e.exited /\ thr[q].call \in Waiting /\ thr[q].pc = "sleep" /\ thr[q].ptr = proc[p])
       \/ /\ thr[q].pc = "sleep" /\ thr'[q].pc = "lock" /\ thr'[q].call = thr[q].call
          /\ thr'[q].ptr = thr[q].ptr /\ thr'[q].pid = thr[q].pid
  /\ \A t \in Slot : lock'[t] # NULL => (lock'[t] = lock[t] \/ (t = proc[p] /\ lock'[t] = p))
  /\ lock'[proc[p]] = NULL \/ ~e.exited
  /\ UNCHANGED <<next_pid, proc, declared, reaped, status>>

LEMMA ExitStepKeeps ==
  ASSUME Inv, TypeInv', NEW p \in Pid, thr[p].call = "exit",
         NEW e \in Proc, NEW f \in Thread, ExitStep(p, e, f)
  PROVE  ByPidInv'
<1>1. Alive(p) /\ thr[p].code \in declared[p]
  BY DEF Inv, ByPidInv, ExitSlots, Alive
<1>2. PICK s \in Slot : s = proc[p]
  BY <1>1, AliveFacts
<1>3. /\ procs[s].pid = p /\ ~procs[s].exited /\ procs[s].state # "FREE" /\ reaped[p] = 0
      /\ \A q \in Pid : Alive(q) /\ proc[q] = s => q = p
      /\ \A q \in Pid : thr[q].call = "fork" => thr[q].ptr # s /\ thr[q].pid # p
      /\ \A q \in Pid : thr[q].call \in Waiting /\ thr[q].pc = "free" => thr[q].ptr # s
  BY <1>1, <1>2, AliveFacts, AliveAlone DEF MyPid
<1>4. /\ \A t \in Slot : procs'[t] = IF t = s THEN e ELSE procs[t]
      /\ e.pid = p /\ e.ppid = procs[s].ppid /\ e.state = "ZOMBIE"
      /\ thr'[p] = f
      /\ UNCHANGED <<next_pid, proc, declared, reaped, status>>
  BY <1>2 DEF ExitStep
<1>5. /\ f.call \in {"exit", "none"} /\ f.pc \in {"code", "flag", "leave"}
      /\ f.call = "exit" => /\ f.ptr = s /\ f.code = thr[p].code /\ ~e.exited
                            /\ f.pc \in {"code", "flag"}
                            /\ f.pc = "flag" => e.exit_code = f.code
      /\ e.exited => f.pc \in Ended /\ e.exit_code = thr[p].code
      /\ f.call = "none" => f.pc = "leave" /\ e.exited
  BY <1>2, GuestFacts DEF ExitStep, Ended
<1>6. ASSUME NEW q \in Pid, q # p
      PROVE  /\ thr'[q].call = thr[q].call /\ thr'[q].ptr = thr[q].ptr
             /\ thr'[q].pid = thr[q].pid
             /\ thr'[q].pc = thr[q].pc \/ (thr[q].pc = "sleep" /\ thr'[q].pc = "lock")
             /\ thr[q].pc # "sleep" => thr'[q] = thr[q]
             /\ thr'[q].pc = "sleep" => ~(e.exited /\ thr[q].call \in Waiting /\ thr[q].ptr = s)
  BY <1>2, <1>6 DEF ExitStep
<1>7. \A q \in Pid \ {p} : (Alive(q)' => Alive(q)) /\ (Exiting(q)' <=> Exiting(q))
  BY <1>6 DEF Alive, Exiting
<1>8. NoKills'
  BY <1>4, <1>5, <1>6 DEF Inv, ByPidInv, NoKills
<1>9. UnusedPids'
  <2>1. \A q \in Pid : q >= next_pid => q # p /\ thr[q].pc = "none" /\ reaped[q] = 0
    BY <1>1 DEF Alive, Inv, ByPidInv, UnusedPids
  <2> QED
    BY <1>4, <1>6, <2>1 DEF Inv, ByPidInv, UnusedPids
<1>10. ThreadSlots'
  <2> SUFFICES ASSUME NEW q \in Pid, Alive(q)'
               PROVE  /\ procs'[proc[q]].pid = q
                      /\ ~procs'[proc[q]].exited
                      /\ procs'[proc[q]].state = IF Exiting(q)' THEN "ZOMBIE" ELSE "RUNNING"
    BY <1>4 DEF ThreadSlots
  <2>1. CASE q = p
    <3>1. f.call = "exit" /\ f.pc \in {"code", "flag"}
      BY <1>4, <1>5, <2>1 DEF Alive
    <3> QED
      BY <1>2, <1>4, <1>5, <2>1, <3>1 DEF Exiting
  <2>2. CASE q # p
    <3>1. Alive(q) /\ (Exiting(q)' <=> Exiting(q)) /\ proc[q] # s
      BY <1>3, <1>7, <2>2
    <3> QED
      BY <1>4, <3>1, AliveFacts DEF MyPid
  <2> QED
    BY <2>1, <2>2
<1>11. ExitSlots'
  <2> SUFFICES ASSUME NEW q \in Pid, thr'[q].call = "exit"
               PROVE  /\ thr'[q].ptr = proc[q]
                      /\ thr'[q].code \in declared[q]
                      /\ thr'[q].pc \in {"state", "code", "flag"}
                      /\ thr'[q].pc = "flag" => procs'[proc[q]].exit_code = thr'[q].code
    BY <1>4 DEF ExitSlots
  <2>1. CASE q = p
    BY <1>1, <1>2, <1>4, <1>5, <2>1
  <2>2. CASE q # p
    <3>1. thr[q].call = "exit" /\ thr[q].pc \in {"state", "code", "flag"}
      BY <1>6, <2>2 DEF Inv, ByPidInv, ExitSlots
    <3>2. thr'[q] = thr[q] /\ proc[q] \in Slot /\ proc[q] # s
      BY <1>3, <1>6, <2>2, <3>1, AliveFacts DEF Alive
    <3> QED
      BY <1>4, <3>1, <3>2 DEF Inv, ByPidInv, ExitSlots
  <2> QED
    BY <2>1, <2>2
<1>12. ForkSlots'
  <2> SUFFICES ASSUME NEW q \in Pid, thr'[q].call = "fork"
               PROVE  /\ procs'[thr'[q].ptr].pid = thr'[q].pid
                      /\ procs'[thr'[q].ptr].ppid = q
                      /\ procs'[thr'[q].ptr].state \in {"READY", "RUNNING"}
                      /\ thr'[q].pc = "spawn" => procs'[thr'[q].ptr].state = "RUNNING"
                      /\ ~procs'[thr'[q].ptr].exited
                      /\ thr'[thr'[q].pid].pc = "none"
    BY DEF ForkSlots
  <2>1. thr[q].call = "fork" /\ q # p /\ thr'[q].ptr = thr[q].ptr /\ thr'[q].pid = thr[q].pid
    BY <1>4, <1>5, <1>6
  <2>2. thr[q].ptr \in Slot /\ thr[q].ptr # s /\ thr[q].pid \in Pid /\ thr[q].pid # p
        /\ thr[thr[q].pid].pc = "none"
    BY <1>3, <2>1, ForkAlone
  <2>3. thr'[thr[q].pid].pc = "none" /\ (thr'[q].pc = "spawn" => thr[q].pc = "spawn")
    BY <1>6, <2>1, <2>2
  <2> QED
    BY <1>4, <2>1, <2>2, <2>3 DEF Inv, ByPidInv, ForkSlots
<1>13. WaitSlots'
  <2> SUFFICES ASSUME NEW q \in Pid, thr'[q].call \in Waiting
               PROVE  /\ procs'[thr'[q].ptr].pid = thr'[q].pid
                      /\ procs'[thr'[q].ptr].state # "FREE"
                      /\ procs'[thr'[q].ptr].ppid = q
                      /\ thr'[q].pc = "sleep" => ~procs'[thr'[q].ptr].exited
                      /\ thr'[q].pc = "free" => /\ procs'[thr'[q].ptr].exited
                                                /\ thr'[q].code = procs'[thr'[q].ptr].exit_code
    BY DEF WaitSlots, Matches
  <2>1. /\ thr[q].call \in Waiting /\ q # p /\ thr'[q].ptr = thr[q].ptr /\ thr'[q].pid = thr[q].pid
        /\ thr[q].ptr \in Slot
    BY <1>4, <1>5, <1>6, InCallFacts DEF Waiting, Inv
  <2>2. /\ thr'[q].pc = "sleep" => thr[q].pc = "sleep" /\ ~(e.exited /\ thr[q].ptr = s)
        /\ thr'[q].pc = "free" => thr'[q] = thr[q] /\ thr[q].ptr # s
    BY <1>3, <1>6, <2>1
  <2> QED
    BY <1>3, <1>4, <2>1, <2>2 DEF Inv, ByPidInv, WaitSlots, Matches
<1>14. ExitedSlots'
  <2> SUFFICES ASSUME NEW t \in Slot, procs'[t].state # "FREE", procs'[t].exited
               PROVE  /\ procs'[t].state = "ZOMBIE"
                      /\ thr'[procs'[t].pid].pc \in Ended
                      /\ procs'[t].exit_code \in declared[procs'[t].pid]
    BY <1>4 DEF ExitedSlots
  <2>1. CASE t = s
    BY <1>1, <1>4, <1>5, <2>1
  <2>2. CASE t # s
    <3>1. /\ procs'[t] = procs[t] /\ procs[t].pid \in Pid /\ thr[procs[t].pid].pc \in Ended
      BY <1>4, <2>2 DEF Inv, ByPidInv, ExitedSlots, UnusedPids
    <3>2. procs[t].pid # p
      BY <1>1, <3>1 DEF Alive, Ended
    <3> QED
      BY <1>6, <3>1, <3>2 DEF Inv, ByPidInv, ExitedSlots, Ended
  <2> QED
    BY <2>1, <2>2
<1>15. LockHolders'
  <2> SUFFICES ASSUME NEW t \in Slot, lock'[t] # NULL
               PROVE  /\ thr'[lock'[t]].call = "exit" /\ thr'[lock'[t]].pc \in {"code", "flag"}
                      /\ proc[lock'[t]] = t
    BY <1>4 DEF LockHolders, Exiting
  <2>1. lock'[t] = lock[t] \/ (t = s /\ lock'[t] = p)
    BY <1>2 DEF ExitStep
  <2>2. t = s => ~e.exited
    BY <1>2 DEF ExitStep
  <2>3. lock'[t] = lock[t] => /\ lock[t] \in Pid /\ Exiting(lock[t]) /\ proc[lock[t]] = t
    BY DEF Inv, TypeInv, TypeOK, ByPidInv, LockHolders
  <2>4. CASE lock'[t] = p
    <3>1. t = s
      BY <1>2, <2>1, <2>3, <2>4
    <3> QED
      BY <1>2, <1>4, <1>5, <2>2, <2>4, <3>1
  <2>5. CASE lock'[t] # p
    BY <1>6, <2>1, <2>3, <2>5 DEF Exiting
  <2> QED
    BY <2>4, <2>5
<1>16. Reports'
  <2> SUFFICES ASSUME NEW q \in Pid, reaped[q] > 0
               PROVE  /\ reaped[q] = 1
                      /\ thr'[q].pc \in Ended
                      /\ \A t \in Slot : ~(procs'[t].pid = q /\ procs'[t].state # "FREE")
                      /\ \E c \in declared[q] : status[q] = WStatus(c)
    BY <1>4 DEF Reports, Matches
  <2>1. /\ reaped[q] = 1 /\ thr[q].pc \in Ended /\ q # p
        /\ \A t \in Slot : ~(procs[t].pid = q /\ procs[t].state # "FREE")
        /\ \E c \in declared[q] : status[q] = WStatus(c)
    BY <1>3 DEF Inv, ByPidInv, Reports, Matches
  <2> QED
    BY <1>4, <1>6, <2>1 DEF Ended
<1> QED
  BY <1>8, <1>9, <1>10, <1>11, <1>12, <1>13, <1>14, <1>15, <1>16 DEF ByPidInv

LEMMA ProcExitKeeps ==
  ASSUME Inv, TypeInv', NEW p \in Pid, ProcExitState(p) \/ ProcExitCode(p) \/ ProcExitFlag(p)
  PROVE  ByPidInv'
<1>1. thr[p].call = "exit" /\ thr[p] \in Thread /\ thr[p].code \in Int
      /\ UNCHANGED <<next_pid, proc, declared, reaped, status>>
  BY DEF ProcExitState, ProcExitCode, ProcExitFlag, At, Dying, ghosts, Inv, ByPidInv, NoKills,
         TypeInv, TypeOK, Thread
<1>2. Alive(p) /\ thr[p].ptr = proc[p]
      /\ (thr[p].pc = "flag" => procs[proc[p]].exit_code = thr[p].code)
  BY <1>1 DEF Inv, ByPidInv, ExitSlots, Alive
<1>3. PICK s \in Slot : s = proc[p] /\ s = thr[p].ptr
  BY <1>2, AliveFacts
<1>4. /\ procs[s] \in Proc /\ procs[s].pid = p /\ ~procs[s].exited
      /\ procs[s].state = IF thr[p].pc \in {"code", "flag"} THEN "ZOMBIE" ELSE "RUNNING"
  BY <1>1, <1>2, <1>3, AliveFacts DEF MyPid, Exiting
<1>5. thr \in [Pid -> Thread] /\ procs \in [Slot -> Proc] /\ lock \in [Slot -> Pid \cup {NULL}]
  BY DEF Inv, TypeInv, TypeOK
<1>6. CASE ProcExitState(p)
  <2> DEFINE e == [procs[s] EXCEPT !.state = "ZOMBIE"]
             f == [thr[p] EXCEPT !.pc = "code"]
  <2>1. /\ e \in Proc /\ e.pid = p /\ e.ppid = procs[s].ppid /\ e.state = "ZOMBIE" /\ ~e.exited
    <3>1. "ZOMBIE" \in State
      BY DEF State
    <3>2. /\ e \in Proc /\ e.pid = procs[s].pid /\ e.ppid = procs[s].ppid
          /\ e.state = "ZOMBIE" /\ e.exited = procs[s].exited
      BY <1>4, <3>1, StateFacts, Zenon
    <3> QED
      BY <1>4, <3>2, Zenon
  <2>2. f \in Thread /\ f.call = "exit" /\ f.pc = "code" /\ f.ptr = s /\ f.code = thr[p].code
    <3>1. "code" \in Point
      BY DEF Point
    <3>2. /\ f \in Thread /\ f.pc = "code" /\ f.call = thr[p].call
          /\ f.ptr = thr[p].ptr /\ f.code = thr[p].code
      BY <1>1, <3>1, StepFacts, Zenon
    <3> QED
      BY <1>1, <1>3, <3>2, Zenon
  <2>3. SetProc(s, e) /\ Goto(p, f) /\ lock' = [lock EXCEPT ![s] = p]
    BY <1>3, <1>6 DEF ProcExitState, SetState, Step
  <2> HIDE DEF e, f
  <2>4. ExitStep(p, e, f)
    BY <1>1, <1>3, <1>5, <2>1, <2>2, <2>3, Written, Moved DEF ExitStep
  <2> QED
    BY <1>1, <2>1, <2>2, <2>4, ExitStepKeeps
<1>7. CASE ProcExitCode(p)
  <2> DEFINE e == [procs[s] EXCEPT !.exit_code = thr[p].code]
             f == [thr[p] EXCEPT !.pc = "flag"]
  <2>1. /\ e \in Proc /\ e.pid = p /\ e.ppid = procs[s].ppid /\ ~e.exited
        /\ e.exit_code = thr[p].code /\ e.state = procs[s].state
    <3>1. /\ e \in Proc /\ e.pid = procs[s].pid /\ e.ppid = procs[s].ppid
          /\ e.exited = procs[s].exited /\ e.exit_code = thr[p].code /\ e.state = procs[s].state
      BY <1>1, <1>4, CodeFacts, Zenon
    <3> QED
      BY <1>4, <3>1, Zenon
  <2>2. f \in Thread /\ f.call = "exit" /\ f.pc = "flag" /\ f.ptr = s /\ f.code = thr[p].code
    <3>1. "flag" \in Point
      BY DEF Point
    <3>2. /\ f \in Thread /\ f.pc = "flag" /\ f.call = thr[p].call
          /\ f.ptr = thr[p].ptr /\ f.code = thr[p].code
      BY <1>1, <3>1, StepFacts, Zenon
    <3> QED
      BY <1>1, <1>3, <3>2, Zenon
  <2>3. SetProc(s, e) /\ Goto(p, f) /\ UNCHANGED lock /\ thr[p].pc = "code"
    BY <1>3, <1>7 DEF ProcExitCode, Step, At
  <2>4. e.state = "ZOMBIE"
    BY <1>4, <2>1, <2>3
  <2> HIDE DEF e, f
  <2>5. ExitStep(p, e, f)
    BY <1>1, <1>3, <1>5, <2>1, <2>2, <2>3, <2>4, Written, Moved DEF ExitStep
  <2> QED
    BY <1>1, <2>1, <2>2, <2>5, ExitStepKeeps
<1>8. CASE ProcExitFlag(p)
  <2> DEFINE e == [procs[s] EXCEPT !.exited = TRUE]
  <2>1. /\ e \in Proc /\ e.pid = p /\ e.ppid = procs[s].ppid /\ e.exited
        /\ e.exit_code = procs[s].exit_code /\ e.state = procs[s].state
    BY <1>4, FlagFacts
  <2>2. SetProc(s, e) /\ lock' = [lock EXCEPT ![s] = NULL] /\ thr[p].pc = "flag"
    BY <1>3, <1>8 DEF ProcExitFlag, At
  <2>3. e.state = "ZOMBIE" /\ e.exit_code = thr[p].code
    BY <1>2, <1>3, <1>4, <2>1, <2>2
  <2>4. thr'[p] = Leaving
    BY <1>1, <1>8 DEF ProcExitFlag
  <2>5. ASSUME NEW q \in Pid \ {p}
        PROVE  \/ /\ thr'[q] = thr[q]
                  /\ ~(thr[q].call \in Waiting /\ thr[q].pc = "sleep" /\ thr[q].ptr = s)
               \/ /\ thr[q].pc = "sleep" /\ thr'[q].pc = "lock" /\ thr'[q].call = thr[q].call
                  /\ thr'[q].ptr = thr[q].ptr /\ thr'[q].pid = thr[q].pid
    <3>1. thr'[q] = IF q \in Woken(s) THEN [thr[q] EXCEPT !.pc = "lock"] ELSE thr[q]
      BY <1>3, <1>8 DEF ProcExitFlag
    <3>2. thr[q].call \in Waiting /\ thr[q].pc = "sleep" /\ thr[q].ptr = s => q \in Woken(s)
      BY DEF Woken, Inv, ByPidInv, WaitSlots, Matches
    <3>3. q \in Woken(s) => thr[q].pc = "sleep"
      BY DEF Woken
    <3>4. [thr[q] EXCEPT !.pc = "lock"].pc = "lock"
          /\ [thr[q] EXCEPT !.pc = "lock"].call = thr[q].call
          /\ [thr[q] EXCEPT !.pc = "lock"].ptr = thr[q].ptr
          /\ [thr[q] EXCEPT !.pc = "lock"].pid = thr[q].pid
      BY <1>5, StepFacts DEF Point
    <3> QED
      BY <3>1, <3>2, <3>3, <3>4
  <2> HIDE DEF e
  <2>6. ExitStep(p, e, Leaving)
    BY <1>1, <1>3, <1>5, <2>1, <2>2, <2>3, <2>4, <2>5, Written DEF ExitStep
  <2> QED
    BY <1>1, <2>1, <2>6, ExitStepKeeps, GuestFacts
<1> QED
  BY <1>6, <1>7, <1>8

-----------------------------------------------------------------------------
(* The end of a wait *)

\* The slot a wait is about to free holds a process that is over, was not
\* returned yet, and is in no other thread's hands.
LEMMA WaitAlone ==
  ASSUME Inv, NEW p \in Pid, thr[p].call \in Waiting, thr[p].pc = "free"
  PROVE  LET s == thr[p].ptr
             k == thr[p].pid
         IN  /\ s \in Slot /\ k \in Pid /\ k # p
             /\ procs[s] \in Proc /\ procs[s].pid = k /\ procs[s].ppid = p
             /\ procs[s].state = "ZOMBIE" /\ procs[s].exited
             /\ thr[k].pc \in Ended /\ thr[p].code \in declared[k] /\ reaped[k] = 0
             /\ \A t \in Slot : t # s => procs[t].pid # k
             /\ \A q \in Pid : Alive(q) => proc[q] # s
             /\ \A q \in Pid \ {p} :
                  thr[q].call \in {"fork"} \cup Waiting => thr[q].ptr # s /\ thr[q].pid # k
<1> DEFINE s == thr[p].ptr
           k == thr[p].pid
<1>1. s \in Slot /\ k \in Pid /\ procs[s] \in Proc
  BY InCallFacts DEF Inv, Waiting
<1>2. /\ Matches(s, k) /\ procs[s].ppid = p /\ procs[s].exited
      /\ thr[p].code = procs[s].exit_code
  BY DEF Inv, ByPidInv, WaitSlots
<1>3. procs[s].state = "ZOMBIE" /\ thr[k].pc \in Ended /\ thr[p].code \in declared[k]
  BY <1>1, <1>2 DEF Inv, ByPidInv, ExitedSlots, Matches
<1>4. k # p
  BY <1>3 DEF Ended
<1>5. reaped[k] = 0
  <2>1. reaped[k] \in 0 .. MaxReports /\ ~(reaped[k] > 0)
    BY <1>1, <1>2 DEF Inv, TypeInv, TypeOK, ByPidInv, Reports
  <2> QED
    BY <2>1 DEF MaxReports
<1>6. \A t \in Slot : t # s => procs[t].pid # k
  BY <1>1, <1>2 DEF Inv, PidsUnique, Matches, Pid
<1>7. \A q \in Pid : Alive(q) => proc[q] # s
  BY <1>2, AliveFacts
<1>8. ASSUME NEW q \in Pid \ {p}, thr[q].call \in {"fork"} \cup Waiting
      PROVE  thr[q].ptr # s /\ thr[q].pid # k
  <2>1. thr[q].ptr \in Slot /\ procs[thr[q].ptr].pid = thr[q].pid /\ procs[thr[q].ptr].ppid = q
    BY <1>8, InCallFacts DEF Inv, ByPidInv, ForkSlots, WaitSlots, Matches, Waiting
  <2> QED
    BY <1>2, <1>6, <2>1
<1> QED
  BY <1>1, <1>2, <1>3, <1>4, <1>5, <1>6, <1>7, <1>8 DEF Matches

LEMMA WaitFreeKeeps ==
  ASSUME Inv, TypeInv', NEW p \in Pid, WaitFree(p)
  PROVE  ByPidInv'
<1>1. thr[p].call \in Waiting /\ thr[p].pc = "free" /\ thr[p].call # "none"
      /\ UNCHANGED <<next_pid, lock, proc, declared>>
  BY DEF WaitFree, At, Report, Waiting
<1> PICK s \in Slot, k \in Pid : s = thr[p].ptr /\ k = thr[p].pid
  BY <1>1, WaitAlone
<1>2. /\ k # p /\ procs[s] \in Proc /\ procs[s].pid = k
      /\ thr[k].pc \in Ended /\ thr[p].code \in declared[k] /\ reaped[k] = 0
      /\ \A t \in Slot : t # s => procs[t].pid # k
      /\ \A q \in Pid : Alive(q) => proc[q] # s
      /\ \A q \in Pid \ {p} :
           thr[q].call \in {"fork"} \cup Waiting => thr[q].ptr # s /\ thr[q].pid # k
  BY <1>1, WaitAlone
<1> DEFINE e == [procs[s] EXCEPT !.state = "FREE"]
<1>3. e \in Proc /\ e.state = "FREE" /\ e.pid = k
  BY <1>2, StateFacts DEF State
<1>4. SetProc(s, e) /\ Goto(p, Guest)
  BY DEF WaitFree, FreeSlot, SetState
<1> HIDE DEF e
<1>5. \A t \in Slot : procs'[t] = IF t = s THEN e ELSE procs[t]
  BY <1>3, <1>4, Written DEF Inv, TypeInv, TypeOK
<1>6. \A q \in Pid : thr'[q] = IF q = p THEN Guest ELSE thr[q]
  BY <1>4, Moved, GuestFacts DEF Inv, TypeInv, TypeOK
<1>7. /\ \A q \in Pid : reaped'[q] = IF q = k THEN 1 ELSE reaped[q]
      /\ \A q \in Pid : status'[q] = IF q = k THEN WStatus(thr[p].code) ELSE status[q]
  <2>1. /\ reaped' = [reaped EXCEPT ![k] = IF @ < MaxReports THEN @ + 1 ELSE @]
        /\ status' = [status EXCEPT ![k] = WStatus(thr[p].code)]
    BY DEF WaitFree, Report
  <2>2. reaped \in [Pid -> 0 .. MaxReports] /\ status \in [Pid -> Int]
    BY DEF Inv, TypeInv, TypeOK
  <2> QED
    BY <1>2, <2>1, <2>2 DEF MaxReports
<1>8. Alive(p) /\ ~Exiting(p) /\ thr[p].pc \notin {"none"} \cup Ended
  BY <1>1 DEF Alive, Exiting, Ended, Waiting
<1>9. \A q \in Pid : (Alive(q)' => Alive(q)) /\ (Exiting(q)' <=> Exiting(q))
  BY <1>6, <1>8, GuestFacts DEF Alive, Exiting
<1>10. NoKills'
  BY <1>6, GuestFacts DEF Inv, ByPidInv, NoKills
<1>11. UnusedPids'
  <2>1. \A q \in Pid : q >= next_pid => q # p /\ q # k /\ thr[q].pc = "none" /\ reaped[q] = 0
    BY <1>2, <1>8 DEF Ended, Inv, ByPidInv, UnusedPids
  <2> QED
    BY <1>1, <1>3, <1>5, <1>6, <1>7, <2>1 DEF Inv, ByPidInv, UnusedPids
<1>12. ThreadSlots'
  <2> SUFFICES ASSUME NEW q \in Pid, Alive(q)'
               PROVE  /\ procs'[proc[q]].pid = q
                      /\ ~procs'[proc[q]].exited
                      /\ procs'[proc[q]].state = IF Exiting(q)' THEN "ZOMBIE" ELSE "RUNNING"
    BY <1>1 DEF ThreadSlots
  <2>1. Alive(q) /\ (Exiting(q)' <=> Exiting(q)) /\ proc[q] # s
    BY <1>2, <1>9
  <2> QED
    BY <1>5, <2>1, AliveFacts DEF MyPid
<1>13. ExitSlots'
  <2> SUFFICES ASSUME NEW q \in Pid, thr'[q].call = "exit"
               PROVE  /\ thr'[q].ptr = proc[q]
                      /\ thr'[q].code \in declared[q]
                      /\ thr'[q].pc \in {"state", "code", "flag"}
                      /\ thr'[q].pc = "flag" => procs'[proc[q]].exit_code = thr'[q].code
    BY <1>1 DEF ExitSlots
  <2>1. thr'[q] = thr[q] /\ thr[q].pc \in {"state", "code", "flag"}
    BY <1>6, GuestFacts DEF Inv, ByPidInv, ExitSlots
  <2>2. proc[q] \in Slot /\ proc[q] # s
    BY <1>2, <2>1, AliveFacts DEF Alive
  <2> QED
    BY <1>5, <2>1, <2>2 DEF Inv, ByPidInv, ExitSlots
<1>14. ForkSlots'
  <2> SUFFICES ASSUME NEW q \in Pid, thr'[q].call = "fork"
               PROVE  /\ procs'[thr'[q].ptr].pid = thr'[q].pid
                      /\ procs'[thr'[q].ptr].ppid = q
                      /\ procs'[thr'[q].ptr].state \in {"READY", "RUNNING"}
                      /\ thr'[q].pc = "spawn" => procs'[thr'[q].ptr].state = "RUNNING"
                      /\ ~procs'[thr'[q].ptr].exited
                      /\ thr'[thr'[q].pid].pc = "none"
    BY DEF ForkSlots
  <2>1. thr'[q] = thr[q] /\ thr[q].call = "fork" /\ q # p
    BY <1>6, GuestFacts
  <2>2. thr[q].ptr \in Slot /\ thr[q].ptr # s /\ thr[q].pid \in Pid /\ thr[thr[q].pid].pc = "none"
    BY <1>2, <2>1, ForkAlone
  <2>3. thr'[thr[q].pid] = thr[thr[q].pid]
    BY <1>6, <1>8, <2>2
  <2> QED
    BY <1>5, <2>1, <2>2, <2>3 DEF Inv, ByPidInv, ForkSlots
<1>15. WaitSlots'
  <2> SUFFICES ASSUME NEW q \in Pid, thr'[q].call \in Waiting
               PROVE  /\ procs'[thr'[q].ptr].pid = thr'[q].pid
                      /\ procs'[thr'[q].ptr].state # "FREE"
                      /\ procs'[thr'[q].ptr].ppid = q
                      /\ thr'[q].pc = "sleep" => ~procs'[thr'[q].ptr].exited
                      /\ thr'[q].pc = "free" => /\ procs'[thr'[q].ptr].exited
                                                /\ thr'[q].code = procs'[thr'[q].ptr].exit_code
    BY DEF WaitSlots, Matches
  <2>1. thr'[q] = thr[q] /\ thr[q].call \in Waiting /\ thr[q].call # "none" /\ q # p
    BY <1>6, GuestFacts DEF Waiting
  <2>2. thr[q].ptr \in Slot /\ thr[q].ptr # s
    BY <1>2, <2>1, InCallFacts DEF Inv
  <2> QED
    BY <1>5, <2>1, <2>2 DEF Inv, ByPidInv, WaitSlots, Matches
<1>16. ExitedSlots'
  <2> SUFFICES ASSUME NEW t \in Slot, procs'[t].state # "FREE", procs'[t].exited
               PROVE  /\ procs'[t].state = "ZOMBIE"
                      /\ thr'[procs'[t].pid].pc \in Ended
                      /\ procs'[t].exit_code \in declared[procs'[t].pid]
    BY <1>1 DEF ExitedSlots
  <2>1. procs'[t] = procs[t]
    BY <1>3, <1>5
  <2>2. procs[t].pid \in Pid /\ thr[procs[t].pid].pc \in Ended
    BY <2>1 DEF Inv, ByPidInv, ExitedSlots, UnusedPids
  <2> QED
    BY <1>6, <1>8, <2>1, <2>2 DEF Inv, ByPidInv, ExitedSlots
<1>17. LockHolders'
  <2> SUFFICES ASSUME NEW t \in Slot, lock[t] # NULL
               PROVE  /\ thr'[lock[t]].call = "exit" /\ thr'[lock[t]].pc \in {"code", "flag"}
                      /\ proc[lock[t]] = t
    BY <1>1 DEF LockHolders, Exiting
  <2>1. lock[t] \in Pid /\ Exiting(lock[t]) /\ proc[lock[t]] = t
    BY DEF Inv, TypeInv, TypeOK, ByPidInv, LockHolders
  <2> QED
    BY <1>6, <1>8, <2>1 DEF Exiting
<1>18. Reports'
  <2> SUFFICES ASSUME NEW q \in Pid, reaped'[q] > 0
               PROVE  /\ reaped'[q] = 1
                      /\ thr'[q].pc \in Ended
                      /\ \A t \in Slot : ~(procs'[t].pid = q /\ procs'[t].state # "FREE")
                      /\ \E c \in declared[q] : status'[q] = WStatus(c)
    BY <1>1 DEF Reports, Matches
  <2>1. CASE q = k
    BY <1>2, <1>3, <1>5, <1>6, <1>7, <2>1
  <2>2. CASE q # k
    <3>1. /\ reaped[q] = 1 /\ thr[q].pc \in Ended
          /\ \A t \in Slot : ~(procs[t].pid = q /\ procs[t].state # "FREE")
          /\ \E c \in declared[q] : status[q] = WStatus(c)
      BY <1>7, <2>2 DEF Inv, ByPidInv, Reports, Matches
    <3> QED
      BY <1>3, <1>5, <1>6, <1>7, <1>8, <2>2, <3>1
  <2> QED
    BY <2>1, <2>2
<1> QED
  BY <1>10, <1>11, <1>12, <1>13, <1>14, <1>15, <1>16, <1>17, <1>18 DEF ByPidInv

-----------------------------------------------------------------------------
(* The invariant is inductive *)

LEMMA InvInit == Init => Inv
<1> SUFFICES ASSUME Init PROVE Inv
  OBVIOUS
<1>1. TypeInv
  BY TypeInit
<1>2. /\ \A p \in Pid : thr[p].pc = "none" /\ thr[p].call = "none" /\ reaped[p] = 0
      /\ \A s \in Slot : procs[s].state = "FREE" /\ procs[s].pid = 0 /\ lock[s] = NULL
  BY GuestFacts DEF Init, EmptyProc
<1>3. PidsUnique
  BY <1>2 DEF PidsUnique
<1>4. NoKills /\ UnusedPids /\ ThreadSlots /\ ExitSlots /\ ForkSlots
  BY <1>2 DEF NoKills, UnusedPids, ThreadSlots, ExitSlots, ForkSlots, Alive
<1>5. WaitSlots /\ ExitedSlots /\ LockHolders /\ Reports
  BY <1>2 DEF WaitSlots, ExitedSlots, LockHolders, Reports, Waiting
<1> QED
  BY <1>1, <1>3, <1>4, <1>5 DEF Inv, ByPidInv

LEMMA InvNext == ASSUME ByPidOnly PROVE Inv /\ [Next]_vars => Inv'
<1> SUFFICES ASSUME Inv, [Next]_vars PROVE Inv'
  OBVIOUS
<1>1. TypeInv' /\ PidsUnique'
  BY TypeNext, PidsUniqueNext DEF Inv
<1>2. ByPidInv'
  <2>1. CASE CreateInit
    BY <1>1, <2>1, CreateInitKeeps
  <2>2. ASSUME NEW p \in Pid, Internal(p) PROVE ByPidInv'
    <3>1. CASE ForkIds(p) \/ SetpgidWrite(p)
      BY <1>1, <3>1, GroupWrites
    <3>2. CASE ForkMemory(p) \/ ForkSpawn(p)
      BY <1>1, <3>2, ForkMemoryKeeps, ForkSpawnKeeps
    <3>3. CASE ThreadStart(p) \/ ThreadEnd(p)
      BY <1>1, <3>3, ThreadSteps
    <3>4. CASE ProcExitState(p) \/ ProcExitCode(p) \/ ProcExitFlag(p)
      BY <1>1, <3>4, ProcExitKeeps
    <3>5. CASE WaitCheck(p) \/ WaitFree(p)
      BY <1>1, <3>5, WaitChecks, WaitFreeKeeps
    <3> QED
      BY <2>2, <3>1, <3>2, <3>3, <3>4, <3>5 DEF Internal
  <2>3. ASSUME NEW p \in Pid, GuestCall(p) PROVE ByPidInv'
    <3>1. CASE ForkAlloc(p)
      BY <1>1, <3>1, ForkAllocKeeps
    <3>2. CASE GuestReturns(p)
      BY <1>1, <3>2, ThreadSteps
    <3>3. CASE ExitCall(p) \/ WaitFind(p) \/ SetpgidFind(p)
      BY <1>1, <3>3, GuestCalls
    <3>4. CASE Setsid(p)
      BY <1>1, <3>4, GroupWrites
    <3>5. CASE KillCall(p) \/ WaitAny(p)
      BY <3>5 DEF KillCall, WaitAny, ByPidOnly
    <3> QED
      BY <2>3, <3>1, <3>2, <3>3, <3>4, <3>5 DEF GuestCall
  <2>4. ASSUME NEW p \in Pid, SpuriousWakeup(p) PROVE ByPidInv'
    BY <1>1, <2>4, ThreadSteps
  <2>5. CASE UNCHANGED vars
    BY <2>5 DEF vars, ghosts, Inv, ByPidInv, NoKills, UnusedPids, ThreadSlots, ExitSlots,
                ForkSlots, WaitSlots, ExitedSlots, LockHolders, Reports, Alive, Exiting, Matches
  <2> QED
    BY <2>1, <2>2, <2>3, <2>4, <2>5 DEF Next
<1> QED
  BY <1>1, <1>2 DEF Inv

LEMMA InvAlways == ASSUME ByPidOnly PROVE Spec => []Inv
BY InvInit, InvNext, PTL DEF Spec

-----------------------------------------------------------------------------
(* What it means for the guests *)

\* No process that runs or is in yos_proc_exit loses its slot: not to a wait
\* that returns early, not to a fork that gives its slot up, and not to a
\* fork that takes a slot.
THEOREM SlotsOwned == ASSUME ByPidOnly PROVE Spec => []OwnsSlot
<1>1. Inv => OwnsSlot
  BY AliveFacts DEF OwnsSlot, Matches, MyPid
<1> QED
  BY <1>1, InvAlways, PTL

\* No child is returned by two wait calls.
THEOREM ChildrenReapedOnce == ASSUME ByPidOnly PROVE Spec => []ReapedOnce
<1>1. Inv => ReapedOnce
  BY DEF Inv, TypeInv, TypeOK, ByPidInv, Reports, ReapedOnce, MaxReports
<1> QED
  BY <1>1, InvAlways, PTL

LEMMA WStatusFormat ==
  ASSUME NEW c \in Int
  PROVE  WStatus(c) % 256 = 0 /\ WStatus(c) \div 256 = c % 256
BY DEF WStatus

\* What a wait call stores is the status its child passed to exit(), cut to
\* a byte, also while yos_proc_exit is writing it.
THEOREM StatusesFaithful == ASSUME ByPidOnly PROVE Spec => []StatusFaithful
<1>1. Inv => StatusFaithful
  <2> SUFFICES ASSUME Inv, NEW p \in Pid, reaped[p] > 0
               PROVE  \E c \in declared[p] :
                        status[p] % 256 = 0 /\ status[p] \div 256 = c % 256
    BY DEF StatusFaithful
  <2>1. PICK c \in declared[p] : status[p] = WStatus(c)
    BY DEF Inv, ByPidInv, Reports
  <2>2. c \in Int
    BY DEF Inv, TypeInv, TypeOK
  <2> QED
    BY <2>1, <2>2, WStatusFormat
<1> QED
  BY <1>1, InvAlways, PTL

\* A thread sleeps in waitpid only while its child has not set its flag, so
\* the broadcast that follows the flag finds it.
THEOREM WakeupsNotLost == ASSUME ByPidOnly PROVE Spec => []NoLostWakeup
<1>1. Inv => NoLostWakeup
  BY DEF Inv, ByPidInv, WaitSlots, NoLostWakeup, Matches, Waiting
<1> QED
  BY <1>1, InvAlways, PTL

\* What ZombieUntilReaped says of a step.
ZombieStep ==
  /\ \A s \in Slot : procs[s].state = "ZOMBIE" =>
       \/ procs'[s].state = "ZOMBIE" /\ procs'[s].pid = procs[s].pid
       \/ procs'[s].state = "FREE" /\ \E p \in Pid : Collects(p, s)
  /\ reaped' # reaped =>
       \E s \in Slot : procs[s].state = "ZOMBIE" /\ procs'[s].state = "FREE"

\* A write of a slot that reports nothing, and keeps a zombie one.
LEMMA OneWrite ==
  ASSUME Inv, NEW s \in Slot, NEW e \in Proc, SetProc(s, e), reaped' = reaped,
         procs[s].state = "ZOMBIE" => e.state = "ZOMBIE" /\ e.pid = procs[s].pid
  PROVE  ZombieStep
<1>1. \A t \in Slot : procs'[t] = IF t = s THEN e ELSE procs[t]
  BY Written DEF Inv, TypeInv, TypeOK
<1> QED
  BY <1>1 DEF ZombieStep

LEMMA StateWrite ==
  ASSUME Inv, NEW s \in Slot, NEW st \in State, SetState(s, st), reaped' = reaped,
         procs[s].state = "ZOMBIE" => st = "ZOMBIE"
  PROVE  ZombieStep
<1> DEFINE e == [procs[s] EXCEPT !.state = st]
<1>1. procs[s] \in Proc
  BY DEF Inv, TypeInv, TypeOK
<1>2. e \in Proc /\ e.state = st /\ e.pid = procs[s].pid
  BY <1>1, StateFacts
<1>3. SetProc(s, e)
  BY DEF SetState
<1> HIDE DEF e
<1> QED
  BY <1>2, <1>3, OneWrite

\* The write that ends a wait collects its child.
LEMMA FreeCollects ==
  ASSUME Inv, NEW p \in Pid, WaitFree(p) PROVE ZombieStep
<1>1. thr[p].call \in Waiting /\ thr[p].pc = "free" /\ thr[p].call # "none"
  BY DEF WaitFree, At, Waiting
<1> PICK s \in Slot, k \in Pid : s = thr[p].ptr /\ k = thr[p].pid
  BY <1>1, WaitAlone
<1>2. /\ procs[s] \in Proc /\ procs[s].pid = k /\ procs[s].ppid = p
      /\ procs[s].state = "ZOMBIE" /\ reaped[k] = 0
  BY <1>1, WaitAlone
<1> DEFINE e == [procs[s] EXCEPT !.state = "FREE"]
<1>3. e \in Proc /\ e.state = "FREE"
  BY <1>2, StateFacts DEF State
<1>4. SetProc(s, e)
  BY DEF WaitFree, FreeSlot, SetState
<1> HIDE DEF e
<1>5. \A t \in Slot : procs'[t] = IF t = s THEN e ELSE procs[t]
  BY <1>3, <1>4, Written DEF Inv, TypeInv, TypeOK
<1>6. Alive(p)
  BY <1>1 DEF Alive, Waiting
<1>7. MyPid(p) = p
  BY <1>6, AliveFacts DEF MyPid
<1>8. thr[p].code = procs[s].exit_code
  BY <1>1 DEF Inv, ByPidInv, WaitSlots
<1>9. reaped' = [reaped EXCEPT ![k] = 1]
  <2>1. reaped' = [reaped EXCEPT ![k] = IF @ < MaxReports THEN @ + 1 ELSE @]
    BY DEF WaitFree, Report
  <2>2. reaped \in [Pid -> 0 .. MaxReports]
    BY DEF Inv, TypeInv, TypeOK
  <2> QED
    BY <1>2, <2>1, <2>2 DEF MaxReports
<1>10. status'[k] = WStatus(procs[s].exit_code)
  BY <1>8 DEF WaitFree, Report, Inv, TypeInv, TypeOK
<1>11. Collects(p, s)
  BY <1>1, <1>2, <1>7, <1>9, <1>10 DEF Collects
<1> QED
  BY <1>2, <1>3, <1>5, <1>11 DEF ZombieStep

LEMMA ZombieNext == ASSUME ByPidOnly PROVE Inv /\ [Next]_vars => ZombieStep
<1> SUFFICES ASSUME Inv, [Next]_vars PROVE ZombieStep
  OBVIOUS
<1>1. ASSUME SameEntries, reaped' = reaped PROVE ZombieStep
  BY <1>1 DEF SameEntries, ZombieStep
<1>2. CASE CreateInit
  <2> DEFINE r == NewProc(1, 0)
  <2>1. r \in Proc
    BY NewProcFacts
  <2>2. PICK st \in State : SetProc(1, [r EXCEPT !.state = st])
    BY <1>2 DEF CreateInit, State
  <2>3. [r EXCEPT !.state = st] \in Proc
    BY <2>1, StateFacts
  <2>4. reaped' = reaped /\ procs[1].state = "FREE"
    BY <1>2, TableEmpty, SlotPid DEF CreateInit, ghosts
  <2> HIDE DEF r
  <2> QED
    BY <2>2, <2>3, <2>4, SlotPid, OneWrite
<1>3. ASSUME NEW p \in Pid, ForkAlloc(p) PROVE ZombieStep
  <2>1. MyPid(p) \in 0 .. MaxPid /\ next_pid \in 0 .. MaxPid
    BY <1>3, InGuestFacts DEF ForkAlloc, Inv, TypeInv, TypeOK
  <2>2. PICK s \in Slot : procs[s].state = "FREE" /\ SetProc(s, NewProc(next_pid, MyPid(p)))
    BY <1>3 DEF ForkAlloc, FirstFree
  <2>3. NewProc(next_pid, MyPid(p)) \in Proc /\ reaped' = reaped
    BY <1>3, <2>1, NewProcFacts DEF ForkAlloc, ghosts
  <2> QED
    BY <2>2, <2>3, OneWrite
<1>4. ASSUME NEW p \in Pid, ForkMemory(p) \/ ForkSpawn(p) PROVE ZombieStep
  <2>1. thr[p].call = "fork" /\ reaped' = reaped
    BY <1>4 DEF ForkMemory, ForkSpawn, At, ghosts
  <2>2. thr[p].ptr \in Slot /\ procs[thr[p].ptr].state # "ZOMBIE"
    BY <2>1, ForkAlone DEF Inv, ByPidInv, ForkSlots
  <2>3. procs' = procs \/ \E st \in State : SetState(thr[p].ptr, st)
    BY <1>4 DEF ForkMemory, ForkSpawn, State
  <2> QED
    BY <1>1, <2>1, <2>2, <2>3, SameTable, StateWrite
<1>5. ASSUME NEW p \in Pid, ForkIds(p) \/ SetpgidWrite(p) \/ Setsid(p) PROVE ZombieStep
  <2>1. reaped' = reaped
    BY <1>5 DEF ForkIds, SetpgidWrite, Setsid, ghosts
  <2> QED
    BY <1>1, <1>5, <2>1, GroupEntries
<1>6. ASSUME NEW p \in Pid, ProcExitState(p) \/ ProcExitCode(p) \/ ProcExitFlag(p)
      PROVE  ZombieStep
  <2> DEFINE s == thr[p].ptr
             coded == [procs[s] EXCEPT !.exit_code = thr[p].code]
             flagged == [procs[s] EXCEPT !.exited = TRUE]
  <2>1. thr[p].call # "none" /\ reaped' = reaped
    BY <1>6 DEF ProcExitState, ProcExitCode, ProcExitFlag, At, Dying, ghosts
  <2>2. s \in Slot /\ procs[s] \in Proc /\ thr[p].code \in Int
    BY <2>1, InCallFacts DEF Inv, Thread
  <2>3. coded \in Proc /\ coded.state = procs[s].state /\ coded.pid = procs[s].pid
    BY <2>2, CodeFacts
  <2>4. flagged \in Proc /\ flagged.state = procs[s].state /\ flagged.pid = procs[s].pid
    BY <2>2, FlagFacts
  <2>5. SetState(s, "ZOMBIE") \/ SetProc(s, coded) \/ SetProc(s, flagged)
    BY <1>6 DEF ProcExitState, ProcExitCode, ProcExitFlag
  <2> HIDE DEF s, coded, flagged
  <2> QED
    BY <2>1, <2>2, <2>3, <2>4, <2>5, OneWrite, StateWrite DEF State
<1>7. ASSUME NEW p \in Pid, WaitFree(p) PROVE ZombieStep
  BY <1>7, FreeCollects
<1>8. ASSUME NEW p \in Pid,
             \/ ThreadStart(p) \/ GuestReturns(p) \/ ThreadEnd(p) \/ SpuriousWakeup(p)
             \/ ExitCall(p) \/ WaitFind(p) \/ SetpgidFind(p) \/ WaitCheck(p)
      PROVE  ZombieStep
  <2>1. procs' = procs /\ reaped' = reaped
    BY <1>8 DEF ThreadStart, GuestReturns, ThreadEnd, SpuriousWakeup, ExitCall, WaitFind,
                SetpgidFind, WaitCheck, ghosts
  <2> QED
    BY <1>1, <2>1, SameTable
<1>9. CASE UNCHANGED vars
  BY <1>1, <1>9, SameTable DEF vars
<1>10. \A p \in Pid : ~KillCall(p) /\ ~WaitAny(p)
  BY DEF KillCall, WaitAny, ByPidOnly
<1> QED
  BY <1>2, <1>3, <1>4, <1>5, <1>6, <1>7, <1>8, <1>9, <1>10 DEF Next, Internal, GuestCall

\* Only its parent, in a wait call that named it, takes a zombie out of the
\* table, and it is told of it once and with its exit code; what a wait call
\* returns was a zombie until then.
THEOREM ZombiesStay == ASSUME ByPidOnly PROVE Spec => ZombieUntilReaped
<1>1. Inv /\ [Next]_vars => [ZombieStep]_vars
  BY ZombieNext
<1>2. Spec => [][ZombieStep]_vars
  BY <1>1, InvAlways, PTL DEF Spec
<1> QED
  BY <1>2 DEF ZombieUntilReaped, ZombieStep

-----------------------------------------------------------------------------
(* The mapping, pid by pid *)

\* How a pid looks whose slot is s.
UsedBy(p, s) ==
  /\ lifeOf[p] = IF procs[s].exited THEN "zombie"
                 ELSE IF thr[p].pc = "none" THEN "embryo" ELSE "alive"
  /\ parentOf[p] = procs[s].ppid
  /\ outcomeOf[p] = IF procs[s].exited THEN WStatus(procs[s].exit_code)
                    ELSE IF reaped[p] > 0 THEN status[p] ELSE -1

\* How a pid looks that has no slot.
NotUsed(p) ==
  /\ lifeOf[p] = IF reaped[p] > 0 THEN "collected"
                 ELSE IF p < next_pid THEN "withdrawn" ELSE "unborn"
  /\ parentOf[p] = 0
  /\ outcomeOf[p] = IF reaped[p] > 0 THEN status[p] ELSE -1

Looks ==
  \A p \in Pid :
    /\ \A s \in Slot : Matches(s, p) => UsedBy(p, s)
    /\ (\A s \in Slot : ~Matches(s, p)) => NotUsed(p)
    /\ toldOf[p] = IF reaped[p] > 0 THEN status[p] ELSE -1

LEMMA LooksNow == PidsUnique => Looks
<1> SUFFICES ASSUME PidsUnique, NEW p \in Pid
             PROVE  /\ \A s \in Slot : Matches(s, p) => UsedBy(p, s)
                    /\ (\A s \in Slot : ~Matches(s, p)) => NotUsed(p)
                    /\ toldOf[p] = IF reaped[p] > 0 THEN status[p] ELSE -1
  BY DEF Looks
<1>1. ASSUME NEW s \in Slot, Matches(s, p) PROVE UsedBy(p, s)
  <2>1. \A t \in Slot : Matches(t, p) => t = s
    BY <1>1 DEF PidsUnique, Matches, Pid
  <2>2. SlotOf(p) = s
    BY <1>1, <2>1 DEF SlotOf
  <2>3. InUse(p) /\ (HasFlag(p) <=> procs[s].exited)
    BY <1>1, <2>2 DEF InUse, HasFlag
  <2> QED
    BY <2>2, <2>3 DEF UsedBy, lifeOf, parentOf, outcomeOf
<1>2. ASSUME \A s \in Slot : ~Matches(s, p) PROVE NotUsed(p)
  <2>1. ~InUse(p) /\ ~HasFlag(p)
    BY <1>2 DEF InUse, HasFlag
  <2> QED
    BY <2>1 DEF NotUsed, lifeOf, parentOf, outcomeOf
<1>3. toldOf[p] = IF reaped[p] > 0 THEN status[p] ELSE -1
  BY DEF toldOf
<1> QED
  BY <1>1, <1>2, <1>3

LEMMA LooksNext == PidsUnique' => Looks'
BY LooksNow, PTL

LEMMA MapsTotal ==
  /\ lifeOf = [p \in Pid |-> lifeOf[p]] /\ parentOf = [p \in Pid |-> parentOf[p]]
  /\ outcomeOf = [p \in Pid |-> outcomeOf[p]] /\ toldOf = [p \in Pid |-> toldOf[p]]
BY DEF lifeOf, parentOf, outcomeOf, toldOf

LEMMA MapsTotalNext ==
  /\ lifeOf' = [p \in Pid |-> lifeOf'[p]] /\ parentOf' = [p \in Pid |-> parentOf'[p]]
  /\ outcomeOf' = [p \in Pid |-> outcomeOf'[p]] /\ toldOf' = [p \in Pid |-> toldOf'[p]]
BY DEF lifeOf, parentOf, outcomeOf, toldOf

\* A step leaves everything the mapping reads of pid q as it is.
Untouched(q) ==
  /\ \A s \in Slot : Matches(s, q)' <=> Matches(s, q)
  /\ \A s \in Slot : Matches(s, q) =>
       /\ procs'[s].ppid = procs[s].ppid
       /\ procs'[s].exited = procs[s].exited
       /\ procs[s].exited => procs'[s].exit_code = procs[s].exit_code
  /\ thr'[q].pc = "none" <=> thr[q].pc = "none"
  /\ reaped'[q] = reaped[q] /\ status'[q] = status[q]
  /\ q < next_pid' <=> q < next_pid

SameLooks(q) ==
  /\ lifeOf'[q] = lifeOf[q] /\ parentOf'[q] = parentOf[q]
  /\ outcomeOf'[q] = outcomeOf[q] /\ toldOf'[q] = toldOf[q]

LEMMA UntouchedLooks ==
  ASSUME PidsUnique, PidsUnique', NEW q \in Pid, Untouched(q)
  PROVE  SameLooks(q)
<1>1. Looks /\ Looks'
  BY LooksNow, LooksNext
<1>2. CASE \E s \in Slot : Matches(s, q)
  <2>1. PICK s \in Slot : Matches(s, q)
    BY <1>2
  <2>2. UsedBy(q, s) /\ UsedBy(q, s)'
    BY <1>1, <2>1 DEF Looks, Untouched
  <2> QED
    BY <1>1, <2>1, <2>2 DEF Looks, UsedBy, Untouched, SameLooks
<1>3. CASE \A s \in Slot : ~Matches(s, q)
  <2>1. NotUsed(q) /\ NotUsed(q)'
    BY <1>1, <1>3 DEF Looks, Untouched
  <2> QED
    BY <1>1, <2>1 DEF Looks, NotUsed, Untouched, SameLooks
<1> QED
  BY <1>2, <1>3

LEMMA Stutters ==
  ASSUME PidsUnique, PidsUnique', \A q \in Pid : Untouched(q)
  PROVE  UNCHANGED Life!lifeVars
<1>1. \A q \in Pid : SameLooks(q)
  BY UntouchedLooks
<1>2. lifeOf' = lifeOf /\ parentOf' = parentOf /\ outcomeOf' = outcomeOf /\ toldOf' = toldOf
  BY <1>1, MapsTotal, MapsTotalNext DEF SameLooks
<1> QED
  BY <1>2 DEF Life!lifeVars


\* Only pid k may look different after the step.
LEMMA OneChange ==
  ASSUME PidsUnique, PidsUnique', NEW k \in Pid, \A q \in Pid \ {k} : Untouched(q)
  PROVE  /\ lifeOf' = [lifeOf EXCEPT ![k] = lifeOf'[k]]
         /\ parentOf' = [parentOf EXCEPT ![k] = parentOf'[k]]
         /\ outcomeOf' = [outcomeOf EXCEPT ![k] = outcomeOf'[k]]
         /\ toldOf' = [toldOf EXCEPT ![k] = toldOf'[k]]
<1>1. \A q \in Pid \ {k} : SameLooks(q)
  BY UntouchedLooks
<1> QED
  BY <1>1, MapsTotal, MapsTotalNext DEF SameLooks

\* A step that writes one slot, which only pid k has, leaves the others alone.
LEMMA OthersUntouched ==
  ASSUME NEW k \in Pid, NEW s \in Slot,
         \A t \in Slot \ {s} : procs'[t] = procs[t],
         procs[s].state = "FREE" \/ procs[s].pid = k,
         procs'[s].state = "FREE" \/ procs'[s].pid = k,
         \A q \in Pid \ {k} : /\ thr'[q].pc = "none" <=> thr[q].pc = "none"
                              /\ reaped'[q] = reaped[q] /\ status'[q] = status[q]
                              /\ q < next_pid' <=> q < next_pid
  PROVE  \A q \in Pid \ {k} : Untouched(q)
BY DEF Untouched, Matches

\* A step that changes no entry in what the mapping reads, and starts no
\* thread, is a stutter.
AlikeEntries ==
  \A s \in Slot : /\ procs'[s].pid = procs[s].pid /\ procs'[s].ppid = procs[s].ppid
                  /\ procs'[s].state = "FREE" <=> procs[s].state = "FREE"
                  /\ procs'[s].exited = procs[s].exited
                  /\ procs[s].exited => procs'[s].exit_code = procs[s].exit_code

LEMMA AlikeStutters ==
  ASSUME PidsUnique, PidsUnique', AlikeEntries,
         \A q \in Pid : thr'[q].pc = "none" <=> thr[q].pc = "none",
         UNCHANGED <<next_pid, reaped, status>>
  PROVE  UNCHANGED Life!lifeVars
<1>1. \A q \in Pid : Untouched(q)
  BY DEF Untouched, AlikeEntries, Matches
<1> QED
  BY <1>1, Stutters

LEMMA SameAlike == SameEntries => AlikeEntries
BY DEF SameEntries, AlikeEntries

LEMMA AliveLooks ==
  ASSUME Inv, NEW p \in Pid, Alive(p)
  PROVE  /\ lifeOf[p] = "alive" /\ parentOf[p] = procs[proc[p]].ppid
         /\ outcomeOf[p] = -1 /\ toldOf[p] = -1
<1>1. proc[p] \in Slot /\ Matches(proc[p], p) /\ ~procs[proc[p]].exited
  BY AliveFacts DEF Matches, MyPid
<1>2. reaped[p] = 0 /\ thr[p].pc # "none"
  BY AliveAlone DEF Alive
<1>3. Looks
  BY LooksNow DEF Inv
<1> QED
  BY <1>1, <1>2, <1>3 DEF Looks, UsedBy

\* The pid of a fork in progress.
LEMMA ForkLooks ==
  ASSUME Inv, NEW p \in Pid, thr[p].call = "fork", NEW k, k = thr[p].pid
  PROVE  /\ lifeOf[k] = "embryo" /\ parentOf[k] = p
         /\ outcomeOf[k] = -1 /\ toldOf[k] = -1
<1>1. PICK s \in Slot : s = thr[p].ptr
  BY ForkAlone
<1>2. /\ k \in Pid /\ procs[s].pid = k /\ procs[s].ppid = p /\ ~procs[s].exited
      /\ thr[k].pc = "none" /\ reaped[k] = 0
  BY <1>1, ForkAlone
<1>3. Matches(s, k)
  BY <1>1, <1>2 DEF Inv, ByPidInv, ForkSlots, Matches
<1>4. Looks
  BY LooksNow DEF Inv
<1> QED
  BY <1>1, <1>2, <1>3, <1>4 DEF Looks, UsedBy

-----------------------------------------------------------------------------
(* Steps of which the life cycle sees nothing *)

\* Thread p goes on; no thread is started.
LEMMA MoveStarts ==
  ASSUME TypeInv, NEW p \in Pid, NEW f \in Thread, Goto(p, f), f.pc # "none", thr[p].pc # "none"
  PROVE  \A q \in Pid : thr'[q].pc = "none" <=> thr[q].pc = "none"
BY Moved DEF TypeInv, TypeOK

LEMMA MoveStutters ==
  ASSUME Inv, Inv', NEW p \in Pid,
         \/ ThreadStart(p) \/ GuestReturns(p) \/ ThreadEnd(p) \/ SpuriousWakeup(p)
         \/ ExitCall(p) \/ WaitFind(p) \/ WaitCheck(p) \/ SetpgidFind(p)
  PROVE  UNCHANGED Life!lifeVars
<1>1. UNCHANGED <<procs, next_pid, reaped, status>>
  BY DEF ThreadStart, GuestReturns, ThreadEnd, SpuriousWakeup, ExitCall, WaitFind, WaitCheck,
         SetpgidFind, ghosts
<1>2. thr[p].pc # "none"
  BY GuestFacts DEF ThreadStart, GuestReturns, ThreadEnd, SpuriousWakeup, ExitCall, WaitFind,
                    WaitCheck, SetpgidFind, InGuest, At
<1>3. PICK f : Goto(p, f) /\ f.pc # "none"
  <2>1. CASE ThreadStart(p) \/ GuestReturns(p) \/ ThreadEnd(p)
    BY <2>1, GuestFacts DEF ThreadStart, GuestReturns, ThreadEnd
  <2>2. CASE ExitCall(p) \/ WaitFind(p) \/ SetpgidFind(p)
    <3>1. PICK call, pc, ptr, pid, code :
            Goto(p, Frame(call, pc, ptr, pid, code)) /\ pc \in {"state", "lock", "write"}
      BY <2>2 DEF ExitCall, WaitFind, SetpgidFind
    <3> QED
      BY <3>1 DEF Frame
  <2>3. CASE SpuriousWakeup(p) \/ WaitCheck(p)
    <3>1. thr[p] \in Thread
      BY DEF Inv, TypeInv, TypeOK
    <3>2. /\ [thr[p] EXCEPT !.pc = "lock"].pc = "lock"
          /\ [thr[p] EXCEPT !.pc = "sleep"].pc = "sleep"
          /\ [thr[p] EXCEPT !.pc = "free", !.code = procs[thr[p].ptr].exit_code].pc = "free"
      BY <3>1 DEF Thread
    <3> QED
      BY <2>3, <3>2, GuestFacts DEF SpuriousWakeup, WaitCheck, Step
  <2> QED
    BY <2>1, <2>2, <2>3
<1>4. \A q \in Pid : thr'[q].pc = "none" <=> thr[q].pc = "none"
  BY <1>2, <1>3 DEF Goto, Inv, TypeInv, TypeOK
<1> QED
  BY <1>1, <1>4, SameTable, SameAlike, AlikeStutters DEF Inv

LEMMA GroupStutters ==
  ASSUME Inv, Inv', NEW p \in Pid, ForkIds(p) \/ SetpgidWrite(p) \/ Setsid(p)
  PROVE  UNCHANGED Life!lifeVars
<1>1. UNCHANGED <<next_pid, reaped, status>>
  BY DEF ForkIds, SetpgidWrite, Setsid, ghosts
<1>2. \A q \in Pid : thr'[q].pc = "none" <=> thr[q].pc = "none"
  <2>1. CASE Setsid(p)
    BY <2>1 DEF Setsid
  <2>2. CASE ForkIds(p) \/ SetpgidWrite(p)
    <3>1. thr[p] \in Thread /\ thr[p].pc # "none"
      BY <2>2 DEF ForkIds, SetpgidWrite, At, Inv, TypeInv, TypeOK
    <3>2. [thr[p] EXCEPT !.pc = "memory"] \in Thread /\ [thr[p] EXCEPT !.pc = "memory"].pc = "memory"
      BY <3>1, StepFacts DEF Point
    <3> QED
      BY <2>2, <3>1, <3>2, MoveStarts, GuestFacts DEF ForkIds, SetpgidWrite, Step, Inv
  <2> QED
    BY <2>1, <2>2
<1> QED
  BY <1>1, <1>2, GroupEntries, SameAlike, AlikeStutters DEF Inv

\* The entry of slot s changes in its state or in its exit code, before its
\* flag is set.
LEMMA EntryAlike ==
  ASSUME TypeInv, NEW s \in Slot, NEW e \in Proc, SetProc(s, e),
         e.pid = procs[s].pid, e.ppid = procs[s].ppid,
         e.state # "FREE", procs[s].state # "FREE", ~e.exited, ~procs[s].exited
  PROVE  AlikeEntries
<1>1. \A t \in Slot : procs'[t] = IF t = s THEN e ELSE procs[t]
  BY Written DEF TypeInv, TypeOK
<1>2. procs[s] \in Proc /\ e.exited = procs[s].exited
  BY DEF TypeInv, TypeOK, Proc
<1> QED
  BY <1>1, <1>2 DEF AlikeEntries

\* The two writes of yos_proc_exit before the flag.
LEMMA ExitStutters ==
  ASSUME Inv, Inv', NEW p \in Pid, ProcExitState(p) \/ ProcExitCode(p)
  PROVE  UNCHANGED Life!lifeVars
<1>1. thr[p].call = "exit" /\ thr[p] \in Thread /\ thr[p].pc # "none" /\ thr[p].code \in Int
      /\ UNCHANGED <<next_pid, reaped, status>>
  BY DEF ProcExitState, ProcExitCode, At, Dying, ghosts, Inv, ByPidInv, NoKills,
         TypeInv, TypeOK, Thread
<1>2. PICK s \in Slot : s = thr[p].ptr /\ s = proc[p]
  BY <1>1, InCallFacts DEF Inv, ByPidInv, ExitSlots
<1>3. procs[s] \in Proc /\ ~procs[s].exited /\ procs[s].state # "FREE"
  BY <1>1, <1>2, AliveFacts DEF Alive, Inv, ByPidInv, ExitSlots, MyPid, Exiting
<1> DEFINE dead == [procs[s] EXCEPT !.state = "ZOMBIE"]
           coded == [procs[s] EXCEPT !.exit_code = thr[p].code]
<1>4. dead \in Proc /\ dead.state = "ZOMBIE" /\ dead.pid = procs[s].pid
      /\ dead.ppid = procs[s].ppid /\ dead.exited = procs[s].exited
  BY <1>3, StateFacts DEF State
<1>5. coded \in Proc /\ coded.state = procs[s].state /\ coded.pid = procs[s].pid
      /\ coded.ppid = procs[s].ppid /\ coded.exited = procs[s].exited
  BY <1>1, <1>3, CodeFacts
<1>6. SetProc(s, dead) \/ SetProc(s, coded)
  BY <1>2 DEF ProcExitState, ProcExitCode, SetState
<1> HIDE DEF dead, coded
<1>7. AlikeEntries
  BY <1>3, <1>4, <1>5, <1>6, EntryAlike DEF Inv
<1>8. PICK pc \in {"code", "flag"} : Goto(p, [thr[p] EXCEPT !.pc = pc])
  BY DEF ProcExitState, ProcExitCode, Step
<1>9. [thr[p] EXCEPT !.pc = pc] \in Thread /\ [thr[p] EXCEPT !.pc = pc].pc = pc
  <2>1. pc \in Point
    BY DEF Point
  <2> HIDE DEF Point
  <2> QED
    BY <1>1, <2>1, StepFacts
<1>10. \A q \in Pid : thr'[q].pc = "none" <=> thr[q].pc = "none"
  BY <1>1, <1>8, <1>9, MoveStarts DEF Inv
<1> QED
  BY <1>1, <1>7, <1>10, AlikeStutters DEF Inv

-----------------------------------------------------------------------------
(* Steps of the life cycle *)

\* The pid of a slot that was given up looks withdrawn.
LEMMA GivenUp ==
  ASSUME Inv, Inv', NEW k \in Pid, NEW s \in Slot,
         lifeOf[k] \in {"unborn", "embryo"}, outcomeOf[k] = -1, toldOf[k] = -1,
         procs'[s].state = "FREE", \A t \in Slot \ {s} : procs'[t] = procs[t],
         \A t \in Slot \ {s} : ~Matches(t, k),
         reaped'[k] = 0, k < next_pid',
         \A q \in Pid \ {k} : Untouched(q)
  PROVE  Life!Withdraw(k)
<1>1. \A t \in Slot : ~(procs'[t].pid = k /\ procs'[t].state # "FREE")
  BY DEF Matches
<1>2. Looks'
  BY LooksNext DEF Inv
<1>3. lifeOf'[k] = "withdrawn" /\ parentOf'[k] = 0 /\ outcomeOf'[k] = -1 /\ toldOf'[k] = -1
  BY <1>1, <1>2 DEF Looks, NotUsed, Matches
<1>4. outcomeOf' = outcomeOf /\ toldOf' = toldOf
  BY <1>3, OneChange, MapsTotal DEF Inv
<1> QED
  BY <1>3, <1>4, OneChange DEF Life!Withdraw, Inv

LEMMA ForkGivesUp ==
  ASSUME Inv, Inv', NEW p \in Pid, thr[p].call = "fork",
         SetState(thr[p].ptr, "FREE"), Goto(p, Guest),
         UNCHANGED <<next_pid, reaped, status>>
  PROVE  \E k \in Pid : Life!Withdraw(k)
<1> PICK s \in Slot, k \in Pid : s = thr[p].ptr /\ k = thr[p].pid
  BY ForkAlone
<1>1. /\ k < next_pid /\ k # p /\ procs[s] \in Proc /\ procs[s].pid = k /\ reaped[k] = 0
  BY ForkAlone
<1> DEFINE given == [procs[s] EXCEPT !.state = "FREE"]
<1>2. given \in Proc /\ given.state = "FREE" /\ SetProc(s, given)
  BY <1>1, StateFacts DEF SetState, State
<1> HIDE DEF given
<1>3. \A t \in Slot : procs'[t] = IF t = s THEN given ELSE procs[t]
  BY <1>2, Written DEF Inv, TypeInv, TypeOK
<1>4. \A q \in Pid : thr'[q].pc = "none" <=> thr[q].pc = "none"
  <2>1. thr[p].pc # "none"
    BY DEF Inv, TypeInv, CallsHold
  <2> QED
    BY <2>1, MoveStarts, GuestFacts DEF Inv
<1>5. \A q \in Pid \ {k} : Untouched(q)
  BY <1>1, <1>2, <1>3, <1>4, OthersUntouched
<1>6. \A t \in Slot \ {s} : ~Matches(t, k)
  BY <1>1 DEF Inv, PidsUnique, Matches, Pid
<1>7. lifeOf[k] = "embryo" /\ outcomeOf[k] = -1 /\ toldOf[k] = -1
  BY ForkLooks
<1> QED
  BY <1>1, <1>2, <1>3, <1>5, <1>6, <1>7, GivenUp

LEMMA ForkMemoryLife ==
  ASSUME Inv, Inv', NEW p \in Pid, ForkMemory(p)
  PROVE  (\E k \in Pid : Life!Withdraw(k)) \/ UNCHANGED Life!lifeVars
<1>1. thr[p].call = "fork" /\ thr[p] \in Thread /\ thr[p].pc # "none"
      /\ UNCHANGED <<next_pid, reaped, status>>
  BY DEF ForkMemory, At, ghosts, Inv, TypeInv, TypeOK
<1>2. CASE SetState(thr[p].ptr, "FREE") /\ Goto(p, Guest)
  BY <1>1, <1>2, ForkGivesUp
<1>3. CASE SetState(thr[p].ptr, "RUNNING") /\ Step(p, "spawn")
  <2> PICK s \in Slot : s = thr[p].ptr
    BY <1>1, ForkAlone
  <2>1. procs[s] \in Proc /\ ~procs[s].exited /\ procs[s].state # "FREE"
    BY <1>1, ForkAlone DEF Inv, ByPidInv, ForkSlots
  <2> DEFINE e == [procs[s] EXCEPT !.state = "RUNNING"]
             f == [thr[p] EXCEPT !.pc = "spawn"]
  <2>2. e \in Proc /\ e.state = "RUNNING" /\ e.pid = procs[s].pid
        /\ e.ppid = procs[s].ppid /\ e.exited = procs[s].exited
    BY <2>1, StateFacts DEF State
  <2>3. f \in Thread /\ f.pc = "spawn"
    BY <1>1, StepFacts DEF Point
  <2>4. SetProc(s, e) /\ Goto(p, f)
    BY <1>3 DEF SetState, Step
  <2> HIDE DEF e, f
  <2>5. AlikeEntries
    BY <2>1, <2>2, <2>4, EntryAlike DEF Inv
  <2>6. \A q \in Pid : thr'[q].pc = "none" <=> thr[q].pc = "none"
    BY <1>1, <2>3, <2>4, MoveStarts DEF Inv
  <2> QED
    BY <1>1, <2>5, <2>6, AlikeStutters DEF Inv
<1> QED
  BY <1>2, <1>3 DEF ForkMemory

LEMMA ForkSpawnLife ==
  ASSUME Inv, Inv', NEW p \in Pid, ForkSpawn(p)
  PROVE  \E k \in Pid : Life!Withdraw(k) \/ Life!Begin(k)
<1>1. thr[p].call = "fork" /\ thr[p].pc = "spawn" /\ UNCHANGED <<next_pid, reaped, status>>
  BY DEF ForkSpawn, At, ghosts
<1> DEFINE start == Frame("none", "start", NULL, 0, 0)
<1>2. CASE SetState(thr[p].ptr, "FREE") /\ Goto(p, Guest)
  BY <1>1, <1>2, ForkGivesUp
<1>3. CASE procs' = procs /\ thr' = [thr EXCEPT ![p] = Guest, ![thr[p].pid] = start]
  <2> PICK s \in Slot, k \in Pid : s = thr[p].ptr /\ k = thr[p].pid
    BY <1>1, ForkAlone
  <2>1. k < next_pid /\ k # p /\ procs[s].pid = k /\ procs[s].ppid = p /\ ~procs[s].exited
        /\ reaped[k] = 0
    BY <1>1, ForkAlone
  <2>2. Matches(s, k)
    BY <1>1, <2>1 DEF Inv, ByPidInv, ForkSlots, Matches
  <2>3. start.pc = "start" /\ Guest.pc = "run"
    BY DEF Frame, Guest
  <2> HIDE DEF start
  <2>4. \A q \in Pid : thr'[q] = IF q = k THEN start ELSE IF q = p THEN Guest ELSE thr[q]
    BY <1>3, <2>1 DEF Inv, TypeInv, TypeOK
  <2>5. thr[p].pc # "none"
    BY <1>1
  <2>6. \A q \in Pid \ {k} : Untouched(q)
    BY <1>1, <1>3, <2>3, <2>4, <2>5 DEF Untouched, Matches
  <2>7. lifeOf[k] = "embryo" /\ parentOf[k] = p /\ outcomeOf[k] = -1 /\ toldOf[k] = -1
    BY <1>1, ForkLooks
  <2>8. Looks'
    BY LooksNext DEF Inv
  <2>9. procs'[s].pid = k /\ procs'[s].state # "FREE" /\ procs'[s].ppid = p /\ ~procs'[s].exited
        /\ thr'[k].pc # "none" /\ reaped'[k] = 0
    BY <1>1, <1>3, <2>1, <2>2, <2>3, <2>4 DEF Matches
  <2>10. lifeOf'[k] = "alive" /\ parentOf'[k] = p /\ outcomeOf'[k] = -1 /\ toldOf'[k] = -1
    BY <2>8, <2>9 DEF Looks, UsedBy, Matches
  <2>11. parentOf' = parentOf /\ outcomeOf' = outcomeOf /\ toldOf' = toldOf
    BY <2>6, <2>7, <2>10, OneChange, MapsTotal DEF Inv
  <2> QED
    BY <2>6, <2>7, <2>10, <2>11, OneChange DEF Life!Begin, Inv
<1> QED
  BY <1>2, <1>3 DEF ForkSpawn

LEMMA ForkAllocLife ==
  ASSUME Inv, Inv', NEW p \in Pid, ForkAlloc(p)
  PROVE  \E k \in Pid : Life!Conceive(p, k)
<1>1. thr[p].pc = "run" /\ thr[p].call = "none" /\ MyPid(p) \in 0 .. MaxPid
  BY InGuestFacts DEF ForkAlloc, Inv
<1>2. Alive(p) /\ MyPid(p) = p
  BY <1>1, AliveFacts DEF Alive
<1>3. PICK s \in Slot, k \in Pid :
        /\ k = next_pid /\ procs[s].state = "FREE"
        /\ SetProc(s, NewProc(k, p)) /\ Goto(p, Frame("fork", "ids", s, k, 0))
  <2>1. next_pid \in Pid
    BY DEF ForkAlloc, Inv, TypeInv, TypeOK, Pid
  <2> QED
    BY <1>2, <2>1 DEF ForkAlloc, FirstFree
<1>4. next_pid' = next_pid + 1 /\ reaped' = reaped /\ status' = status
  BY DEF ForkAlloc, NextPid, ghosts
<1> DEFINE e == NewProc(k, p)
           f == Frame("fork", "ids", s, k, 0)
<1>5. e \in Proc /\ e.pid = k /\ e.ppid = p /\ e.state = "READY" /\ ~e.exited
  BY NewProcFacts DEF Pid
<1>6. f \in Thread /\ f.pc = "ids"
  BY FrameFits DEF Call, Point, Pid, Ended, Fits
<1>7. SetProc(s, e) /\ Goto(p, f)
  BY <1>3
<1> HIDE DEF e, f
<1>8. \A t \in Slot : procs'[t] = IF t = s THEN e ELSE procs[t]
  BY <1>5, <1>7, Written DEF Inv, TypeInv, TypeOK
<1>9. \A q \in Pid : thr'[q].pc = "none" <=> thr[q].pc = "none"
  BY <1>1, <1>6, <1>7, MoveStarts DEF Inv
<1>10. \A q \in Pid \ {k} : Untouched(q)
  <2>1. \A q \in Pid \ {k} : q < next_pid' <=> q < next_pid
    BY <1>3, <1>4 DEF Pid
  <2> QED
    BY <1>3, <1>4, <1>5, <1>8, <1>9, <2>1, OthersUntouched
<1>11. /\ thr[k].pc = "none" /\ reaped[k] = 0 /\ ~(k < next_pid)
       /\ \A t \in Slot : ~Matches(t, k)
  <2>1. \A t \in Slot : procs[t].pid # k
    BY <1>3 DEF Inv, PidsUnique, Pid
  <2> QED
    BY <1>3, <2>1 DEF Inv, ByPidInv, UnusedPids, Matches, Pid
<1>12. lifeOf[k] = "unborn" /\ outcomeOf[k] = -1 /\ toldOf[k] = -1
  <2>1. Looks
    BY LooksNow DEF Inv
  <2> QED
    BY <1>11, <2>1 DEF Looks, NotUsed
<1>13. lifeOf'[k] = "embryo" /\ parentOf'[k] = p /\ outcomeOf'[k] = -1 /\ toldOf'[k] = -1
  <2>1. Looks'
    BY LooksNext DEF Inv
  <2>2. procs'[s].pid = k /\ procs'[s].state # "FREE" /\ procs'[s].ppid = p /\ ~procs'[s].exited
        /\ thr'[k].pc = "none" /\ reaped'[k] = 0
    BY <1>4, <1>5, <1>8, <1>9, <1>11
  <2> QED
    BY <2>1, <2>2 DEF Looks, UsedBy, Matches
<1>14. outcomeOf' = outcomeOf /\ toldOf' = toldOf
  BY <1>10, <1>12, <1>13, OneChange, MapsTotal DEF Inv
<1>15. lifeOf[p] = "alive"
  BY <1>2, AliveLooks
<1> QED
  BY <1>10, <1>12, <1>13, <1>14, <1>15, OneChange DEF Life!Conceive, Inv

LEMMA CreateInitLife ==
  ASSUME Inv, Inv', CreateInit
  PROVE  Life!Boot(1) \/ Life!Withdraw(1)
<1>1. next_pid = 1 /\ next_pid' = 2 /\ reaped' = reaped /\ status' = status
  BY DEF CreateInit, NextPid, ghosts
<1>2. \A q \in Pid : thr[q].pc = "none" /\ reaped[q] = 0 /\ ~(q < 1)
  BY <1>1 DEF Inv, ByPidInv, UnusedPids, Pid
<1>3. \A t \in Slot : procs[t].state = "FREE"
  BY TableEmpty
<1>4. \A q \in Pid : lifeOf[q] = "unborn" /\ parentOf[q] = 0 /\ outcomeOf[q] = -1 /\ toldOf[q] = -1
  <2>1. Looks
    BY LooksNow DEF Inv
  <2> QED
    BY <1>1, <1>2, <1>3, <2>1 DEF Looks, NotUsed, Matches
<1> DEFINE r == NewProc(1, 0)
           begun == [r EXCEPT !.state = "RUNNING"]
           given == [r EXCEPT !.state = "FREE"]
<1>5. \/ SetProc(1, begun) /\ Goto(1, Guest)
      \/ SetProc(1, given) /\ UNCHANGED thr
  BY DEF CreateInit
<1>6. r \in Proc /\ r.pid = 1 /\ r.ppid = 0 /\ ~r.exited
  BY NewProcFacts
<1> HIDE DEF r
<1>7. /\ begun \in Proc /\ begun.pid = 1 /\ begun.ppid = 0 /\ ~begun.exited
      /\ begun.state = "RUNNING"
      /\ given \in Proc /\ given.state = "FREE"
  BY <1>6, StateFacts DEF State
<1> HIDE DEF begun, given
<1>8. \A q \in Pid \ {1} : q < next_pid' <=> q < next_pid
  BY <1>1 DEF Pid
<1>9. CASE SetProc(1, begun) /\ Goto(1, Guest)
  <2>1. /\ \A t \in Slot : procs'[t] = IF t = 1 THEN begun ELSE procs[t]
        /\ \A q \in Pid : thr'[q] = IF q = 1 THEN Guest ELSE thr[q]
    BY <1>7, <1>9, SlotPid, Written, Moved, GuestFacts DEF Inv, TypeInv, TypeOK
  <2>2. \A q \in Pid \ {1} : Untouched(q)
    BY <1>1, <1>3, <1>7, <1>8, <2>1, SlotPid, OthersUntouched
  <2>3. lifeOf'[1] = "alive" /\ parentOf'[1] = 0 /\ outcomeOf'[1] = -1 /\ toldOf'[1] = -1
    <3>1. Looks'
      BY LooksNext DEF Inv
    <3>2. procs'[1].pid = 1 /\ procs'[1].state # "FREE" /\ procs'[1].ppid = 0
          /\ ~procs'[1].exited /\ thr'[1].pc # "none" /\ reaped'[1] = 0
      BY <1>1, <1>2, <1>7, <2>1, SlotPid, GuestFacts
    <3> QED
      BY <3>1, <3>2, SlotPid DEF Looks, UsedBy, Matches
  <2>4. parentOf' = parentOf /\ outcomeOf' = outcomeOf /\ toldOf' = toldOf
    BY <1>4, <2>2, <2>3, SlotPid, OneChange, MapsTotal DEF Inv
  <2> QED
    BY <1>4, <2>2, <2>3, <2>4, SlotPid, OneChange DEF Life!Boot, Inv
<1>10. CASE SetProc(1, given) /\ UNCHANGED thr
  <2>1. \A t \in Slot : procs'[t] = IF t = 1 THEN given ELSE procs[t]
    BY <1>7, <1>10, SlotPid, Written DEF Inv, TypeInv, TypeOK
  <2>2. \A q \in Pid \ {1} : Untouched(q)
    BY <1>1, <1>3, <1>7, <1>8, <1>10, <2>1, SlotPid, OthersUntouched
  <2>3. \A t \in Slot : ~Matches(t, 1)
    BY <1>3 DEF Matches
  <2> QED
    BY <1>1, <1>2, <1>4, <1>7, <2>1, <2>2, <2>3, SlotPid, GivenUp
<1> QED
  BY <1>5, <1>9, <1>10

LEMMA ProcExitFlagLife ==
  ASSUME Inv, Inv', NEW p \in Pid, ProcExitFlag(p)
  PROVE  \E c \in Codes : Life!Exit(p, WStatus(c))
<1>1. thr[p].call = "exit" /\ thr[p].pc = "flag" /\ UNCHANGED <<next_pid, reaped, status>>
  BY DEF ProcExitFlag, At, Dying, ghosts, Inv, ByPidInv, NoKills
<1>2. PICK s \in Slot, c \in Codes : s = thr[p].ptr /\ s = proc[p] /\ c = thr[p].code
  BY <1>1, InCallFacts DEF Inv, ByPidInv, ExitSlots, TypeInv, TypeOK
<1>3. Alive(p)
  BY <1>1 DEF Alive
<1>4. procs[s] \in Proc /\ procs[s].pid = p /\ procs[s].state = "ZOMBIE" /\ procs[s].exit_code = c
  BY <1>1, <1>2, <1>3, AliveFacts DEF MyPid, Exiting, Inv, ByPidInv, ExitSlots
<1> DEFINE e == [procs[s] EXCEPT !.exited = TRUE]
<1>5. /\ e \in Proc /\ e.pid = p /\ e.ppid = procs[s].ppid /\ e.exited
      /\ e.exit_code = c /\ e.state = "ZOMBIE"
  BY <1>4, FlagFacts
<1>6. SetProc(s, e)
  BY <1>2 DEF ProcExitFlag
<1> HIDE DEF e
<1>7. \A t \in Slot : procs'[t] = IF t = s THEN e ELSE procs[t]
  BY <1>5, <1>6, Written DEF Inv, TypeInv, TypeOK
<1>8. ASSUME NEW q \in Pid \ {p} PROVE thr'[q].pc = "none" <=> thr[q].pc = "none"
  <2>1. thr'[q] = IF q \in Woken(s) THEN [thr[q] EXCEPT !.pc = "lock"] ELSE thr[q]
    BY <1>2 DEF ProcExitFlag
  <2>2. q \in Woken(s) => thr[q].pc = "sleep"
    BY DEF Woken
  <2>3. [thr[q] EXCEPT !.pc = "lock"].pc = "lock"
    BY StepFacts DEF Point, Inv, TypeInv, TypeOK
  <2> QED
    BY <2>1, <2>2, <2>3
<1>9. \A q \in Pid \ {p} : Untouched(q)
  BY <1>1, <1>4, <1>5, <1>7, <1>8, OthersUntouched
<1>10. /\ lifeOf[p] = "alive" /\ parentOf[p] = procs[s].ppid
       /\ outcomeOf[p] = -1 /\ toldOf[p] = -1 /\ reaped[p] = 0
  BY <1>2, <1>3, AliveLooks, AliveAlone
<1>11. /\ lifeOf'[p] = "zombie" /\ parentOf'[p] = procs[s].ppid
       /\ outcomeOf'[p] = WStatus(c) /\ toldOf'[p] = -1
  <2>1. Looks'
    BY LooksNext DEF Inv
  <2>2. procs'[s].pid = p /\ procs'[s].state # "FREE" /\ procs'[s].ppid = procs[s].ppid
        /\ procs'[s].exited /\ procs'[s].exit_code = c /\ reaped'[p] = 0
    BY <1>1, <1>5, <1>7, <1>10
  <2> QED
    BY <2>1, <2>2 DEF Looks, UsedBy, Matches
<1>12. parentOf' = parentOf /\ toldOf' = toldOf
  BY <1>9, <1>10, <1>11, OneChange, MapsTotal DEF Inv
<1> QED
  BY <1>9, <1>10, <1>11, <1>12, OneChange DEF Life!Exit, Inv

LEMMA WaitFreeLife ==
  ASSUME Inv, Inv', NEW p \in Pid, WaitFree(p)
  PROVE  \E k \in Pid : Life!Collect(p, k)
<1>1. thr[p].call \in Waiting /\ thr[p].pc = "free" /\ next_pid' = next_pid
  BY DEF WaitFree, At
<1> PICK s \in Slot, k \in Pid : s = thr[p].ptr /\ k = thr[p].pid
  BY <1>1, WaitAlone
<1>2. /\ k # p /\ procs[s] \in Proc /\ procs[s].pid = k /\ procs[s].ppid = p
      /\ procs[s].state = "ZOMBIE" /\ procs[s].exited /\ reaped[k] = 0
      /\ \A t \in Slot : t # s => procs[t].pid # k
  BY <1>1, WaitAlone
<1>3. thr[p].code = procs[s].exit_code
  BY <1>1 DEF Inv, ByPidInv, WaitSlots
<1> DEFINE e == [procs[s] EXCEPT !.state = "FREE"]
<1>4. e \in Proc /\ e.state = "FREE" /\ SetProc(s, e) /\ Goto(p, Guest)
  BY <1>2, StateFacts DEF State, WaitFree, FreeSlot, SetState
<1> HIDE DEF e
<1>5. \A t \in Slot : procs'[t] = IF t = s THEN e ELSE procs[t]
  BY <1>4, Written DEF Inv, TypeInv, TypeOK
<1>6. \A q \in Pid : thr'[q].pc = "none" <=> thr[q].pc = "none"
  BY <1>1, <1>4, MoveStarts, GuestFacts DEF Inv
<1>7. /\ \A q \in Pid : reaped'[q] = IF q = k THEN 1 ELSE reaped[q]
      /\ \A q \in Pid : status'[q] = IF q = k THEN WStatus(thr[p].code) ELSE status[q]
  <2>1. /\ reaped' = [reaped EXCEPT ![k] = IF @ < MaxReports THEN @ + 1 ELSE @]
        /\ status' = [status EXCEPT ![k] = WStatus(thr[p].code)]
    BY DEF WaitFree, Report
  <2>2. reaped \in [Pid -> 0 .. MaxReports] /\ status \in [Pid -> Int]
    BY DEF Inv, TypeInv, TypeOK
  <2> QED
    BY <1>2, <2>1, <2>2 DEF MaxReports
<1>8. \A q \in Pid \ {k} : Untouched(q)
  BY <1>1, <1>2, <1>4, <1>5, <1>6, <1>7, OthersUntouched
<1>9. lifeOf[p] = "alive"
  BY <1>1, AliveLooks DEF Alive, Waiting
<1> PICK st : st = WStatus(thr[p].code)
  OBVIOUS
<1>10. lifeOf[k] = "zombie" /\ parentOf[k] = p /\ outcomeOf[k] = st
  <2>1. Looks /\ Matches(s, k)
    BY <1>2, LooksNow DEF Inv, Matches
  <2> QED
    BY <1>2, <1>3, <2>1 DEF Looks, UsedBy
<1>11. lifeOf'[k] = "collected" /\ parentOf'[k] = 0 /\ outcomeOf'[k] = st /\ toldOf'[k] = st
  <2>1. Looks'
    BY LooksNext DEF Inv
  <2>2. \A t \in Slot : ~(procs'[t].pid = k /\ procs'[t].state # "FREE")
    BY <1>2, <1>4, <1>5
  <2>3. reaped'[k] > 0 /\ status'[k] = st
    BY <1>7
  <2> QED
    BY <2>1, <2>2, <2>3 DEF Looks, NotUsed, Matches
<1>12. outcomeOf' = outcomeOf
  BY <1>8, <1>10, <1>11, OneChange, MapsTotal DEF Inv
<1> QED
  BY <1>8, <1>9, <1>10, <1>11, <1>12, OneChange DEF Life!Collect, Inv

-----------------------------------------------------------------------------
(* The implementation *)

LEMMA LifeInits == Init => Life!LifeInit
<1> SUFFICES ASSUME Init PROVE Life!LifeInit
  OBVIOUS
<1>1. Looks
  BY InvInit, LooksNow DEF Inv
<1>2. \A p \in Pid : reaped[p] = 0 /\ ~(p < next_pid) /\ \A s \in Slot : ~Matches(s, p)
  BY DEF Init, EmptyProc, Matches, Pid
<1>3. \A p \in Pid : lifeOf[p] = "unborn" /\ parentOf[p] = 0 /\ outcomeOf[p] = -1 /\ toldOf[p] = -1
  BY <1>1, <1>2 DEF Looks, NotUsed
<1> QED
  BY <1>3, MapsTotal DEF Life!LifeInit, Life!None

LEMMA LifeNexts ==
  ASSUME ByPidOnly, Inv, Inv', [Next]_vars
  PROVE  [Life!LifeNext]_(Life!lifeVars)
<1>1. CASE CreateInit
  BY <1>1, CreateInitLife, SlotPid DEF Life!LifeNext
<1>2. ASSUME NEW p \in Pid, ForkAlloc(p) PROVE Life!LifeNext
  BY <1>2, ForkAllocLife DEF Life!LifeNext
<1>3. ASSUME NEW p \in Pid, ForkMemory(p) PROVE [Life!LifeNext]_(Life!lifeVars)
  BY <1>3, ForkMemoryLife DEF Life!LifeNext
<1>4. ASSUME NEW p \in Pid, ForkSpawn(p) PROVE Life!LifeNext
  BY <1>4, ForkSpawnLife DEF Life!LifeNext
<1>5. ASSUME NEW p \in Pid, ProcExitFlag(p) PROVE Life!LifeNext
  BY <1>5, ProcExitFlagLife DEF Life!LifeNext
<1>6. ASSUME NEW p \in Pid, WaitFree(p) PROVE Life!LifeNext
  BY <1>6, WaitFreeLife DEF Life!LifeNext
<1>7. ASSUME NEW p \in Pid,
             \/ ThreadStart(p) \/ GuestReturns(p) \/ ThreadEnd(p) \/ SpuriousWakeup(p)
             \/ ExitCall(p) \/ WaitFind(p) \/ WaitCheck(p) \/ SetpgidFind(p)
      PROVE  UNCHANGED Life!lifeVars
  BY <1>7, MoveStutters
<1>8. ASSUME NEW p \in Pid, ForkIds(p) \/ SetpgidWrite(p) \/ Setsid(p)
      PROVE  UNCHANGED Life!lifeVars
  BY <1>8, GroupStutters
<1>9. ASSUME NEW p \in Pid, ProcExitState(p) \/ ProcExitCode(p) PROVE UNCHANGED Life!lifeVars
  BY <1>9, ExitStutters
<1>10. CASE UNCHANGED vars
  <2>1. UNCHANGED <<procs, next_pid, thr, reaped, status>>
    BY <1>10 DEF vars
  <2> QED
    BY <2>1, SameTable, SameAlike, AlikeStutters DEF Inv
<1>11. \A p \in Pid : ~KillCall(p) /\ ~WaitAny(p)
  BY DEF KillCall, WaitAny, ByPidOnly
<1> QED
  BY <1>1, <1>2, <1>3, <1>4, <1>5, <1>6, <1>7, <1>8, <1>9, <1>10, <1>11
  DEF Next, Internal, GuestCall

\* The table implements the life cycle: every step of the program, for any
\* number of slots and pids and with every host failure, is a step of
\* ProcLife or none.
THEOREM Implements == ASSUME ByPidOnly PROVE Spec => LifeCycle
<1>1. Inv /\ Inv' /\ [Next]_vars => [Life!LifeNext]_(Life!lifeVars)
  BY LifeNexts
<1>2. Spec => Life!LifeInit /\ [][Life!LifeNext]_(Life!lifeVars)
  BY <1>1, LifeInits, InvAlways, PTL DEF Spec
<1> QED
  BY <1>2 DEF LifeCycle, Life!LifeSpec

=============================================================================
