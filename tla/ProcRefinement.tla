--------------------------- MODULE ProcRefinement ---------------------------
(***************************************************************************)
(* The process table keeps the promise of ProcLife when guests wait for    *)
(* their children by pid and send no signals.                              *)
(***************************************************************************)
EXTENDS ProcTable

InUse(p) == \E s \in Slot : Matches(s, p)
SlotOf(p) == CHOOSE s \in Slot : Matches(s, p)
HasFlag(p) == InUse(p) /\ procs[SlotOf(p)].exited

lifeOf == [p \in Pid |->
  IF HasFlag(p) THEN "zombie"
  ELSE IF InUse(p) THEN IF thr[p].pc = "none" THEN "embryo" ELSE "alive"
  ELSE IF reaped[p] > 0 THEN "collected"
  ELSE IF p < next_pid THEN "withdrawn" ELSE "unborn"]

parentOf == [p \in Pid |-> IF InUse(p) THEN procs[SlotOf(p)].ppid ELSE 0]

outcomeOf == [p \in Pid |->
  IF HasFlag(p) THEN WStatus(procs[SlotOf(p)].exit_code)
  ELSE IF reaped[p] > 0 THEN status[p] ELSE -1]

toldOf == [p \in Pid |-> IF reaped[p] > 0 THEN status[p] ELSE -1]

Life == INSTANCE ProcLife
          WITH Statuses <- {WStatus(c) : c \in Codes},
               life <- lifeOf, parent <- parentOf,
               outcome <- outcomeOf, told <- toldOf

\* Every step of the table is a step of the abstract life cycle or leaves it
\* alone: no pid is born twice, collected twice, collected by another than
\* its living parent, collected while it runs or with another status.
LifeCycle == Life!LifeSpec

=============================================================================
