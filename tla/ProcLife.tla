------------------------------ MODULE ProcLife ------------------------------
(***************************************************************************)
(* What the process calls promise, without table, threads and locks: a pid *)
(* is created once, may be withdrawn before its process runs (a failed     *)
(* fork), exits at most once with one status, and is then collected by its *)
(* living parent, once, with that status.                                  *)
(***************************************************************************)
EXTENDS Integers

CONSTANTS Pid,       \* the pids, numbers from 1
          Statuses   \* the values a wait call stores through its pointer

VARIABLES
  life,      \* the stage each pid has reached
  parent,    \* the parent of each pid that can still be waited for, else 0
  outcome,   \* the status of each process that has exited
  told       \* the status its parent was told, for the collected ones

lifeVars == <<life, parent, outcome, told>>

None == -1         \* no status yet
Stage == {"unborn", "embryo", "alive", "zombie", "collected", "withdrawn"}

LifeInit ==
  /\ life = [p \in Pid |-> "unborn"]
  /\ parent = [p \in Pid |-> 0]
  /\ outcome = [p \in Pid |-> None]
  /\ told = [p \in Pid |-> None]

\* The first process; it has no parent.
Boot(p) ==
  /\ \A q \in Pid : life[q] = "unborn"
  /\ life' = [life EXCEPT ![p] = "alive"]
  /\ UNCHANGED <<parent, outcome, told>>

Conceive(q, p) ==
  /\ life[q] = "alive" /\ life[p] = "unborn"
  /\ life' = [life EXCEPT ![p] = "embryo"]
  /\ parent' = [parent EXCEPT ![p] = q]
  /\ UNCHANGED <<outcome, told>>

Begin(p) ==
  /\ life[p] = "embryo"
  /\ life' = [life EXCEPT ![p] = "alive"]
  /\ UNCHANGED <<parent, outcome, told>>

\* A fork, or the start of the first process, failed: the pid is not used.
Withdraw(p) ==
  /\ life[p] \in {"unborn", "embryo"}
  /\ life' = [life EXCEPT ![p] = "withdrawn"]
  /\ parent' = [parent EXCEPT ![p] = 0]
  /\ UNCHANGED <<outcome, told>>

Exit(p, st) ==
  /\ life[p] = "alive"
  /\ life' = [life EXCEPT ![p] = "zombie"]
  /\ outcome' = [outcome EXCEPT ![p] = st]
  /\ UNCHANGED <<parent, told>>

Collect(q, p) ==
  /\ life[q] = "alive" /\ life[p] = "zombie" /\ parent[p] = q
  /\ life' = [life EXCEPT ![p] = "collected"]
  /\ told' = [told EXCEPT ![p] = outcome[p]]
  /\ parent' = [parent EXCEPT ![p] = 0]
  /\ UNCHANGED outcome

LifeNext ==
  \E p \in Pid :
    \/ Boot(p) \/ Begin(p) \/ Withdraw(p)
    \/ \E st \in Statuses : Exit(p, st)
    \/ \E q \in Pid : Conceive(q, p) \/ Collect(q, p)

LifeSpec == LifeInit /\ [][LifeNext]_lifeVars

=============================================================================
