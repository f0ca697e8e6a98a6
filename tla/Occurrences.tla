------------------------------ MODULE Occurrences ------------------------------
(***************************************************************************)
(* What the scheduler promises about actions, with no tasks, no queue and  *)
(* no restarts: an occurrence of an action begins at most once and never   *)
(* before its time, the next one is due only when this one is complete,    *)
(* and an action that is held - it was interrupted, failed or put off -    *)
(* stays so until it is withdrawn.                                         *)
(***************************************************************************)
EXTENDS Naturals

CONSTANTS
  Actions,
  Times,    \* the times an action may be asked for, all in Nat
  Period    \* Period[a] > 0: the interval between occurrences, if a recurs

VARIABLES
  clock,
  job    \* job[a]: its stage, its kind, its first time, occurrences completed

occurrencesVars == <<clock, job>>

Stages == {"absent", "waiting", "running", "held", "gone"}
Kinds == {"recurring", "once"}

\* detached_recurring_action.next_scheduled_time is generated from the others;
\* detached_scheduled_action.scheduled_time is what was asked for.
NextTime(a, r) == IF r.kind = "recurring" THEN r.start + Period[a] * r.count ELSE r.start

NoJob == [at |-> "absent", kind |-> "once", start |-> 0, count |-> 0]

OccurrencesInit ==
  /\ clock = 0
  /\ job = [a \in Actions |-> NoJob]

Submit(a, kind, start) ==
  /\ job[a].at = "absent"
  /\ job' = [job EXCEPT ![a] = [at |-> "waiting", kind |-> kind, start |-> start, count |-> 0]]
  /\ UNCHANGED clock

Begin(a) ==
  /\ job[a].at = "waiting"
  /\ NextTime(a, job[a]) <= clock
  /\ job' = [job EXCEPT ![a].at = "running"]
  /\ UNCHANGED clock

Complete(a) ==
  /\ job[a].at = "running"
  /\ job' = [job EXCEPT ![a] =
       IF @.kind = "once" THEN [@ EXCEPT !.at = "gone"]
       ELSE [at |-> "waiting", kind |-> @.kind, start |-> @.start, count |-> @.count + 1]]
  /\ UNCHANGED clock

Hold(held) ==
  /\ \A a \in held : job[a].at \in {"waiting", "running"}
  /\ job' = [a \in Actions |-> IF a \in held THEN [job[a] EXCEPT !.at = "held"] ELSE job[a]]
  /\ UNCHANGED clock

Withdraw(a) ==
  /\ job[a].at \in {"waiting", "running", "held"}
  /\ job' = [job EXCEPT ![a].at = "gone"]
  /\ UNCHANGED clock

Pass ==
  /\ clock' = clock + 1
  /\ UNCHANGED job

OccurrencesNext ==
  \/ \E a \in Actions :
       \/ \E kind \in Kinds, start \in Times : Submit(a, kind, start)
       \/ Begin(a) \/ Complete(a) \/ Withdraw(a)
  \/ \E held \in SUBSET Actions : Hold(held)
  \/ Pass

OccurrencesSpec == OccurrencesInit /\ [][OccurrencesNext]_occurrencesVars
=============================================================================
