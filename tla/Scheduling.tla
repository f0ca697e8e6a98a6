------------------------------- MODULE Scheduling -------------------------------
(***************************************************************************)
(* The scheduler of actions (runtime/scheduling.rs) with the rows it       *)
(* persists, and the startup that queues them again (server/main.rs).      *)
(* Both are disabled at this commit; the model is of the code as it stands.*)
(*                                                                         *)
(* A row's mark "executing" is the lock of an action: it is set by the     *)
(* statement that acquires the action, and reset by the one that releases  *)
(* it.  Tasks, and the queue they wait in, are lost when the process dies; *)
(* rows and their marks are not.                                           *)
(***************************************************************************)
EXTENDS Naturals

CONSTANTS
  Actions,
  Period,
  MaxTime,    \* bounds the clock
  MaxCrashes  \* bounds how often the server dies

ASSUME SchedulingAssumption ==
  /\ MaxTime \in Nat /\ MaxCrashes \in Nat
  /\ Period \in [Actions -> Nat \ {0}]

\* Who queued an action: the op that created it, or the startup.  A task that
\* queues its action again passes its place on, so there is one of each.
Sources == {"op", "boot"}

Kinds == {"recurring", "once"}

\* Its time was over when it was to be queued, or could not be asked for because
\* another's was; a request went away, or a statement failed.
Faults == {"overdue", "error"}

VARIABLES
  clock,
  row,      \* row[a]: the row of a in one of the two tables
  task,     \* task[a][s]: where the task s queued for a is, and when it wakes
  boot,     \* the startup: which table it reads next
  crashes,  \* how often the server has died
  fault     \* fault[a]: what has gone wrong since then and may have left a unqueued
            \* (history)

schedulingVars == <<clock, row, task, boot, crashes, fault>>

NoRow == [at |-> "absent", kind |-> "once", start |-> 0, count |-> 0, executing |-> FALSE]
NoTask == [pc |-> "none", due |-> 0]
NoFaults == [a \in Actions |-> {}]
NoTasks == [a \in Actions |-> [s \in Sources |-> NoTask]]

SchedulingTypeOK ==
  /\ clock \in Nat
  /\ row \in [Actions -> [at : {"absent", "stored", "gone"}, kind : Kinds, start : Nat,
                          count : Nat, executing : BOOLEAN]]
  /\ task \in [Actions -> [Sources -> [pc : {"none", "inserted", "sleep", "run", "release"},
                                       due : Nat]]]
  /\ boot \in {"scheduled", "recurring", "done"}
  /\ crashes \in Nat
  /\ fault \in [Actions -> SUBSET Faults]

SchedulingInit ==
  /\ clock = 0
  /\ row = [a \in Actions |-> NoRow]
  /\ task = NoTasks
  /\ boot = "scheduled"
  /\ crashes = 0
  /\ fault = NoFaults

-----------------------------------------------------------------------------
NextTime(a, r) == IF r.kind = "recurring" THEN r.start + Period[a] * r.count ELSE r.start

Stored(a) == row[a].at = "stored"
Running(a) == \E s \in Sources : task[a][s].pc \in {"run", "release"}

\* compute_time_until unwraps the duration, which must not be negative.
Overdue(time) == time < clock

\* Mutant: the delay is rounded up.
AsleepLonger(time) == [pc |-> "sleep", due |-> time + 1]
Asleep(time) == [pc |-> "sleep", due |-> time]

\* The startup has yet to read the row of a.
ToBoot(a) == boot = "scheduled" \/ (boot = "recurring" /\ row[a].kind = "recurring")

Blamed(actions, why) ==
  [a \in Actions |-> IF a \in actions THEN fault[a] \cup {why} ELSE fault[a]]

TaskEnds(a, s) == task' = [task EXCEPT ![a][s] = NoTask]

\* queue: the action sleeps, or whoever queues it panics and nobody does.
Queue(a, s, time) ==
  /\ task' = [task EXCEPT ![a][s] = IF Overdue(time) THEN NoTask ELSE Asleep(time)]
  /\ fault' = Blamed(IF Overdue(time) THEN {a} ELSE {}, "overdue")

\* The two ops that create an action; its id is new.
Create(a, kind, start) ==
  /\ row[a].at = "absent"
  /\ row' = [row EXCEPT ![a] =
       [at |-> "stored", kind |-> kind, start |-> start, count |-> 0, executing |-> FALSE]]
  /\ task' = [task EXCEPT ![a]["op"].pc = "inserted"]
  /\ UNCHANGED <<clock, boot, crashes, fault>>

CreateQueues(a) ==
  /\ task[a]["op"].pc = "inserted"
  /\ Queue(a, "op", row[a].start)
  /\ UNCHANGED <<clock, row, boot, crashes>>

\* The request that called the op goes away before it resumes.
CreateCancelled(a) ==
  /\ task[a]["op"].pc = "inserted"
  /\ TaskEnds(a, "op")
  /\ fault' = Blamed({a}, "error")
  /\ UNCHANGED <<clock, row, boot, crashes>>

\* The two ops that remove an action; its tasks find out by themselves.
Remove(a) ==
  /\ Stored(a)
  /\ row' = [row EXCEPT ![a].at = "gone"]
  /\ UNCHANGED <<clock, task, boot, crashes, fault>>

-----------------------------------------------------------------------------
Awake(a, s) == task[a][s].pc = "sleep" /\ task[a][s].due <= clock
Acquirable(a) == Stored(a) /\ ~row[a].executing

\* Mutant: the statement does not look at the mark.
AcquireAnyway(a, s) ==
  /\ Awake(a, s) /\ Stored(a)
  /\ row[a].kind = "recurring" => NextTime(a, row[a]) <= clock
  /\ row' = [row EXCEPT ![a].executing = TRUE]
  /\ task' = [task EXCEPT ![a][s].pc = "run"]
  /\ UNCHANGED <<clock, boot, crashes, fault>>

\* A recurring action looks at its time again, a single one does not.
Acquire(a, s) ==
  /\ Awake(a, s) /\ Acquirable(a)
  /\ row[a].kind = "recurring" => NextTime(a, row[a]) <= clock
  /\ row' = [row EXCEPT ![a].executing = TRUE]
  /\ task' = [task EXCEPT ![a][s].pc = "run"]
  /\ UNCHANGED <<clock, boot, crashes, fault>>

\* "not doing it yet": it is acquired and queued again, and not released.
PutOff(a, s) ==
  /\ Awake(a, s) /\ Acquirable(a)
  /\ row[a].kind = "recurring" /\ NextTime(a, row[a]) > clock
  /\ row' = [row EXCEPT ![a].executing = TRUE]
  /\ task' = [task EXCEPT ![a][s] = Asleep(NextTime(a, row[a]))]
  /\ UNCHANGED <<clock, boot, crashes, fault>>

\* Somebody else has it, or it has been removed.
NotAcquired(a, s) ==
  /\ Awake(a, s) /\ ~Acquirable(a)
  /\ TaskEnds(a, s)
  /\ UNCHANGED <<clock, row, boot, crashes, fault>>

AcquireFails(a, s) ==
  /\ Awake(a, s)
  /\ TaskEnds(a, s)
  /\ fault' = Blamed({a}, "error")
  /\ UNCHANGED <<clock, row, boot, crashes>>

RunSucceeds(a, s) ==
  /\ task[a][s].pc = "run"
  /\ task' = [task EXCEPT ![a][s].pc = "release"]
  /\ UNCHANGED <<clock, row, boot, crashes, fault>>

\* The error is logged; the mark stays.
RunFails(a, s) ==
  /\ task[a][s].pc \in {"run", "release"}
  /\ TaskEnds(a, s)
  /\ UNCHANGED <<clock, row, boot, crashes, fault>>

\* Mutant: released without being counted.
ReleaseUncounted(a, s) ==
  /\ task[a][s].pc = "release" /\ Stored(a) /\ row[a].kind = "recurring"
  /\ row' = [row EXCEPT ![a].executing = FALSE]
  /\ Queue(a, s, NextTime(a, row[a]) + Period[a])
  /\ UNCHANGED <<clock, boot, crashes>>

Release(a, s) ==
  /\ task[a][s].pc = "release" /\ Stored(a) /\ row[a].kind = "recurring"
  /\ row' = [row EXCEPT ![a].executing = FALSE, ![a].count = @ + 1]
  /\ Queue(a, s, NextTime(a, row'[a]))
  /\ UNCHANGED <<clock, boot, crashes>>

\* A single action is removed; one that was removed meanwhile has no row to
\* release.
Finish(a, s) ==
  /\ task[a][s].pc = "release" /\ (row[a].kind = "once" \/ ~Stored(a))
  /\ row' = [row EXCEPT ![a].at = "gone"]
  /\ TaskEnds(a, s)
  /\ UNCHANGED <<clock, boot, crashes, fault>>

-----------------------------------------------------------------------------
\* What the startup reads: every single action, and the recurring ones that are
\* not marked.
Selected ==
  {a \in Actions : Stored(a) /\ IF boot = "scheduled" THEN row[a].kind = "once"
                                ELSE row[a].kind = "recurring" /\ ~row[a].executing}

BootQueues(queued) ==
  task' = [a \in Actions |-> IF a \in queued
             THEN [task[a] EXCEPT !["boot"] = Asleep(NextTime(a, row[a]))]
             ELSE task[a]]

\* Mutant: the recurring actions are not read.
BootHalf ==
  /\ boot = "scheduled"
  /\ \A a \in Selected : ~Overdue(NextTime(a, row[a]))
  /\ BootQueues(Selected)
  /\ boot' = "done"
  /\ UNCHANGED <<clock, row, crashes, fault>>

Boot ==
  /\ boot # "done"
  /\ \A a \in Selected : ~Overdue(NextTime(a, row[a]))
  /\ BootQueues(Selected)
  /\ boot' = IF boot = "scheduled" THEN "recurring" ELSE "done"
  /\ UNCHANGED <<clock, row, crashes, fault>>

\* The first overdue action ends the startup; the ones read before it are queued,
\* and no others.
BootPanics(queued) ==
  /\ boot # "done"
  /\ \E a \in Selected : Overdue(NextTime(a, row[a]))
  /\ \A a \in queued : a \in Selected /\ ~Overdue(NextTime(a, row[a]))
  /\ BootQueues(queued)
  /\ boot' = "done"
  /\ fault' = Blamed({a \in Actions \ queued : Acquirable(a) /\ ToBoot(a)}, "overdue")
  /\ UNCHANGED <<clock, row, crashes>>

\* It gets no connection, or one of its statements fails and it goes on.
BootFails ==
  /\ boot # "done"
  /\ boot' \in {"recurring", "done"} \ {boot}
  /\ LET unread == {a \in Actions : Acquirable(a) /\ ToBoot(a)
                                     /\ (boot' = "done" \/ row[a].kind = "once")}
     IN fault' = Blamed(unread, "error")
  /\ UNCHANGED <<clock, row, task, crashes>>

\* The server dies and is started again.
Crash ==
  /\ crashes < MaxCrashes
  /\ task' = NoTasks /\ boot' = "scheduled" /\ fault' = NoFaults
  /\ crashes' = crashes + 1
  /\ UNCHANGED <<clock, row>>

Tick ==
  /\ clock < MaxTime
  /\ clock' = clock + 1
  /\ UNCHANGED <<row, task, boot, crashes, fault>>

TaskStep(a, s) ==
  \/ Acquire(a, s) \/ PutOff(a, s) \/ NotAcquired(a, s) \/ AcquireFails(a, s)
  \/ RunSucceeds(a, s) \/ RunFails(a, s) \/ Release(a, s) \/ Finish(a, s)

SchedulingNext ==
  \/ \E a \in Actions :
       \/ \E kind \in Kinds, start \in 0..MaxTime : Create(a, kind, start)
       \/ CreateQueues(a) \/ CreateCancelled(a) \/ Remove(a)
       \/ \E s \in Sources : TaskStep(a, s)
  \/ Boot \/ (\E queued \in SUBSET Actions : BootPanics(queued)) \/ BootFails
  \/ Crash \/ Tick

SchedulingSpec == SchedulingInit /\ [][SchedulingNext]_schedulingVars

\* Time passes, and a task that has woken up is polled: its statement answers.
Polled(a, s) == Acquire(a, s) \/ PutOff(a, s) \/ NotAcquired(a, s)
SchedulingFairSpec ==
  /\ SchedulingSpec
  /\ WF_schedulingVars(Tick)
  /\ \A a \in Actions, s \in Sources : WF_schedulingVars(Polled(a, s))

-----------------------------------------------------------------------------
(* Properties *)

\* An action is executed by one task at a time, whoever has queued it and
\* however often the server has died: the mark excludes the others.
OneExecutor ==
  \A a \in Actions, s, t \in Sources :
    task[a][s].pc \in {"run", "release"} /\ task[a][t].pc \in {"run", "release"} => s = t

\* Somebody will try to execute a when its time has come, or is about to queue it.
Queued(a) == ToBoot(a) \/ \E s \in Sources : task[a][s].pc \in {"inserted", "sleep"}

\* Every action that can be acquired has a task that will try to, or is about to
\* get one, as long as since the last start of the server it was not itself
\* overdue when queued, created by a request that went away, the object of a
\* failed statement, or left out by a startup that did not end.  What goes wrong
\* with one action costs another its task only in a startup, and the next
\* startup that ends has them all.
Attended == \A a \in Actions : Acquirable(a) /\ fault[a] = {} => Queued(a)

\* An action that is marked and that nobody executes never begins again.
Stuck(a) == Stored(a) /\ row[a].executing /\ ~Running(a)
StuckForGood ==
  [][\A a \in Actions : Stuck(a) => Stuck(a)' \/ row'[a].at = "gone"]_schedulingVars

\* The scheduler implements what Occurrences promises: in particular, every
\* occurrence begins at most once and not before its time.
StageOf(a) ==
  IF ~Stored(a) THEN row[a].at
  ELSE IF Running(a) THEN "running" ELSE IF row[a].executing THEN "held" ELSE "waiting"
JobOf(a) == [at |-> StageOf(a), kind |-> row[a].kind, start |-> row[a].start, count |-> row[a].count]
Jobs == [a \in Actions |-> JobOf(a)]

Promise == INSTANCE Occurrences WITH Times <- 0..MaxTime, job <- Jobs
PromiseSpec == Promise!OccurrencesSpec

\* An action that somebody sleeps for is acquired when its time has come (within
\* the time there is), unless it is removed, a statement of its own fails or the server dies.
Waits(a) ==
  Acquirable(a) /\ NextTime(a, row[a]) <= MaxTime /\ \E s \in Sources : task[a][s].pc = "sleep"
WaitsEnd ==
  \A a \in Actions : \A n \in 0..MaxCrashes :
    (Waits(a) /\ crashes = n) ~> (~Acquirable(a) \/ "error" \in fault[a] \/ crashes # n)

-----------------------------------------------------------------------------
(* The inductive invariant *)

\* Who executes an action has its mark, as long as there is a row to bear it.
Marked == \A a \in Actions : Stored(a) /\ Running(a) => row[a].executing

\* A single action looks at the time only when it is queued, and its time does
\* not change; an action has tasks only once it has been created.
OnTime ==
  \A a \in Actions, s \in Sources :
    /\ task[a][s].pc = "sleep" /\ row[a].kind = "once" => task[a][s].due = row[a].start
    /\ row[a].at = "absent" => task[a][s] = NoTask

\* The startup queues an action once.
BootedOnce == \A a \in Actions : ToBoot(a) => task[a]["boot"] = NoTask

SchedulingInv == SchedulingTypeOK /\ OneExecutor /\ Marked /\ OnTime /\ BootedOnce
=============================================================================
