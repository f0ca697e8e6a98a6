---------------------------- MODULE SchedulingProofs ----------------------------
(***************************************************************************)
(* Theorems about Scheduling, for any actions, any periods, any bound on   *)
(* the clock and any number of crashes.                                    *)
(***************************************************************************)
EXTENDS Scheduling, TLAPS

Rows == [at : {"absent", "stored", "gone"}, kind : Kinds, start : Nat,
         count : Nat, executing : BOOLEAN]
Tasks == [pc : {"none", "inserted", "sleep", "run", "release"}, due : Nat]
Executes(t) == t.pc \in {"run", "release"}

\* The invariant of one action: its row r, and its tasks ts.
ActionInv(r, ts) ==
  /\ \A s, t \in Sources : Executes(ts[s]) /\ Executes(ts[t]) => s = t
  /\ \A s \in Sources :
       /\ Executes(ts[s]) /\ r.at = "stored" => r.executing
       /\ ts[s].pc = "sleep" /\ r.kind = "once" => ts[s].due = r.start
       /\ r.at = "absent" => ts[s] = NoTask
  /\ boot = "scheduled" \/ (boot = "recurring" /\ r.kind = "recurring") => ts["boot"] = NoTask

\* The invariant speaks of each action by itself.
LEMMA InvByAction ==
  SchedulingInv <=> SchedulingTypeOK /\ \A a \in Actions : ActionInv(row[a], task[a])
BY DEF SchedulingInv, OneExecutor, Marked, OnTime, Stored, Running, ActionInv, Executes, BootedOnce, ToBoot

\* A step that changes one action keeps the invariant if it keeps its own.
LEMMA OneAction ==
  ASSUME SchedulingInv, NEW a \in Actions, NEW r \in Rows, NEW ts \in [Sources -> Tasks],
         row' = [row EXCEPT ![a] = r], task' = [task EXCEPT ![a] = ts],
         clock' = clock, boot' = boot, crashes' = crashes,
         fault' \in [Actions -> SUBSET Faults],
         ActionInv(r, ts)
  PROVE  SchedulingInv'
<1>1. SchedulingTypeOK'
  BY DEF SchedulingInv, SchedulingTypeOK, Rows, Tasks
<1>2. ASSUME NEW b \in Actions PROVE ActionInv(row'[b], task'[b])
  <2>1. row'[b] = (IF b = a THEN r ELSE row[b]) /\ task'[b] = (IF b = a THEN ts ELSE task[b])
    BY DEF SchedulingInv, SchedulingTypeOK
  <2>2. ActionInv(row[b], task[b])
    BY InvByAction
  <2> QED BY <2>1, <2>2
<1>3. SchedulingInv' <=> SchedulingTypeOK' /\ \A b \in Actions : ActionInv(row'[b], task'[b])
  BY DEF SchedulingInv, OneExecutor, Marked, OnTime, Stored, Running, ActionInv, Executes, BootedOnce, ToBoot
<1> QED BY <1>1, <1>2, <1>3

\* The same for a step that changes one task of the action, and perhaps its row.
LEMMA OneTask ==
  ASSUME SchedulingInv, NEW a \in Actions, NEW s \in Sources,
         NEW r \in Rows, NEW t \in Tasks,
         row' = [row EXCEPT ![a] = r], task' = [task EXCEPT ![a][s] = t],
         clock' = clock, boot' = boot, crashes' = crashes,
         fault' \in [Actions -> SUBSET Faults],
         r.at # "absent", r.kind = row[a].kind, r.start = row[a].start,
         Executes(t) => ~Running(a) \/ Executes(task[a][s]),
         r.at = "stored" => \A q \in Sources :
           Executes(IF q = s THEN t ELSE task[a][q]) => r.executing,
         t.pc = "sleep" /\ r.kind = "once" => t.due = r.start,
         s = "op" \/ task[a][s] # NoTask
  PROVE  SchedulingInv'
<1> DEFINE ts == [task[a] EXCEPT ![s] = t]
<1>1. task[a] \in [Sources -> Tasks] /\ task \in [Actions -> [Sources -> Tasks]]
  BY DEF SchedulingInv, SchedulingTypeOK, Tasks
<1>2. ts \in [Sources -> Tasks] /\ task' = [task EXCEPT ![a] = ts]
  BY <1>1
<1>3. \A q \in Sources : ts[q] = IF q = s THEN t ELSE task[a][q]
  BY <1>1
<1>4. ActionInv(row[a], task[a])
  BY InvByAction
<1>5. ActionInv(r, ts)
  <2> HIDE DEF ts
  <2>1. ASSUME NEW p \in Sources, NEW q \in Sources, Executes(ts[p]), Executes(ts[q])
        PROVE  p = q
    BY <2>1, <1>3, <1>4 DEF ActionInv, Running, Executes
  <2> QED BY <2>1, <1>3, <1>4 DEF ActionInv, Sources
<1> QED
  <2> HIDE DEF ts
  <2> QED BY <1>2, <1>5, OneAction

\* What the invariant says of an action and of one of its tasks.
LEMMA InvFacts ==
  ASSUME SchedulingInv, NEW a \in Actions, NEW s \in Sources
  PROVE  /\ row[a] \in Rows /\ task[a][s] \in Tasks /\ NextTime(a, row[a]) \in Nat
         /\ row[a].at = "absent" => \A q \in Sources : task[a][q] = NoTask
         /\ Stored(a) /\ Running(a) => row[a].executing
         /\ fault \in [Actions -> SUBSET Faults] /\ clock \in Nat
<1>1. row[a] \in Rows /\ task[a][s] \in Tasks
  BY DEF SchedulingInv, SchedulingTypeOK, Rows, Tasks
<1>2. NextTime(a, row[a]) \in Nat
  <2>1. Period[a] \in Nat /\ row[a].start \in Nat /\ row[a].count \in Nat
    BY <1>1, SchedulingAssumption DEF Rows
  <2>2. Period[a] * row[a].count \in Nat
    BY <2>1
  <2> QED BY <2>1, <2>2 DEF NextTime
<1> QED BY <1>1, <1>2 DEF SchedulingInv, SchedulingTypeOK, OnTime, Marked

\* What goes wrong with some actions is no fault of the others.
LEMMA BlamedFacts ==
  ASSUME SchedulingInv, NEW actions, NEW why \in Faults
  PROVE  /\ Blamed(actions, why) \in [Actions -> SUBSET Faults]
         /\ \A b \in Actions : b \in actions => Blamed(actions, why)[b] # {}
         /\ \A b \in Actions : b \notin actions => Blamed(actions, why)[b] = fault[b]
         /\ \A b \in Actions : Blamed(actions, why)[b] = {} => fault[b] = {}
BY DEF Blamed, SchedulingInv, SchedulingTypeOK

\* The ops and the tasks of one action.
LEMMA ActionStep ==
  ASSUME SchedulingInv, NEW a \in Actions, NEW s \in Sources,
         \/ \E kind \in Kinds, start \in 0..MaxTime : Create(a, kind, start)
         \/ CreateQueues(a) \/ CreateCancelled(a) \/ Remove(a) \/ TaskStep(a, s)
  PROVE  SchedulingInv'
<1> DEFINE time == NextTime(a, row[a])
<1>0. /\ row[a] \in Rows /\ task[a][s] \in Tasks /\ task[a]["op"] \in Tasks /\ time \in Nat
      /\ row[a].at = "absent" => \A q \in Sources : task[a][q] = NoTask
      /\ Stored(a) /\ Running(a) => row[a].executing
      /\ fault \in [Actions -> SUBSET Faults] /\ clock \in Nat /\ "op" \in Sources
  BY InvFacts DEF Sources
<1>t. /\ NoTask \in Tasks /\ ~Executes(NoTask) /\ NoTask.pc = "none"
      /\ \A n \in Nat : Asleep(n) \in Tasks /\ ~Executes(Asleep(n)) /\ Asleep(n).due = n
  BY DEF NoTask, Tasks, Executes, Asleep
<1>b. \A actions : /\ Blamed(actions, "overdue") \in [Actions -> SUBSET Faults]
                    /\ Blamed(actions, "error") \in [Actions -> SUBSET Faults]
  BY BlamedFacts DEF Faults
<1>r. row = [row EXCEPT ![a] = row[a]]
  BY DEF SchedulingInv, SchedulingTypeOK
<1>k. \A q \in Sources : Executes(task[a][q]) => Running(a)
  BY DEF Executes, Running
<1>1. ASSUME NEW kind \in Kinds, NEW start \in 0..MaxTime, Create(a, kind, start)
      PROVE  SchedulingInv'
  <2> DEFINE r == [at |-> "stored", kind |-> kind, start |-> start, count |-> 0, executing |-> FALSE]
             t == [task[a]["op"] EXCEPT !.pc = "inserted"]
             ts == [task[a] EXCEPT !["op"] = t]
  <2>1. r \in Rows /\ r.at = "stored"
    BY SchedulingAssumption DEF Rows
  <2>2. t \in Tasks /\ ~Executes(t) /\ t.pc = "inserted"
    BY <1>0 DEF Tasks, Executes
  <2>3. task[a] \in [Sources -> Tasks] /\ task \in [Actions -> [Sources -> Tasks]]
    BY DEF SchedulingInv, SchedulingTypeOK, Tasks
  <2>4. ts \in [Sources -> Tasks] /\ \A q \in Sources : ts[q] = IF q = "op" THEN t ELSE task[a][q]
    BY <2>2, <2>3
  <2>5. row' = [row EXCEPT ![a] = r] /\ task' = [task EXCEPT ![a] = ts]
    BY <1>1, <2>3, <1>0 DEF Create
  <2>6. \A q \in Sources : ~Executes(ts[q]) /\ ts[q].pc # "sleep"
    <3> HIDE DEF t, ts
    <3> QED BY <2>2, <2>4, <1>0, <1>t, <1>1 DEF Create
  <2>7. ActionInv(r, ts)
    <3> HIDE DEF r, ts
    <3>1. ts["boot"] = NoTask
      BY <2>4, <1>0, <1>1 DEF Create, Sources
    <3> QED BY <2>1, <2>6, <3>1 DEF ActionInv
  <2> HIDE DEF r, ts
  <2> QED BY <2>1, <2>4, <2>5, <2>7, <1>1, <1>0, OneAction DEF Create
<1>2. CASE CreateQueues(a)
  <2> DEFINE t == IF Overdue(row[a].start) THEN NoTask ELSE Asleep(row[a].start)
  <2>1. t \in Tasks /\ ~Executes(t) /\ (t.pc = "sleep" => t.due = row[a].start)
    BY <1>t, <1>0 DEF Rows
  <2>2. task' = [task EXCEPT ![a]["op"] = t] /\ fault' \in [Actions -> SUBSET Faults]
    BY <1>2, <1>b DEF CreateQueues, Queue
  <2>3. row[a].at # "absent"
    BY <1>2, <1>0, <1>t DEF CreateQueues
  <2> HIDE DEF t
  <2>4. row[a].at = "stored" => \A q \in Sources :
          Executes(IF q = "op" THEN t ELSE task[a][q]) => row[a].executing
    BY <2>1, <1>k, <1>0 DEF Stored
  <2> QED BY <1>2, <1>0, <1>r, <2>1, <2>2, <2>3, <2>4, OneTask DEF CreateQueues
<1>3. CASE CreateCancelled(a)
  <2>1. row[a].at # "absent"
    BY <1>3, <1>0, <1>t DEF CreateCancelled
  <2>2. row[a].at = "stored" => \A q \in Sources :
          Executes(IF q = "op" THEN NoTask ELSE task[a][q]) => row[a].executing
    BY <1>t, <1>k, <1>0 DEF Stored
  <2> QED BY <1>3, <1>0, <1>b, <1>r, <1>t, <2>1, <2>2, OneTask DEF CreateCancelled, TaskEnds
<1>4. CASE Remove(a)
  <2> DEFINE r == [row[a] EXCEPT !.at = "gone"]
  <2>1. r \in Rows /\ r.at = "gone" /\ r.kind = row[a].kind /\ r.start = row[a].start
    BY <1>0 DEF Rows
  <2>2. task[a] \in [Sources -> Tasks] /\ task' = [task EXCEPT ![a] = task[a]]
    BY <1>4 DEF Remove, SchedulingInv, SchedulingTypeOK, Tasks
  <2>3. ActionInv(row[a], task[a])
    BY InvByAction
  <2>4. ActionInv(r, task[a])
    <3> HIDE DEF r
    <3> QED BY <2>1, <2>3, <1>4 DEF ActionInv, Remove, Stored
  <2>5. row' = [row EXCEPT ![a] = r]
    BY <1>4 DEF Remove
  <2> HIDE DEF r
  <2> QED BY <1>4, <1>0, <2>1, <2>2, <2>4, <2>5, OneAction DEF Remove
<1>5. CASE TaskStep(a, s)
  <2>0. task[a][s] # NoTask => row[a].at # "absent"
    BY <1>0
  <2>a. Awake(a, s) => task[a][s].pc = "sleep" /\ task[a][s] # NoTask
    BY DEF Awake, NoTask
  <2>b. task[a][s].pc \in {"run", "release"} => task[a][s] # NoTask /\ Executes(task[a][s])
    BY DEF NoTask, Executes
  <2>c. row[a].at = "stored" => \A q \in Sources :
          Executes(IF q = s THEN NoTask ELSE task[a][q]) => row[a].executing
    BY <1>t, <1>k, <1>0 DEF Stored
  <2>n. task[a][s] # NoTask
    BY <1>5, <2>a, <2>b DEF TaskStep, Acquire, PutOff, NotAcquired, AcquireFails, RunSucceeds,
                            RunFails, Release, Finish
  <2>1. ASSUME row[a].at # "absent", TaskEnds(a, s), fault' \in [Actions -> SUBSET Faults],
               UNCHANGED <<clock, row, boot, crashes>>
        PROVE  SchedulingInv'
    BY <1>0, <1>r, <1>t, <2>1, <2>c, <2>n, OneTask DEF TaskEnds
  <2>2. CASE Acquire(a, s)
    <3> DEFINE r == [row[a] EXCEPT !.executing = TRUE]
               t == [task[a][s] EXCEPT !.pc = "run"]
    <3>1. r \in Rows /\ r.executing /\ r.at = row[a].at /\ r.kind = row[a].kind /\ r.start = row[a].start
      BY <1>0 DEF Rows
    <3>2. t \in Tasks /\ t.pc = "run"
      BY <1>0 DEF Tasks
    <3>3. ~Running(a) /\ row[a].at # "absent"
      BY <2>2, <1>0 DEF Acquire, Acquirable, Stored
    <3>4. row' = [row EXCEPT ![a] = r] /\ task' = [task EXCEPT ![a][s] = t]
      BY <2>2 DEF Acquire
    <3> HIDE DEF r, t
    <3>5. r.at = "stored" => \A q \in Sources :
            Executes(IF q = s THEN t ELSE task[a][q]) => r.executing
      BY <3>1
    <3>6. t.pc # "sleep" /\ UNCHANGED <<clock, boot, crashes, fault>>
      BY <2>2, <3>2 DEF Acquire
    <3> QED BY <1>0, <3>1, <3>2, <3>3, <3>4, <3>5, <3>6, <2>n, OneTask
  <2>3. CASE PutOff(a, s)
    <3> DEFINE r == [row[a] EXCEPT !.executing = TRUE]
    <3>1. r \in Rows /\ r.executing /\ r.at = row[a].at /\ r.kind = row[a].kind /\ r.start = row[a].start
      BY <1>0 DEF Rows
    <3>2. row' = [row EXCEPT ![a] = r] /\ r.at # "absent" /\ r.kind # "once"
      BY <2>3, <3>1 DEF PutOff, Acquirable, Stored
    <3> DEFINE t == Asleep(time)
    <3>3. /\ t \in Tasks /\ ~Executes(t) /\ task' = [task EXCEPT ![a][s] = t]
          /\ UNCHANGED <<clock, boot, crashes, fault>>
      BY <2>3, <1>0, <1>t DEF PutOff
    <3> HIDE DEF r, t
    <3>4. r.at = "stored" => \A q \in Sources :
            Executes(IF q = s THEN t ELSE task[a][q]) => r.executing
      BY <3>1
    <3> QED BY <1>0, <3>1, <3>2, <3>3, <3>4, <2>n, OneTask
  <2>4. CASE NotAcquired(a, s)
    BY <2>0, <2>1, <2>4, <2>a, <1>0 DEF NotAcquired
  <2>5. CASE AcquireFails(a, s)
    BY <2>0, <2>1, <2>5, <2>a, <1>b DEF AcquireFails
  <2>6. CASE RunSucceeds(a, s)
    <3> DEFINE t == [task[a][s] EXCEPT !.pc = "release"]
    <3>1. t \in Tasks /\ t.pc = "release"
      BY <1>0 DEF Tasks
    <3>2. task' = [task EXCEPT ![a][s] = t] /\ Executes(task[a][s]) /\ row[a].at # "absent"
      BY <2>6, <2>0, <2>b DEF RunSucceeds
    <3> HIDE DEF t
    <3>3. row[a].at = "stored" => row[a].executing
      BY <3>2, <1>k, <1>0 DEF Stored
    <3>4. row[a].at = "stored" => \A q \in Sources :
            Executes(IF q = s THEN t ELSE task[a][q]) => row[a].executing
      BY <3>3
    <3>5. t.pc # "sleep" /\ UNCHANGED <<clock, row, boot, crashes, fault>>
      BY <2>6, <3>1 DEF RunSucceeds
    <3> QED BY <1>0, <1>r, <3>1, <3>2, <3>4, <3>5, <2>n, OneTask
  <2>7. CASE RunFails(a, s)
    BY <2>0, <2>1, <2>7, <2>b, <1>0 DEF RunFails
  <2>8. CASE Release(a, s)
    <3> DEFINE r == row'[a]
               t == IF Overdue(NextTime(a, r)) THEN NoTask ELSE Asleep(NextTime(a, r))
    <3>0. row \in [Actions -> Rows]
      BY DEF SchedulingInv, SchedulingTypeOK, Rows
    <3> DEFINE released == [row[a] EXCEPT !.executing = FALSE]
    <3>1. r = [released EXCEPT !.count = released.count + 1]
      BY <2>8, <3>0 DEF Release
    <3>z. /\ released \in Rows /\ released.at = row[a].at /\ released.kind = row[a].kind
          /\ released.start = row[a].start
      BY <1>0 DEF Rows
    <3> HIDE DEF released
    <3>2. /\ r \in Rows /\ r.at = row[a].at /\ r.kind = row[a].kind /\ r.start = row[a].start
      BY <3>1, <3>z DEF Rows
    <3>3. row' = [row EXCEPT ![a] = r]
      BY <2>8, <3>0 DEF Release
    <3>4. r.at # "absent" /\ r.kind # "once"
      BY <2>8, <3>2 DEF Release, Stored
    <3>5. NextTime(a, r) \in Nat
      <4>1. Period[a] \in Nat /\ r.start \in Nat /\ r.count \in Nat
        BY <3>2, SchedulingAssumption DEF Rows
      <4>2. Period[a] * r.count \in Nat
        BY <4>1
      <4> QED BY <4>1, <4>2 DEF NextTime
    <3>6. t \in Tasks /\ ~Executes(t)
      BY <1>t, <3>5
    <3>7. task' = [task EXCEPT ![a][s] = t] /\ fault' \in [Actions -> SUBSET Faults]
      BY <2>8, <1>b DEF Release, Queue
    <3>8. \A q \in Sources : q # s => ~Executes(task[a][q])
      BY <2>8, <2>b DEF Release, SchedulingInv, OneExecutor, Executes
    <3> HIDE DEF r, t
    <3> QED BY <2>8, <1>0, <3>2, <3>3, <3>4, <3>6, <3>7, <3>8, <2>n, OneTask DEF Release
  <2>9. CASE Finish(a, s)
    <3> DEFINE r == [row[a] EXCEPT !.at = "gone"]
    <3>1. r \in Rows /\ r.at = "gone" /\ r.kind = row[a].kind /\ r.start = row[a].start
      BY <1>0 DEF Rows
    <3>2. row' = [row EXCEPT ![a] = r]
      BY <2>9 DEF Finish
    <3> HIDE DEF r
    <3> QED BY <2>9, <1>0, <1>t, <3>1, <3>2, <2>n, OneTask DEF Finish, TaskEnds
  <2> QED BY <1>5, <2>2, <2>3, <2>4, <2>5, <2>6, <2>7, <2>8, <2>9 DEF TaskStep
<1> QED BY <1>1, <1>2, <1>3, <1>4, <1>5

\* The startup, a crash and the clock.
LEMMA OtherStep ==
  ASSUME SchedulingInv,
         \/ Boot \/ (\E queued \in SUBSET Actions : BootPanics(queued)) \/ BootFails
         \/ Crash \/ Tick
  PROVE  SchedulingInv'
<1>1. ASSUME NEW queued \in SUBSET Actions, queued \subseteq Selected, BootQueues(queued),
             boot # "done", boot' \in {IF boot = "scheduled" THEN "recurring" ELSE "done", "done"},
             UNCHANGED <<clock, row, crashes>>, fault' \in [Actions -> SUBSET Faults]
      PROVE  SchedulingInv'
  <2> DEFINE woken(a) == [task[a] EXCEPT !["boot"] = Asleep(NextTime(a, row[a]))]
  <2>1. ASSUME NEW a \in Actions
        PROVE  /\ row[a] \in Rows /\ task[a] \in [Sources -> Tasks]
               /\ woken(a) \in [Sources -> Tasks]
               /\ woken(a)["boot"].pc = "sleep" /\ woken(a)["boot"].due = NextTime(a, row[a])
               /\ \A s \in Sources : s # "boot" => woken(a)[s] = task[a][s]
    <3>1. row[a] \in Rows /\ task[a] \in [Sources -> Tasks] /\ "boot" \in Sources
      BY DEF SchedulingInv, SchedulingTypeOK, Rows, Tasks, Sources
    <3>2. Asleep(NextTime(a, row[a])) \in Tasks
      BY <3>1, InvFacts DEF Asleep, Tasks
    <3> QED BY <3>1, <3>2 DEF Asleep
  <2>2. task' = [a \in Actions |-> IF a \in queued THEN woken(a) ELSE task[a]]
    BY <1>1 DEF BootQueues
  <2> HIDE DEF woken
  <2>3. task' \in [Actions -> [Sources -> Tasks]]
    BY <2>1, <2>2
  <2>4. SchedulingTypeOK'
    BY <2>3, <1>1 DEF SchedulingInv, SchedulingTypeOK, Tasks
  <2>5. ASSUME NEW a \in Actions
        PROVE  /\ \A s, t \in Sources : Executes(task'[a][s]) /\ Executes(task'[a][t]) => s = t
               /\ \A s \in Sources :
                    /\ Executes(task'[a][s]) /\ row[a].at = "stored" => row[a].executing
                    /\ task'[a][s].pc = "sleep" /\ row[a].kind = "once" => task'[a][s].due = row[a].start
                    /\ row[a].at = "absent" => task'[a][s] = NoTask
               /\ boot' = "recurring" /\ row[a].kind = "recurring" => task'[a]["boot"] = NoTask
    <3>1. ActionInv(row[a], task[a])
      BY InvByAction
    <3>2. CASE a \notin queued
      BY <3>1, <3>2, <2>2, <1>1 DEF ActionInv
    <3>3. CASE a \in queued
      <4>1. task'[a] = woken(a) /\ row[a].at = "stored"
        BY <3>3, <2>2, <1>1 DEF Selected, Stored
      <4>2. row[a].kind = "once" => NextTime(a, row[a]) = row[a].start
        BY DEF NextTime
      <4>3. ~Executes(woken(a)["boot"])
        BY <2>1 DEF Executes
      <4>4. boot' = "recurring" => row[a].kind = "once"
        BY <3>3, <1>1 DEF Selected
      <4> QED BY <4>1, <4>2, <4>3, <4>4, <2>1, <3>1 DEF ActionInv
    <3> QED BY <3>2, <3>3
  <2>6. boot' # "scheduled"
    BY <1>1
  <2> QED BY <2>4, <2>5, <2>6, <1>1
       DEF SchedulingInv, OneExecutor, Marked, OnTime, Stored, Running, Executes, BootedOnce, ToBoot
<1>f. /\ fault \in [Actions -> SUBSET Faults]
      /\ \A actions : /\ Blamed(actions, "overdue") \in [Actions -> SUBSET Faults]
                      /\ Blamed(actions, "error") \in [Actions -> SUBSET Faults]
  BY BlamedFacts DEF SchedulingInv, SchedulingTypeOK, Faults
<1>2. CASE Boot
  BY <1>1, <1>2, <1>f DEF Boot, Selected
<1>3. ASSUME NEW queued \in SUBSET Actions, BootPanics(queued) PROVE SchedulingInv'
  BY <1>1, <1>3, <1>f DEF BootPanics
<1>4. CASE BootFails
  <2>1. fault' \in [Actions -> SUBSET Faults]
    BY <1>4, <1>f DEF BootFails
  <2> QED BY <1>4, <2>1 DEF BootFails, SchedulingInv, SchedulingTypeOK, OneExecutor, Marked, OnTime, Stored,
             Running, BootedOnce, ToBoot
<1>5. CASE Crash
  <2>1. task' \in [Actions -> [Sources -> Tasks]] /\ crashes' \in Nat
    BY <1>5 DEF Crash, NoTasks, NoTask, Tasks, SchedulingInv, SchedulingTypeOK
  <2>2. SchedulingTypeOK'
    BY <1>5, <2>1 DEF Crash, NoFaults, SchedulingInv, SchedulingTypeOK, Tasks
  <2>3. \A a \in Actions, s \in Sources : task'[a][s] = NoTask
    BY <1>5 DEF Crash, NoTasks
  <2>4. NoTask.pc = "none" /\ "boot" \in Sources
    BY DEF NoTask, Sources
  <2> QED BY <2>2, <2>3, <2>4 DEF SchedulingInv, OneExecutor, Marked, OnTime, Stored, Running,
                                  BootedOnce, ToBoot
<1>6. CASE Tick
  BY <1>6 DEF Tick, SchedulingInv, SchedulingTypeOK, OneExecutor, Marked, OnTime, Stored, Running,
             BootedOnce, ToBoot
<1> QED BY <1>2, <1>3, <1>4, <1>5, <1>6

LEMMA StepKeepsInv ==
  ASSUME SchedulingInv, [SchedulingNext]_schedulingVars
  PROVE  SchedulingInv'
<1>1. CASE SchedulingNext
  <2>1. "op" \in Sources
    BY DEF Sources
  <2> QED BY <1>1, <2>1, ActionStep, OtherStep DEF SchedulingNext
<1>2. CASE UNCHANGED schedulingVars
  BY <1>2 DEF schedulingVars, SchedulingInv, SchedulingTypeOK, OneExecutor, Marked, OnTime,
              Stored, Running, BootedOnce, ToBoot
<1> QED BY <1>1, <1>2

\* The inductive invariant.
THEOREM SchedulingInvariant == SchedulingSpec => []SchedulingInv
<1>1. SchedulingInit => SchedulingInv
  BY DEF SchedulingInit, NoRow, NoTasks, NoFaults, NoTask, Kinds, Sources, SchedulingInv, SchedulingTypeOK,
         OneExecutor, Marked, OnTime, Stored, Running, BootedOnce, ToBoot
<1> QED BY <1>1, StepKeepsInv, PTL DEF SchedulingSpec

\* Types, and mutual exclusion of the tasks of an action (OneExecutor).
THEOREM SchedulingSafe == SchedulingSpec => [](SchedulingTypeOK /\ OneExecutor)
<1>1. SchedulingInv => SchedulingTypeOK /\ OneExecutor
  BY DEF SchedulingInv
<1> QED BY <1>1, SchedulingInvariant, PTL

\* The clock, the rows, the tasks and the startup keep their types.
THEOREM SchedulingTyped == SchedulingSpec => []SchedulingTypeOK
BY SchedulingSafe, PTL

-----------------------------------------------------------------------------
(* Every action that can be acquired is attended to *)

\* A step that leaves the other actions and the startup alone.
LEMMA AttendedElsewhere ==
  ASSUME Attended, NEW a \in Actions, boot' = boot,
         \A b \in Actions : fault'[b] = {} => fault[b] = {},
         \A b \in Actions : b # a => row'[b] = row[b] /\ task'[b] = task[b],
         Acquirable(a)' /\ fault'[a] = {} => \E s \in Sources : task'[a][s].pc \in {"inserted", "sleep"}
  PROVE  Attended'
<1> SUFFICES ASSUME NEW b \in Actions, Acquirable(b)', fault'[b] = {}
             PROVE  ToBoot(b)' \/ \E s \in Sources : task'[b][s].pc \in {"inserted", "sleep"}
  BY DEF Attended, Queued
<1>1. CASE b = a
  BY <1>1
<1>2. CASE b # a
  <2>1. row'[b] = row[b] /\ task'[b] = task[b] /\ fault[b] = {}
    BY <1>2
  <2> QED BY <2>1 DEF Attended, Queued, Acquirable, Stored, ToBoot
<1> QED BY <1>1, <1>2

\* The ops and the tasks of one action.
LEMMA ActionAttended ==
  ASSUME SchedulingInv, Attended, NEW a \in Actions, NEW s \in Sources,
         \/ \E kind \in Kinds, start \in 0..MaxTime : Create(a, kind, start)
         \/ CreateQueues(a) \/ CreateCancelled(a) \/ Remove(a) \/ TaskStep(a, s)
  PROVE  Attended'
<1>0. /\ row \in [Actions -> Rows] /\ task \in [Actions -> [Sources -> Tasks]]
      /\ "op" \in Sources
      /\ Stored(a) /\ Running(a) => row[a].executing
  BY DEF SchedulingInv, SchedulingTypeOK, Rows, Tasks, Sources, Marked
<1>b. \A actions : \A why \in {"overdue", "error"} :
        /\ \A b \in Actions : b \in actions => Blamed(actions, why)[b] # {}
        /\ \A b \in Actions : Blamed(actions, why)[b] = {} => fault[b] = {}
  BY BlamedFacts DEF Faults
<1>q. ASSUME NEW q \in Sources, NEW time, Queue(a, q, time)
      PROVE  /\ \A b \in Actions : fault'[b] = {} => fault[b] = {}
             /\ fault'[a] = {} => task'[a][q].pc = "sleep"
             /\ \A b \in Actions : b # a => task'[b] = task[b]
  <2>1. CASE Overdue(time)
    <3>1. fault' = Blamed({a}, "overdue") /\ task' = [task EXCEPT ![a][q] = NoTask]
      BY <1>q, <2>1 DEF Queue
    <3> QED BY <1>0, <1>b, <3>1
  <2>2. CASE ~Overdue(time)
    <3>1. fault' = Blamed({}, "overdue") /\ task' = [task EXCEPT ![a][q] = Asleep(time)]
      BY <1>q, <2>2 DEF Queue
    <3> QED BY <1>0, <1>b, <3>1 DEF Asleep
  <2> QED BY <2>1, <2>2
<1>1. ASSUME NEW kind \in Kinds, NEW start \in 0..MaxTime, Create(a, kind, start)
      PROVE  Attended'
  <2>1. task'[a]["op"].pc = "inserted"
    BY <1>0, <1>1 DEF Create, Tasks
  <2>2. \A b \in Actions : b # a => row'[b] = row[b] /\ task'[b] = task[b]
    BY <1>0, <1>1 DEF Create
  <2> QED BY <1>0, <1>1, <2>1, <2>2, AttendedElsewhere DEF Create
<1>2. CASE CreateQueues(a)
  BY <1>0, <1>2, <1>q, AttendedElsewhere DEF CreateQueues
<1>3. CASE CreateCancelled(a)
  <2>1. \A b \in Actions : b # a => row'[b] = row[b] /\ task'[b] = task[b]
    BY <1>0, <1>3 DEF CreateCancelled, TaskEnds
  <2> QED BY <1>3, <1>b, <2>1, AttendedElsewhere DEF CreateCancelled
<1>4. CASE Remove(a)
  <2>1. row'[a].at = "gone" /\ \A b \in Actions : b # a => row'[b] = row[b] /\ task'[b] = task[b]
    BY <1>0, <1>4 DEF Remove, Rows
  <2> QED BY <1>4, <2>1, AttendedElsewhere DEF Remove, Acquirable, Stored
<1>5. CASE TaskStep(a, s)
  <2>1. CASE Acquire(a, s) \/ PutOff(a, s)
    <3>1. row'[a].executing /\ \A b \in Actions : b # a => row'[b] = row[b] /\ task'[b] = task[b]
      BY <1>0, <2>1 DEF Acquire, PutOff, Rows
    <3> QED BY <2>1, <3>1, AttendedElsewhere DEF Acquire, PutOff, Acquirable
  <2>2. CASE NotAcquired(a, s)
    <3>1. \A b \in Actions : b # a => row'[b] = row[b] /\ task'[b] = task[b]
      BY <1>0, <2>2 DEF NotAcquired, TaskEnds
    <3> QED BY <2>2, <3>1, AttendedElsewhere DEF NotAcquired, Acquirable, Stored
  <2>3. CASE AcquireFails(a, s)
    <3>1. \A b \in Actions : b # a => row'[b] = row[b] /\ task'[b] = task[b]
      BY <1>0, <2>3 DEF AcquireFails, TaskEnds
    <3> QED BY <2>3, <1>b, <3>1, AttendedElsewhere DEF AcquireFails
  <2>4. CASE RunSucceeds(a, s) \/ RunFails(a, s)
    <3>1. Running(a) /\ UNCHANGED <<row, boot, fault>>
      BY <2>4 DEF RunSucceeds, RunFails, Running
    <3>2. \A b \in Actions : b # a => row'[b] = row[b] /\ task'[b] = task[b]
      BY <1>0, <2>4, <3>1 DEF RunSucceeds, RunFails, TaskEnds
    <3> QED BY <1>0, <3>1, <3>2, AttendedElsewhere DEF Acquirable, Stored
  <2>5. CASE Release(a, s)
    <3>1. \A b \in Actions : b # a => row'[b] = row[b]
      BY <1>0, <2>5 DEF Release
    <3> QED BY <1>q, <2>5, <3>1, AttendedElsewhere DEF Release
  <2>6. CASE Finish(a, s)
    <3>1. row'[a].at = "gone" /\ \A b \in Actions : b # a => row'[b] = row[b] /\ task'[b] = task[b]
      BY <1>0, <2>6 DEF Finish, TaskEnds, Rows
    <3> QED BY <2>6, <3>1, AttendedElsewhere DEF Finish, Acquirable, Stored
  <2> QED BY <1>5, <2>1, <2>2, <2>3, <2>4, <2>5, <2>6 DEF TaskStep
<1> QED BY <1>1, <1>2, <1>3, <1>4, <1>5

\* The startup queues what it has read, and what it has not read is blamed.
LEMMA BootAttends ==
  ASSUME SchedulingInv, Attended, NEW queued \in SUBSET Actions, BootQueues(queued), row' = row,
         \A a \in Actions : fault'[a] = {} => fault[a] = {},
         \A a \in Actions :
           a \notin queued /\ Acquirable(a) /\ ToBoot(a) /\ fault'[a] = {} => ToBoot(a)'
  PROVE  Attended'
<1> SUFFICES ASSUME NEW a \in Actions, Acquirable(a)', fault'[a] = {}
             PROVE  ToBoot(a)' \/ \E s \in Sources : task'[a][s].pc \in {"inserted", "sleep"}
  BY DEF Attended, Queued
<1>0. /\ task[a] \in [Sources -> Tasks] /\ "boot" \in Sources
      /\ Acquirable(a) /\ fault[a] = {}
  BY DEF SchedulingInv, SchedulingTypeOK, Tasks, Sources, Acquirable, Stored
<1>1. CASE a \in queued
  <2>1. task'[a] = [task[a] EXCEPT !["boot"] = Asleep(NextTime(a, row[a]))]
    BY <1>1 DEF BootQueues
  <2>2. task'[a]["boot"].pc = "sleep"
    BY <1>0, <2>1 DEF Asleep
  <2> QED BY <1>0, <2>2
<1>2. CASE a \notin queued
  <2>1. task'[a] = task[a]
    BY <1>2 DEF BootQueues
  <2> QED BY <1>0, <1>2, <2>1 DEF Attended, Queued
<1> QED BY <1>1, <1>2

\* The startup, a crash and the clock.
LEMMA OtherAttended ==
  ASSUME SchedulingInv, Attended,
         \/ Boot \/ (\E queued \in SUBSET Actions : BootPanics(queued)) \/ BootFails
         \/ Crash \/ Tick
  PROVE  Attended'
<1>k. \A a \in Actions : row[a].kind \in Kinds
  BY DEF SchedulingInv, SchedulingTypeOK
<1>1. CASE Boot
  <2>1. \A a \in Actions : a \notin Selected /\ Acquirable(a) /\ ToBoot(a) => ToBoot(a)'
    BY <1>1, <1>k DEF Boot, Selected, ToBoot, Acquirable, Kinds
  <2>2. Selected \in SUBSET Actions
    BY DEF Selected
  <2>3. BootQueues(Selected) /\ row' = row /\ fault' = fault
    BY <1>1 DEF Boot
  <2> QED BY <2>1, <2>2, <2>3, BootAttends
<1>2. ASSUME NEW queued \in SUBSET Actions, BootPanics(queued) PROVE Attended'
  <2> DEFINE left == {a \in Actions \ queued : Acquirable(a) /\ ToBoot(a)}
  <2>1. fault' = Blamed(left, "overdue") /\ BootQueues(queued) /\ row' = row
    BY <1>2 DEF BootPanics
  <2>2. \A a \in Actions : a \notin queued /\ Acquirable(a) /\ ToBoot(a) => a \in left
    OBVIOUS
  <2> HIDE DEF left
  <2>3. /\ \A a \in Actions : a \in left => fault'[a] # {}
        /\ \A a \in Actions : fault'[a] = {} => fault[a] = {}
    BY <2>1, BlamedFacts DEF Faults
  <2> QED BY <2>1, <2>2, <2>3, BootAttends
<1>3. CASE BootFails
  <2> DEFINE unread == {a \in Actions : Acquirable(a) /\ ToBoot(a)
                                          /\ (boot' = "done" \/ row[a].kind = "once")}
  <2>1. fault' = Blamed(unread, "error") /\ row' = row /\ task' = task
    BY <1>3 DEF BootFails
  <2>2. \A a \in Actions : Acquirable(a) /\ ToBoot(a) => a \in unread \/ ToBoot(a)'
    BY <1>3, <1>k, <2>1 DEF BootFails, ToBoot, Kinds
  <2> HIDE DEF unread
  <2>3. /\ \A a \in Actions : a \in unread => fault'[a] # {}
        /\ \A a \in Actions : fault'[a] = {} => fault[a] = {}
    BY <2>1, BlamedFacts DEF Faults
  <2>4. \A a \in Actions : Acquirable(a)' = Acquirable(a)
    BY <2>1 DEF Acquirable, Stored
  <2> QED BY <2>1, <2>2, <2>3, <2>4 DEF Attended, Queued
<1>4. CASE Crash
  BY <1>4 DEF Crash, Attended, Queued, ToBoot
<1>5. CASE Tick
  BY <1>5 DEF Tick, Attended, Queued, Acquirable, Stored, ToBoot
<1> QED BY <1>1, <1>2, <1>3, <1>4, <1>5

\* For any number of actions: every action that can be acquired sleeps, or is about
\* to be queued by its op or by the startup, unless something has gone wrong with
\* that very action since the server was started (Attended).
THEOREM SchedulingAttends == SchedulingSpec => []Attended
<1>1. SchedulingInit => Attended
  BY DEF SchedulingInit, NoRow, Attended, Acquirable, Stored
<1>2. SchedulingInv /\ Attended /\ [SchedulingNext]_schedulingVars => Attended'
  <2> SUFFICES ASSUME SchedulingInv, Attended, [SchedulingNext]_schedulingVars PROVE Attended'
    OBVIOUS
  <2>1. CASE SchedulingNext
    <3>1. "op" \in Sources
      BY DEF Sources
    <3> QED BY <2>1, <3>1, ActionAttended, OtherAttended DEF SchedulingNext
  <2>2. CASE UNCHANGED schedulingVars
    BY <2>2 DEF schedulingVars, Attended, Queued, Acquirable, Stored, ToBoot
  <2> QED BY <2>1, <2>2
<1> QED BY <1>1, <1>2, SchedulingInvariant, PTL DEF SchedulingSpec

-----------------------------------------------------------------------------
(* The refinement *)

\* An action whose row and whose execution do not change stays what it is.
LEMMA SameJob ==
  ASSUME NEW a, row'[a] = row[a], Running(a)' <=> Running(a)
  PROVE  JobOf(a)' = JobOf(a)
BY DEF JobOf, StageOf, Stored

\* A step that changes one task of one action changes no other action, and this
\* one's execution only with the task's.
LEMMA OneTaskChanges ==
  ASSUME SchedulingInv, NEW a \in Actions, NEW s \in Sources, NEW t,
         task' = [task EXCEPT ![a][s] = t]
  PROVE  /\ \A b \in Actions \ {a} : Running(b)' <=> Running(b)
         /\ Executes(t) => Running(a)'
         /\ ~Executes(t) /\ Executes(task[a][s]) => ~Running(a)'
         /\ (Executes(t) <=> Executes(task[a][s])) => (Running(a)' <=> Running(a))
<1>1. task \in [Actions -> [Sources -> Tasks]]
  BY DEF SchedulingInv, SchedulingTypeOK, Tasks
<1>2. \A b \in Actions, q \in Sources :
        task'[b][q] = IF b = a /\ q = s THEN t ELSE task[b][q]
  BY <1>1
<1>3. \A q \in Sources : Executes(task[a][s]) /\ Executes(task[a][q]) => q = s
  BY DEF SchedulingInv, OneExecutor, Executes
<1>4. \A b \in Actions : Running(b) <=> \E q \in Sources : Executes(task[b][q])
  BY DEF Running, Executes
<1>5. \A b \in Actions : Running(b)' <=> \E q \in Sources : Executes(task'[b][q])
  BY DEF Running, Executes
<1> QED BY <1>2, <1>3, <1>4, <1>5

\* The job of one action changes as the abstract specification says.
LEMMA OneJob ==
  ASSUME NEW a \in Actions, NEW j, JobOf(a)' = j,
         \A b \in Actions \ {a} : JobOf(b)' = JobOf(b)
  PROVE  Jobs' = [Jobs EXCEPT ![a] = j]
BY DEF Jobs

LEMMA JobsStay ==
  ASSUME \A b \in Actions : JobOf(b)' = JobOf(b)
  PROVE  Jobs' = Jobs
BY DEF Jobs

LEMMA ActionImplements ==
  ASSUME SchedulingInv, NEW a \in Actions, NEW s \in Sources,
         \/ \E kind \in Kinds, start \in 0..MaxTime : Create(a, kind, start)
         \/ CreateQueues(a) \/ CreateCancelled(a) \/ Remove(a) \/ TaskStep(a, s)
  PROVE  [Promise!OccurrencesNext]_(Promise!occurrencesVars)
<1>0. /\ row[a] \in Rows /\ task[a][s] \in Tasks /\ NextTime(a, row[a]) \in Nat
      /\ row[a].at = "absent" => \A q \in Sources : task[a][q] = NoTask
      /\ Stored(a) /\ Running(a) => row[a].executing
      /\ "op" \in Sources
  BY InvFacts DEF Sources
<1>j. Jobs[a] = JobOf(a) /\ JobOf(a) \in [at : Promise!Stages, kind : Kinds, start : Nat, count : Nat]
  BY <1>0 DEF Jobs, JobOf, StageOf, Promise!Stages, Stored, Rows
<1>t. /\ ~Executes(NoTask) /\ NoTask.pc = "none"
      /\ \A n : ~Executes(Asleep(n))
  BY DEF NoTask, Executes, Asleep
<1>r. row \in [Actions -> Rows] /\ task \in [Actions -> [Sources -> Tasks]]
  BY DEF SchedulingInv, SchedulingTypeOK, Rows, Tasks
\* A stutter: neither the row nor the execution of an action changes.
<1>s. ASSUME row' = row, clock' = clock, \A b \in Actions : Running(b)' <=> Running(b)
      PROVE  UNCHANGED Promise!occurrencesVars
  BY <1>s, SameJob, JobsStay DEF Promise!occurrencesVars
\* A step that changes the job of a only.
<1>o. ASSUME NEW r, row' = [row EXCEPT ![a] = r], \A b \in Actions \ {a} : Running(b)' <=> Running(b)
      PROVE  Jobs' = [Jobs EXCEPT ![a] = JobOf(a)'] /\ row'[a] = r
  BY <1>o, <1>r, SameJob, OneJob
<1>1. ASSUME NEW kind \in Kinds, NEW start \in 0..MaxTime, Create(a, kind, start)
      PROVE  Promise!Submit(a, kind, start)
  <2> DEFINE r == [at |-> "stored", kind |-> kind, start |-> start, count |-> 0, executing |-> FALSE]
             t == [task[a]["op"] EXCEPT !.pc = "inserted"]
  <2>1. task' = [task EXCEPT ![a]["op"] = t] /\ row' = [row EXCEPT ![a] = r]
    BY <1>1 DEF Create
  <2>2. t.pc = "inserted"
    BY <1>r, <1>0 DEF Tasks
  <2> HIDE DEF t
  <2>3. ~Executes(t) /\ ~Executes(task[a]["op"]) /\ ~Running(a)
    BY <2>2, <1>0, <1>t, <1>1 DEF Create, Executes, Running
  <2>4. \A b \in Actions : Running(b)' <=> Running(b)
    BY <2>1, <2>3, <1>0, OneTaskChanges
  <2>5. Jobs' = [Jobs EXCEPT ![a] = JobOf(a)'] /\ row'[a] = r
    <3> HIDE DEF r
    <3> QED BY <1>o, <2>1, <2>4
  <2>6. JobOf(a)' = [at |-> "waiting", kind |-> kind, start |-> start, count |-> 0]
    BY <2>3, <2>4, <2>5 DEF JobOf, StageOf, Stored
  <2>7. Jobs[a].at = "absent"
    BY <1>j, <1>1 DEF JobOf, StageOf, Stored, Create
  <2> QED BY <2>5, <2>6, <2>7, <1>1 DEF Promise!Submit, Create
<1>2. CASE CreateQueues(a)
  <2>1. \E t : task' = [task EXCEPT ![a]["op"] = t] /\ ~Executes(t)
    BY <1>2, <1>t DEF CreateQueues, Queue
  <2>2. ~Executes(task[a]["op"])
    BY <1>2 DEF CreateQueues, Executes
  <2> QED BY <1>2, <1>0, <1>s, <2>1, <2>2, OneTaskChanges DEF CreateQueues
<1>3. CASE CreateCancelled(a)
  <2>1. ~Executes(task[a]["op"]) /\ task' = [task EXCEPT ![a]["op"] = NoTask]
    BY <1>3 DEF CreateCancelled, Executes, TaskEnds
  <2> QED BY <1>3, <1>0, <1>t, <1>s, <2>1, OneTaskChanges DEF CreateCancelled
<1>4. CASE Remove(a)
  <2> DEFINE r == [row[a] EXCEPT !.at = "gone"]
  <2>1. \A b \in Actions : Running(b)' <=> Running(b)
    BY <1>4 DEF Remove, Running
  <2>2. Jobs' = [Jobs EXCEPT ![a] = JobOf(a)'] /\ row'[a] = r
    <3>1. row' = [row EXCEPT ![a] = r]
      BY <1>4 DEF Remove
    <3> HIDE DEF r
    <3> QED BY <1>o, <2>1, <3>1
  <2>3. JobOf(a)' = [Jobs[a] EXCEPT !.at = "gone"]
    BY <2>2, <1>j, <1>0 DEF JobOf, StageOf, Stored, Rows
  <2>4. Jobs[a].at \in {"waiting", "running", "held"}
    BY <1>4, <1>j DEF Remove, JobOf, StageOf
  <2>5. Promise!Withdraw(a)
    BY <2>2, <2>3, <2>4, <1>4 DEF Promise!Withdraw, Remove
  <2> QED BY <2>5 DEF Promise!OccurrencesNext
<1>5. CASE TaskStep(a, s)
  <2>0. /\ Executes(task[a][s]) => Running(a)
        /\ ~Executes(task[a][s]) /\ task' = [task EXCEPT ![a][s] = NoTask] =>
             \A b \in Actions : Running(b)' <=> Running(b)
    BY <1>t, OneTaskChanges DEF Executes, Running
  <2>a. Awake(a, s) => ~Executes(task[a][s])
    BY DEF Awake, Executes
  <2>b. task[a][s].pc \in {"run", "release"} => Executes(task[a][s]) /\ row[a].at # "absent"
    BY <1>0, <1>t DEF Executes
  <2>1. CASE Acquire(a, s)
    <3> DEFINE r == [row[a] EXCEPT !.executing = TRUE]
               t == [task[a][s] EXCEPT !.pc = "run"]
    <3>1. row' = [row EXCEPT ![a] = r] /\ task' = [task EXCEPT ![a][s] = t]
      BY <2>1 DEF Acquire
    <3>2. Executes(t) /\ r.at = "stored"
      BY <2>1, <1>0 DEF Acquire, Acquirable, Stored, Executes, Tasks, Rows
    <3>3. r.kind = row[a].kind /\ r.start = row[a].start /\ r.count = row[a].count
      BY <1>0 DEF Rows
    <3> HIDE DEF r, t
    <3>4. Running(a)' /\ Jobs' = [Jobs EXCEPT ![a] = JobOf(a)'] /\ row'[a] = r
      BY <3>1, <3>2, <1>o, OneTaskChanges
    <3>5. JobOf(a)' = [at |-> "running", kind |-> row[a].kind, start |-> row[a].start, count |-> row[a].count]
      BY <3>2, <3>3, <3>4 DEF JobOf, StageOf, Stored
    <3>6. JobOf(a) = [at |-> "waiting", kind |-> row[a].kind, start |-> row[a].start, count |-> row[a].count]
      BY <2>1, <1>0 DEF Acquire, Acquirable, JobOf, StageOf
    <3>7. JobOf(a)' = [Jobs[a] EXCEPT !.at = "running"] /\ Jobs[a].at = "waiting"
      BY <3>5, <3>6, <1>j
    <3>8. Promise!NextTime(a, Jobs[a]) <= clock
      <4>1. Promise!NextTime(a, Jobs[a]) = NextTime(a, row[a])
        BY <3>6, <1>j DEF Promise!NextTime, NextTime
      <4>2. NextTime(a, row[a]) <= clock
        <5>1. CASE row[a].kind = "recurring"
          BY <5>1, <2>1 DEF Acquire
        <5>2. CASE row[a].kind = "once"
          BY <5>2, <2>1 DEF Acquire, Awake, SchedulingInv, OnTime, NextTime
        <5> QED BY <5>1, <5>2, <1>0 DEF Rows, Kinds
      <4> QED BY <4>1, <4>2
    <3>9. Promise!Begin(a)
      BY <3>4, <3>7, <3>8, <2>1 DEF Promise!Begin, Acquire
    <3> QED BY <3>9 DEF Promise!OccurrencesNext
  <2>2. ASSUME Jobs[a].at \in {"waiting", "running"}, UNCHANGED clock,
               Jobs' = [Jobs EXCEPT ![a] = JobOf(a)'], JobOf(a)' = [Jobs[a] EXCEPT !.at = "held"]
        PROVE  Promise!Hold({a})
    <3>1. Jobs' = [b \in Actions |-> IF b \in {a} THEN [Jobs[b] EXCEPT !.at = "held"] ELSE Jobs[b]]
      BY <2>2 DEF Jobs
    <3> QED BY <2>2, <3>1 DEF Promise!Hold
  <2>3. CASE PutOff(a, s)
    <3> DEFINE r == [row[a] EXCEPT !.executing = TRUE]
               t == Asleep(NextTime(a, row[a]))
    <3>1. row' = [row EXCEPT ![a] = r] /\ task' = [task EXCEPT ![a][s] = t] /\ ~Executes(t)
      BY <2>3, <1>t DEF PutOff
    <3>2. r.at = "stored" /\ r.executing
      BY <2>3, <1>0 DEF PutOff, Acquirable, Stored, Rows
    <3>3. r.kind = row[a].kind /\ r.start = row[a].start /\ r.count = row[a].count
      BY <1>0 DEF Rows
    <3>p. ~Running(a) /\ Awake(a, s)
      BY <2>3, <1>0 DEF PutOff, Acquirable
    <3> HIDE DEF r, t
    <3>4. ~Running(a)' /\ Jobs' = [Jobs EXCEPT ![a] = JobOf(a)'] /\ row'[a] = r
      BY <3>1, <3>2, <3>p, <2>a, <1>o, OneTaskChanges
    <3>5. JobOf(a)' = [at |-> "held", kind |-> row[a].kind, start |-> row[a].start, count |-> row[a].count]
      BY <3>2, <3>3, <3>4 DEF JobOf, StageOf, Stored
    <3>6. JobOf(a) = [at |-> "waiting", kind |-> row[a].kind, start |-> row[a].start, count |-> row[a].count]
      BY <2>3, <3>p DEF PutOff, Acquirable, JobOf, StageOf
    <3>7. JobOf(a)' = [Jobs[a] EXCEPT !.at = "held"] /\ Jobs[a].at = "waiting"
      BY <3>5, <3>6, <1>j
    <3>8. Promise!Hold({a})
      BY <3>4, <3>7, <2>2, <2>3 DEF PutOff
    <3> QED BY <3>8 DEF Promise!OccurrencesNext
  <2>4. CASE NotAcquired(a, s) \/ AcquireFails(a, s)
    BY <2>4, <2>0, <2>a, <1>s DEF NotAcquired, AcquireFails, TaskEnds
  <2>5. CASE RunSucceeds(a, s)
    <3> DEFINE t == [task[a][s] EXCEPT !.pc = "release"]
    <3>1. task' = [task EXCEPT ![a][s] = t] /\ Executes(task[a][s])
      BY <2>5, <2>b DEF RunSucceeds
    <3>2. Executes(t)
      BY <1>0 DEF Tasks, Executes
    <3> HIDE DEF t
    <3> QED BY <2>5, <3>1, <3>2, <1>s, OneTaskChanges DEF RunSucceeds
  <2>6. CASE RunFails(a, s)
    <3>1. task' = [task EXCEPT ![a][s] = NoTask] /\ Executes(task[a][s]) /\ UNCHANGED <<clock, row>>
      BY <2>6, <2>b DEF RunFails, TaskEnds
    <3>2. Running(a) /\ ~Running(a)' /\ \A b \in Actions \ {a} : Running(b)' <=> Running(b)
      BY <3>1, <2>0, <1>t, OneTaskChanges
    <3>3. Jobs' = [Jobs EXCEPT ![a] = JobOf(a)']
      BY <3>1, <3>2, SameJob, OneJob
    <3>4. CASE Stored(a)
      <4>1. JobOf(a)' = [at |-> "held", kind |-> row[a].kind, start |-> row[a].start, count |-> row[a].count]
        BY <3>4, <3>1, <3>2, <1>0 DEF JobOf, StageOf, Stored
      <4>2. JobOf(a) = [at |-> "running", kind |-> row[a].kind, start |-> row[a].start, count |-> row[a].count]
        BY <3>4, <3>2 DEF JobOf, StageOf
      <4>3. JobOf(a)' = [Jobs[a] EXCEPT !.at = "held"] /\ Jobs[a].at = "running"
        BY <4>1, <4>2, <1>j
      <4> QED BY <4>3, <3>1, <3>3, <2>2 DEF Promise!OccurrencesNext
    <3>5. CASE ~Stored(a)
      <4>1. JobOf(a)' = JobOf(a)
        BY <3>5, <3>1 DEF JobOf, StageOf, Stored
      <4> QED BY <4>1, <3>1, <3>2, SameJob, JobsStay DEF Promise!occurrencesVars
    <3> QED BY <3>4, <3>5
  <2>7. CASE Release(a, s)
    <3> DEFINE r == row'[a]
               released == [row[a] EXCEPT !.executing = FALSE]
    <3>1. r = [released EXCEPT !.count = released.count + 1] /\ row' = [row EXCEPT ![a] = r]
      BY <2>7, <1>r DEF Release
    <3>2. /\ released \in Rows /\ released.at = row[a].at /\ released.kind = row[a].kind
          /\ released.start = row[a].start /\ released.count = row[a].count /\ ~released.executing
      BY <1>0 DEF Rows
    <3>3. PICK t : task' = [task EXCEPT ![a][s] = t] /\ ~Executes(t)
      BY <2>7, <1>t DEF Release, Queue
    <3> HIDE DEF released
    <3>4. /\ r.at = "stored" /\ r.kind = "recurring" /\ row[a].kind = "recurring"
          /\ r.start = row[a].start /\ r.count = row[a].count + 1 /\ ~r.executing
      BY <3>1, <3>2, <2>7 DEF Release, Stored, Rows
    <3> HIDE DEF r
    <3>5. ~Running(a)' /\ Running(a) /\ Jobs' = [Jobs EXCEPT ![a] = JobOf(a)'] /\ row'[a] = r
      BY <2>7, <2>b, <2>0, <3>1, <3>3, <1>o, OneTaskChanges DEF Release
    <3>6. JobOf(a)' = [at |-> "waiting", kind |-> "recurring", start |-> row[a].start, count |-> row[a].count + 1]
      BY <3>4, <3>5 DEF JobOf, StageOf, Stored
    <3>7. JobOf(a) = [at |-> "running", kind |-> "recurring", start |-> row[a].start, count |-> row[a].count]
      BY <3>4, <3>5, <2>7 DEF JobOf, StageOf, Release
    <3>9. Promise!Complete(a)
      BY <3>5, <3>6, <3>7, <1>j, <2>7 DEF Promise!Complete, Release
    <3> QED BY <3>9 DEF Promise!OccurrencesNext
  <2>8. CASE Finish(a, s)
    <3> DEFINE r == [row[a] EXCEPT !.at = "gone"]
    <3>1. row' = [row EXCEPT ![a] = r] /\ task' = [task EXCEPT ![a][s] = NoTask] /\ Executes(task[a][s])
      BY <2>8, <2>b DEF Finish, TaskEnds
    <3>2. r.at = "gone" /\ r.kind = row[a].kind /\ r.start = row[a].start /\ r.count = row[a].count
      BY <1>0 DEF Rows
    <3> HIDE DEF r
    <3>3. Running(a) /\ Jobs' = [Jobs EXCEPT ![a] = JobOf(a)'] /\ row'[a] = r
      BY <3>1, <2>0, <1>t, <1>o, OneTaskChanges
    <3>4. JobOf(a)' = [at |-> "gone", kind |-> row[a].kind, start |-> row[a].start, count |-> row[a].count]
      BY <3>2, <3>3 DEF JobOf, StageOf, Stored
    <3>5. CASE Stored(a)
      <4>1. row[a].kind = "once"
        BY <3>5, <2>8 DEF Finish
      <4>2. JobOf(a) = [at |-> "running", kind |-> "once", start |-> row[a].start, count |-> row[a].count]
        BY <3>5, <3>3, <4>1 DEF JobOf, StageOf
      <4>3. JobOf(a)' = [Jobs[a] EXCEPT !.at = "gone"]
        BY <3>4, <4>1, <4>2, <1>j
      <4>4. Promise!Complete(a)
        BY <3>3, <4>2, <4>3, <1>j, <2>8 DEF Promise!Complete, Finish
      <4> QED BY <4>4 DEF Promise!OccurrencesNext
    <3>6. CASE ~Stored(a)
      <4>1. row[a].at = "gone"
        BY <3>6, <2>8, <2>b, <1>0 DEF Finish, Stored, Rows
      <4>2. JobOf(a)' = JobOf(a)
        BY <4>1, <3>4, <3>6 DEF JobOf, StageOf
      <4>3. Jobs' = Jobs
        BY <3>3, <4>2, <1>j DEF Jobs
      <4> QED BY <4>3, <2>8 DEF Promise!occurrencesVars, Finish
    <3> QED BY <3>5, <3>6
  <2> QED BY <1>5, <2>1, <2>3, <2>4, <2>5, <2>6, <2>7, <2>8 DEF TaskStep
<1> QED BY <1>1, <1>2, <1>3, <1>4, <1>5 DEF Promise!OccurrencesNext, Kinds, Promise!Kinds

LEMMA OtherImplements ==
  ASSUME SchedulingInv,
         \/ Boot \/ (\E queued \in SUBSET Actions : BootPanics(queued)) \/ BootFails
         \/ Crash \/ Tick
  PROVE  [Promise!OccurrencesNext]_(Promise!occurrencesVars)
<1>1. ASSUME NEW queued \in SUBSET Actions, queued \subseteq Selected, BootQueues(queued),
             boot # "done", UNCHANGED <<clock, row>>
      PROVE  UNCHANGED Promise!occurrencesVars
  <2>1. ASSUME NEW a \in Actions PROVE Running(a)' <=> Running(a)
    <3>0. task[a] \in [Sources -> Tasks]
      BY DEF SchedulingInv, SchedulingTypeOK, Tasks
    <3>1. CASE a \notin queued
      BY <1>1, <3>1 DEF BootQueues, Running
    <3>2. CASE a \in queued
      <4>1. ToBoot(a)
        BY <3>2, <1>1 DEF Selected, ToBoot, SchedulingInv, SchedulingTypeOK
      <4>2. task[a]["boot"].pc = "none"
        BY <4>1 DEF SchedulingInv, BootedOnce, NoTask
      <4>3. task'[a] = [task[a] EXCEPT !["boot"] = Asleep(NextTime(a, row[a]))]
        BY <3>2, <1>1 DEF BootQueues
      <4>4. task'[a]["boot"].pc = "sleep" /\ \A s \in Sources : s # "boot" => task'[a][s] = task[a][s]
        BY <4>3, <3>0 DEF Asleep, Sources
      <4> QED BY <4>2, <4>4 DEF Running
    <3> QED BY <3>1, <3>2
  <2> QED BY <2>1, <1>1, SameJob, JobsStay DEF Promise!occurrencesVars
<1>2. CASE Boot
  BY <1>1, <1>2 DEF Boot, Selected
<1>3. ASSUME NEW queued \in SUBSET Actions, BootPanics(queued)
      PROVE  UNCHANGED Promise!occurrencesVars
  BY <1>1, <1>3 DEF BootPanics
<1>4. CASE BootFails
  BY <1>4, SameJob, JobsStay DEF BootFails, Running, Promise!occurrencesVars
<1>5. CASE Crash
  <2> DEFINE held == {a \in Actions : Stored(a) /\ Running(a)}
  <2>1. \A a \in Actions : ~Running(a)'
    BY <1>5 DEF Crash, NoTasks, NoTask, Running
  <2>2. ASSUME NEW a \in held PROVE JobOf(a)' = [Jobs[a] EXCEPT !.at = "held"] /\ Jobs[a].at = "running"
    <3>1. row[a].executing
      BY DEF SchedulingInv, Marked
    <3> QED BY <2>1, <3>1, <1>5 DEF Crash, Jobs, JobOf, StageOf, Stored
  <2>3. ASSUME NEW a \in Actions \ held PROVE JobOf(a)' = Jobs[a]
    BY <2>1, <1>5 DEF Crash, Jobs, JobOf, StageOf, Stored
  <2>4. Jobs' = [a \in Actions |-> IF a \in held THEN [Jobs[a] EXCEPT !.at = "held"] ELSE Jobs[a]]
    <3> HIDE DEF held
    <3> QED BY <2>2, <2>3 DEF Jobs
  <2>5. Promise!Hold(held)
    <3> HIDE DEF held
    <3> QED BY <2>2, <2>4, <1>5 DEF Promise!Hold, Crash
  <2> QED BY <2>5 DEF Promise!OccurrencesNext
<1>6. CASE Tick
  <2>1. Jobs' = Jobs
    BY <1>6, SameJob, JobsStay DEF Tick, Running
  <2> QED BY <2>1, <1>6 DEF Promise!OccurrencesNext, Promise!Pass, Tick
<1> QED BY <1>2, <1>3, <1>4, <1>5, <1>6

\* Every step is one of the promise, or a stutter.
LEMMA StepImplements ==
  SchedulingInv /\ [SchedulingNext]_schedulingVars
    => [Promise!OccurrencesNext]_(Promise!occurrencesVars)
<1> SUFFICES ASSUME SchedulingInv, [SchedulingNext]_schedulingVars
             PROVE  [Promise!OccurrencesNext]_(Promise!occurrencesVars)
  OBVIOUS
<1>1. CASE SchedulingNext
  <2>1. "op" \in Sources
    BY DEF Sources
  <2> QED BY <1>1, <2>1, ActionImplements, OtherImplements DEF SchedulingNext
<1>2. CASE UNCHANGED schedulingVars
  BY <1>2, SameJob, JobsStay DEF schedulingVars, Running, Promise!occurrencesVars
<1> QED BY <1>1, <1>2

\* The scheduler with its queue, its marks and its restarts implements the
\* promise: every occurrence begins at most once and not before its time, and
\* what is held never begins again (PromiseSpec).
THEOREM SchedulingKeepsPromise == SchedulingSpec => PromiseSpec
<1>1. SchedulingInit => Promise!OccurrencesInit
  BY DEF SchedulingInit, NoRow, NoTasks, NoTask, Promise!OccurrencesInit, Promise!NoJob, Jobs,
         JobOf, StageOf, Stored
<1> QED BY <1>1, StepImplements, SchedulingInvariant, PTL
     DEF SchedulingSpec, PromiseSpec, Promise!OccurrencesSpec

\* What is marked and executed by nobody is held, and the promise never lets it
\* go (StuckForGood).
THEOREM StuckIsHeld == SchedulingSpec => StuckForGood
<1>1. SchedulingInv /\ [SchedulingNext]_schedulingVars
        => [\A a \in Actions : Stuck(a) => Stuck(a)' \/ row'[a].at = "gone"]_schedulingVars
  <2> SUFFICES ASSUME SchedulingInv, [SchedulingNext]_schedulingVars,
                      NEW a \in Actions, Stuck(a)
               PROVE  Stuck(a)' \/ row'[a].at = "gone"
    OBVIOUS
  <2>1. Jobs[a].at = "held"
    BY DEF Stuck, Jobs, JobOf, StageOf
  <2>2. Jobs'[a].at \in {"held", "gone"}
    <3>1. CASE UNCHANGED Promise!occurrencesVars
      BY <2>1, <3>1 DEF Promise!occurrencesVars
    <3>2. CASE Promise!OccurrencesNext
      <4>0. \A b \in Actions : b # a => \A j : [Jobs EXCEPT ![b] = j][a].at = "held"
        BY <2>1 DEF Jobs
      <4>1. ASSUME NEW b \in Actions, NEW kind \in Promise!Kinds, NEW start \in 0..MaxTime,
                   Promise!Submit(b, kind, start)
            PROVE  Jobs'[a].at = "held"
        BY <4>1, <4>0, <2>1 DEF Promise!Submit
      <4>2. ASSUME NEW b \in Actions, Promise!Begin(b) \/ Promise!Complete(b)
            PROVE  Jobs'[a].at = "held"
        <5>1. b # a
          BY <4>2, <2>1 DEF Promise!Begin, Promise!Complete
        <5>2. \E j : Jobs' = [Jobs EXCEPT ![b] = j]
          BY <4>2 DEF Promise!Begin, Promise!Complete
        <5> QED BY <5>1, <5>2, <4>0
      <4>3. ASSUME NEW b \in Actions, Promise!Withdraw(b) PROVE Jobs'[a].at \in {"held", "gone"}
        BY <4>3, <4>0, <2>1 DEF Promise!Withdraw, Jobs, JobOf
      <4>4. ASSUME NEW held \in SUBSET Actions, Promise!Hold(held) PROVE Jobs'[a].at = "held"
        BY <4>4, <2>1 DEF Promise!Hold
      <4>5. CASE Promise!Pass
        BY <4>5, <2>1 DEF Promise!Pass
      <4> QED BY <3>2, <4>1, <4>2, <4>3, <4>4, <4>5 DEF Promise!OccurrencesNext
    <3> QED BY <3>1, <3>2, StepImplements
  <2>3. Jobs'[a].at = "held" => Stuck(a)'
    <3>1. row'[a] \in Rows
      BY StepKeepsInv DEF SchedulingInv, SchedulingTypeOK, Rows
    <3> QED BY <3>1 DEF Stuck, Jobs, JobOf, StageOf, Stored, Rows
  <2>4. Jobs'[a].at = "gone" => row'[a].at = "gone"
    BY DEF Jobs, JobOf, StageOf
  <2> QED BY <2>2, <2>3, <2>4
<1> QED BY <1>1, SchedulingInvariant, PTL DEF SchedulingSpec, StuckForGood
=============================================================================
