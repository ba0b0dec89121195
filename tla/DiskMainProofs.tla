---------------------------- MODULE DiskMainProofs ----------------------------
(***************************************************************************)
(* Proofs about the scheduler: for any job names, schedules, periods and   *)
(* horizon, through crashes at any point of the loop, it implements        *)
(* SlotFiring, which does not take a punctual timer; and no slot is lost   *)
(* as long as the timer is never more than Late behind.                    *)
(***************************************************************************)
EXTENDS DiskMain, TLAPS

JobsOK == DOMAIN jobs \subseteq Names /\ \A n \in DOMAIN jobs : jobs[n] \in Job

\* An element of a sequence over a set is in that set.
LEMMA ElementInSet ==
  ASSUME NEW S, NEW q \in Seq(S), NEW i \in DOMAIN q
  PROVE  q[i] \in S
  OBVIOUS

\* Saving a job under a name leaves a well-typed set of job files.
LEMMA SaveTyped ==
  ASSUME TypeOK, NEW n \in Names, NEW job \in Job, saveBackupJob(n, job)
  PROVE  JobsOK' /\ since' \in [Names -> Nat] /\ DOMAIN jobs \subseteq DOMAIN jobs'
  BY DEF TypeOK, saveBackupJob, JobsOK

\* The slot that CheckJob picks is one of those it found due.
LEMMA DueSlotFact ==
  ASSUME NEW n \in DOMAIN jobs, TypeOK, shouldRun(jobs[n], tickAt, lastRun[n])
  PROVE  LET s == CHOOSE s \in DueSlots(jobs[n].set.sched, tickAt, lastRun[n]) : TRUE
         IN /\ s \in 0..MaxTime
            /\ s <= tickAt /\ tickAt <= s + Grace /\ lastRun[n] < s
<1> DEFINE D == DueSlots(jobs[n].set.sched, tickAt, lastRun[n])
<1>1. D # {}
  BY DEF shouldRun
<1>2. PICK s \in D : s = CHOOSE x \in D : TRUE
  BY <1>1
<1>3. jobs[n].set.sched \in Schedules
  BY DiskMainAssumption DEF TypeOK, Job
<1>4. s \in Nat /\ s <= tickAt /\ tickAt <= s + Grace /\ lastRun[n] < s
  BY <1>2, <1>3, DiskMainAssumption DEF DueSlots
<1>5. tickAt \in 0..MaxTime
  BY DiskMainAssumption DEF TypeOK
<1> QED BY <1>2, <1>4, <1>5, DiskMainAssumption

-----------------------------------------------------------------------------
\* Every step preserves the type invariant.
LEMMA TypeStep ==
  ASSUME TypeOK, [Next]_vars
  PROVE  TypeOK'
<1> USE DiskMainAssumption DEF TypeOK, main, history, MainIdle
<1>1. CASE Start
  BY <1>1 DEF Start, EnterTaskCheck, Scheduled
<1>2. CASE TimerFires
  BY <1>2 DEF TimerFires, EnterTaskCheck, Scheduled
<1>3. ASSUME NEW n \in Names, CheckJob(n)
      PROVE  TypeOK'
  <2>1. CASE shouldRun(jobs[n], tickAt, lastRun[n])
    <3>1. n \in DOMAIN jobs
      BY <1>3 DEF CheckJob
    <3> DEFINE s == CHOOSE s \in DueSlots(jobs[n].set.sched, tickAt, lastRun[n]) : TRUE
    <3>a. s \in 0..MaxTime
      BY <2>1, <3>1, DueSlotFact
    <3>b. cur' = [name |-> n, job |-> jobs[n], slot |-> s]
      BY <1>3, <2>1 DEF CheckJob
    <3>c. jobs[n] \in Job
      BY <3>1
    <3> HIDE DEF s
    <3>2. cur' \in [name : Names, job : Job, slot : 0..MaxTime]
      BY <3>a, <3>b, <3>c
    <3>3. lastRun' \in [Names -> 0..now]
      BY <1>3, <2>1 DEF CheckJob
    <3>4. /\ UNCHANGED <<now, up, jobs, running, plugged, queue, tickAt, nextTick, log, made,
                        since, upSince>>
          /\ pc' = "launch" /\ todo' \subseteq todo /\ pc = "check"
      BY <1>3, <2>1 DEF CheckJob
    <3>5. cur' # NoCur
      BY <3>b DEF NoCur
    <3> QED BY <3>2, <3>3, <3>4, <3>5
  <2>2. CASE ~shouldRun(jobs[n], tickAt, lastRun[n])
    BY <1>3, <2>2 DEF CheckJob
  <2> QED BY <2>1, <2>2
<1>4. CASE LaunchJob
  BY <1>4 DEF LaunchJob, startBackup, Job
<1>5. CASE CheckDone
  BY <1>5 DEF CheckDone
<1>6. CASE onDiskAdded
  BY <1>6 DEF onDiskAdded, startBackup, HotplugJobs
<1>7. ASSUME NEW n \in Names, NEW set \in Settings, NEW id \in Ids, CreateJob(n, set, id)
      PROVE  TypeOK'
  <2>1. [id |-> id, set |-> set] \in Job
    BY DEF Job
  <2> QED BY <1>7, <2>1, SaveTyped DEF CreateJob, JobsOK
<1>8. ASSUME NEW n \in Names, NEW set \in Settings, UpdateJob(n, set)
      PROVE  TypeOK'
  <2>1. [jobs[n] EXCEPT !.set = set] \in Job
    BY <1>8 DEF Job, UpdateJob
  <2> QED BY <1>8, <2>1, SaveTyped DEF UpdateJob, JobsOK
<1>9. ASSUME NEW n \in Names, NEW m \in Names, NEW set \in Settings, RenameJob(n, m, set)
      PROVE  TypeOK'
  <2>0. [jobs[n] EXCEPT !.set = set] \in Job
    BY <1>9 DEF RenameJob, Job
  <2>1. cur' \in [name : Names, job : Job, slot : 0..MaxTime]
    BY <1>9, <2>0 DEF RenameJob
  <2>2. JobsOK' /\ todo' = {}
    BY <1>9 DEF RenameJob, JobsOK
  <2>3. /\ UNCHANGED <<now, up, lastRun, running, plugged, queue, tickAt, nextTick, log, made,
                        upSince>>
        /\ pc' = "save" /\ since' \in [Names -> Nat]
    BY <1>9 DEF RenameJob
  <2>4. cur' # NoCur
    BY <1>9 DEF RenameJob, NoCur
  <2> QED BY <2>1, <2>2, <2>3, <2>4 DEF JobsOK
<1>10. CASE SaveRenamed
  <2>1. cur.name \in Names /\ cur.job \in Job
    BY <1>10 DEF SaveRenamed
  <2> QED BY <1>10, <2>1, SaveTyped DEF SaveRenamed, JobsOK
<1>11. ASSUME NEW n \in Names, DeleteJob(n) \/ StartJob(n) \/ WorkerDone(n)
       PROVE  TypeOK'
  BY <1>11 DEF DeleteJob, StartJob, WorkerDone, Restrict, startBackup
<1>12. ASSUME NEW u \in Uuids, DiskAdded(u) \/ DiskRemoved(u)
       PROVE  TypeOK'
  <2>0. queue' = Append(queue, u) \/ queue' = queue
    BY <1>12 DEF DiskAdded, DiskRemoved
  <2>1. queue' \in Seq(Uuids)
    <3>1. queue \in Seq(Uuids) /\ u \in Uuids
      OBVIOUS
    <3>2. Append(queue, u) \in Seq(Uuids)
      BY <3>1
    <3> QED BY <2>0, <3>1, <3>2
  <2>2. /\ UNCHANGED <<now, up, jobs, lastRun, running, pc, todo, tickAt, cur, nextTick,
                      log, made, since, upSince>>
        /\ plugged' \subseteq Uuids
    BY <1>12 DEF DiskAdded, DiskRemoved
  <2> QED BY <2>1, <2>2
<1>13. CASE Crash
  <2>1. queue' \in Seq(Uuids) /\ cur' = NoCur
    BY <1>13 DEF Crash
  <2>2. UNCHANGED <<now, jobs, lastRun, plugged, log, made, since, upSince>>
    BY <1>13 DEF Crash
  <2>3. up' = FALSE /\ running' = {} /\ pc' = "idle" /\ todo' = {} /\ tickAt' = 0 /\ nextTick' = 0
    BY <1>13 DEF Crash
  <2>4. tickAt' \in 0..now' /\ nextTick' \in Nat
    BY <2>2, <2>3
  <2> QED BY <2>1, <2>2, <2>3, <2>4
<1>14. CASE AdvanceTime
  <2>1. now' \in 1..MaxTime /\ lastRun' \in [Names -> 0..now'] /\ tickAt' \in 0..now'
    BY <1>14 DEF AdvanceTime
  <2> QED BY <1>14, <2>1 DEF AdvanceTime
<1>15. CASE UNCHANGED vars
  BY <1>15 DEF vars
<1> QED
  BY <1>1, <1>2, <1>3, <1>4, <1>5, <1>6, <1>7, <1>8, <1>9, <1>10, <1>11, <1>12, <1>13,
     <1>14, <1>15 DEF Next

\* The initial state is well typed.
LEMMA InitTyped ==
  ASSUME Init
  PROVE  TypeOK
<1>1. queue \in Seq(Uuids) /\ log \in Seq([name : Names, id : Ids, slot : Nat, at : Nat])
  BY DEF Init
<1>2. DOMAIN jobs = {} /\ cur = NoCur
  BY DEF Init
<1>3. lastRun \in [Names -> 0..now] /\ since \in [Names -> Nat]
  BY DEF Init
<1>4. /\ up = FALSE /\ running = {} /\ plugged = {} /\ pc = "idle" /\ todo = {}
      /\ nextTick = 0 /\ made = {} /\ upSince = 0
  BY DEF Init
<1>5. now \in 1..MaxTime /\ tickAt \in 0..now
  BY DiskMainAssumption DEF Init
<1> QED BY <1>1, <1>2, <1>3, <1>4, <1>5 DEF TypeOK

\* Type correctness of the scheduler, the hotplug slot and the job routes.
THEOREM DiskMainTypeCorrect == Spec => []TypeOK
<1>1. Init => TypeOK
  BY InitTyped
<1> QED BY <1>1, TypeStep, PTL DEF Spec

-----------------------------------------------------------------------------
(* At most once.  The file runs ahead of the launches: no slot later than the *)
(* recorded run was ever launched, and a slot about to be launched is on      *)
(* record already, while its launch is not in the log.                        *)

OnRecord == \A i \in DOMAIN log : log[i].slot <= lastRun[log[i].name]

AboutToLaunch ==
  pc = "launch" =>
    /\ cur.slot <= lastRun[cur.name]
    /\ cur.slot <= tickAt /\ tickAt <= cur.slot + Grace
    /\ \A i \in DOMAIN log : ~(log[i].name = cur.name /\ log[i].slot = cur.slot)

FiringInv == TypeOK /\ OnRecord /\ AboutToLaunch

\* No step but LaunchJob writes the log, and no step but CheckJob the records.
LEMMA FiringFrame ==
  ASSUME [Next]_vars, ~LaunchJob, \A n \in Names : ~CheckJob(n)
  PROVE  /\ UNCHANGED <<log, lastRun>>
         /\ pc' = "launch" => UNCHANGED <<pc, cur, tickAt>>
  BY DEF Next, Start, TimerFires, EnterTaskCheck, CheckDone, onDiskAdded, SaveRenamed, Crash,
         AdvanceTime, DeleteJob, StartJob, WorkerDone, UpdateJob, CreateJob, RenameJob,
         DiskAdded, DiskRemoved, MainIdle, vars, main, history

LEMMA FiringStep ==
  ASSUME FiringInv, [Next]_vars
  PROVE  FiringInv'
<1>0. TypeOK'
  BY TypeStep DEF FiringInv
<1>1. ASSUME NEW n \in Names, CheckJob(n), shouldRun(jobs[n], tickAt, lastRun[n])
      PROVE  OnRecord' /\ AboutToLaunch'
  <2> DEFINE s == CHOOSE s \in DueSlots(jobs[n].set.sched, tickAt, lastRun[n]) : TRUE
  <2>1. /\ cur' = [name |-> n, job |-> jobs[n], slot |-> s]
        /\ lastRun' = [lastRun EXCEPT ![n] = tickAt]
        /\ UNCHANGED <<log, tickAt>>
    BY <1>1 DEF CheckJob, history
  <2>2. n \in DOMAIN jobs
    BY <1>1 DEF CheckJob, FiringInv, TypeOK
  <2>3. s \in 0..MaxTime /\ s <= tickAt /\ tickAt <= s + Grace /\ lastRun[n] < s
    BY <1>1, <2>2, DueSlotFact DEF FiringInv
  <2> HIDE DEF s
  <2>4. /\ lastRun \in [Names -> Nat] /\ tickAt \in Nat /\ s \in Nat
        /\ \A i \in DOMAIN log : log[i].name \in Names /\ log[i].slot \in Nat
    <3>1. now \in 1..MaxTime /\ lastRun \in [Names -> 0..now] /\ tickAt \in 0..now
      BY DEF FiringInv, TypeOK
    <3>2. log \in Seq([name : Names, id : Ids, slot : Nat, at : Nat])
      BY DEF FiringInv, TypeOK
    <3>3. \A i \in DOMAIN log : log[i].name \in Names /\ log[i].slot \in Nat
      <4> SUFFICES ASSUME NEW i \in DOMAIN log
                   PROVE  log[i].name \in Names /\ log[i].slot \in Nat
        OBVIOUS
      <4>1. log[i] \in [name : Names, id : Ids, slot : Nat, at : Nat]
        BY <3>2, ElementInSet
      <4> QED BY <4>1
    <3>4. lastRun \in [Names -> Nat]
      BY <3>1
    <3> QED BY <2>3, <3>1, <3>3, <3>4
  <2>5. OnRecord'
    <3> SUFFICES ASSUME NEW i \in DOMAIN log PROVE log[i].slot <= lastRun'[log[i].name]
      BY <2>1 DEF OnRecord
    <3>1. log[i].slot <= lastRun[log[i].name]
      BY DEF FiringInv, OnRecord
    <3>2. CASE log[i].name = n
      BY <3>1, <3>2, <2>1, <2>3, <2>4
    <3>3. CASE log[i].name # n
      BY <3>1, <3>3, <2>1, <2>4
    <3> QED BY <3>2, <3>3
  <2>6. \A i \in DOMAIN log : ~(log[i].name = n /\ log[i].slot = s)
    BY <2>3, <2>4 DEF FiringInv, OnRecord
  <2>7. lastRun'[n] = tickAt
    BY <2>1, <2>4
  <2> QED BY <2>1, <2>3, <2>5, <2>6, <2>7 DEF AboutToLaunch
<1>2. ASSUME NEW n \in Names, CheckJob(n), ~shouldRun(jobs[n], tickAt, lastRun[n])
      PROVE  OnRecord' /\ AboutToLaunch'
  BY <1>2 DEF CheckJob, history, FiringInv, OnRecord, AboutToLaunch
<1>3. ASSUME LaunchJob
      PROVE  OnRecord' /\ AboutToLaunch'
  <2> DEFINE e == [name |-> cur.name, id |-> cur.job.id, slot |-> cur.slot, at |-> tickAt]
  <2>1. /\ log' = Append(log, e) /\ lastRun' = lastRun /\ pc' = "check"
        /\ cur.slot <= lastRun[cur.name]
    BY <1>3 DEF LaunchJob, FiringInv, AboutToLaunch
  <2>2. log \in Seq([name : Names, id : Ids, slot : Nat, at : Nat])
    BY DEF FiringInv, TypeOK
  <2> HIDE DEF e
  <2>3. \A i \in DOMAIN log' : log'[i] = e \/ (i \in DOMAIN log /\ log'[i] = log[i])
    BY <2>1, <2>2
  <2>4. e.slot = cur.slot /\ e.name = cur.name
    BY DEF e
  <2> QED BY <2>1, <2>3, <2>4 DEF OnRecord, AboutToLaunch, FiringInv
<1>4. ASSUME ~LaunchJob, \A n \in Names : ~CheckJob(n)
      PROVE  OnRecord' /\ AboutToLaunch'
  BY <1>4, FiringFrame DEF FiringInv, OnRecord, AboutToLaunch
<1>5. OnRecord' /\ AboutToLaunch'
  BY <1>1, <1>2, <1>3, <1>4
<1> QED BY <1>0, <1>5 DEF FiringInv

THEOREM FiringInvariant == Spec => []FiringInv
<1>1. Init => FiringInv
  <2>1. Init => OnRecord /\ AboutToLaunch
    BY DEF Init, OnRecord, AboutToLaunch
  <2> QED BY <2>1, InitTyped DEF FiringInv
<1> QED BY <1>1, FiringStep, PTL DEF Spec

-----------------------------------------------------------------------------
\* A step of the daemon is a step of the promise, or does not show in it.
LEMMA StepImplementsPromise ==
  ASSUME FiringInv, FiringInv', [Next]_vars
  PROVE  [Promise!SNext]_<<now, log>>
<1>1. CASE LaunchJob
  <2> DEFINE e == [name |-> cur.name, id |-> cur.job.id, slot |-> cur.slot, at |-> tickAt]
  <2>1. log' = Append(log, e) /\ UNCHANGED now
    BY <1>1 DEF LaunchJob
  <2>2. cur \in [name : Names, job : Job, slot : 0..MaxTime]
    BY <1>1 DEF LaunchJob, FiringInv, TypeOK
  <2>3. /\ cur.name \in Names /\ cur.job.id \in Ids /\ cur.slot \in 0..MaxTime
        /\ tickAt \in Nat /\ tickAt <= now
    BY <2>2 DEF Job, FiringInv, TypeOK
  <2>4. /\ tickAt \in cur.slot..(cur.slot + Grace)
        /\ \A i \in DOMAIN log : ~(log[i].name = cur.name /\ log[i].slot = cur.slot)
    BY <1>1, <2>3, DiskMainAssumption DEF LaunchJob, FiringInv, AboutToLaunch
  <2>5. Promise!Fire(cur.name, cur.job.id, cur.slot, tickAt)
    BY <2>1, <2>3, <2>4 DEF Promise!Fire
  <2> QED BY <2>3, <2>4, <2>5 DEF Promise!SNext
<1>2. CASE AdvanceTime
  BY <1>2 DEF AdvanceTime, history, Promise!SNext, Promise!Pass
<1>3. ASSUME ~LaunchJob, ~AdvanceTime
      PROVE  UNCHANGED <<now, log>>
  BY <1>3 DEF Next, Start, TimerFires, EnterTaskCheck, CheckJob, CheckDone, onDiskAdded,
         SaveRenamed, Crash, DeleteJob, StartJob, WorkerDone, UpdateJob, CreateJob, RenameJob,
         DiskAdded, DiskRemoved, vars, history
<1> QED BY <1>1, <1>2, <1>3

\* onTaskCheck keeps the promise of its comment: for every set of jobs and
\* schedules, and whenever the process dies and is restarted, every launch it
\* makes lies in its slot's window and is the first one of that slot and name.
THEOREM SlotsFireAtMostOnce == Spec => ImplementsSlotFiring
<1>1. Init => Promise!SInit
  BY DiskMainAssumption DEF Init, Promise!SInit
<1>2. FiringInv /\ FiringInv' /\ [Next]_vars => [Promise!SNext]_<<now, log>>
  BY StepImplementsPromise
<1> QED BY <1>1, <1>2, FiringInvariant, PTL DEF Spec, ImplementsSlotFiring, Promise!SSpec

-----------------------------------------------------------------------------
(* At least once.  The timer is never more than Late behind, and each tick    *)
(* settles every slot whose window is open then: the job is found due and its *)
(* record set to the tick's time, or the record was past the slot already.    *)
(* What a tick has not come to yet can miss only the slots of its own window. *)

TimerInv ==
  /\ ~up => pc = "idle"
  /\ up => /\ now <= nextTick + Late
           /\ nextTick <= now + Period
           /\ upSince + Period <= nextTick
  /\ pc \in {"check", "launch"} => tickAt + Period = nextTick

\* The run of slot s of job n had to be seen to, and was.
InPlace(n, s) == up /\ upSince <= s /\ since[n] < s

SettledInv ==
  \A n \in DOMAIN jobs : \A s \in SlotsOf[jobs[n].set.sched] :
    InPlace(n, s) =>
      /\ n \notin todo /\ s + Period <= nextTick => lastRun[n] >= s
      /\ n \in todo /\ s + Grace < tickAt => lastRun[n] >= s

ServedInv == TypeOK /\ TimerInv /\ SettledInv

\* What the arithmetic below needs of the types.
LEMMA ServedTypes ==
  ASSUME TypeOK
  PROVE  /\ now \in Nat /\ nextTick \in Nat /\ upSince \in Nat /\ tickAt \in Nat
         /\ Grace \in Nat /\ Period \in Nat /\ Late \in Nat
         /\ lastRun \in [Names -> Nat] /\ since \in [Names -> Nat]
         /\ \A n \in DOMAIN jobs : /\ n \in Names /\ jobs[n].set.sched \in Schedules
                                   /\ SlotsOf[jobs[n].set.sched] \subseteq Nat
<1>1. now \in 1..MaxTime /\ lastRun \in [Names -> 0..now] /\ tickAt \in 0..now
  BY DEF TypeOK
<1>2. lastRun \in [Names -> Nat]
  BY <1>1
<1>3. \A n \in DOMAIN jobs : n \in Names /\ jobs[n] \in Job
  BY DEF TypeOK
<1> QED BY <1>1, <1>2, <1>3, DiskMainAssumption DEF TypeOK, Job

\* A job with a slot has a schedule: the tick looks at it.
LEMMA ScheduledJob ==
  ASSUME NEW n \in DOMAIN jobs, NEW s \in SlotsOf[jobs[n].set.sched]
  PROVE  n \in Scheduled
  BY DiskMainAssumption DEF Scheduled

\* The timer is never late by more than Late, and a tick's time is its entry's.
LEMMA TimerStep ==
  ASSUME TypeOK, TimerInv, [Next]_vars
  PROVE  TimerInv'
<1>1. /\ now \in Nat /\ nextTick \in Nat /\ upSince \in Nat /\ tickAt \in Nat
      /\ Period \in Nat /\ Late \in Nat
  BY ServedTypes
<1> USE DEF TimerInv
<1>2. CASE Start
  BY <1>1, <1>2 DEF Start, EnterTaskCheck
<1>3. CASE TimerFires
  BY <1>1, <1>3 DEF TimerFires, EnterTaskCheck, MainIdle, history
<1>4. CASE AdvanceTime
  BY <1>1, <1>4 DEF AdvanceTime, main, history
<1>5. CASE Crash
  BY <1>5 DEF Crash
<1>6. ASSUME NEW n \in Names, CheckJob(n)
      PROVE  TimerInv'
  <2>1. /\ UNCHANGED <<now, up, tickAt, nextTick, upSince>>
        /\ pc = "check" /\ pc' \in {"check", "launch"}
    BY <1>6 DEF CheckJob, history
  <2> QED BY <2>1
<1>7. CASE LaunchJob \/ CheckDone \/ SaveRenamed
  BY <1>7 DEF LaunchJob, CheckDone, SaveRenamed, saveBackupJob, history
<1>8. CASE onDiskAdded
  BY <1>8 DEF onDiskAdded, main, history
<1>9. ASSUME NEW n \in Names, NEW m \in Names, NEW set \in Settings, RenameJob(n, m, set)
      PROVE  TimerInv'
  BY <1>9 DEF RenameJob, MainIdle
<1>10. ASSUME NEW n \in Names, NEW set \in Settings, NEW id \in Ids, CreateJob(n, set, id)
       PROVE  TimerInv'
  BY <1>10 DEF CreateJob, main
<1>11. ASSUME NEW n \in Names, NEW set \in Settings, UpdateJob(n, set)
       PROVE  TimerInv'
  BY <1>11 DEF UpdateJob, main
<1>12. ASSUME NEW n \in Names, DeleteJob(n) \/ StartJob(n) \/ WorkerDone(n)
       PROVE  TimerInv'
  BY <1>12 DEF DeleteJob, StartJob, WorkerDone, main, history
<1>13. ASSUME NEW u \in Uuids, DiskAdded(u) \/ DiskRemoved(u)
       PROVE  TimerInv'
  BY <1>13 DEF DiskAdded, DiskRemoved, main, history
<1>14. CASE UNCHANGED vars
  BY <1>14 DEF vars
<1> QED
  BY <1>2, <1>3, <1>4, <1>5, <1>6, <1>7, <1>8, <1>9, <1>10, <1>11, <1>12, <1>13,
     <1>14 DEF Next

\* A slot whose window closed is a slot of an earlier tick, if not of this one:
\* ticks are at most Period + Late apart, which is TimerWithinGrace.
LEMMA ClosedWindowWasMet ==
  ASSUME TypeOK, TimerInv, up, NEW s \in Nat, s + Grace < now
  PROVE  s + Period <= nextTick
<1>1. /\ now \in Nat /\ nextTick \in Nat /\ Grace \in Nat /\ Period \in Nat /\ Late \in Nat
  BY ServedTypes
<1> QED BY <1>1, TimerWithinGrace DEF TimerInv

\* Writing job files never leaves an unsettled slot behind: what is written now
\* is in place only for slots later than now, which no tick has met.
LEMMA WriteSettles ==
  ASSUME TypeOK, TimerInv, SettledInv, todo = {}, todo' = {},
         UNCHANGED <<now, up, upSince, lastRun, nextTick>>,
         NEW m \in Names, since' = [since EXCEPT ![m] = now],
         DOMAIN jobs' \subseteq DOMAIN jobs \cup {m},
         \A n \in DOMAIN jobs' : n # m => jobs'[n] = jobs[n],
         TypeOK'
  PROVE  SettledInv'
<1> SUFFICES ASSUME NEW n \in DOMAIN jobs', NEW s \in SlotsOf[jobs'[n].set.sched],
                    InPlace(n, s)', s + Period <= nextTick
             PROVE  lastRun[n] >= s
  BY DEF SettledInv
<1>1. CASE n = m
  <2>1. /\ now \in Nat /\ nextTick \in Nat /\ Period \in Nat
        /\ since \in [Names -> Nat]
    BY ServedTypes
  <2>2. jobs'[n].set.sched \in Schedules
    BY DiskMainAssumption DEF TypeOK, Job
  <2>3. s \in Nat
    BY <2>2, DiskMainAssumption
  <2>4. now < s /\ up
    BY <1>1, <2>1 DEF InPlace
  <2>5. nextTick <= now + Period
    BY <2>4 DEF TimerInv
  <2> QED BY <2>1, <2>3, <2>4, <2>5
<1>2. CASE n # m
  <2>1. n \in DOMAIN jobs /\ s \in SlotsOf[jobs[n].set.sched] /\ n \in Names
    BY <1>2, ServedTypes
  <2>2. InPlace(n, s)
    BY <1>2, <2>1, ServedTypes DEF InPlace
  <2> QED BY <2>1, <2>2 DEF SettledInv
<1> QED BY <1>1, <1>2

\* A job the tick comes to is settled for every slot up to the tick's time: the
\* slots whose window is open are due or recorded, the others were met before.
LEMMA CheckSettles ==
  ASSUME TypeOK, SettledInv, NEW n \in Names, CheckJob(n), TimerInv,
         NEW s \in SlotsOf[jobs[n].set.sched], InPlace(n, s), s + Period <= nextTick
  PROVE  lastRun'[n] >= s
<1>0. n \in DOMAIN jobs /\ n \in todo /\ pc = "check"
  BY DEF CheckJob, TypeOK
<1>1. /\ tickAt \in Nat /\ nextTick \in Nat /\ Grace \in Nat /\ Period \in Nat
      /\ lastRun \in [Names -> Nat] /\ s \in Nat
  BY <1>0, ServedTypes
<1>2. s <= tickAt
  BY <1>0, <1>1 DEF TimerInv
<1>3. CASE shouldRun(jobs[n], tickAt, lastRun[n])
  BY <1>1, <1>2, <1>3 DEF CheckJob
<1>4. CASE ~shouldRun(jobs[n], tickAt, lastRun[n])
  <2>1. lastRun' = lastRun
    BY <1>4 DEF CheckJob
  <2>2. CASE s + Grace < tickAt
    BY <1>0, <2>1, <2>2 DEF SettledInv
  <2>3. CASE tickAt <= s + Grace
    <3>1. ~(lastRun[n] < s)
      BY <1>2, <1>4, <2>3 DEF shouldRun, DueSlots
    <3> QED BY <1>1, <2>1, <3>1
  <2> QED BY <1>1, <2>2, <2>3
<1> QED BY <1>3, <1>4

\* A tick never takes a record back: it sets it to its own time, and only past
\* the slot it found due.
LEMMA RecordGrows ==
  ASSUME TypeOK, NEW n \in Names, CheckJob(n), NEW x \in Names
  PROVE  lastRun'[x] >= lastRun[x]
<1>0. n \in DOMAIN jobs /\ pc = "check"
  BY DEF CheckJob, TypeOK
<1>1. /\ tickAt \in Nat /\ lastRun \in [Names -> Nat]
      /\ SlotsOf[jobs[n].set.sched] \subseteq Nat
  BY <1>0, ServedTypes
<1>2. CASE shouldRun(jobs[n], tickAt, lastRun[n])
  <2>1. PICK s \in SlotsOf[jobs[n].set.sched] : s <= tickAt /\ lastRun[n] < s
    BY <1>2 DEF shouldRun, DueSlots
  <2>2. lastRun' = [lastRun EXCEPT ![n] = tickAt]
    BY <1>2 DEF CheckJob
  <2> QED BY <1>1, <2>1, <2>2
<1>3. CASE ~shouldRun(jobs[n], tickAt, lastRun[n])
  BY <1>1, <1>3 DEF CheckJob
<1> QED BY <1>2, <1>3

\* The steps that touch nothing the invariant speaks of.
LEMMA SettledFrame ==
  ASSUME SettledInv, UNCHANGED <<up, jobs, lastRun, todo, tickAt, nextTick, since, upSince>>
  PROVE  SettledInv'
  BY DEF SettledInv, InPlace

\* Every step leaves the slots it should have settled settled.
LEMMA SettledStep ==
  ASSUME TypeOK, TypeOK', TimerInv, SettledInv, [Next]_vars
  PROVE  SettledInv'
<1>1. CASE Start
  <2> SUFFICES ASSUME NEW n \in DOMAIN jobs, NEW s \in SlotsOf[jobs[n].set.sched],
                      now <= s
               PROVE  n \in Scheduled /\ ~(s + Grace < now)
    BY <1>1 DEF Start, EnterTaskCheck, SettledInv, InPlace
  <2>1. now \in Nat /\ s \in Nat /\ Grace \in Nat
    BY ServedTypes
  <2> QED BY <2>1, ScheduledJob
<1>2. CASE TimerFires
  <2>1. /\ UNCHANGED <<now, up, jobs, lastRun, since, upSince>>
        /\ todo' = Scheduled /\ tickAt' = now /\ todo = {} /\ up
    BY <1>2 DEF TimerFires, EnterTaskCheck, MainIdle, history, TypeOK
  <2> SUFFICES ASSUME NEW n \in DOMAIN jobs, NEW s \in SlotsOf[jobs[n].set.sched],
                      InPlace(n, s)
               PROVE  n \in Scheduled /\ (s + Grace < now => lastRun[n] >= s)
    BY <2>1 DEF SettledInv, InPlace
  <2>2. s \in Nat
    BY ServedTypes
  <2>3. s + Grace < now => s + Period <= nextTick
    BY <2>1, <2>2, ClosedWindowWasMet
  <2> QED BY <2>1, <2>3, ScheduledJob DEF SettledInv
<1>3. ASSUME NEW n \in Names, CheckJob(n)
      PROVE  SettledInv'
  <2>1. /\ UNCHANGED <<up, jobs, tickAt, nextTick, since, upSince>>
        /\ todo' = todo \ {n}
    BY <1>3 DEF CheckJob, history
  <2> SUFFICES ASSUME NEW x \in DOMAIN jobs, NEW s \in SlotsOf[jobs[x].set.sched],
                      InPlace(x, s)
               PROVE  /\ x \notin todo \ {n} /\ s + Period <= nextTick => lastRun'[x] >= s
                      /\ x \in todo \ {n} /\ s + Grace < tickAt => lastRun'[x] >= s
    BY <2>1 DEF SettledInv, InPlace
  <2>2. CASE x = n
    BY <1>3, <2>2, CheckSettles
  <2>3. CASE x # n
    <3>1. x \in Names /\ s \in Nat /\ lastRun[x] \in Nat
      BY ServedTypes
    <3>2. lastRun'[x] = lastRun[x]
      BY <1>3, <2>3, <3>1, ServedTypes DEF CheckJob
    <3> QED BY <2>3, <3>2 DEF SettledInv
  <2> QED BY <2>2, <2>3
<1>4. CASE LaunchJob
  BY <1>4, SettledFrame DEF LaunchJob
<1>5. CASE CheckDone
  <2>1. UNCHANGED <<up, jobs, lastRun, todo, nextTick, since, upSince>> /\ todo = {}
    BY <1>5 DEF CheckDone, history
  <2> QED BY <2>1 DEF SettledInv, InPlace
<1>6. CASE onDiskAdded
  BY <1>6, SettledFrame DEF onDiskAdded, main, history
<1>7. ASSUME NEW n \in Names, NEW set \in Settings, NEW id \in Ids, CreateJob(n, set, id)
      PROVE  SettledInv'
  BY <1>7, WriteSettles DEF CreateJob, saveBackupJob, MainIdle, main, TypeOK
<1>8. ASSUME NEW n \in Names, NEW set \in Settings, UpdateJob(n, set)
      PROVE  SettledInv'
  BY <1>8, WriteSettles DEF UpdateJob, saveBackupJob, MainIdle, main, TypeOK
<1>9. ASSUME NEW n \in Names, NEW m \in Names, NEW set \in Settings, RenameJob(n, m, set)
      PROVE  SettledInv'
  <2>1. /\ UNCHANGED <<now, up, upSince, lastRun, nextTick, todo>>
        /\ since' = [since EXCEPT ![m] = now] /\ todo = {}
        /\ DOMAIN jobs' \subseteq DOMAIN jobs \cup {m}
        /\ \A x \in DOMAIN jobs' : x # m => jobs'[x] = jobs[x]
    BY <1>9 DEF RenameJob, MainIdle, TypeOK
  <2> QED BY <2>1, WriteSettles
<1>10. CASE SaveRenamed
  <2>0. cur.name \in Names
    BY <1>10 DEF SaveRenamed, TypeOK
  <2>1. /\ UNCHANGED <<now, up, upSince, lastRun, nextTick, todo>>
        /\ since' = [since EXCEPT ![cur.name] = now] /\ todo = {}
        /\ DOMAIN jobs' \subseteq DOMAIN jobs \cup {cur.name}
        /\ \A x \in DOMAIN jobs' : x # cur.name => jobs'[x] = jobs[x]
    BY <1>10 DEF SaveRenamed, saveBackupJob, TypeOK
  <2> QED BY <2>0, <2>1, WriteSettles
<1>11. ASSUME NEW n \in Names, DeleteJob(n)
       PROVE  SettledInv'
  <2>1. /\ UNCHANGED <<up, lastRun, todo, tickAt, nextTick, since, upSince>>
        /\ DOMAIN jobs' \subseteq DOMAIN jobs
        /\ \A x \in DOMAIN jobs' : jobs'[x] = jobs[x]
    BY <1>11 DEF DeleteJob, Restrict, main, history
  <2> QED BY <2>1 DEF SettledInv, InPlace
<1>12. ASSUME NEW n \in Names, StartJob(n) \/ WorkerDone(n)
       PROVE  SettledInv'
  BY <1>12, SettledFrame DEF StartJob, WorkerDone, main, history
<1>13. ASSUME NEW u \in Uuids, DiskAdded(u) \/ DiskRemoved(u)
       PROVE  SettledInv'
  BY <1>13, SettledFrame DEF DiskAdded, DiskRemoved, main, history
<1>14. CASE Crash
  BY <1>14 DEF Crash, SettledInv, InPlace
<1>15. CASE AdvanceTime \/ UNCHANGED vars
  BY <1>15, SettledFrame DEF AdvanceTime, main, history, vars
<1> QED
  BY <1>1, <1>2, <1>3, <1>4, <1>5, <1>6, <1>7, <1>8, <1>9, <1>10, <1>11, <1>12, <1>13,
     <1>14, <1>15 DEF Next

\* No slot is lost while the daemon is up: for every schedule and any set of
\* jobs, and wherever a crash cut a tick short, once the window of a slot has
\* closed the run of a job that was in place for it is on record.
THEOREM NoSlotLost == Spec => []SlotServed
<1>1. Init => ServedInv
  <2>1. Init => TimerInv /\ SettledInv
    BY DEF Init, TimerInv, SettledInv, InPlace
  <2> QED BY <2>1, InitTyped DEF ServedInv
<1>2. ServedInv /\ [Next]_vars => ServedInv'
  BY TypeStep, TimerStep, SettledStep DEF ServedInv
<1>3. ServedInv => SlotServed
  <2> SUFFICES ASSUME ServedInv, NEW n \in DOMAIN jobs, NEW s \in SlotsOf[jobs[n].set.sched],
                      InPlace(n, s), now > s + Grace, n \notin todo
               PROVE  lastRun[n] >= s
    BY DEF SlotServed, InPlace
  <2>1. s \in Nat /\ now \in Nat /\ Grace \in Nat
    BY ServedTypes DEF ServedInv
  <2>2. s + Period <= nextTick
    BY <2>1, ClosedWindowWasMet DEF ServedInv, InPlace
  <2> QED BY <2>2 DEF ServedInv, SettledInv
<1> QED BY <1>1, <1>2, <1>3, PTL DEF Spec
=============================================================================
