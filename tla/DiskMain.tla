------------------------------- MODULE DiskMain -------------------------------
(***************************************************************************)
(* diskmain.cpp: the scheduler tick and the hotplug slot, with the job     *)
(* routes of webserver/apirouter.cpp that edit what they read, the disk    *)
(* watcher thread (diskwatcher.cpp) that feeds them, the backup workers    *)
(* they launch, and the daemon dying and being restarted at any moment.    *)
(*                                                                         *)
(* The slots, the timer and the HTTP handlers all run on the main thread,  *)
(* so none of them starts while another is under way (pc # "idle").  A     *)
(* tick is several steps because its effects outlive the process one by    *)
(* one: the last-run record is synced to disk before the launch.           *)
(*                                                                         *)
(* External (tiBackupLib, used but not contained in this repository):      *)
(* shouldRun, the job files, and backupManager, whose startBackup refuses  *)
(* a name that is already running.                                         *)
(***************************************************************************)
EXTENDS Integers, Sequences, FiniteSets, Functions

CONSTANTS Names,      \* job names
          Ids,        \* history: the jobs an administrator means by them
          Uuids,      \* partitions of removable disks
          Schedules,  \* interval settings of a job
          NoSchedule, \* intervalType NONE, or a time that does not parse
          SlotsOf,    \* the instants a schedule names
          Settings,   \* the settings an administrator may save for a job
          Grace,      \* tiBackupScheduler::defaultGraceSecs
          Period,     \* the timer's 60 s
          Late,       \* bound: how late the main thread gets to a timeout
          MaxQueue,   \* bound: hotplug events waiting for the main thread
          MaxTime     \* bound: the last instant a behaviour reaches

ASSUME DiskMainAssumption ==
  /\ NoSchedule \in Schedules
  /\ SlotsOf \in [Schedules -> SUBSET (Nat \ {0})]
  /\ SlotsOf[NoSchedule] = {}
  /\ \A set \in Settings : set.sched \in Schedules
  /\ Grace \in Nat /\ Period \in Nat \ {0} /\ Late \in Nat
  /\ MaxQueue \in Nat /\ MaxTime \in Nat \ {0}

\* Two slots of one schedule are further apart than the grace window: a tick
\* finds one of them due at most, and a launch has one slot it is for.
ASSUME SlotSpacing ==
  \A sc \in Schedules : \A r, s \in SlotsOf[sc] : r < s => r + Grace < s

\* The timer looks at least once in every grace window.
ASSUME TimerWithinGrace == Period + Late <= Grace + 1

\* Of a job file: its interval (sched), start_backup_on_hotplug (hotplug) and
\* the partition it is bound to (uuid).
Job == [id : Ids, set : Settings]

\* The job the main thread is in the middle of, if any.
NoCur == << >>

VARIABLES now,       \* QDateTime::currentDateTime()
          up,        \* the daemon process runs
          jobs,      \* the job files: name -> job
          lastRun,   \* scheduler_state.conf: name -> last_run, 0 when absent
          running,   \* backupManager: names whose status is running
          plugged,   \* partitions present
          queue,     \* diskAdded events queued to the main thread
          pc,        \* where the main thread is
          todo,      \* names the tick has still to look at
          tickAt,    \* the tick's `now`
          cur,       \* the name the tick, or a rename, is in the middle of
          nextTick,  \* when the timer fires next
          log,       \* history: scheduled launches
          made,      \* history: identities handed out
          since,     \* history: name -> when its file was last written
          upSince    \* history: when the daemon last started

main == <<pc, todo, tickAt, cur>>
history == <<log, made, since, upSince>>
vars == <<now, up, jobs, lastRun, running, plugged, queue, pc, todo, tickAt,
          cur, nextTick, log, made, since, upSince>>

-----------------------------------------------------------------------------
(* External operations.                                                    *)

\* Plausible bugs: the window without its last instant; a run recorded at the
\* slot's own instant taken for an earlier one.
MutDueSlotsShort(sched, t, last) == {s \in SlotsOf[sched] : s <= t /\ t < s + Grace /\ last < s}
MutDueSlotsAgain(sched, t, last) == {s \in SlotsOf[sched] : s <= t /\ t <= s + Grace /\ last <= s}

\* The slots of a schedule that are open at t and later than the last run.
DueSlots(sched, t, last) == {s \in SlotsOf[sched] : s <= t /\ t <= s + Grace /\ last < s}

shouldRun(job, t, last) == DueSlots(job.set.sched, t, last) # {}

startBackup(ns) == running' = running \cup ns

saveBackupJob(n, job) ==
  /\ jobs' = [x \in DOMAIN jobs \cup {n} |-> IF x = n THEN job ELSE jobs[x]]
  /\ since' = [since EXCEPT ![n] = now]

-----------------------------------------------------------------------------
Init == /\ now = 1
        /\ up = FALSE
        /\ jobs = [n \in {} |-> n]
        /\ lastRun = [n \in Names |-> 0]
        /\ running = {}
        /\ plugged = {}
        /\ queue = << >>
        /\ pc = "idle" /\ todo = {} /\ tickAt = 0 /\ cur = NoCur
        /\ nextTick = 0
        /\ log = << >> /\ made = {} /\ since = [n \in Names |-> 0] /\ upSince = 0

MainIdle == up /\ pc = "idle"

\* A plausible bug: the tick walks the recorded names, not the job files.
MutScheduled == Names

Scheduled == {n \in DOMAIN jobs : jobs[n].set.sched # NoSchedule}

\* The slot is entered: by the constructor at once, then by every timeout.
EnterTaskCheck == /\ pc' = "check"
                  /\ todo' = Scheduled
                  /\ tickAt' = now
                  /\ nextTick' = now + Period
                  /\ cur' = NoCur

Start == /\ ~up
         /\ up' = TRUE
         /\ upSince' = now
         /\ EnterTaskCheck
         /\ UNCHANGED <<now, jobs, lastRun, running, plugged, queue, log, made, since>>

TimerFires == /\ MainIdle
              /\ now >= nextTick
              /\ EnterTaskCheck
              /\ UNCHANGED <<now, up, jobs, lastRun, running, plugged, queue, history>>

\* One round of the loop: the record is written and synced when the job is due.
CheckJob(n) ==
  /\ pc = "check" /\ n \in todo
  /\ todo' = todo \ {n}
  /\ IF shouldRun(jobs[n], tickAt, lastRun[n])
     THEN /\ lastRun' = [lastRun EXCEPT ![n] = tickAt]
          /\ cur' = [name |-> n, job |-> jobs[n],
                     slot |-> CHOOSE s \in DueSlots(jobs[n].set.sched, tickAt, lastRun[n]) : TRUE]
          /\ pc' = "launch"
     ELSE UNCHANGED <<lastRun, cur, pc>>
  /\ UNCHANGED <<now, up, jobs, running, plugged, queue, tickAt, nextTick, history>>

\* The end of that round: startBackup, which may refuse.
LaunchJob ==
  /\ pc = "launch"
  /\ startBackup({cur.name})
  /\ log' = Append(log, [name |-> cur.name, id |-> cur.job.id, slot |-> cur.slot, at |-> tickAt])
  /\ pc' = "check" /\ cur' = NoCur
  /\ UNCHANGED <<now, up, jobs, lastRun, plugged, queue, todo, tickAt, nextTick,
                 made, since, upSince>>

CheckDone == /\ pc = "check" /\ todo = {}
             /\ pc' = "idle" /\ tickAt' = 0
             /\ UNCHANGED <<now, up, jobs, lastRun, running, plugged, queue, todo,
                            cur, nextTick, history>>

-----------------------------------------------------------------------------
(* Hotplug.                                                                *)

\* The watcher thread sees a disk and queues the event to the main thread.
DiskAdded(u) ==
  /\ u \notin plugged /\ Len(queue) < MaxQueue
  /\ plugged' = plugged \cup {u}
  /\ queue' = IF up THEN Append(queue, u) ELSE queue
  /\ UNCHANGED <<now, up, jobs, lastRun, running, main, nextTick, history>>

\* onDiskRemoved only logs.
DiskRemoved(u) ==
  /\ u \in plugged
  /\ plugged' = plugged \ {u}
  /\ UNCHANGED <<now, up, jobs, lastRun, running, queue, main, nextTick, history>>

HotplugJobs(u) == {n \in DOMAIN jobs : jobs[n].set.uuid = u /\ jobs[n].set.hotplug}

\* A plausible bug: a disk that arrives during a backup is ignored.
MutOnDiskAdded ==
  /\ MainIdle /\ queue # << >>
  /\ queue' = Tail(queue)
  /\ startBackup(IF running = {} THEN HotplugJobs(Head(queue)) ELSE {})
  /\ UNCHANGED <<now, up, jobs, lastRun, plugged, main, nextTick, history>>

\* The partitions are read when the event is handled, not when it was sent.
onDiskAdded ==
  /\ MainIdle /\ queue # << >>
  /\ queue' = Tail(queue)
  /\ startBackup(IF Head(queue) \in plugged THEN HotplugJobs(Head(queue)) ELSE {})
  /\ UNCHANGED <<now, up, jobs, lastRun, plugged, main, nextTick, history>>

-----------------------------------------------------------------------------
(* The job routes.                                                         *)

\* POST /api/jobs: 409 when the name is taken.
CreateJob(n, set, id) ==
  /\ MainIdle /\ n \notin DOMAIN jobs /\ id \notin made
  /\ saveBackupJob(n, [id |-> id, set |-> set])
  /\ made' = made \cup {id}
  /\ UNCHANGED <<now, up, lastRun, running, plugged, queue, main, nextTick, log, upSince>>

\* PUT /api/jobs/<n> without a new name.
UpdateJob(n, set) ==
  /\ MainIdle /\ n \in DOMAIN jobs
  /\ saveBackupJob(n, [jobs[n] EXCEPT !.set = set])
  /\ UNCHANGED <<now, up, lastRun, running, plugged, queue, main, nextTick, log, made, upSince>>

\* PUT /api/jobs/<n> with the new name m: first the file is renamed (409 when
\* m is taken), then the new settings are saved to it.
RenameJob(n, m, set) ==
  /\ MainIdle /\ n \in DOMAIN jobs /\ m \notin DOMAIN jobs
  /\ jobs' = [x \in (DOMAIN jobs \ {n}) \cup {m} |-> IF x = m THEN jobs[n] ELSE jobs[x]]
  /\ since' = [since EXCEPT ![m] = now]
  /\ pc' = "save"
  /\ cur' = [name |-> m, job |-> [jobs[n] EXCEPT !.set = set], slot |-> 0]
  /\ UNCHANGED <<now, up, lastRun, running, plugged, queue, todo, tickAt, nextTick,
                 log, made, upSince>>

SaveRenamed ==
  /\ pc = "save"
  /\ saveBackupJob(cur.name, cur.job)
  /\ pc' = "idle" /\ cur' = NoCur
  /\ UNCHANGED <<now, up, lastRun, running, plugged, queue, todo, tickAt, nextTick,
                 log, made, upSince>>

\* DELETE /api/jobs/<n>.
DeleteJob(n) ==
  /\ MainIdle /\ n \in DOMAIN jobs
  /\ jobs' = Restrict(jobs, DOMAIN jobs \ {n})
  /\ UNCHANGED <<now, up, lastRun, running, plugged, queue, main, nextTick, history>>

\* POST /api/jobs/<n>/start does not look whether there is such a job; what
\* startBackup makes of a name without one is not known here.
StartJob(n) ==
  /\ MainIdle
  /\ startBackup({n}) \/ (n \notin DOMAIN jobs /\ UNCHANGED running)
  /\ UNCHANGED <<now, up, jobs, lastRun, plugged, queue, main, nextTick, history>>

-----------------------------------------------------------------------------
(* Workers, crashes, time.                                                 *)

WorkerDone(n) ==
  /\ n \in running
  /\ running' = running \ {n}
  /\ UNCHANGED <<now, up, jobs, lastRun, plugged, queue, main, nextTick, history>>

\* The process ends at any point; the files stay, all else is lost.
Crash ==
  /\ up
  /\ up' = FALSE
  /\ running' = {}
  /\ queue' = << >>
  /\ pc' = "idle" /\ todo' = {} /\ tickAt' = 0 /\ cur' = NoCur
  /\ nextTick' = 0
  /\ UNCHANGED <<now, jobs, lastRun, plugged, history>>

\* While the daemon runs, a due timeout is handled at most Late later.
AdvanceTime ==
  /\ now < MaxTime
  /\ up => now < nextTick + Late
  /\ now' = now + 1
  /\ UNCHANGED <<up, jobs, lastRun, running, plugged, queue, main, nextTick, history>>

Next == \/ Start \/ TimerFires \/ LaunchJob \/ CheckDone \/ onDiskAdded
        \/ SaveRenamed \/ Crash \/ AdvanceTime
        \/ \E n \in Names : \/ CheckJob(n) \/ DeleteJob(n) \/ StartJob(n) \/ WorkerDone(n)
                            \/ \E set \in Settings : \/ UpdateJob(n, set)
                                                     \/ \E id \in Ids : CreateJob(n, set, id)
                                                     \/ \E m \in Names : RenameJob(n, m, set)
        \/ \E u \in Uuids : DiskAdded(u) \/ DiskRemoved(u)

Spec == Init /\ [][Next]_vars

\* The main thread finishes the slot it is in, and its event loop, which takes
\* posted events in order, gets to every queued hotplug event.
Fairness == /\ WF_vars(LaunchJob) /\ WF_vars(CheckDone) /\ WF_vars(SaveRenamed)
            /\ WF_vars(\E n \in Names : CheckJob(n))
            /\ SF_vars(onDiskAdded)

FairSpec == Spec /\ Fairness

-----------------------------------------------------------------------------
(* Properties.                                                             *)

\* Every variable has its type; the lists a tick works on name existing jobs,
\* and its time and the recorded runs are never in the future.
TypeOK ==
  /\ now \in 1..MaxTime
  /\ up \in BOOLEAN
  /\ DOMAIN jobs \subseteq Names /\ \A n \in DOMAIN jobs : jobs[n] \in Job
  /\ lastRun \in [Names -> 0..now]
  /\ running \subseteq Names
  /\ plugged \subseteq Uuids /\ queue \in Seq(Uuids)
  /\ pc \in {"idle", "check", "launch", "save"}
  /\ todo \subseteq DOMAIN jobs
  /\ pc \in {"idle", "save"} => todo = {}
  /\ tickAt \in 0..now
  /\ cur \in {NoCur} \cup [name : Names, job : Job, slot : 0..MaxTime]
  /\ pc \in {"launch", "save"} => cur # NoCur
  /\ nextTick \in Nat
  /\ log \in Seq([name : Names, id : Ids, slot : Nat, at : Nat])
  /\ made \subseteq Ids
  /\ since \in [Names -> Nat] /\ upSince \in Nat

\* onTaskCheck's promise, "each slot runs at most once (no double-fire on
\* restart / fast completion), and a run missed because the daemon was down
\* over its slot is skipped": the scheduler implements SlotFiring, for jobs
\* identified by their names, through crashes at any point of the loop.
Promise == INSTANCE SlotFiring WITH clock <- now, Instants <- 0..MaxTime
ImplementsSlotFiring == Promise!SSpec

\* The other half of strict-slot firing: a slot is not lost while the daemon
\* is up.  If the daemon came up by the slot's instant and the job was in place
\* before it, the run is on record once the grace window has closed.
SlotServed ==
  \A n \in DOMAIN jobs : \A s \in SlotsOf[jobs[n].set.sched] :
    /\ up /\ upSince <= s /\ since[n] < s
    /\ now > s + Grace
    /\ n \notin todo
    => lastRun[n] >= s

\* The same promise for the job an administrator means: giving it another name
\* does not run its slot a second time.
SlotFiresOncePerJob ==
  \A i, j \in DOMAIN log : log[i].id = log[j].id /\ log[i].slot = log[j].slot => i = j

\* "Connect a disk and the matching job starts automatically": a queued event
\* of a disk that stays connected starts each of its hotplug jobs, whatever
\* the scheduler and the web interface keep the main thread busy with.
HotplugServed ==
  \A u \in Uuids, n \in Names :
    (u \in Range(queue) /\ u \in plugged /\ n \in HotplugJobs(u))
      ~> (n \in running \/ ~up \/ u \notin plugged \/ n \notin HotplugJobs(u))
=============================================================================
