------------------------------- MODULE JobEditor -------------------------------
(***************************************************************************)
(* The job editor of var/www/js/app.js and the routes of                   *)
(* webserver/apirouter.cpp that store a job.  editJob() runs in four parts *)
(* (the click, the job's answer, the answer with the devices, the next     *)
(* tick), and the editor covers the page only from the third one on: until *)
(* then, and while a save is under way, the user can click on.             *)
(*                                                                         *)
(* Data abstraction.  A job is its name, its partition and its backup      *)
(* folders; a folder is its source.  The daemon keeps the folders of a job *)
(* as a map, sent in an order of its own; the page may list one twice.     *)
(* Every error reply (an invalid name, PBS id or script path, a refused    *)
(* conflict, a lost request) is one failing step.  Two calls of editJob    *)
(* that have got equally far with the same job count as one.               *)
(***************************************************************************)
EXTENDS Naturals, FiniteSets, Sequences

CONSTANTS Names,    \* job names
          NoName,   \* the empty name
          Parts,    \* partition uuids
          NoPart,   \* the empty uuid
          Sources,  \* source folders
          NoSource, \* no folder
          MaxDirs,  \* bound: folders the user lists
          MaxCalls  \* bound: calls of editJob and saveJob under way at once

ASSUME EditorAssumption == /\ NoName \notin Names
                           /\ NoPart \notin Parts
                           /\ IsFiniteSet(Sources) /\ NoSource \notin Sources
                           /\ {MaxDirs, MaxCalls} \subseteq Nat

\* What the daemon stores.
tiBackupJob == [part : Parts \cup {NoPart}, dirs : SUBSET Sources]

\* The ways a set of folders is listed.
Listings(dirs) == {s \in [1 .. Cardinality(dirs) -> dirs] : \A d \in dirs : \E i \in DOMAIN s : s[i] = d}

\* What the page edits.
Job == [name : Names \cup {NoName}, part : Parts \cup {NoPart}, dirs : Seq(Sources)]
blankJob == [name |-> NoName, part |-> NoPart, dirs |-> <<>>]

Load == [name : Names, step : {"get", "devices", "tick"}, job : Job]
Save == [step : {"sent"}, post : BOOLEAN, name : Names, to : Names, job : tiBackupJob,
         of : Names \cup {NoName}, crossed : BOOLEAN]
NotSaving == [step |-> "none"]
Saved == [step |-> "ok"]

VARIABLES jobs,            \* tiConfBackupJobs: name -> tiBackupJob
          editorOpen, editorNew, editorOrigName,
          job,             \* what the editor shows
          folderEditIndex, \* position of the folder being edited, 0 for none
          loads,           \* calls of editJob that have not returned
          saving,          \* the call of saveJob that has not returned (busy)
          shown,           \* history: the stored job the editor was filled from
          edited,          \* history: whether the user changed it since
          loaded,          \* history: that job as it was sent, until it is edited
          picked,          \* history: the folder whose Edit button was clicked
          crossed          \* history: whether the last "New" or "Edit" was clicked
                           \* while an earlier "Edit" was still loading

page == <<editorOpen, editorNew, editorOrigName, job, folderEditIndex>>
history == <<shown, edited, loaded, picked, crossed>>
vars == <<jobs, page, loads, saving, history>>

Stored == DOMAIN jobs

Init == /\ jobs \in [Names -> tiBackupJob]
        /\ editorOpen = FALSE /\ editorNew = FALSE /\ editorOrigName = NoName
        /\ job = blankJob /\ folderEditIndex = 0
        /\ loads = {} /\ saving = NotSaving
        /\ shown = NoName /\ loaded = blankJob /\ edited = FALSE
        /\ picked = NoSource /\ crossed = FALSE

-----------------------------------------------------------------------------
(* Opening the editor.                                                     *)

resetFolderForm == folderEditIndex' = 0 /\ picked' = NoSource

\* Bound: another call may be made.
MayAsk == Cardinality(loads) + (IF saving = NotSaving THEN 0 ELSE 1) < MaxCalls

Clicked == crossed' = (loads # {})

Edited == edited' = TRUE /\ loaded' = blankJob

\* The histories of an editor that is closed say nothing.
Closed == shown' = NoName /\ Edited /\ picked' = NoSource /\ UNCHANGED crossed

newJob ==
  /\ ~editorOpen
  /\ job' = blankJob /\ editorNew' = TRUE /\ editorOrigName' = NoName
  /\ resetFolderForm
  /\ editorOpen' = TRUE
  /\ shown' = NoName /\ Edited /\ Clicked
  /\ UNCHANGED <<jobs, loads, saving>>

\* editJob, up to the request for the job; the dashboard may list a job that
\* is gone.
editJob(n) ==
  /\ ~editorOpen /\ MayAsk
  /\ loads' = loads \cup {[name |-> n, step |-> "get", job |-> blankJob]}
  /\ Clicked
  /\ UNCHANGED <<jobs, page, saving, shown, edited, loaded, picked>>

\* jobToJson, with the order of the daemon's map.
jobToJson(n, listing) == [name |-> n, part |-> jobs[n].part, dirs |-> listing]

\* editJob: the job's answer, up to the requests for the devices.
JobLoaded(l) ==
  /\ l.step = "get" /\ l.name \in Stored
  /\ \E listing \in Listings(jobs[l.name].dirs) :
       loads' = (loads \ {l}) \cup {[l EXCEPT !.step = "devices", !.job = jobToJson(l.name, listing)]}
  /\ editorNew' = FALSE /\ editorOrigName' = l.name
  /\ resetFolderForm
  /\ UNCHANGED <<jobs, editorOpen, job, saving, shown, edited, loaded, crossed>>

\* editJob: the job is not found, or its request fails.
LoadFails(l) ==
  /\ l.step = "get"
  /\ loads' = loads \ {l}
  /\ UNCHANGED <<jobs, page, saving, history>>

\* editJob: both lists have answered; the partition is applied a tick later.
JobShown(l) ==
  /\ l.step = "devices"
  /\ job' = [l.job EXCEPT !.part = NoPart]
  /\ editorOpen' = TRUE
  /\ loads' = (loads \ {l}) \cup
                {[l EXCEPT !.step = "tick", !.job = [blankJob EXCEPT !.part = l.job.part]]}
  /\ shown' = l.name /\ loaded' = l.job /\ edited' = FALSE
  /\ UNCHANGED <<jobs, editorNew, editorOrigName, folderEditIndex, saving, picked, crossed>>

\* A plausible bug: the partition is not applied after the tick.
MutPartitionApplied(l) ==
  /\ l.step = "tick"
  /\ loads' = loads \ {l}
  /\ UNCHANGED <<jobs, page, saving, history>>

\* editJob: after $nextTick.
PartitionApplied(l) ==
  /\ l.step = "tick"
  /\ job' = [job EXCEPT !.part = l.job.part]
  /\ loads' = loads \ {l}
  /\ UNCHANGED <<jobs, editorOpen, editorNew, editorOrigName, folderEditIndex, saving, history>>

-----------------------------------------------------------------------------
(* Editing.                                                                *)

closeEditor ==
  /\ editorOpen
  /\ editorOpen' = FALSE
  /\ Closed
  /\ UNCHANGED <<jobs, editorNew, editorOrigName, job, folderEditIndex, loads, saving>>

EditFields(n, p) ==
  /\ editorOpen
  /\ job' = [job EXCEPT !.name = n, !.part = p]
  /\ Edited
  /\ UNCHANGED <<jobs, editorOpen, editorNew, editorOrigName, folderEditIndex, loads, saving, shown, picked, crossed>>

\* The position under edit, or the end of the list when there is none there.
addFolder(s) ==
  /\ editorOpen
  /\ IF folderEditIndex \in DOMAIN job.dirs
       THEN job' = [job EXCEPT !.dirs[folderEditIndex] = s]
       ELSE Len(job.dirs) < MaxDirs /\ job' = [job EXCEPT !.dirs = Append(@, s)]
  /\ resetFolderForm
  /\ Edited
  /\ UNCHANGED <<jobs, editorOpen, editorNew, editorOrigName, loads, saving, shown, crossed>>

editFolder(i) ==
  /\ editorOpen /\ i \in DOMAIN job.dirs
  /\ folderEditIndex' = i
  /\ picked' = job.dirs[i]
  /\ UNCHANGED <<jobs, editorOpen, editorNew, editorOrigName, job, loads, saving, shown, loaded, edited, crossed>>

cancelFolderEdit ==
  /\ editorOpen /\ folderEditIndex > 0
  /\ resetFolderForm
  /\ UNCHANGED <<jobs, editorOpen, editorNew, editorOrigName, job, loads, saving, shown, edited, loaded,
                 crossed>>

WithoutAt(s, i) == [k \in 1 .. Len(s) - 1 |-> IF k < i THEN s[k] ELSE s[k + 1]]

\* A plausible bug: removeFolder leaves the form where it is when another folder goes.
MutIndexAfterRemoval(i) == IF folderEditIndex = i THEN 0 ELSE folderEditIndex

\* The position under edit once folder i is gone.
IndexAfterRemoval(i) ==
  CASE folderEditIndex = i -> 0
    [] folderEditIndex > i -> folderEditIndex - 1
    [] folderEditIndex < i -> folderEditIndex

removeFolder(i) ==
  /\ editorOpen /\ i \in DOMAIN job.dirs
  /\ job' = [job EXCEPT !.dirs = WithoutAt(@, i)]
  /\ folderEditIndex' = IndexAfterRemoval(i)
  /\ picked' = IF folderEditIndex = i THEN NoSource ELSE picked
  /\ Edited
  /\ UNCHANGED <<jobs, editorOpen, editorNew, editorOrigName, loads, saving, shown, crossed>>

-----------------------------------------------------------------------------
(* Saving.                                                                 *)

\* jobFromJson.
jobFromJson(j) == [part |-> j.part, dirs |-> {j.dirs[i] : i \in DOMAIN j.dirs}]

SaveRequest == [step |-> "sent", post |-> editorNew,
                name |-> IF editorNew \/ editorOrigName = NoName THEN job.name ELSE editorOrigName,
                to |-> job.name, job |-> jobFromJson(job), of |-> shown, crossed |-> crossed]

\* A plausible bug: a job without a name is sent.
MutSaveJob ==
  /\ editorOpen /\ saving = NotSaving /\ MayAsk
  /\ saving' = SaveRequest
  /\ UNCHANGED <<jobs, page, loads, history>>

saveJob ==
  /\ editorOpen /\ saving = NotSaving /\ MayAsk /\ job.name # NoName
  /\ saving' = SaveRequest
  /\ UNCHANGED <<jobs, page, loads, history>>

\* The library's renameJob followed by its saveBackupJob.
storeAs(old, n, j) == jobs' = [x \in (Stored \ {old}) \cup {n} |-> IF x = n THEN j ELSE jobs[x]]

Served == saving' = Saved /\ UNCHANGED <<page, loads, history>>

\* A plausible bug: POST /api/jobs without the test for a job of that name.
MutCreateJob ==
  /\ saving.step = "sent" /\ saving.post
  /\ storeAs(saving.to, saving.to, saving.job)
  /\ Served

\* POST /api/jobs.
CreateJob ==
  /\ saving.step = "sent" /\ saving.post
  /\ saving.to \notin Stored
  /\ storeAs(saving.to, saving.to, saving.job)
  /\ Served

\* PUT /api/jobs/<name>: a rename is refused when the new name is taken.
UpdateJob ==
  /\ saving.step = "sent" /\ ~saving.post
  /\ saving.name \in Stored
  /\ saving.to # saving.name => saving.to \notin Stored
  /\ storeAs(saving.name, saving.to, saving.job)
  /\ Served

\* saveJob: the request is refused or lost, or the answer to it is lost.
SaveFails ==
  /\ saving # NotSaving
  /\ saving' = NotSaving
  /\ UNCHANGED <<jobs, page, loads, history>>

\* saveJob: the answer is there.
SaveAnswered ==
  /\ saving = Saved
  /\ saving' = NotSaving
  /\ editorOpen' = FALSE
  /\ Closed
  /\ UNCHANGED <<jobs, editorNew, editorOrigName, job, folderEditIndex, loads>>

\* DELETE /api/jobs/<name>, by this page or another session.
DeleteJob(n) ==
  /\ n \in Stored
  /\ jobs' = [x \in Stored \ {n} |-> jobs[x]]
  /\ UNCHANGED <<page, loads, saving, history>>

-----------------------------------------------------------------------------
Next ==
  \/ newJob \/ closeEditor \/ cancelFolderEdit \/ saveJob
  \/ CreateJob \/ UpdateJob \/ SaveFails \/ SaveAnswered
  \/ \E n \in Names : editJob(n) \/ DeleteJob(n)
  \/ \E l \in loads : JobLoaded(l) \/ LoadFails(l) \/ JobShown(l) \/ PartitionApplied(l)
  \/ \E n \in Names, p \in Parts \cup {NoPart} : EditFields(n, p)
  \/ \E s \in Sources : addFolder(s)
  \/ \E i \in DOMAIN job.dirs : editFolder(i) \/ removeFolder(i)

Spec == Init /\ [][Next]_vars

-----------------------------------------------------------------------------
\* Types of the state: nothing without a name is sent or stored.
TypeOK ==
  /\ Stored \subseteq Names /\ jobs \in [Stored -> tiBackupJob]
  /\ editorOpen \in BOOLEAN /\ editorNew \in BOOLEAN /\ editorOrigName \in Names \cup {NoName}
  /\ job \in Job /\ folderEditIndex \in Nat
  /\ loads \subseteq Load
  /\ saving \in Save \cup {Saved, NotSaving}
  /\ shown \in Names \cup {NoName} /\ loaded \in Job /\ edited \in BOOLEAN
  /\ picked \in Sources \cup {NoSource}
  /\ crossed \in BOOLEAN

\* "Save changes" of the folder form replaces the folder whose Edit button was
\* clicked, whatever was removed from the list or loaded into it since, unless
\* two clicks crossed.
FolderFormTarget ==
  (editorOpen /\ folderEditIndex > 0 /\ ~crossed) =>
    folderEditIndex \in DOMAIN job.dirs /\ job.dirs[folderEditIndex] = picked

\* An editor that has finished loading is of one piece: its mode and the name
\* it saves under are those of the job it was filled from, and what the user
\* has not touched is what the daemon sent, the partition included.  It takes
\* that no click on "New" or "Edit" fell into the loading of another job; the
\* code does not hold it without.
EditorIdentity ==
  (editorOpen /\ loads = {} /\ ~crossed) =>
    /\ editorNew <=> shown = NoName
    /\ editorOrigName = shown
    /\ ~edited => job = loaded

\* A save replaces, renames or removes no stored job but the one that was
\* loaded into the editor (PUT is "update, rename if name changed", POST is
\* "create"): also when it is clicked before the loading has ended, and when the
\* user has opened another editor before it is served.  It takes the same.
SaveSparesOthers ==
  [][saving.step = "sent" /\ saving' = Saved /\ ~saving.crossed =>
       \A n \in Stored \ {saving.of} : n \in DOMAIN jobs' /\ jobs'[n] = jobs[n]]_vars

\* The same of every save.  The code does not hold it: the answer to an "Edit"
\* that is still loading makes a new job's editor save over the other job.
EverySaveSparesOthers ==
  [][saving.step = "sent" /\ saving' = Saved =>
       \A n \in Stored \ {saving.of} : n \in DOMAIN jobs' /\ jobs'[n] = jobs[n]]_vars

\* A save stores a partition the user chose or the daemon sent.  The code does
\* not hold it: until the tick after the editor has opened its partition is empty.
SaveKeepsPartition ==
  [][saving = NotSaving /\ saving' # NotSaving /\ ~crossed /\ ~edited => saving'.job.part = loaded.part]_vars

=============================================================================
