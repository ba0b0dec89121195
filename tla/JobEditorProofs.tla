---------------------------- MODULE JobEditorProofs ----------------------------
(***************************************************************************)
(* Proofs about the job editor, for any jobs, partitions and folders, any  *)
(* number of calls under way, and a user who clicks whenever the page lets *)
(* one: also between the steps of editJob() and while a save is under way. *)
(***************************************************************************)
EXTENDS JobEditor, FiniteSetTheorems, TLAPS

-----------------------------------------------------------------------------
(* Jobs and lists of folders.                                                *)

LEMMA ListingTyped ==
  ASSUME NEW d \in SUBSET Sources, NEW s \in Listings(d)
  PROVE  s \in Seq(Sources)
<1>1. IsFiniteSet(d)
  BY EditorAssumption, FS_Subset
<1>2. PICK n \in Nat : n = Cardinality(d)
  BY <1>1, FS_CardinalityType
<1>3. s \in [1 .. n -> d]
  BY <1>2 DEF Listings
<1>4. s \in [1 .. n -> Sources]
  BY <1>3
<1> QED BY <1>2, <1>4

\* What assigning its fields makes of a job.
LEMMA JobFacts ==
  ASSUME NEW j \in Job
  PROVE  /\ j.name \in Names \cup {NoName} /\ j.part \in Parts \cup {NoPart}
         /\ j.dirs \in Seq(Sources)
         /\ Len(j.dirs) \in Nat /\ DOMAIN j.dirs = 1 .. Len(j.dirs)
         /\ \A i \in DOMAIN j.dirs : j.dirs[i] \in Sources
         /\ \A dirs \in Seq(Sources) :
              [j EXCEPT !.dirs = dirs] \in Job /\ [j EXCEPT !.dirs = dirs].dirs = dirs
         /\ \A n \in Names \cup {NoName}, p \in Parts \cup {NoPart} :
              [j EXCEPT !.name = n, !.part = p] \in Job /\ [j EXCEPT !.name = n, !.part = p].dirs = j.dirs
         /\ \A p \in Parts \cup {NoPart} :
              /\ [j EXCEPT !.part = p] \in Job /\ [j EXCEPT !.part = p].dirs = j.dirs
              /\ [[j EXCEPT !.part = p] EXCEPT !.part = j.part] = j
<1>1. /\ j.name \in Names \cup {NoName} /\ j.part \in Parts \cup {NoPart}
      /\ j.dirs \in Seq(Sources)
      /\ j = [name |-> j.name, part |-> j.part, dirs |-> j.dirs]
  BY DEF Job
<1>2. Len(j.dirs) \in Nat /\ DOMAIN j.dirs = 1 .. Len(j.dirs)
  BY <1>1
<1>3. \A i \in DOMAIN j.dirs : j.dirs[i] \in Sources
  BY <1>1
<1>4. \A dirs \in Seq(Sources) :
        [j EXCEPT !.dirs = dirs] \in Job /\ [j EXCEPT !.dirs = dirs].dirs = dirs
  BY <1>1 DEF Job
<1>5. \A n \in Names \cup {NoName}, p \in Parts \cup {NoPart} :
        [j EXCEPT !.name = n, !.part = p] \in Job /\ [j EXCEPT !.name = n, !.part = p].dirs = j.dirs
  BY <1>1 DEF Job
<1>6. \A p \in Parts \cup {NoPart} :
        /\ [j EXCEPT !.part = p] \in Job /\ [j EXCEPT !.part = p].dirs = j.dirs
        /\ [[j EXCEPT !.part = p] EXCEPT !.part = j.part] = j
  BY <1>1 DEF Job
<1> QED BY <1>1, <1>2, <1>3, <1>4, <1>5, <1>6

\* What is left of a list without the folder at a position: one entry less,
\* those behind it moved up.
LEMMA RemoveDir ==
  ASSUME NEW l \in Seq(Sources), NEW i \in DOMAIN l
  PROVE  /\ WithoutAt(l, i) \in Seq(Sources)
         /\ DOMAIN WithoutAt(l, i) = 1 .. Len(l) - 1
         /\ \A k \in 1 .. Len(l) - 1 : WithoutAt(l, i)[k] = IF k < i THEN l[k] ELSE l[k + 1]
<1>1. PICK n \in Nat : n = Len(l) /\ l \in [1 .. n -> Sources]
  OBVIOUS
<1>2. i \in 1 .. n /\ n - 1 \in Nat
  BY <1>1
<1>3. WithoutAt(l, i) \in [1 .. n - 1 -> Sources]
  BY <1>1, <1>2 DEF WithoutAt
<1>4. WithoutAt(l, i) \in Seq(Sources)
  BY <1>2, <1>3
<1>5. \A k \in 1 .. n - 1 : WithoutAt(l, i)[k] = IF k < i THEN l[k] ELSE l[k + 1]
  BY <1>1 DEF WithoutAt
<1> QED BY <1>1, <1>3, <1>4, <1>5

\* The blank job of the page.
LEMMA BlankTyped == blankJob \in Job /\ \A p \in Parts \cup {NoPart} :
                      [blankJob EXCEPT !.part = p] \in Job /\ [blankJob EXCEPT !.part = p].part = p
<1>1. << >> \in Seq(Sources)
  OBVIOUS
<1> QED BY <1>1 DEF Job, blankJob

-----------------------------------------------------------------------------
(* The invariant.  A click that falls into the loading of a job is remembered *)
(* by "crossed"; without one, a job loads alone, with the editor closed until *)
(* it is shown.                                                               *)

\* Where a call of editJob is, and what it has put on the page so far.
LoadInv ==
  ~crossed => \A l \in loads :
    /\ loads = {l}
    /\ l.step \in {"get", "devices"} => ~editorOpen
    /\ l.step = "devices" => ~editorNew /\ editorOrigName = l.name /\ folderEditIndex = 0
    /\ l.step = "tick" /\ editorOpen =>
         /\ ~editorNew /\ editorOrigName = l.name /\ shown = l.name
         /\ ~edited => loaded.part = l.job.part /\ job = [loaded EXCEPT !.part = NoPart]

\* A PUT is sent to the name of the job the editor was filled from, a POST by
\* an editor that was filled from none.
SavingInv ==
  saving \in Save /\ ~saving.crossed =>
    (saving.post <=> saving.of = NoName) /\ (saving.post \/ saving.name = saving.of)

IInv == TypeOK /\ LoadInv /\ SavingInv /\ FolderFormTarget /\ EditorIdentity

\* Once two clicks have crossed, only the types are left to keep.
LEMMA CrossedStep ==
  ASSUME TypeOK', SavingInv', crossed'
  PROVE  IInv'
  BY DEF IInv, LoadInv, FolderFormTarget, EditorIdentity

\* A call of editJob that goes on is the one there is, unless clicks crossed.
LEMMA LoadsAlone ==
  ASSUME IInv, NEW l \in loads, ~crossed
  PROVE  loads = {l}
  BY DEF IInv, LoadInv

\* Clicking "New" or "Edit".
LEMMA ClickStep ==
  ASSUME IInv, newJob \/ \E n \in Names : editJob(n)
  PROVE  IInv'
<1>0. TypeOK /\ SavingInv /\ blankJob \in Job
  BY BlankTyped DEF IInv
<1>1. CASE newJob
  <2>1. /\ job' = blankJob /\ editorNew' = TRUE /\ editorOrigName' = NoName /\ editorOpen' = TRUE
        /\ folderEditIndex' = 0 /\ shown' = NoName /\ edited' = TRUE /\ loaded' = blankJob
        /\ picked' = NoSource /\ crossed' = (loads # {})
        /\ UNCHANGED <<jobs, loads, saving>>
    BY <1>1 DEF newJob, resetFolderForm, Edited, Clicked
  <2>2. TypeOK' /\ SavingInv'
    BY <1>0, <2>1 DEF TypeOK, Stored, SavingInv
  <2>3. CASE loads = {}
    BY <2>1, <2>2, <2>3 DEF IInv, LoadInv, FolderFormTarget, EditorIdentity
  <2>4. CASE loads # {}
    BY <2>1, <2>2, <2>4, CrossedStep
  <2> QED BY <2>3, <2>4
<1>2. ASSUME NEW n \in Names, editJob(n)
      PROVE  IInv'
  <2> DEFINE l == [name |-> n, step |-> "get", job |-> blankJob]
  <2>1. /\ loads' = loads \cup {l} /\ ~editorOpen /\ crossed' = (loads # {})
        /\ UNCHANGED <<jobs, page, saving, shown, edited, loaded, picked>>
    BY <1>2 DEF editJob, Clicked
  <2>2. l \in Load /\ l.step = "get"
    BY <1>0 DEF Load
  <2> HIDE DEF l
  <2>3. TypeOK' /\ SavingInv'
    BY <1>0, <2>1, <2>2 DEF TypeOK, page, Stored, SavingInv
  <2>4. CASE loads = {}
    BY <2>1, <2>2, <2>3, <2>4 DEF IInv, LoadInv, FolderFormTarget, EditorIdentity, page
  <2>5. CASE loads # {}
    BY <2>1, <2>3, <2>5, CrossedStep
  <2> QED BY <2>4, <2>5
<1> QED BY <1>1, <1>2

\* A call of editJob goes on.
LEMMA LoadStep ==
  ASSUME IInv, NEW l \in loads, JobLoaded(l) \/ LoadFails(l) \/ JobShown(l) \/ PartitionApplied(l)
  PROVE  IInv'
<1>0. /\ TypeOK /\ LoadInv /\ SavingInv /\ FolderFormTarget /\ EditorIdentity
      /\ l \in Load /\ l.name \in Names /\ l.job \in Job /\ loads \subseteq Load
  BY DEF IInv, TypeOK, Load
<1>1. CASE JobLoaded(l)
  <2>1. PICK listing \in Listings(jobs[l.name].dirs) :
          loads' = (loads \ {l}) \cup {[l EXCEPT !.step = "devices", !.job = jobToJson(l.name, listing)]}
    BY <1>1 DEF JobLoaded
  <2> DEFINE m == [l EXCEPT !.step = "devices", !.job = jobToJson(l.name, listing)]
  <2>2. /\ l.step = "get" /\ editorNew' = FALSE /\ editorOrigName' = l.name /\ folderEditIndex' = 0
        /\ picked' = NoSource /\ l.name \in Stored
        /\ UNCHANGED <<jobs, editorOpen, job, saving, shown, edited, loaded, crossed>>
    BY <1>1 DEF JobLoaded, resetFolderForm
  <2>3. jobs[l.name] \in tiBackupJob
    BY <1>0, <2>2 DEF TypeOK
  <2>4. listing \in Seq(Sources)
    BY <2>3, ListingTyped DEF tiBackupJob
  <2>5. jobToJson(l.name, listing) \in Job
    BY <1>0, <2>3, <2>4 DEF jobToJson, Job, tiBackupJob
  <2>6. m \in Load /\ m.step = "devices" /\ m.name = l.name
    BY <1>0, <2>5 DEF Load
  <2>7. loads' = (loads \ {l}) \cup {m}
    BY <2>1
  <2> HIDE DEF m
  <2>8. TypeOK' /\ SavingInv'
    BY <1>0, <2>2, <2>6, <2>7 DEF TypeOK, Stored, SavingInv
  <2>9. CASE ~crossed
    <3>1. loads' = {m} /\ ~editorOpen'
      BY <1>0, <2>2, <2>7, <2>9, LoadsAlone DEF LoadInv
    <3> QED BY <2>2, <2>6, <2>8, <3>1 DEF IInv, LoadInv, FolderFormTarget, EditorIdentity
  <2>10. CASE crossed
    BY <2>2, <2>8, <2>10, CrossedStep
  <2> QED BY <2>9, <2>10
<1>2. CASE LoadFails(l)
  <2>1. loads' = loads \ {l} /\ l.step = "get" /\ UNCHANGED <<jobs, page, saving, history>>
    BY <1>2 DEF LoadFails
  <2>2. TypeOK' /\ SavingInv'
    BY <1>0, <2>1 DEF TypeOK, page, history, Stored, SavingInv
  <2>3. CASE ~crossed
    <3>1. loads' = {} /\ ~editorOpen'
      BY <1>0, <2>1, <2>3, LoadsAlone DEF LoadInv, page
    <3> QED BY <2>2, <3>1 DEF IInv, LoadInv, FolderFormTarget, EditorIdentity
  <2>4. CASE crossed
    BY <2>1, <2>2, <2>4, CrossedStep DEF history
  <2> QED BY <2>3, <2>4
<1>3. CASE JobShown(l)
  <2> DEFINE m == [l EXCEPT !.step = "tick", !.job = [blankJob EXCEPT !.part = l.job.part]]
  <2>1. /\ l.step = "devices" /\ job' = [l.job EXCEPT !.part = NoPart] /\ editorOpen' = TRUE
        /\ shown' = l.name /\ loaded' = l.job /\ edited' = FALSE
        /\ UNCHANGED <<jobs, editorNew, editorOrigName, folderEditIndex, saving, picked, crossed>>
        /\ loads' = (loads \ {l}) \cup {m}
    BY <1>3 DEF JobShown
  <2>2. l.job.part \in Parts \cup {NoPart} /\ job' \in Job
    BY <1>0, <2>1, JobFacts
  <2>3. m \in Load /\ m.step = "tick" /\ m.name = l.name /\ m.job.part = l.job.part
    BY <1>0, <2>2, BlankTyped DEF Load
  <2> HIDE DEF m
  <2>4. TypeOK' /\ SavingInv'
    BY <1>0, <2>1, <2>2, <2>3 DEF TypeOK, Stored, SavingInv
  <2>5. CASE ~crossed
    <3>1. loads' = {m} /\ ~editorNew /\ editorOrigName = l.name /\ folderEditIndex = 0
      BY <1>0, <2>1, <2>5, LoadsAlone DEF LoadInv
    <3> QED BY <2>1, <2>3, <2>4, <3>1 DEF IInv, LoadInv, FolderFormTarget, EditorIdentity
  <2>6. CASE crossed
    BY <2>1, <2>4, <2>6, CrossedStep
  <2> QED BY <2>5, <2>6
<1>4. CASE PartitionApplied(l)
  <2>1. /\ l.step = "tick" /\ job' = [job EXCEPT !.part = l.job.part] /\ loads' = loads \ {l}
        /\ UNCHANGED <<jobs, editorOpen, editorNew, editorOrigName, folderEditIndex, saving, history>>
    BY <1>4 DEF PartitionApplied
  <2>2. /\ l.job.part \in Parts \cup {NoPart} /\ job \in Job
    BY <1>0, JobFacts DEF TypeOK
  <2>3. job' \in Job /\ job'.dirs = job.dirs
    BY <2>1, <2>2, JobFacts
  <2>4. TypeOK' /\ SavingInv'
    BY <1>0, <2>1, <2>3 DEF TypeOK, Stored, history, SavingInv
  <2>5. CASE ~crossed
    <3>1. loads' = {}
      BY <2>1, <2>5, LoadsAlone
    <3>2. FolderFormTarget'
      BY <1>0, <2>1, <2>3 DEF FolderFormTarget, history
    <3>3. ASSUME editorOpen
          PROVE  /\ ~editorNew /\ editorOrigName = l.name /\ shown = l.name
                 /\ ~edited => loaded.part = l.job.part /\ job = [loaded EXCEPT !.part = NoPart]
      BY <1>0, <2>1, <2>5, <3>3 DEF LoadInv
    <3>4. ASSUME editorOpen, ~edited PROVE job' = loaded
      <4>1. loaded \in Job
        BY <1>0 DEF TypeOK
      <4>2. [[loaded EXCEPT !.part = NoPart] EXCEPT !.part = loaded.part] = loaded
        BY <4>1, JobFacts
      <4> QED BY <2>1, <3>3, <3>4, <4>2
    <3>5. l.name # NoName
      BY <1>0, EditorAssumption
    <3>6. EditorIdentity'
      BY <2>1, <3>3, <3>4, <3>5 DEF EditorIdentity, history
    <3> QED BY <2>4, <3>1, <3>2, <3>6 DEF IInv, LoadInv
  <2>6. CASE crossed
    BY <2>1, <2>4, <2>6, CrossedStep DEF history
  <2> QED BY <2>5, <2>6
<1> QED BY <1>1, <1>2, <1>3, <1>4

\* Editing touches neither a call nor what the daemon stores, and from then on
\* the job shown is the user's.
LEMMA EditFrame ==
  ASSUME IInv, editorOpen, edited' = TRUE,
         UNCHANGED <<editorOpen, editorNew, editorOrigName, loads, saving, shown, crossed>>
  PROVE  LoadInv' /\ SavingInv' /\ EditorIdentity'
  BY DEF IInv, LoadInv, SavingInv, EditorIdentity

\* The form of the editor, and the list of folders.
LEMMA EditStep ==
  ASSUME IInv,
         \/ closeEditor \/ cancelFolderEdit
         \/ \E n \in Names, p \in Parts \cup {NoPart} : EditFields(n, p)
         \/ \E s \in Sources : addFolder(s)
         \/ \E i \in DOMAIN job.dirs : editFolder(i) \/ removeFolder(i)
  PROVE  IInv'
<1>0. /\ TypeOK /\ LoadInv /\ SavingInv /\ FolderFormTarget /\ EditorIdentity
      /\ job \in Job /\ job.dirs \in Seq(Sources) /\ folderEditIndex \in Nat
      /\ Len(job.dirs) \in Nat /\ DOMAIN job.dirs = 1 .. Len(job.dirs)
      /\ blankJob \in Job
  <2>1. TypeOK /\ LoadInv /\ SavingInv /\ FolderFormTarget /\ EditorIdentity
    BY DEF IInv
  <2>2. job \in Job /\ folderEditIndex \in Nat
    BY <2>1 DEF TypeOK
  <2> QED BY <2>1, <2>2, JobFacts, BlankTyped
<1>a. /\ \A i \in DOMAIN job.dirs : job.dirs[i] \in Sources
      /\ \A dirs \in Seq(Sources) :
           [job EXCEPT !.dirs = dirs] \in Job /\ [job EXCEPT !.dirs = dirs].dirs = dirs
      /\ \A n \in Names \cup {NoName}, p \in Parts \cup {NoPart} :
           [job EXCEPT !.name = n, !.part = p] \in Job /\ [job EXCEPT !.name = n, !.part = p].dirs = job.dirs
  BY <1>0, JobFacts
<1>1. CASE closeEditor
  <2>1. /\ editorOpen' = FALSE /\ shown' = NoName /\ edited' = TRUE /\ loaded' = blankJob
        /\ picked' = NoSource
        /\ UNCHANGED <<jobs, editorNew, editorOrigName, job, folderEditIndex, loads, saving, crossed>>
    BY <1>1 DEF closeEditor, Closed, Edited
  <2>2. TypeOK'
    BY <1>0, <2>1 DEF TypeOK, Stored
  <2> QED BY <1>0, <2>1, <2>2 DEF IInv, LoadInv, SavingInv, FolderFormTarget, EditorIdentity
<1>2. CASE cancelFolderEdit
  <2>1. /\ folderEditIndex' = 0 /\ picked' = NoSource /\ editorOpen
        /\ UNCHANGED <<jobs, editorOpen, editorNew, editorOrigName, job, loads, saving, shown, edited,
                       loaded, crossed>>
    BY <1>2 DEF cancelFolderEdit, resetFolderForm
  <2>2. TypeOK'
    BY <1>0, <2>1 DEF TypeOK, Stored
  <2> QED BY <1>0, <2>1, <2>2 DEF IInv, LoadInv, SavingInv, FolderFormTarget, EditorIdentity
<1>3. ASSUME NEW n \in Names, NEW p \in Parts \cup {NoPart}, EditFields(n, p)
      PROVE  IInv'
  <2>1. /\ job' = [job EXCEPT !.name = n, !.part = p] /\ edited' = TRUE /\ loaded' = blankJob /\ editorOpen
        /\ UNCHANGED <<jobs, editorOpen, editorNew, editorOrigName, folderEditIndex, loads, saving,
                       shown, picked, crossed>>
    BY <1>3 DEF EditFields, Edited
  <2>2. job' \in Job /\ job'.dirs = job.dirs
    BY <1>a, <2>1
  <2>3. TypeOK'
    BY <1>0, <2>1, <2>2 DEF TypeOK, Stored
  <2>4. FolderFormTarget'
    BY <1>0, <2>1, <2>2 DEF FolderFormTarget
  <2> QED BY <2>1, <2>3, <2>4, EditFrame DEF IInv
<1>4. ASSUME NEW s \in Sources, addFolder(s)
      PROVE  IInv'
  <2>1. /\ folderEditIndex' = 0 /\ picked' = NoSource /\ edited' = TRUE /\ loaded' = blankJob /\ editorOpen
        /\ UNCHANGED <<jobs, editorOpen, editorNew, editorOrigName, loads, saving, shown, crossed>>
    BY <1>4 DEF addFolder, Edited, resetFolderForm
  <2>2. \E dirs \in Seq(Sources) : job' = [job EXCEPT !.dirs = dirs]
    <3>1. CASE folderEditIndex \in DOMAIN job.dirs
      <4>1. [job.dirs EXCEPT ![folderEditIndex] = s] \in Seq(Sources)
        BY <1>0, <3>1
      <4>2. job' = [job EXCEPT !.dirs = [job.dirs EXCEPT ![folderEditIndex] = s]]
        BY <1>4, <3>1 DEF addFolder
      <4> QED BY <4>1, <4>2
    <3>2. CASE folderEditIndex \notin DOMAIN job.dirs
      <4>1. Append(job.dirs, s) \in Seq(Sources)
        BY <1>0
      <4>2. job' = [job EXCEPT !.dirs = Append(job.dirs, s)]
        BY <1>4, <3>2 DEF addFolder
      <4> QED BY <4>1, <4>2
    <3> QED BY <3>1, <3>2
  <2>3. job' \in Job
    BY <1>a, <2>2
  <2>4. TypeOK'
    BY <1>0, <2>1, <2>3 DEF TypeOK, Stored
  <2> QED BY <2>1, <2>4, EditFrame DEF IInv, FolderFormTarget
<1>5. ASSUME NEW i \in DOMAIN job.dirs, editFolder(i)
      PROVE  IInv'
  <2>1. /\ folderEditIndex' = i /\ picked' = job.dirs[i] /\ editorOpen
        /\ UNCHANGED <<jobs, editorOpen, editorNew, editorOrigName, job, loads, saving, shown, loaded,
                       edited, crossed>>
    BY <1>5 DEF editFolder
  <2>2. job.dirs[i] \in Sources /\ i \in Nat
    <3>1. job.dirs[i] \in Sources
      BY <1>a
    <3>2. i \in 1 .. Len(job.dirs)
      BY <1>0
    <3>3. \A n \in Nat : i \in 1 .. n => i \in Nat
      OBVIOUS
    <3> QED BY <1>0, <3>1, <3>2, <3>3
  <2>3. TypeOK'
    BY <1>0, <2>1, <2>2 DEF TypeOK, Stored
  <2> QED BY <1>0, <2>1, <2>3 DEF IInv, LoadInv, SavingInv, FolderFormTarget, EditorIdentity
<1>6. ASSUME NEW i \in DOMAIN job.dirs, removeFolder(i)
      PROVE  IInv'
  <2> DEFINE dirs == WithoutAt(job.dirs, i)
  <2>1. /\ job' = [job EXCEPT !.dirs = dirs]
        /\ folderEditIndex' = IndexAfterRemoval(i)
        /\ picked' = IF folderEditIndex = i THEN NoSource ELSE picked
        /\ edited' = TRUE /\ loaded' = blankJob /\ editorOpen
        /\ UNCHANGED <<jobs, editorOpen, editorNew, editorOrigName, loads, saving, shown, crossed>>
    BY <1>6 DEF removeFolder, Edited
  <2>2. /\ dirs \in Seq(Sources) /\ DOMAIN dirs = 1 .. Len(job.dirs) - 1
        /\ \A k \in 1 .. Len(job.dirs) - 1 :
             dirs[k] = IF k < i THEN job.dirs[k] ELSE job.dirs[k + 1]
    BY <1>0, RemoveDir
  <2> HIDE DEF dirs
  <2>3. job' \in Job /\ job'.dirs = dirs
    BY <1>a, <2>1, <2>2
  <2>4. PICK n \in Nat : n = Len(job.dirs) /\ i \in 1 .. n
    BY <1>0
  <2>5. /\ IndexAfterRemoval(i) \in Nat
        /\ IndexAfterRemoval(i) > 0 =>
             /\ folderEditIndex > 0 /\ folderEditIndex # i
             /\ IndexAfterRemoval(i) = IF folderEditIndex < i THEN folderEditIndex
                                                              ELSE folderEditIndex - 1
    BY <1>0, <2>4 DEF IndexAfterRemoval
  <2>6. TypeOK'
    BY <1>0, <2>1, <2>3, <2>5 DEF TypeOK, Stored
  <2>7. FolderFormTarget'
    <3> SUFFICES ASSUME IndexAfterRemoval(i) > 0, ~crossed
                 PROVE  /\ IndexAfterRemoval(i) \in DOMAIN dirs
                        /\ dirs[IndexAfterRemoval(i)] = picked'
      BY <2>1, <2>3 DEF FolderFormTarget
    <3>1. /\ folderEditIndex \in 1 .. n /\ job.dirs[folderEditIndex] = picked /\ picked' = picked
      BY <1>0, <2>1, <2>4, <2>5 DEF FolderFormTarget
    <3>2. PICK k \in 1 .. n - 1 : k = IndexAfterRemoval(i)
      BY <2>4, <2>5, <3>1
    <3>3. folderEditIndex = IF k < i THEN k ELSE k + 1
      BY <2>4, <2>5, <3>1, <3>2
    <3> QED BY <2>2, <2>4, <3>1, <3>2, <3>3
  <2> QED BY <2>1, <2>6, <2>7, EditFrame DEF IInv
<1> QED BY <1>1, <1>2, <1>3, <1>4, <1>5, <1>6

\* Saving, the daemon's side of it, and other sessions.
LEMMA SaveStep ==
  ASSUME IInv,
         saveJob \/ CreateJob \/ UpdateJob \/ SaveFails \/ SaveAnswered \/ \E n \in Names : DeleteJob(n)
  PROVE  IInv'
<1>0. TypeOK /\ LoadInv /\ SavingInv /\ FolderFormTarget /\ EditorIdentity
  BY DEF IInv
<1>1. CASE saveJob
  <2>1. saving' = SaveRequest /\ UNCHANGED <<jobs, page, loads, history>> /\ editorOpen
        /\ job.name # NoName
    BY <1>1 DEF saveJob
  <2>2. ~crossed => (editorNew <=> shown = NoName) /\ editorOrigName = shown
    <3>1. CASE loads = {}
      BY <1>0, <2>1, <3>1 DEF EditorIdentity
    <3>2. ASSUME NEW l \in loads, ~crossed
          PROVE  ~editorNew /\ editorOrigName = shown /\ shown # NoName
      <4>1. l.step \in {"get", "devices", "tick"} /\ l.name \in Names
        BY <1>0 DEF TypeOK, Load
      <4> QED BY <1>0, <2>1, <3>2, <4>1, EditorAssumption DEF LoadInv
    <3> QED BY <3>1, <3>2
  <2>3. /\ job \in Job /\ job.name \in Names /\ editorNew \in BOOLEAN /\ crossed \in BOOLEAN
        /\ editorOrigName \in Names \cup {NoName} /\ shown \in Names \cup {NoName}
        /\ job.part \in Parts \cup {NoPart} /\ \A i \in DOMAIN job.dirs : job.dirs[i] \in Sources
    BY <1>0, <2>1, JobFacts DEF TypeOK
  <2>4. jobFromJson(job) \in tiBackupJob
    <3>1. {job.dirs[i] : i \in DOMAIN job.dirs} \in SUBSET Sources
      BY <2>3
    <3> QED BY <2>3, <3>1 DEF jobFromJson, tiBackupJob
  <2>5. SaveRequest \in Save
    BY <2>3, <2>4 DEF Save, SaveRequest
  <2>6. /\ SaveRequest.crossed = crossed /\ SaveRequest.post = editorNew /\ SaveRequest.of = shown
        /\ ~editorNew /\ editorOrigName # NoName => SaveRequest.name = editorOrigName
    BY DEF SaveRequest
  <2>7. TypeOK'
    BY <1>0, <2>1, <2>5 DEF TypeOK, Stored, page, history
  <2>8. SavingInv'
    BY <2>1, <2>2, <2>6 DEF SavingInv
  <2> QED
    BY <1>0, <2>1, <2>7, <2>8 DEF IInv, LoadInv, FolderFormTarget, EditorIdentity, page, history
<1>2. ASSUME saving' \in {Saved, NotSaving}, UNCHANGED <<page, loads, history>>,
             DOMAIN jobs' \subseteq Names, jobs' \in [DOMAIN jobs' -> tiBackupJob]
      PROVE  IInv'
  <2>1. saving' \notin Save
    BY <1>2 DEF Save, Saved, NotSaving
  <2>2. TypeOK'
    BY <1>0, <1>2 DEF TypeOK, Stored, page, history
  <2> QED
    BY <1>0, <1>2, <2>1, <2>2 DEF IInv, LoadInv, SavingInv, FolderFormTarget, EditorIdentity, page, history
<1>3. ASSUME CreateJob \/ UpdateJob
      PROVE  IInv'
  <2>1. saving.step = "sent" /\ saving' = Saved /\ UNCHANGED <<page, loads, history>>
    BY <1>3 DEF CreateJob, UpdateJob, Served
  <2>2. \E old : storeAs(old, saving.to, saving.job)
    BY <1>3 DEF CreateJob, UpdateJob
  <2>3. saving \in Save
    BY <1>0, <2>1 DEF TypeOK, NotSaving, Saved
  <2>4. saving.to \in Names /\ saving.job \in tiBackupJob
    BY <2>3 DEF Save
  <2>5. DOMAIN jobs' \subseteq Names /\ jobs' \in [DOMAIN jobs' -> tiBackupJob]
    BY <1>0, <2>2, <2>4 DEF storeAs, TypeOK, Stored
  <2> QED BY <1>2, <2>1, <2>5
<1>4. CASE SaveFails
  BY <1>0, <1>2, <1>4 DEF SaveFails, TypeOK, Stored
<1>5. CASE SaveAnswered
  <2>1. /\ saving' = NotSaving /\ editorOpen' = FALSE
        /\ shown' = NoName /\ edited' = TRUE /\ loaded' = blankJob /\ picked' = NoSource
        /\ UNCHANGED <<jobs, editorNew, editorOrigName, job, folderEditIndex, loads, crossed>>
    BY <1>5 DEF SaveAnswered, Closed, Edited
  <2>2. saving' \notin Save
    BY <2>1 DEF Save, NotSaving
  <2>3. TypeOK'
    BY <1>0, <2>1, BlankTyped DEF TypeOK, Stored
  <2> QED
    BY <1>0, <2>1, <2>2, <2>3 DEF IInv, LoadInv, SavingInv, FolderFormTarget, EditorIdentity
<1>6. ASSUME NEW n \in Names, DeleteJob(n)
      PROVE  IInv'
  <2>1. UNCHANGED <<page, loads, saving, history>> /\ jobs' = [x \in Stored \ {n} |-> jobs[x]]
    BY <1>6 DEF DeleteJob
  <2>2. TypeOK'
    BY <1>0, <2>1 DEF TypeOK, Stored, page, history
  <2> QED
    BY <1>0, <2>1, <2>2
    DEF IInv, LoadInv, SavingInv, FolderFormTarget, EditorIdentity, page, history
<1> QED BY <1>1, <1>3, <1>4, <1>5, <1>6

LEMMA EditorInvariant == Spec => []IInv
<1>1. Init => IInv
  <2> SUFFICES ASSUME Init PROVE IInv
    OBVIOUS
  <2>1. TypeOK
    BY BlankTyped DEF Init, TypeOK, Stored
  <2>2. SavingInv
    BY DEF Init, SavingInv, Save, NotSaving
  <2> QED BY <2>1, <2>2 DEF Init, IInv, LoadInv, FolderFormTarget, EditorIdentity
<1>2. IInv /\ [Next]_vars => IInv'
  <2> SUFFICES ASSUME IInv, [Next]_vars PROVE IInv'
    OBVIOUS
  <2>1. CASE Next
    BY <2>1, ClickStep, LoadStep, EditStep, SaveStep DEF Next
  <2>2. CASE UNCHANGED vars
    BY <2>2 DEF vars, page, history, IInv, TypeOK, Stored, LoadInv, SavingInv, FolderFormTarget,
                EditorIdentity
  <2> QED BY <2>1, <2>2
<1> QED BY <1>1, <1>2, PTL DEF Spec

-----------------------------------------------------------------------------
\* Whatever the user clicks while answers are awaited: every variable has its
\* type, and nothing without a name is sent or stored.
THEOREM EditorTypeCorrect == Spec => []TypeOK
<1>1. IInv => TypeOK
  BY DEF IInv
<1> QED BY <1>1, EditorInvariant, PTL

\* "Save changes" of the folder form replaces the folder whose Edit button was
\* clicked, whatever was removed and loaded, unless two clicks crossed.
THEOREM FolderFormHits == Spec => []FolderFormTarget
<1>1. IInv => FolderFormTarget
  BY DEF IInv
<1> QED BY <1>1, EditorInvariant, PTL

\* A loaded editor is of one piece, the partition that is applied a tick later
\* included, whatever was clicked since it was loaded and whatever save was under
\* way; only a click on "New" or "Edit" in the middle of the loading takes it apart.
THEOREM EditorOfOnePiece == Spec => []EditorIdentity
<1>1. IInv => EditorIdentity
  BY DEF IInv
<1> QED BY <1>1, EditorInvariant, PTL

\* A save touches no stored job but the one that was loaded, whatever other
\* sessions delete and the user opens while it is under way: also one that is
\* clicked in the tick in which the editor is not complete yet.
THEOREM SaveTouchesOnlyItsJob == Spec => SaveSparesOthers
<1> DEFINE Spares == saving.step = "sent" /\ saving' = Saved /\ ~saving.crossed =>
                       \A n \in Stored \ {saving.of} : n \in DOMAIN jobs' /\ jobs'[n] = jobs[n]
<1>1. ASSUME IInv, [Next]_vars, saving.step = "sent", saving' = Saved, ~saving.crossed,
             NEW n \in Stored \ {saving.of}
      PROVE  n \in DOMAIN jobs' /\ jobs'[n] = jobs[n]
  <2>1. saving # NotSaving /\ saving' # saving /\ Saved # NotSaving /\ saving \in Save
    BY <1>1 DEF NotSaving, Saved, IInv, TypeOK
  <2>2. CreateJob \/ UpdateJob
    <3>1. Saved # SaveRequest
      BY DEF Saved, SaveRequest
    <3> QED
      BY <1>1, <2>1, <3>1
      DEF Next, vars, newJob, closeEditor, cancelFolderEdit, saveJob, SaveFails, SaveAnswered, editJob,
          JobLoaded, LoadFails, JobShown, PartitionApplied, DeleteJob, EditFields, addFolder, editFolder,
          removeFolder
  <2>3. (saving.post <=> saving.of = NoName) /\ (saving.post \/ saving.name = saving.of)
    BY <1>1, <2>1 DEF IInv, SavingInv
  <2>4. CASE CreateJob
    BY <2>4 DEF CreateJob, storeAs
  <2>5. CASE UpdateJob
    BY <2>3, <2>5 DEF UpdateJob, storeAs
  <2> QED BY <2>2, <2>4, <2>5
<1>2. IInv /\ [Next]_vars => [Spares]_vars
  BY <1>1
<1> QED BY <1>2, EditorInvariant, PTL DEF Spec, SaveSparesOthers
=============================================================================
