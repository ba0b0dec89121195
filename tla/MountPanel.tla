------------------------------ MODULE MountPanel ------------------------------
(***************************************************************************)
(* The partition of the job in the editor and the mount panel beside it,   *)
(* in var/www/js/app.js, with the routes of webserver/apirouter.cpp they   *)
(* call, and the picker (PathPicker) that chooses a destination folder on  *)
(* that partition.  The user clicks at any time; backups, other sessions   *)
(* and the administrator mount and unmount too.                            *)
(*                                                                         *)
(* Data abstraction.  See PathPicker for mount points and paths.  A        *)
(* request is served when its answer reaches the page.  While a job loads  *)
(* it is one call: the tick in which the editor has no partition (see      *)
(* JobEditor) is left out.                                                *)
(***************************************************************************)
EXTENDS PathPicker

CONSTANTS Generic   \* the root of a path that starts with %MNTBACKUPDIR%

ASSUME PanelAssumption == Generic \notin Places \cup {NoDir}

NoInfo == [part |-> NoPart, dir |-> NoDir]
Info == [part : Parts, dir : Dirs \cup {NoDir}] \cup {NoInfo}

\* Requests whose answers are awaited.  The refresh that follows a mount or an
\* unmount frees the panel's buttons.
PanelCall == [kind : {"job", "info", "last", "mount", "umount"}, part : Parts]

VARIABLES partition_uuid, \* of the job in the editor
          partInfo, editorMountDir,
          mountBusy,
          raced,          \* history: a refresh was awaited for another partition than the
                          \* selected one, and none was sent alone since
          known           \* history: since the picker opened its partition was the selected
                          \* one, and mounted nowhere but where the panel said

panel == <<partition_uuid, partInfo, editorMountDir, mountBusy>>
panelHistory == <<raced, known>>
panelVars == <<mounted, panel, pickerVars, calls, panelHistory>>

PanelInit == /\ PickerInit
             /\ partition_uuid = NoPart /\ partInfo = NoInfo /\ editorMountDir = NoDir
             /\ mountBusy = FALSE
             /\ raced = FALSE /\ known = FALSE

\* The picker covers the editor.
InEditor == ~picker.open

-----------------------------------------------------------------------------
(* The panel.                                                              *)

Null == partInfo' = NoInfo /\ editorMountDir' = NoDir

\* refreshPartInfo, up to its request.
Refresh(kind, p, rest) ==
  IF p = NoPart
    THEN Null /\ calls' = rest
    ELSE calls' = rest \cup {[kind |-> kind, part |-> p]} /\ UNCHANGED <<partInfo, editorMountDir>>

newJob ==
  /\ InEditor
  /\ partition_uuid' = NoPart /\ Null
  /\ UNCHANGED <<mounted, mountBusy, pickerVars, calls>>

\* editJob, when the job is there; the devices are awaited.
editJob(p) ==
  /\ MayAsk
  /\ Null
  /\ Asks([kind |-> "job", part |-> p])
  /\ UNCHANGED <<mounted, partition_uuid, mountBusy, pickerVars>>

\* The rest of editJob.
PartitionApplied(c) ==
  /\ c.kind = "job"
  /\ partition_uuid' = c.part
  /\ Refresh("info", c.part, calls \ {c})
  /\ UNCHANGED <<mounted, mountBusy, pickerVars>>

\* A plausible bug: a device change clears the partition and not the mount point.
MutOnDeviceChange ==
  /\ InEditor
  /\ partition_uuid' = NoPart /\ partInfo' = NoInfo
  /\ UNCHANGED <<mounted, editorMountDir, mountBusy, pickerVars, calls>>

\* Also what clearing the partition does: refreshPartInfo returns at once.
onDeviceChange ==
  /\ InEditor
  /\ partition_uuid' = NoPart /\ Null
  /\ UNCHANGED <<mounted, mountBusy, pickerVars, calls>>

onPartitionChange(p) ==
  /\ InEditor /\ MayAsk
  /\ partition_uuid' = p
  /\ editorMountDir' = NoDir
  /\ Asks([kind |-> "info", part |-> p])
  /\ UNCHANGED <<mounted, partInfo, mountBusy, pickerVars>>

\* GET /api/devices/partition/<uuid>: isMounted and getMountDir.
PartitionInfo(p) == [part |-> p, dir |-> mounted[p]]

\* refreshPartInfo: what the answer sets.
SetInfo(info) == partInfo' = info /\ editorMountDir' = info.dir

\* A plausible bug: the refresh after a mount leaves the buttons disabled.
MutInfoAnswered(c) ==
  /\ c.kind \in {"info", "last"}
  /\ SetInfo(PartitionInfo(c.part)) \/ SetInfo(NoInfo)
  /\ calls' = calls \ {c}
  /\ UNCHANGED <<mounted, partition_uuid, mountBusy, pickerVars>>

\* The answer is there, or an error is: unknown partition, lost request.
InfoAnswered(c) ==
  /\ c.kind \in {"info", "last"}
  /\ SetInfo(PartitionInfo(c.part)) \/ SetInfo(NoInfo)
  /\ mountBusy' = (mountBusy /\ c.kind = "info")
  /\ calls' = calls \ {c}
  /\ UNCHANGED <<mounted, partition_uuid, pickerVars>>

\* mountForBrowse and umountForBrowse, up to their requests.
Ask(kind, shows) ==
  /\ InEditor /\ partition_uuid # NoPart /\ ~mountBusy /\ MayAsk
  /\ shows <=> partInfo.dir # NoDir
  /\ mountBusy' = TRUE
  /\ Asks([kind |-> kind, part |-> partition_uuid])
  /\ UNCHANGED <<mounted, partition_uuid, partInfo, editorMountDir, pickerVars>>

mountForBrowse == Ask("mount", FALSE)
umountForBrowse == Ask("umount", TRUE)

\* The refresh is of whatever partition is selected by then.
LastRefresh(c) == /\ Refresh("last", partition_uuid, calls \ {c})
                  /\ mountBusy' = (partition_uuid # NoPart)

FreeDirs == {d \in Dirs : \A p \in Parts : mounted[p] # d}

MountedAt(p, d) == /\ mounted' = [mounted EXCEPT ![p] = d]
                   /\ made' = NoPath
                   /\ UNCHANGED <<folders, picker>>

\* mountPartition: where it is mounted already, or at a directory of its choice.
MountAnswered(c) ==
  /\ c.kind = "mount"
  /\ \E d \in FreeDirs \cup {mounted[c.part]} : d # NoDir /\ MountedAt(c.part, d)
  /\ LastRefresh(c)
  /\ UNCHANGED partition_uuid

\* The mount failed: no refresh.
MountFails(c) ==
  /\ c.kind = "mount"
  /\ mountBusy' = FALSE
  /\ calls' = calls \ {c}
  /\ UNCHANGED <<mounted, partition_uuid, partInfo, editorMountDir, pickerVars>>

\* Unmounted or refused (busy): refreshed either way.
UmountAnswered(c) ==
  /\ c.kind = "umount"
  /\ MountedAt(c.part, NoDir) \/ UNCHANGED <<mounted, pickerVars>>
  /\ LastRefresh(c)
  /\ UNCHANGED partition_uuid

\* A backup, another session or the administrator mounts it anywhere, or
\* unmounts it.
OthersMount(p) ==
  /\ \E d \in (IF mounted[p] = NoDir THEN FreeDirs ELSE {NoDir}) : MountedAt(p, d)
  /\ UNCHANGED <<panel, calls>>

-----------------------------------------------------------------------------
(* The picker, as the editor uses it.                                      *)

pickSource == InEditor /\ openPicker(Host) /\ UNCHANGED panel

\* Asks to mount the partition first when the page knows of no mount point.
pickDest == InEditor /\ editorMountDir # NoDir /\ openPicker(partition_uuid) /\ UNCHANGED panel

toGeneric(path) == IF path.root = editorMountDir THEN [path EXCEPT !.root = Generic] ELSE path

\* What pickDest puts in the folder form once the primary button is clicked.
folderDest == toGeneric(Choice)

pickerChoose == Closes /\ UNCHANGED panel

-----------------------------------------------------------------------------
(* Histories.                                                              *)

Refreshes == {c \in calls : c.kind \in {"info", "last"}}

Raced == \E c \in Refreshes : c.part # partition_uuid

Known == /\ picker.root = partition_uuid /\ partition_uuid \in Parts
         /\ editorMountDir # NoDir
         /\ mounted[partition_uuid] \in {NoDir, editorMountDir}

\* A picker that opens while a listing is awaited gets one that is not its own.
Follow ==
  /\ raced' = (Raced' \/ (raced /\ ~(Refreshes = {} /\ Refreshes' # {})))
  /\ known' = /\ picker'.open /\ Known'
              /\ IF picker.open THEN known /\ editorMountDir' = editorMountDir
                 ELSE \A c \in calls : c.kind # "browse"

-----------------------------------------------------------------------------
PanelNext ==
  /\ \/ newJob \/ onDeviceChange \/ mountForBrowse \/ umountForBrowse
     \/ pickSource \/ pickDest \/ pickerChoose
     \/ \E p \in Parts : editJob(p) \/ onPartitionChange(p) \/ OthersMount(p)
     \/ \E c \in calls : \/ PartitionApplied(c) \/ InfoAnswered(c)
                         \/ MountAnswered(c) \/ MountFails(c) \/ UmountAnswered(c)
     \/ /\ \/ PickerAction
           \/ \E c \in calls : PickerAnswer(c)
           \/ \E r \in Disks : OthersChange(r)
        /\ UNCHANGED panel
  /\ Follow

PanelSpec == PanelInit /\ [][PanelNext]_panelVars

-----------------------------------------------------------------------------
\* Types of the state; the panel is busy exactly while one of its own chains
\* of requests is under way, so its buttons always come back.
PanelTypeOK ==
  /\ mounted \in Mounts
  /\ partition_uuid \in Parts \cup {NoPart} /\ partInfo \in Info /\ editorMountDir \in Dirs \cup {NoDir}
  /\ folders \in [Disks -> SUBSET Seq(Names)] /\ \A r \in Disks : << >> \in folders[r]
  /\ picker \in Picker
  /\ made \in Path \cup {NoPath}
  /\ \A c \in calls : c \in PanelCall \/ c \in PickerCall
  /\ mountBusy = \E c \in calls : c.kind \in {"last", "mount", "umount"}
  /\ raced \in BOOLEAN /\ known \in BOOLEAN

\* With no refresh awaited the panel tells of the partition selected, and the
\* mount point the pickers rely on is the one it shows: whatever was mounted,
\* selected and loaded while the refreshes and the panel's own chains were under
\* way.  It takes that no two of them were awaited for different partitions; the
\* code does not hold it without.
PanelIsOfPartition ==
  (Refreshes = {} /\ ~raced) => /\ partInfo.part \in {partition_uuid, NoPart}
                                /\ editorMountDir = partInfo.dir

\* The same whenever no refresh is awaited.
EveryPanelIsOfPartition == Refreshes = {} => /\ partInfo.part \in {partition_uuid, NoPart}
                                             /\ editorMountDir = partInfo.dir

\* The destination that a choice in the picker of a partition gives is kept
\* relative to %MNTBACKUPDIR%, never as the path it had on this host: the
\* partition may be mounted elsewhere when the backup runs, or not at all.  It
\* takes that a listing has come, and that the partition came and went at the
\* panel's mount point only (history known); the code does not hold it without.
DestIsGeneric ==
  (known /\ picker.path # NoPath) => folderDest = [root |-> Generic, rel |-> Choice.rel]

\* The same of every choice.
EveryDestIsGeneric ==
  (picker.open /\ picker.root # Host /\ Choice # NoPath) => folderDest.root = Generic

\* When "New folder" is through, the primary button picks the folder that was
\* made, wherever that is: also when the folder shown was removed meanwhile and
\* both requests were clamped to the root.  Left out are a listing that fails,
\* another one that comes in between, and others who mount, make or remove
\* between the route's resolution of the place and the listing.
NewFolderIsPicked ==
  [][\A c \in calls \ calls' :
       BrowseAnswered(c) /\ c.name # NoName /\ made # NoPath => Choice' = made]_panelVars

\* A folder made through the picker of a partition is made on that partition,
\* never under the mount point of one that is not mounted.
NeverOnHost == [][\A c \in calls : MkdirAnswered(c) => Base(c.root) = c.path.root]_panelVars

\* "partInfo ... is the single source of truth for mount state; editorMountDir
\* is kept in lockstep with it".
Lockstep == editorMountDir = partInfo.dir

=============================================================================
