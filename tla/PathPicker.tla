------------------------------ MODULE PathPicker ------------------------------
(***************************************************************************)
(* The picker of var/www/js/app.js that chooses a folder of the host or of *)
(* a mounted partition, and the routes it calls: GET /api/browse and POST  *)
(* /api/mkdir of webserver/apirouter.cpp, both confined to the picker's    *)
(* root by resolveBrowseTarget.  Others create and delete folders, and     *)
(* mount partitions anywhere and unmount them, at any time.                *)
(*                                                                         *)
(* Data abstraction.  A path is the place it lies in, a mount point or the *)
(* rest of the Host, and the folders from there.  Two partitions are not   *)
(* mounted at one place, and a mount point with nothing mounted is not     *)
(* listed.  Symbolic links, files and typed paths are left out; the side   *)
(* and the crumbs lead to the base alone, the crumbs between as the button *)
(* for the parent does.  A listing is served when its answer reaches the   *)
(* page; a folder is made in two steps, since the handler checks the mount *)
(* before it uses it.  Two requests alike in everything count as one.      *)
(***************************************************************************)
EXTENDS Naturals, Sequences, FiniteSets, SequencesExt

CONSTANTS Parts,    \* partition uuids
          NoPart,   \* the empty uuid
          Dirs,     \* directories partitions are mounted at
          NoDir,    \* not mounted
          Host,     \* the rest of the host, and the root of the modes "src" and "keyfile"
          NoPath, NoName,
          Names,    \* folder names
          MaxDepth, MaxFolders, \* bounds: folders below each other, folders in all
          MaxCalls, \* bound: answers awaited at once
          MaxBefore \* bound: answers awaited when a new folder is asked for

Disks == Parts \cup {Host}
Roots == Disks \cup {NoPart}
Places == Dirs \cup {Host}
Path == [root : Places, rel : Seq(Names)]

ASSUME PickerAssumption ==
  /\ NoPart # Host /\ {NoPart, Host} \cap Parts = {}
  /\ NoDir # Host /\ {NoDir, Host} \cap Dirs = {}
  /\ NoName \notin Names /\ NoPath \notin Path
  /\ {MaxDepth, MaxFolders, MaxCalls, MaxBefore} \subseteq Nat

Top(place) == [root |-> place, rel |-> << >>]

\* pickerPath + "/" + name, also while pickerPath is empty.
Below(path, name) == IF path = NoPath THEN [root |-> Host, rel |-> <<name>>]
                     ELSE [path EXCEPT !.rel = Append(@, name)]

\* pickerOpen, pickerUuid, pickerPath, pickerBase, pickerEntries, pickerSel.
Picker == [open : BOOLEAN, root : Roots, path : Path \cup {NoPath}, base : Path \cup {NoPath},
           entries : SUBSET Names, sel : Names \cup {NoName}]

\* Requests of the picker; a listing that follows "New folder" selects a name.
PickerCall == [kind : {"browse"}, root : Roots, path : Path \cup {NoPath}, name : Names \cup {NoName}]
              \cup [kind : {"mkdir", "create"}, root : Roots, path : Path \cup {NoPath}, name : Names]

VARIABLES mounted,  \* the daemon's host: where each partition is mounted
          folders,  \* per disk: the folders there are
          picker,
          calls,    \* requests whose answers are awaited
          made     \* history: the folder a "New folder" makes, as asked for and then as
                   \* resolved, until the picker, a mount or another's folder changes

pickerVars == <<folders, picker, made>>

Mounts == {m \in [Parts -> Dirs \cup {NoDir}] : \A p, q \in Parts : m[p] = m[q] => p = q \/ m[p] = NoDir}

PickerInit == /\ mounted \in Mounts
              /\ folders = [r \in Disks |-> {<< >>}]
              /\ picker = [open |-> FALSE, root |-> NoPart, path |-> NoPath, base |-> NoPath,
                           entries |-> {}, sel |-> NoName]
              /\ calls = {}
              /\ made = NoPath

\* Bound.
MayAsk == Cardinality(calls) < MaxCalls

\* Bound.
Room(rel) == /\ Len(rel) < MaxDepth
             /\ Cardinality(UNION {{r} \X (folders[r] \ {<< >>}) : r \in Disks}) < MaxFolders

Asks(call) == calls' = calls \cup {call}

-----------------------------------------------------------------------------
(* The page.                                                               *)

pickerLoad(root, path, name) == Asks([kind |-> "browse", root |-> root, path |-> path, name |-> name])

\* The entries of the picker before stay in sight until the listing comes.
openPicker(root) ==
  /\ MayAsk /\ ~picker.open
  /\ picker' = [picker EXCEPT !.open = TRUE, !.root = root, !.path = NoPath, !.sel = NoName]
  /\ pickerLoad(root, NoPath, NoName)
  /\ made' = NoPath
  /\ UNCHANGED <<mounted, folders>>

Goes(path) == /\ picker.open /\ MayAsk
              /\ pickerLoad(picker.root, path, NoName)
              /\ UNCHANGED <<mounted, pickerVars>>

pickerEnter(name) == name \in picker.entries /\ Goes(Below(picker.path, name))

\* The button for the parent that came with the listing; before one has come it
\* is taken to lead where the base does.
pickerUp ==
  /\ picker.path # picker.base
  /\ Goes(IF picker.path = NoPath \/ picker.path.rel = << >> THEN picker.base
          ELSE [picker.path EXCEPT !.rel = Front(@)])

pickerPlace == Goes(IF picker.root = Host THEN Top(Host) ELSE picker.base)

pickerSelect(name) ==
  /\ picker.open /\ name \in picker.entries
  /\ picker' = [picker EXCEPT !.sel = name]
  /\ UNCHANGED <<mounted, folders, calls, made>>

Named(c) == c.kind \in {"mkdir", "create"} \/ (c.kind = "browse" /\ c.name # NoName)

NewFolder(path, name) ==
  /\ picker.open /\ MayAsk /\ Cardinality(calls) <= MaxBefore
  /\ Asks([kind |-> "mkdir", root |-> picker.root, path |-> path, name |-> name])
  /\ made' = IF \E c \in calls : Named(c) THEN NoPath ELSE Below(picker.path, name)
  /\ UNCHANGED <<mounted, folders, picker>>

\* A plausible bug: the request does not say where the picker is.
MutPickerNewFolder(name) == NewFolder(NoPath, name)

pickerNewFolder(name) == NewFolder(picker.path, name)

\* pickerCancel, and what pickerChoose does to the picker; the selection is not
\* read until the next opening clears it.
Closes == /\ picker.open
          /\ picker' = [picker EXCEPT !.open = FALSE, !.sel = NoName]
          /\ made' = NoPath
          /\ UNCHANGED <<mounted, folders, calls>>

pickerCancel == Closes

\* What pickerPrimary chooses: the selected entry if it is in the list, else
\* the folder shown.
Choice == IF picker.sel \in picker.entries THEN Below(picker.path, picker.sel) ELSE picker.path

-----------------------------------------------------------------------------
(* The routes.                                                             *)

\* resolveBrowseTarget: where the root lies now.
Base(root) == IF root = Host THEN Host ELSE IF root \in Parts THEN mounted[root] ELSE NoDir

Browsable(root) == Base(root) # NoDir

Exists(path) == path # NoPath /\ \E r \in Disks : Base(r) = path.root /\ path.rel \in folders[r]

\* A plausible bug: the path is not confined to the root.
MutTarget(root, path) == IF Exists(path) THEN path ELSE Top(Base(root))

\* resolveBrowseTarget: clamped to the root; the host's is "/", which holds
\* every path there is.
Target(root, path) ==
  IF Exists(path) /\ (path.root = Base(root) \/ root = Host) THEN path ELSE Top(Base(root))

Entries(path) == {n \in Names : Exists([path EXCEPT !.rel = Append(@, n)])}

Answered(c, next) == calls' = (calls \ {c}) \cup next

\* GET /api/browse.  The answer goes into the picker's fields, whoever asked and
\* whether it is open or not.
BrowseAnswered(c) ==
  /\ c.kind = "browse" /\ Browsable(c.root)
  /\ LET t == Target(c.root, c.path)
     IN picker' = [picker EXCEPT !.path = t, !.base = Top(Base(c.root)), !.entries = Entries(t), !.sel = c.name]
  /\ made' = NoPath
  /\ Answered(c, {})
  /\ UNCHANGED <<mounted, folders>>

\* An error leaves the fields alone, also when the partition is not mounted;
\* the name of a new folder is selected all the same.
BrowseFails(c) ==
  /\ c.kind = "browse"
  /\ IF c.name = NoName
       THEN UNCHANGED <<picker, made>>
       ELSE picker' = [picker EXCEPT !.sel = c.name] /\ made' = NoPath
  /\ Answered(c, {})
  /\ UNCHANGED <<mounted, folders>>

\* POST /api/mkdir: validation and resolveBrowseTarget, up to the mkdir itself.
MkdirResolved(c) ==
  /\ c.kind = "mkdir" /\ Browsable(c.root)
  /\ LET t == Target(c.root, c.path)
     IN /\ Answered(c, {[c EXCEPT !.kind = "create", !.path = t]})
        /\ made' = IF made = NoPath THEN NoPath ELSE Below(t, c.name)
  /\ UNCHANGED <<mounted, folders, picker>>

\* The folder is made on disk r, which is mounted at its place.
MadeOn(r, path, name) ==
  /\ Base(r) = path.root /\ path.rel \in folders[r] /\ Append(path.rel, name) \notin folders[r]
  /\ Room(path.rel)
  /\ folders' = [folders EXCEPT ![r] = @ \cup {Append(path.rel, name)}]
  /\ UNCHANGED made

\* With the partition gone the mount point is an empty folder of the host, and
\* what is made there is out of sight.
MadeOutOfSight(path) ==
  /\ path.rel = << >> /\ \A r \in Disks : Base(r) # path.root
  /\ UNCHANGED folders
  /\ made' = NoPath

\* The rest of it and the page's reload, by then, of what its fields name.
MkdirAnswered(c) ==
  /\ c.kind = "create"
  /\ (\E r \in Disks : MadeOn(r, c.path, c.name)) \/ MadeOutOfSight(c.path)
  /\ Answered(c, {[kind |-> "browse", root |-> picker.root, path |-> picker.path, name |-> c.name]})
  /\ UNCHANGED <<mounted, picker>>

\* The name is taken, the root is not there, the request is lost.
MkdirFails(c) ==
  /\ c.kind \in {"mkdir", "create"}
  /\ made' = NoPath
  /\ Answered(c, {})
  /\ UNCHANGED <<mounted, folders, picker>>

PickerAnswer(c) == BrowseAnswered(c) \/ BrowseFails(c) \/ MkdirResolved(c) \/ MkdirAnswered(c) \/ MkdirFails(c)

PickerAction == \/ pickerUp \/ pickerPlace \/ pickerCancel
                \/ \E n \in Names : pickerEnter(n) \/ pickerSelect(n) \/ pickerNewFolder(n)

-----------------------------------------------------------------------------
(* The host.                                                               *)

\* A folder is made or removed, with everything in it, on a disk in use.
OthersChange(r) ==
  /\ Browsable(r)
  /\ \/ \E rel \in folders[r], n \in Names :
          /\ Append(rel, n) \notin folders[r] /\ Room(rel)
          /\ folders' = [folders EXCEPT ![r] = @ \cup {Append(rel, n)}]
     \/ \E rel \in folders[r] \ {<< >>} :
          folders' = [folders EXCEPT ![r] = {f \in @ : ~IsPrefix(rel, f)}]
  /\ made' = NoPath
  /\ UNCHANGED <<mounted, picker, calls>>

=============================================================================
