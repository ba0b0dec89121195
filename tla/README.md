# A formal model of tiBackup

tiBackup is a backup daemon with a built-in web panel. `main.cpp` starts one
process; its main thread runs Qt's event loop, and on it the HTTP and WebSocket
server (`webserver/`), the scheduler tick and the hotplug slot (`diskmain.cpp`).
A thread watches udev (`diskwatcher.cpp`), backups run on worker threads of
tiBackupLib, blocking connection tests on a thread pool, and a single-page
application (`var/www/js`) talks to the daemon from any number of browsers.

This directory holds TLA+ modules of the parts of that program that carry state
and can go wrong in ways a test hardly reaches, the TLC configurations that
check them, and proofs that TLAPS checks. `PROJECT.json` lists components, runs,
the source lines of every definition, findings, hazards and theorems; this file
says how they hang together.

tiBackupLib is a submodule whose directory is empty here. Its job files, server
lists, `backupManager` and `tiBackupScheduler` are modelled only as `src/` uses
them and are marked external.

## Inventory

| Component | State | Operations | Interacts with | What makes it correct |
|---|---|---|---|---|
| Session store (`webserver/auth/sessionstore.*`) | session table, login gates, the clock | create, validate, csrfFor, checkCsrf, remove, clear, loginAllowed / Failed / Succeeded | every route; the socket's upgrade check | an expired token is never good again; the gates count and lock as documented |
| Authentication (`apirouter.cpp`, `passwordhash.*`, `app.js`, `api.js`, `--set-web-password` of `main.cpp`) | stored hash; per browser: cookie; per tab: CSRF token, view | setup, login with hash upgrade, logout, session probe, writing requests, password tool, restart | session store; a second process writing the same file | throttling over time and restarts; a page that shows the app can write, unless another tab took the cookie over; setup happens once; an upgrade never changes the password |
| Scheduler, hotplug, job routes (`diskmain.cpp`, `diskwatcher.cpp`, `apirouter.cpp`) | jobs, last-run records, timer, event queue, running backups | timer tick, its work list, hotplug slot, create / update / rename / delete / start, crash and restart | watcher thread → queued events; workers; the job editor | each slot runs at most once and only in its window; a slot met by a running daemon is served; a plugged disk is served |
| Live status (`wshub.*`, `app.js`, `ws.js`) | clients, messages in flight, page's socket, polling timer, job list | push, accept, refuse, poll, login / logout, lost sockets | manager's status signals; sessions | exactly one channel at a time; the list converges |
| Run-log viewer (`apirouter.cpp`, `app.js`) | growing file, requests in flight, text and offset of the view | open, tick, load in full, close, final poll | backup worker; the page's job list | no line is lost without a notice, whatever overtakes what |
| Daemon log feed (`logging.*`, `wshub.*`, `apirouter.cpp`, `app.js`, `logrotate.d`) | file, watcher, position, page's lines | log, rotate, two watcher handlers, push, snapshot | every thread of the daemon; logrotate | every line once and in order; no change left unread; the page shows the newest |
| SSH servers, Proxmox servers, SMTP settings (`apirouter.cpp`, `jsonmap.cpp`, `app.js`) | stored records with secrets and pinned keys, the form, a test in flight | create, update, delete, save, test | pool thread and main thread on one singleton | secrets survive; a test only pins what it tested; a save stores what was tested |
| Job editor (`app.js`, `apirouter.cpp`, `jsonmap.cpp`) | job store; editor's job, mode, name and folder form; loads and save in flight | new, edit in four parts, folder form, save, delete | dashboard; other sessions; scheduler | a save touches the job that was opened and no other, unless two clicks crossed |
| Partition panel and picker (`app.js`, `apirouter.cpp`) | where each partition is mounted, folders; panel's partition, info, mount point; picker's folder, entries, selection | select, mount, unmount, refresh, browse, make a folder, pick | backups, other sessions and the administrator mounting anywhere and changing folders | the panel tells of the selected partition; destinations are kept relative to it; the folder made is the one picked |
| Start of the panel (`main.cpp`, `webserver.cpp`, `gen-web-cert.sh`, `logging.cpp`, postinst) | key pair on disk, generators, what the daemon has read, log file, settings in force | generate, start, bind, serve, die, change settings | systemd, the package's scripts, the administrator | an undisturbed start serves a pair that matches; HTTPS is not lost again; the log that is shown is the one written |
| Script files, remote browsing, packaging | files, another host | whole-file I/O, one command each | – | not modelled, see below |

The behaviours that are hard here: handlers whose work outlives a crash one step
at a time (scheduler), a second process and a slow key derivation between a read
and a write (authentication), threads that save stale copies (SSH tests), pushes
and answers that overtake each other on different connections (status, both log
views), page handlers that await answers while the user goes on (editor,
panel, picker, run-log viewer), and three processes that die between two writes
of one key pair (start). `hazards` in `PROJECT.json` lists them at their lines.

## Modules

| Module | Models | Used by |
|---|---|---|
| `SessionStore` | the store; one operator per method, so that its users compose them | `WebAuth` extends it and is what runs it |
| `WebAuth` | routes, browsers, password tool, restarts, over `SessionStore` | `MCWebAuth` |
| `DiskMain` | tick, hotplug, job routes, watcher, workers, crash | `MCDiskMain` |
| `SlotFiring` | abstract: what the scheduler promises | `DiskMain` instantiates it as a refinement |
| `LiveStatus` | push, polling, one page | `MCLiveStatus` |
| `RunLogTail` | the run-log viewer | `MCRunLogTail` |
| `LogFeed` | the daemon's log from writer to page | – |
| `TailFeed` | abstract: what the pushes of the log promise | `LogFeed` instantiates it as a refinement |
| `ServerForms` | the three kinds of records with secrets: routes, pool thread, form | `MCServerForms` |
| `JobEditor` | the editor and the routes that store a job | `MCJobEditor` |
| `PathPicker` | the picker and the two routes it calls, on folders that others change | `MountPanel` extends it |
| `MountPanel` | partition, mounts, and what the editor does with the picker | `MCMountPanel` |
| `WebStart` | key pair, generators, start and death of the daemon, live settings | – |
| `WebAuthProofs`, `DiskMainProofs`, `RunLogTailProofs`, `LogFeedProofs`, `ServerFormsProofs`, `JobEditorProofs`, `WebStartProofs` | theorems of the module in the name; those of `SessionStore` are in `WebAuthProofs` | – |
| `PageProofs` | theorems of `LiveStatus`, and of `MountPanel` with `PathPicker` | – |

`MC*` modules only define values for constants and symmetry sets; modules
without one are run by a `.cfg` directly. Names of actions and variables are
those of the source (`onTaskCheck` is split into `EnterTaskCheck`, `CheckJob`,
`LaunchJob`, `CheckDone` because each part has an effect that a crash leaves
behind). Definitions that start with `Mut` are plausible
bugs of one definition; replacing it by one breaks the property `PROJECT.json`
names beside it.

### How state and steps correspond

* **SessionStore.** `m_mutex` is held from the first access of a method to its
  last, so a method is a step. Tokens are 32 random bytes: values not handed out
  before. The CSRF token drawn beside a token identifies the same session and is
  written as that token. `now` only moves forward.
* **WebAuth.** All handlers share the main thread: a handler with no slow step
  is an action; setup and login are two, with `busy` in between, where the
  password tool, the clock and a crash may act. A page's request and its answer are one step (no
  property here depends on answers overtaking). A browser has one cookie (`jar`) and any number of pages (tabs), each with
  its `api.csrf` and view: a setup or login replaces the cookie for all of them and gives the token to one, a
  reload asks for the token anew, a 401 throws out the page that got it. The history variable `superseded` holds the pages
  whose cookie another page's login replaced, until they are given a token. `KeptCookie` is a client that does not obey Max-Age. A restart empties the store and keeps the hash.
* **DiskMain.** `pc` says which slot the main thread is inside. The record of a
  run is synced before the launch, so they are two steps and `Crash` may come
  between. Edits (routes) run on the main thread when it is idle; workers end and
  the watcher thread queues hotplug events at any time. `POST /api/jobs/<name>/start` takes any
  name, as the route does; what `startBackup` makes of one without a job is left open. A history variable `log`
  holds the scheduled launches; the last-run file keys by name, and the refinement reads the log by name.
* **LiveStatus.** Requests for the list are slots that are asked, served and
  answered separately, messages of the socket are a queue; the two overtake each
  other. The session may end at any time.
* **RunLogTail.** The route looks at the file's size and then reads it while the worker
  appends, so serving is two steps; each of the page's calls resumes when its answer comes and reads the fields as they are then. The history variable
  `overtaken` marks a view whose full log came while a tick was in flight, `foreign` one that was
  opened while a tick or a full log of another run was.
* **LogFeed.** Lines are numbered; the file is the interval after the last line
  rotated away, positions are counts. The hub's constructor is three steps (the look at the file, in `Init`, and the two
  `addPath`) and the directory handler two (`addPath`, then reading), since other threads log in between. The history
  variable `late` remembers which lines were logged in one of two windows in which the code can miss them; `blind` that
  the file changed before the constructor had its path watched, until the hub reads again.
  `TailFeed` sees of this the position in line numbers (`rotated + Seek`) and what was pushed: a reader goes on where it stopped, up to the
  newest line. The one skip it allows, at the head of a truncated file, is the window of the code above.
* **ServerForms.** Each call of a singleton is atomic; the update of a server is
  two of them (`UpdateRead`, `UpdateSave`); a test holds the copy taken when it
  began. Which of the three kinds of records the behaviour is about is chosen in `Init`. The history
  field `fresh` of a test says that neither the form nor its record changed since it began.
* **JobEditor.** `editJob` is four steps (click, job's answer, device list's
  answer, next tick), between which the user clicks what he likes: "New", another "Edit", and, in the last, everything
  in the editor. Folders are a set in the store and a list, which may name one twice, in the editor. The history variable
  `crossed` says that the last "New" or "Edit" was clicked while an earlier "Edit" was loading.
* **PathPicker, MountPanel.** A refresh, mount, unmount or listing is a call in
  flight, several may be at once, and an answer acts on the panel or picker as it is by then. `mounted` says where
  each partition is mounted now: the panel's mounts choose a directory, and others unmount it and mount it anywhere, at
  any time. A path is the place it lies in, which may be a directory where something was mounted once, and the folders below.
  The history variable `raced` says that refreshes for two partitions were awaited together, `known` that since the picker
  opened its partition was mounted nowhere but where the panel said. `POST /api/mkdir` is two
  steps: it resolves the place, checking the mount, and then makes the folder. Folders are per disk; `made` is
  the folder a "New folder" makes, forgotten when a listing comes or others change folders in between.
* **WebStart.** openssl creates the key file, writes it, creates and writes the
  certificate: four steps of a generator, which may die before each, and of which two (postinst
  and the command line) may run at once. The daemon's start is three: it chooses the pair, reads the certificate, reads the key and listens.
  What it read, and the log file its first message opens, stay until it dies.

## Runs

Passing runs. Each property has a mutant that breaks it under the same `.cfg`.

| Run | Shows |
|---|---|
| `web_auth` | two browsers, one of them with two tabs: throttling window, lock only lifted by a restart (`ThrottleWindow`, `LockHolds`), a page that shows the app can write unless another tab's login replaced its cookie, and can again after a reload (`AppViewCanWrite`), a token that expired or was dropped opens nothing again (`DeadTokensStayDead`) |
| `scheduler` | two jobs with edits, renames, deletions, crashes, late timers: `SlotServed`, and the tick implements `SlotFiring` |
| `hotplug` | `HotplugServed`: a disk that stays gets its jobs started |
| `live_status` | `OneChannel`: in the app exactly one of push and polling, outside it none; `PollingConverges`: without a socket the list becomes current, with reordered and lost answers |
| `run_log` | two logs that outgrow the preview, viewed one after the other: `NoGap`, `MissingHeadIsFlagged` |
| `log_feed` | `PushedOnceInOrder`, `NoLostWakeup`, `ImplementsTailFeed` (no line left out within a file), and outside the windows `EveryLinePushed`, `PageShowsLatest`, the hub's set-up included |
| `server_forms` | no writer but one with a stale copy loses a secret (`SecretsSurvive`), a test writes only to the server it tested, the pin of the host stored then (`TestPinsTested`), a form saved as tested stores what was tested (`SavedAsTested`) |
| `job_editor` | `FolderFormTarget`, `EditorIdentity`, `SaveSparesOthers` for a user who clicks at any time, up to the moment two clicks cross |
| `mount_panel` | `PanelIsOfPartition`, `DestIsGeneric`, `NewFolderIsPicked` for a user who clicks at any time, with folders changing underneath and partitions that go and come back elsewhere: the first until two refreshes race, the second while the partition is where the panel said |
| `web_start` | `ServesMatchingPair`: a start that no generator disturbs serves a certificate with its key, also after a generation was cut off that left one file; `HttpsStays`: after HSTS the panel comes back over TLS, if both settings or none are there; `LogAsStarted`: the hub tails the daemon's log |

Two runs end in a violation: the code does something else than a line of the
repository says. `findings` quotes each line.

| Run | What happens |
|---|---|
| `upgrade_is_transparent` | a login that upgrades a legacy hash brings back a password that was reset meanwhile |
| `ssh_stale_test` | a server deleted during a connection test comes back when the test saves its copy |

### What the code does not hold

The modules also state properties that the repository's texts suggest and the
code does not hold. They are not part of a run; naming one in the `.cfg` given,
with the change given, makes TLC print the trace.

| Property | `.cfg` and change | What happens |
|---|---|---|
| `CsrfForExpiredIsEmpty` | `WebAuth`: the property | `csrfFor` answers for an expired session (its callers validate first) |
| `EveryAppViewCanWrite` | `WebAuth`: the property | after a restart, or over an older session, one tab logs in again: another tab shows the app with the old token and gets 403 on every write |
| `LogoutEndsSession` | `WebAuth`: the property | a logout in that other tab is answered 403 and shows the login form; cookie and session stay good |
| `SetupIsOneShot` | `UpgradeIsTransparent`: the property | a setup under way replaces the password the tool stored meanwhile |
| `CookieExpiresWithSession` | `WebAuth`: the property | the cookie's fixed lifetime ends before the sliding session |
| `PushedStatusIsCurrent` | `LiveStatus`: the property, `MaxWire = 2` | a status that changes between the snapshot and the socket, or whose push overtakes the snapshot, is never shown |
| `ShowsTheRunOpened` | `RunLog`: the property | a tick in flight when another run is opened adds its lines to the wrong view |
| `TailEndsWithModal` | `RunLog`: the property, `OpenSlots = {o1, o2}` | a double click starts two intervals, of which closing the modal clears one |
| `FinalPollShowsEnd` | `RunLog`: the property, `Failures = FALSE` | the final poll is dropped when a tick is in flight, whose answer ends the tail |
| `FullLogIsWhole` | `RunLog`: the property | a full log overtaken by a tick leaves a hole |
| `NoLineIsMissed` | `LogFeed`: the property | a rotated file that has grown past the old position is taken for a grown one; a pushed line is wiped by an older snapshot; a line logged between the constructor's look at the size and its `addPath` waits for the next notification |
| `SlotFiresOncePerJob` | `Scheduler`: `Ids = {j1}`, the property as the only INVARIANT | a job renamed within the grace window of a slot it has served runs that slot again (`diskmain.cpp:109` says "each slot runs at most once"; the record is kept by name, unless the library's `renameJob` moves it) |
| `PinIsOfHost` | `ServerForms`: the property | a host edited after the test is saved with the key of the one before |
| `EverySaveSparesOthers` | `JobEditor`: the property, `MaxCalls = 2` | "New job" clicked while a job loads: the answer makes the new editor save over the loading one |
| `SaveKeepsPartition` | `JobEditor`: the property, `MaxCalls = 2` | a save in the tick between the editor's opening and its partition stores the job without one |
| `EveryPanelIsOfPartition` | `MountPanel`: the property, `Parts = {p1, p2}`, `Dirs = {d1}` | two refreshes answered in another order: the partition that is not selected any more is shown as the one that is |
| `EveryDestIsGeneric` | `MountPanel`: the property | a destination stays a path of this host: after the partition was mounted elsewhere with the picker open, when a listing of an earlier picker arrives, when an entry of the picker before is chosen before the first listing, or when a refresh fails or a job loads with the picker open |
| `NeverOnHost` | `MountPanel`: the property | a partition unmounted between the check and the mkdir: the folder is made on the host's own disk |
| `Lockstep` | `MountPanel`: the property | a change of the partition clears `editorMountDir` and leaves `partInfo` |
| `ComesUp` | `WebStart`: the property, `NewQt = FALSE` | on Qt 6.4 (Ubuntu 24.04, which the README lists) the server refuses TLS, so the generated pair keeps the panel from coming up |
| `KeptPairMatches` | `WebStart`: the property | a generation cut off at its end, or a forced one, leaves two files that do not match and that every later installation keeps |
| `LogTabIsDaemonLog` | `WebStart`: the property | after `paths/logs` was changed the Log tab opens a file the daemon does not write until it is restarted |

### Bounds

* Time: `MaxTime` reaches past a lock, a session and two grace windows with the
  small values of `Ttl`, `LockSeconds`, `Grace`, `Period`; only their order
  matters to the code. `Late` lets a timer fire a second late, which with
  `Grace = Period` is the slack the code's comment claims.
* `MaxFails = 2` makes the count, the lock and the reset all happen; two tokens
  let one session end and another start; two clients show independence, two tabs a shared cookie.
* Two job names and two identities (with one schedule; the refinement is proved for all) give rename, re-creation under a used name and
  two jobs due in one tick. `MaxQueue = 2` is one event behind another.
* `Slots` of LiveStatus are two, so that answers may be reordered. `MaxWire` is one message, two in the table above:
  a push in flight while anything else happens, or one behind another.
* `OpenSlots` of RunLogTail is one where nobody clicks twice; `Preview = 2`
  against `MaxLines = 3` lets a log fit, outgrow the preview while it is tailed,
  and be loaded in full; a second run leaves answers behind for the first; `Failures` turns failing requests on.
* `MaxCalls` of the editor is one awaited call, during whose loading "New" is clicked; with two (a second "Edit", a save
  while a job loads) and `MaxDirs = 1`, `Sources = {s1}` the same properties hold in 3.7 million states.
* `mount_panel` has one partition, two directories to mount it at, one folder and two awaited calls, of which "New folder"
  is the first (`MaxBefore = 0`). Without that last bound the same properties hold in 3.2 million states. Two partitions and
  two folders, or paths of depth 2 with two names, hold as well with `MaxCalls = 1`; the theorems cover the rest.
* Jobs, folders, tabs, partitions, servers and hosts are interchangeable, hence the symmetry.
* `MaxGen = 3` generations: two that mix or are cut off, and one that repairs them.
  `NewQt = TRUE` is the build that can serve TLS.
* `superseded`, `crossed`, `raced`, `known`, `overtaken`, `foreign`, `late` and `blind` are no bounds: they are history
  variables that never keep a step from happening. Each names the window in which the code fails a property, as the table
  above shows; a page, an editor, a panel, a view or a line is left out of the property only if it met that window itself.
* Two listed folders let the folder form edit the one behind or before the one
  removed. `MaxLine = 5` with `Lines = 2`, `Shown = 3` overflows both limits.

### Fairness

* `DiskMain!Fairness`: weak fairness of the main thread's continuations (a handler
  that began runs on, unless the process dies) and strong fairness of
  `onDiskAdded`: queued events are delivered in order, and a slot that the main
  thread's other work keeps disabling is taken in between. Nothing is
  assumed of users, workers or disks.
* `LiveStatus!Fairness`: the interval fires (weak), and each request slot that is
  served or answered again and again is so in the end (strong): a network that does not
  lose everything. Nothing is assumed of jobs or the socket.

The other properties are safety properties of specifications without fairness.

## Proofs

All theorems hold for every value of the constants that meets the modules' named
assumptions. Each is an invariance or refinement argument: `Init` implies the
invariant, every action keeps it (one step per action), and PTL concludes.

* `WebAuthProofs`. Of the store alone: `StoreTypeCorrect` (`TypeOK`) and `ExpiryIsFinal`
  (`DeadTokensStayDead`), for which `issued` has to cover the table: a token is not handed
  out twice, and `validate` renews only what has not expired. Of the routes: `AuthTypeCorrect`
  (`AuthTypeOK`); `DeadTokensOpenNothing` (`DeadTokensStayDead` again: each step sweeps or slides
  the table, adds a fresh token, or ages it); `LocksHold` (`LockHolds`); `ThrottleHolds`
  (`ThrottleWindow`); `AppViewWrites` (`AppViewCanWrite`). `ThrottleWindow` speaks of a history
  of failed checks and is not inductive: `ThrottleInv` relates, for each client, the gate's
  count and lock to that history (a gate counts the failures since the last lock, and
  those before it are older than the window). `AppViewCanWrite` is not either: `PageInv` says
  of every cookie, expired or not, that the pages of its browser that show the app and are not `superseded` hold its CSRF
  token while the session lives, and that it was handed out, so that no later login revives it.
* `DiskMainProofs`: `DiskMainTypeCorrect` (`TypeOK`), `SlotsFireAtMostOnce`
  (`ImplementsSlotFiring`) and `NoSlotLost` (`SlotServed`). For the refinement the step that
  matters is `LaunchJob`: it may not launch a slot in the log. `FiringInv` adds that every
  launch in the log is covered by the last-run record of its name (`OnRecord`, which survives
  deletion, renaming and crashes) and that between record and launch the slot is newer than
  every launch of that name (`AboutToLaunch`). It needs no punctual timer. `NoSlotLost` does:
  `TimerInv` bounds the clock by the timer's next instant, so that with `TimerWithinGrace` every
  closed window has met a tick (`ClosedWindowWasMet`), and `SettledInv` says what a tick settles,
  for the jobs it has come to and for those it has not. A job file written now is in
  place only for later slots, which is why an edit never leaves one unsettled.
* `PageProofs`, of `LiveStatus`: `TypeCorrect` (`TypeOK`) and `OneChannelAlways`
  (`OneChannel`). The latter is inductive as it stands, since it also relates the hub's client to the page's socket.
* `PageProofs`, of `MountPanel` and the picker: `PanelTypeCorrect` (`PanelTypeOK`), `PanelTellsOfPartition`
  (`PanelIsOfPartition`), `DestinationsAreGeneric` (`DestIsGeneric`) and `NewFolderPicked` (`NewFolderIsPicked`), for any
  number of awaited calls and any mounting by others. `ChainInv`: of the calls that keep the panel's buttons disabled there
  is one. `RacedInv`: unless refreshes raced, every one awaited is for the selected partition, so the last answer is right
  in whatever order they come. `UnderInv`: as long as the picker's partition is `known`, what the picker shows lies under
  the mount point the editor knows, and the listings awaited are of that partition, which is
  what `toGeneric` needs when "Choose" is clicked. `MadeInv`: of the calls that carry the name of a new folder there is one,
  and it leads to the folder made. `TreeInv`, that whatever lies below a folder goes
  with it, is there for others who change folders: a new folder may be made where the one
  that is shown was removed, and is then the one that is picked only because nothing else is left below it.
* `RunLogTailProofs`: `TailTypeCorrect` (`TypeOK`), `NoGapHolds` (`NoGap`) and `HeadIsFlagged`
  (`MissingHeadIsFlagged`). A view is whole because of what the requests in flight hold
  (`ReadsInv`: a reply starts at the offset asked for and ends at or behind the size that was
  taken), which of them may be in flight together (`SlotInv`), whose they are (`OwnInv`) and where
  a tick goes on from (`TickInv`: never behind what the view has or will have). The last two
  theorems assume `OneOpen`: one call of `openRun` at a time, as in the run. With two, the
  answer to the first sets the offset and the text of the view of the second.
* `LogFeedProofs`: `FeedTypeCorrect` (`TypeOK`), `PushedInOrder` (`PushedOnceInOrder`),
  `NoWakeupLost` (`NoLostWakeup`), `NewLinesPushed` (`EveryLinePushed`) and `PageIsCurrent`
  (`PageShowsLatest`), from one invariant with a part per station of a line: the hub's position
  is behind all it has pushed (`PosInv`), a hub that is not at the end of the file will be told, unless
  its constructor missed the change (`WakeInv`), what lies before its position was pushed (`PushedInv`), a snapshot ends with the
  newest line (`SnapInv`), and that line is still to be pushed, on the wire, or on the page with
  nothing behind it that could drive it out (`NewestInv`). `PushedIsTail` (`ImplementsTailFeed`) maps each step
  to one of `TailFeed` or a stutter: `emitLogTail` is `Feed`, a rotation `Truncate`, and a line logged `Log`,
  where the position jumps only if it lies beyond the file. That this happens only to a file that was truncated
  is `AheadInv`.
* `JobEditorProofs`: `EditorTypeCorrect` (`TypeOK`), `FolderFormHits` (`FolderFormTarget`),
  `EditorOfOnePiece` (`EditorIdentity`) and `SaveTouchesOnlyItsJob` (`SaveSparesOthers`).
  They hold for any number of calls at once. `LoadInv` says that without a crossed click a job loads alone, with the editor closed
  until it is shown, and what each part of `editJob` has put on the page by then; `SavingInv` to which name the page sends a
  save, which the editor may be closed and opened again over. `RemoveDir` says which folder is at which
  position after one was removed.
* `ServerFormsProofs`: `FormsTypeCorrect` (`TypeOK`), `SecretsKept` (`SecretsSurvive`),
  `TestPinsKept` (`TestPinsTested`) and `TestedIsSaved` (`SavedAsTested`). The three
  properties speak of one step, but what a step stores was copied steps before, by
  another actor: `HandleInv` says that forms and tests are about records of the kind at
  hand, and have a host; `PutInv` that the merge of a pending update is no poorer than what
  it read; `FreshInv` that a test is about its form until somebody touches that. `StoredStep`
  lists what a step can store over a record that stays.
* `WebStartProofs`: `StartTypeCorrect` (`TypeOK`), `MatchingPairServed`
  (`ServesMatchingPair`), `HttpsIsKept` (`HttpsStays`) and `HubTailsDaemonLog`
  (`LogAsStarted`), from one invariant in five parts: what a generator has written so far
  (`GenInv`), what the two files may hold (`FilesInv`), what a starting daemon has read of them
  (`DaemonInv`), how HSTS came to be sent (`HstsInv`) and which log file a process uses
  (`StartInv`). It holds for any number of generations and of restarts, including generators that die.

Five definitions changed because a proof failed on them: `FullAnswered` of `RunLogTail` had
both set `filled` and left it alone, which disabled the step when it was false; `NoGap` and
`MissingHeadIsFlagged` said nothing of the answers of another run, which `foreign` now tells
apart; `LogFeed` allowed a bound of no line, with which its initial state is not well typed;
`PickerAssumption` let `NoPath` be a path; and the panel's type invariant did not say for which disks there are folders.

Only model-checked: liveness (`HotplugServed`, `PollingConverges`), which TLAPS does not reach.
Every other property of a passing run is stated by a theorem.

## Not modelled

* The routes that read or write script files, and the file picker over them: one file
  each, and confinement of names to a directory, which is algebra over strings.
* Browsing folders over SSH, the Proxmox tab of the job editor with its datastores and
  groups, and the rsync log viewer: reads that change no state of the daemon; the tab
  copies fields.
* Packaging other than the generation of the certificate: it copies files once.
* What a backup does, how a job file is parsed, whether rsync succeeds: in
  tiBackupLib. In particular what its folder map does with two folders of one
  source is unknown, so `JobEditor` keeps sources distinct.
* In `MountPanel`: a partition mounted at two directories, or below another's mount point. `toGeneric` compares text
  (`startsWith`); a mount point whose name continues another's is not told from a folder below that, and the module, which compares places, does not show it.
* In `WebStart` only the panel's preferences and the two TLS settings change while the daemon runs; what an administrator
  writes by hand into `paths/logs` or `main/debug` is not there.
* Text typed into a path field, log levels, the byte limits of the log routes.

## Plan

Built, in this order: sessions and authentication, the scheduler with its
abstract specification, the run-log viewer, the live status, the log feed, the job editor,
the server forms, the start of the web server, the destination picker with the partition panel.
What is left:

1. `JobEditor` over `DiskMain`: saving while the scheduler and a backup use the job,
   and over `LiveStatus`: the dashboard's list as the source of clicks.
2. An abstract specification for `RunLogTail` (a growing view). It is not a refinement as things
   stand: a log that grows between the look at its size and the read is answered with lines that
   the next tick reads again.
