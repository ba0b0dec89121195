-------------------------------- MODULE LogFeed --------------------------------
(***************************************************************************)
(* The daemon's log on its way to the Log tab: logMessageOutput appends to *)
(* tibackup.log from any thread, logrotate truncates the file in place     *)
(* (copytruncate), WsHub watches it and pushes what was added since its    *)
(* last position, and the page shows a snapshot (GET /api/logs/main)       *)
(* followed by what is pushed.                                             *)
(*                                                                         *)
(* Data abstraction.  Lines are numbered in the order they are written and *)
(* have one length, so the file is the lines after the last one that was   *)
(* rotated away, and a size or a position is a number of lines.  The page  *)
(* stays connected; LiveStatus models its socket.  Other threads log while *)
(* the hub is being set up.                                                *)
(***************************************************************************)
EXTENDS Naturals, Sequences, FiniteSets

CONSTANTS Lines,  \* lines GET /api/logs/main answers with (200)
          Shown,  \* lines the page keeps (1000)
          MaxLine \* bound: lines ever written

ASSUME FeedAssumption == {Lines, Shown, MaxLine} \subseteq Nat \ {0}

VARIABLES exists,    \* the file
          written,   \* the last line written
          rotated,   \* the last line rotated away
          m_logPos,
          unwatched, \* the paths the constructor has still to add: "dir", "file"
          watched,   \* m_watcher->files() contains the file
          fileChanged, directoryChanged, \* notifications not handled yet
          handling,  \* the directoryChanged handler is past its addPath
          wire,      \* logTail messages on their way
          logLines,  \* what the page shows
          snapshot,  \* loadLogs: no call, its request out, or its answer
          opened,    \* history: the page has loaded the log
          from,      \* history: the lines there were when the hub started
          pushed,    \* history: lines broadcast, in order
          late,      \* history: <<window, line>>, the lines logged in a window below
          blind      \* history: the file changed before the constructor had its path
                     \* watched, and the hub has not read it since

hub == <<m_logPos, unwatched, watched, handling>>
page == <<logLines, snapshot, opened>>
vars == <<exists, written, rotated, hub, fileChanged, directoryChanged, wire, page, from, pushed, late, blind>>

size == written - rotated

LinesFrom(a, b) == [i \in 1 .. b - a |-> a + i]
Last(s, n) == IF Len(s) > n THEN SubSeq(s, Len(s) - n + 1, Len(s)) ELSE s

NoCall == [step |-> "none", lines |-> <<>>]

\* The constructor has looked at the file: the hub starts at its end.
Init == /\ exists \in BOOLEAN
        /\ written \in IF exists THEN {0, 1} ELSE {0}
        /\ from = written
        /\ rotated = 0 /\ m_logPos = written
        /\ unwatched = IF exists THEN {"dir", "file"} ELSE {"dir"}
        /\ watched = FALSE /\ blind = FALSE
        /\ fileChanged = FALSE /\ directoryChanged = FALSE /\ handling = FALSE
        /\ wire = <<>> /\ pushed = <<>> /\ late = {}
        /\ logLines = <<>> /\ snapshot = NoCall /\ opened = FALSE

-----------------------------------------------------------------------------
(* The file.                                                               *)

\* A change is reported if the file is watched; reports are merged.
Touched == /\ fileChanged' = (fileChanged \/ watched)
           /\ blind' = (blind \/ unwatched # {})

\* A new name in the directory is reported if that is watched.
Appears == directoryChanged' = (directoryChanged \/ "dir" \notin unwatched)

\* The first message ever: the file is opened.
CreateFile ==
  /\ ~exists
  /\ exists' = TRUE /\ Appears
  /\ blind' = ("dir" \in unwatched)
  /\ UNCHANGED <<written, rotated, hub, fileChanged, wire, page, from, pushed, late>>

\* Another file appears in the directory: the log of a run, a rotated copy.
OtherFile ==
  /\ Appears
  /\ UNCHANGED <<exists, written, rotated, hub, fileChanged, wire, page, from, pushed, late, blind>>

\* Nothing is left to be handled.
Quiet == ~fileChanged /\ ~directoryChanged /\ ~handling

\* The windows in which a line may be missed: the hub has still to be told of a
\* truncation, and the page has not taken in a snapshot.
OpenWindows == {w \in {"unnoticed", "untaken"} :
                  \/ w = "unnoticed" /\ m_logPos > size /\ (~Quiet \/ blind)
                  \/ w = "untaken" /\ snapshot.step = "served"}

\* logMessageOutput: one line, written and flushed under its mutex.
logMessageOutput ==
  /\ exists /\ written < MaxLine
  /\ written' = written + 1
  /\ late' = late \cup (OpenWindows \X {written'})
  /\ Touched
  /\ UNCHANGED <<exists, rotated, hub, directoryChanged, wire, page, from, pushed>>

\* logrotate, with copytruncate and notifempty.
Rotate ==
  /\ exists /\ size > 0
  /\ rotated' = written /\ late' = {}
  /\ Touched
  /\ UNCHANGED <<exists, written, hub, directoryChanged, wire, page, from, pushed>>

-----------------------------------------------------------------------------
(* WsHub, on the main thread.                                              *)

\* The rest of the constructor.
WatchDirectory ==
  /\ "dir" \in unwatched
  /\ unwatched' = unwatched \ {"dir"}
  /\ UNCHANGED <<exists, written, rotated, m_logPos, watched, handling, fileChanged, directoryChanged, wire, page, from, pushed, late, blind>>

WatchFile ==
  /\ unwatched = {"file"}
  /\ unwatched' = {} /\ watched' = TRUE
  /\ UNCHANGED <<exists, written, rotated, m_logPos, handling, fileChanged, directoryChanged, wire, page, from, pushed, late, blind>>

\* The hub is there, and the event loop runs.
Up == unwatched = {}

\* A plausible bug: a truncation is not noticed.
MutSeekAhead == m_logPos

\* A plausible bug: a file that has not grown counts as truncated.
MutSeek == IF size <= m_logPos THEN 0 ELSE m_logPos

\* Where emitLogTail starts to read.
Seek == IF size < m_logPos THEN 0 ELSE m_logPos

\* A plausible bug: the position is advanced by what was read, and not reset
\* when the file was truncated.
MutEmitLogTail ==
  LET chunk == LinesFrom(rotated + Seek, written)
  IN /\ m_logPos' = m_logPos + Len(chunk)
     /\ wire' = wire \o chunk
     /\ pushed' = pushed \o chunk
     /\ blind' = FALSE

emitLogTail ==
  LET chunk == LinesFrom(rotated + Seek, written)
  IN /\ m_logPos' = Seek + Len(chunk)
     /\ wire' = wire \o chunk
     /\ pushed' = pushed \o chunk
     /\ blind' = FALSE

FileChanged ==
  /\ Up /\ fileChanged /\ ~handling
  /\ fileChanged' = FALSE
  /\ emitLogTail
  /\ UNCHANGED <<exists, written, rotated, unwatched, watched, handling, directoryChanged, page, from, late>>

\* The directoryChanged handler: addPath, and then emitLogTail; the threads
\* that log do not stop in between.
DirectoryChanged ==
  /\ Up /\ directoryChanged /\ ~handling
  /\ directoryChanged' = FALSE
  /\ watched' = exists
  /\ handling' = TRUE
  /\ UNCHANGED <<exists, written, rotated, m_logPos, unwatched, fileChanged, wire, page, from, pushed, late, blind>>

\* A plausible bug: the handler adds the path and leaves the reading to the next change.
MutDirectoryEmit ==
  /\ handling
  /\ handling' = FALSE
  /\ UNCHANGED <<exists, written, rotated, m_logPos, unwatched, watched, fileChanged, directoryChanged, wire, page, from, pushed, late, blind>>

DirectoryEmit ==
  /\ handling
  /\ handling' = FALSE
  /\ emitLogTail
  /\ UNCHANGED <<exists, written, rotated, unwatched, watched, fileChanged, directoryChanged, page, from, late>>

\* GET /api/logs/main: the file's last lines.
ServeMain ==
  /\ Up /\ snapshot.step = "asked" /\ ~handling
  /\ snapshot' = [step |-> "served", lines |-> Last(LinesFrom(rotated, written), Lines)]
  /\ UNCHANGED <<exists, written, rotated, hub, fileChanged, directoryChanged, wire, logLines, opened, from, pushed, late, blind>>

-----------------------------------------------------------------------------
(* The page.                                                               *)

\* A plausible bug: nothing is ever dropped from the page.
MutPushAll(shows, lines) == logLines' = shows \o lines

\* A plausible bug: the lines that are kept are the oldest.
MutPushLog(shows, lines) == LET all == shows \o lines
  IN logLines' = IF Len(all) > Shown THEN SubSeq(all, 1, Shown) ELSE all

pushLog(shows, lines) == logLines' = Last(shows \o lines, Shown)

\* onLiveMessage for logTail.
LogTailArrives ==
  /\ wire # <<>>
  /\ pushLog(logLines, <<Head(wire)>>)
  /\ wire' = Tail(wire)
  /\ UNCHANGED <<exists, written, rotated, hub, fileChanged, directoryChanged, snapshot, opened, from, pushed, late, blind>>

loadLogs ==
  /\ snapshot = NoCall
  /\ snapshot' = [NoCall EXCEPT !.step = "asked"]
  /\ UNCHANGED <<exists, written, rotated, hub, fileChanged, directoryChanged, wire, logLines, opened, from, pushed, late, blind>>

\* loadLogs: its three answers are there.
LogsLoaded ==
  /\ snapshot.step = "served"
  /\ pushLog(<<>>, snapshot.lines)
  /\ snapshot' = NoCall /\ opened' = TRUE
  /\ UNCHANGED <<exists, written, rotated, hub, fileChanged, directoryChanged, wire, from, pushed, late, blind>>

\* One of the three requests failed: nothing is replaced.
LoadFails ==
  /\ snapshot.step \in {"asked", "served"}
  /\ snapshot' = NoCall
  /\ UNCHANGED <<exists, written, rotated, hub, fileChanged, directoryChanged, wire, logLines, opened, from, pushed, late, blind>>

-----------------------------------------------------------------------------
Next == \/ CreateFile \/ OtherFile \/ logMessageOutput \/ Rotate
        \/ WatchDirectory \/ WatchFile
        \/ FileChanged \/ DirectoryChanged \/ DirectoryEmit \/ ServeMain
        \/ LogTailArrives \/ loadLogs \/ LogsLoaded \/ LoadFails

Spec == Init /\ [][Next]_vars

-----------------------------------------------------------------------------
\* Types of the state; a line on the wire has been pushed.
TypeOK ==
  /\ {exists, watched, fileChanged, directoryChanged, handling, opened, blind} \subseteq BOOLEAN
  /\ written \in 0 .. MaxLine /\ rotated \in 0 .. written /\ from \in 0 .. written
  /\ m_logPos \in 0 .. MaxLine /\ unwatched \subseteq {"dir", "file"}
  /\ pushed \in Seq(1 .. MaxLine) /\ wire = Last(pushed, Len(wire))
  /\ late \subseteq {"unnoticed", "untaken"} \X (rotated + 1 .. written)
  /\ logLines \in Seq(1 .. MaxLine) /\ Len(logLines) <= Shown
  /\ snapshot.step \in {"none", "asked", "served"} /\ Len(snapshot.lines) <= Lines

\* The hub pushes no line twice and none out of order, whenever the log is
\* rotated: the position it keeps never points before a line it has pushed.
PushedOnceInOrder == \A i, j \in DOMAIN pushed : i < j => pushed[i] < pushed[j]

\* No wakeup is lost: with no notification pending the hub is at the end of
\* the file, also when the file was created, written or truncated while a
\* handler ran.  What happened to it while the hub was being set up is not
\* announced, and read with the next change that is.
NoLostWakeup == Quiet /\ exists /\ ~blind => m_logPos = size

\* With no notification pending every line in the file that was not there at
\* the start has been pushed: "file was truncated/rotated" is noticed.  The
\* exception are lines logged between a truncation and its notice; those
\* logged while the hub was being set up are pushed once it has read again.
EveryLinePushed ==
  Quiet /\ ~blind =>
    \A l \in rotated + 1 .. written :
      l > from /\ <<"unnoticed", l>> \notin late => \E i \in DOMAIN pushed : pushed[i] = l

\* What is pushed is a tail of the log: emitLogTail goes on where it stopped,
\* to the end of the file.  Within one file no line is left out between two
\* pushes; lines are missing only where the file was truncated, or, at the head
\* of the new file, when that has grown to the old position before the hub looks.
Reader == INSTANCE TailFeed WITH log <- written, gone <- rotated, at <- rotated + Seek, fed <- pushed
ImplementsTailFeed == Reader!TSpec

\* Once the log is loaded and everything has arrived (and the hub has read what
\* was logged while it was set up), the page shows the newest line of the file, unless that was logged in one of the windows: the
\* hub "pushes live updates to connected browsers", and a load of the log,
\* answered early or late or failing, does not undo one.
PageShowsLatest ==
  /\ opened /\ Quiet /\ ~blind /\ wire = <<>> /\ snapshot = NoCall /\ size > 0
  /\ \A w \in {"unnoticed", "untaken"} : <<w, written>> \notin late
  => \E i \in DOMAIN logLines : logLines[i] = written

\* The same without the exceptions, which the code does not hold.
NoLineIsMissed == /\ Quiet => \A l \in rotated + 1 .. written :
                                l > from => \E i \in DOMAIN pushed : pushed[i] = l
                  /\ opened /\ Quiet /\ wire = <<>> /\ snapshot = NoCall /\ size > 0
                       => \E i \in DOMAIN logLines : logLines[i] = written

=============================================================================
