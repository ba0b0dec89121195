------------------------------ MODULE RunLogTail ------------------------------
(***************************************************************************)
(* The run-log viewer: GET /api/logs/runs/<file> of webserver/apirouter.cpp *)
(* on the daemon's main thread, the backup worker that appends to the file *)
(* meanwhile, and openRun, tickRunTail, loadFullLog and closeRun of        *)
(* var/www/js/app.js, whose requests are in flight while the page goes on. *)
(*                                                                         *)
(* Data abstraction.  A log line is <<file, number>>; offsets and sizes    *)
(* count lines.  Every run log belongs to a job of its own.  Requests      *)
(* travel on connections of their own, so answers may overtake each other, *)
(* and any of them may fail.  The file is only appended to.                *)
(***************************************************************************)
EXTENDS Integers, Sequences, Functions

CONSTANTS Files,      \* run logs
          NoFile,     \* runFile is empty
          OpenSlots,  \* bound: openRun calls in flight at once; one of them
                      \* means that nobody clicks again before the modal shows
          Preview,    \* kMaxLogPreviewBytes
          Idle,       \* no request
          Failures,   \* bound: whether a request may fail
          MaxLines    \* bound: lines in a log

ASSUME TailAssumption == /\ NoFile \notin Files
                         /\ Failures \in BOOLEAN
                         /\ Preview \in Nat \ {0} /\ MaxLines \in Nat
                         /\ {"tick", "full"} \cap OpenSlots = {}

\* A request without an offset, and one with full=1.
NoOffset == -1
Full == -2

Slots == OpenSlots \cup {"tick", "full"}

VARIABLES size,      \* the files, on disk
          running,   \* files whose job is running
          known,     \* the same, as the page's job list has it
          net,       \* slot -> the request in flight there, or Idle
          runFile, runText, runOffset, runTruncated,
          runOpen,   \* the modal shows
          runLive,
          runTimer,  \* the interval runTimer refers to is ticking
          leaked,    \* intervals ticking that nothing refers to
          wasLive,   \* history: the last openRun was a live one
          filled,    \* history: a whole view has arrived since the last openRun
          overtaken, \* history: since then a full log came while a tick was in flight
          foreign    \* history: then a tick or a full log of another run was in flight

page == <<runFile, runText, runOffset, runTruncated, runOpen, runLive, runTimer, leaked, wasLive, filled, overtaken, foreign>>
vars == <<size, running, known, net, runFile, runText, runOffset, runTruncated,
          runOpen, runLive, runTimer, leaked, wasLive, filled, overtaken, foreign>>

-----------------------------------------------------------------------------
Request(f, off, live) ==
  [file |-> f, off |-> off, live |-> live, st |-> "sent", size |-> 0, from |-> 0, to |-> 0, cut |-> FALSE]

Send(slot, req) == net' = [net EXCEPT ![slot] = req]

Lines(req) == [i \in 1..(req.to - req.from) |-> <<req.file, req.from + i>>]

runTailBusy == net["tick"] # Idle

Max0(n) == IF n > 0 THEN n ELSE 0

Init == /\ size = [f \in Files |-> 0]
        /\ running \in SUBSET Files
        /\ known = running
        /\ net = [s \in Slots |-> Idle]
        /\ runFile = NoFile /\ runText = << >> /\ runOffset = 0 /\ runTruncated = FALSE
        /\ runOpen = FALSE /\ runLive = FALSE /\ runTimer = FALSE /\ leaked = 0
        /\ wasLive = FALSE /\ filled = FALSE /\ overtaken = FALSE /\ foreign = FALSE

-----------------------------------------------------------------------------
(* The daemon.                                                             *)

\* The backup worker, on its own thread.
WriteLine(f) ==
  /\ f \in running /\ size[f] < MaxLines
  /\ size' = [size EXCEPT ![f] = @ + 1]
  /\ UNCHANGED <<running, known, net, page>>

Finish(f) ==
  /\ f \in running
  /\ running' = running \ {f}
  /\ UNCHANGED <<size, known, net, page>>

\* The handler asks for the size first ...
TakeSize(s) ==
  /\ net[s] # Idle /\ net[s].st = "sent"
  /\ \A t \in Slots : net[t] # Idle => net[t].st # "stat"
  /\ net' = [net EXCEPT ![s].st = "stat", ![s].size = size[net[s].file]]
  /\ UNCHANGED <<size, running, known, page>>

\* A plausible bug: the size returned is the one after the read, when lines
\* have arrived that the text does not hold.
MutReadLog(req) ==
  LET end == size[req.file] IN
  IF req.off >= 0 /\ req.off <= req.size
  THEN [req EXCEPT !.st = "done", !.from = req.off, !.to = req.size, !.size = end]
  ELSE [req EXCEPT !.st = "done", !.to = req.size, !.size = end,
                   !.from = IF req.off = Full THEN 0 ELSE Max0(req.size - Preview),
                   !.cut = req.off # Full /\ req.size > Preview]

\* A plausible bug: the flag is decided by the size taken first, the cut by the
\* size at the read.
MutReadLogFlag(req) ==
  LET end == size[req.file] IN
  IF req.off >= 0 /\ req.off <= req.size
  THEN [req EXCEPT !.st = "done", !.from = req.off, !.to = end]
  ELSE [req EXCEPT !.st = "done", !.to = end,
                   !.from = IF req.off = Full THEN 0 ELSE Max0(end - Preview),
                   !.cut = req.off # Full /\ req.size > Preview]

\* A plausible bug: the offset returned is that of the line after the next.
MutReadLogNext(req) ==
  LET end == size[req.file] IN
  IF req.off >= 0 /\ req.off <= req.size
  THEN [req EXCEPT !.st = "done", !.from = req.off, !.to = end, !.size = @ + 1]
  ELSE [req EXCEPT !.st = "done", !.to = end, !.size = @ + 1,
                   !.from = IF req.off = Full THEN 0 ELSE Max0(end - Preview),
                   !.cut = req.off # Full /\ end > Preview]

\* ... and then reads from the offset, or without one the last part of the file
\* (the whole file with full=1), to its present end.
ReadLog(req) ==
  LET end == size[req.file] IN
  IF req.off >= 0 /\ req.off <= req.size
  THEN [req EXCEPT !.st = "done", !.from = req.off, !.to = end]
  ELSE [req EXCEPT !.st = "done", !.to = end,
                   !.from = IF req.off = Full THEN 0 ELSE Max0(end - Preview),
                   !.cut = req.off # Full /\ end > Preview]

ReadAll(s) ==
  /\ net[s] # Idle /\ net[s].st = "stat"
  /\ net' = [net EXCEPT ![s] = ReadLog(@)]
  /\ UNCHANGED <<size, running, known, page>>

-----------------------------------------------------------------------------
(* The page.                                                               *)

\* A request of another run, or one from an offset that another run's answer left.
Foreign(req, f) ==
  req.file # f \/ req.off > IF req.st = "sent" THEN size[f] ELSE req.size

\* The row's View button; it is a live view while the job list says so.  The
\* modal covers the rows, so the call comes while it does not show.
openRun(f, s) ==
  /\ ~runOpen /\ s \in OpenSlots /\ net[s] = Idle
  /\ runTimer' = FALSE /\ runLive' = FALSE
  /\ runFile' = f /\ runText' = << >> /\ runOffset' = 0 /\ runTruncated' = FALSE
  /\ wasLive' = (f \in known) /\ filled' = FALSE /\ overtaken' = FALSE
  /\ foreign' = \E t \in {"tick", "full"} : net[t] # Idle /\ Foreign(net[t], f)
  /\ Send(s, Request(f, NoOffset, f \in known))
  /\ UNCHANGED <<size, running, known, runOpen, leaked>>

\* What openRun does after its await, the fetch having failed or not.
Opened(s) ==
  /\ runOpen' = TRUE
  /\ runLive' = net[s].live
  /\ runTimer' = (runTimer \/ net[s].live)
  /\ leaked' = IF net[s].live /\ runTimer THEN 1 ELSE leaked
  /\ net' = [net EXCEPT ![s] = Idle]
  /\ UNCHANGED <<size, running, known, runFile, wasLive, overtaken, foreign>>

OpenAnswered(s) ==
  /\ s \in OpenSlots /\ net[s] # Idle /\ net[s].st = "done"
  /\ runText' = Lines(net[s]) /\ runOffset' = net[s].size /\ runTruncated' = net[s].cut
  /\ filled' = TRUE
  /\ Opened(s)

OpenFailed(s) ==
  /\ Failures
  /\ s \in OpenSlots /\ net[s] # Idle
  /\ Opened(s)
  /\ UNCHANGED <<runText, runOffset, runTruncated, filled>>

\* An interval fires; a tick in flight makes it a no-op.
Tick ==
  /\ runTimer \/ leaked > 0
  /\ ~runTailBusy /\ runFile # NoFile
  /\ Send("tick", Request(runFile, runOffset, FALSE))
  /\ UNCHANGED <<size, running, known, page>>

\* The end of tickRunTail: the tail stops once the job list shows no run.
TickDone ==
  /\ net' = [net EXCEPT !["tick"] = Idle]
  /\ runTimer' = (runTimer /\ runFile \in known)
  /\ runLive' = (runLive /\ runFile \in known)
  /\ UNCHANGED <<size, running, known, runFile, runTruncated, runOpen, leaked, wasLive, filled, overtaken, foreign>>

TickAnswered ==
  /\ runTailBusy /\ net["tick"].st = "done"
  /\ runText' = runText \o Lines(net["tick"])
  /\ runOffset' = net["tick"].size
  /\ TickDone

TickFailed == Failures /\ runTailBusy /\ TickDone /\ UNCHANGED <<runText, runOffset>>

\* "Load full log", offered while the view is truncated.
loadFullLog ==
  /\ runOpen /\ runTruncated /\ net["full"] = Idle
  /\ Send("full", Request(runFile, Full, FALSE))
  /\ UNCHANGED <<size, running, known, page>>

FullAnswered ==
  /\ net["full"] # Idle /\ net["full"].st = "done"
  /\ runText' = Lines(net["full"]) /\ runOffset' = net["full"].size /\ runTruncated' = FALSE
  /\ filled' = TRUE /\ overtaken' = (overtaken \/ runTailBusy)
  /\ net' = [net EXCEPT !["full"] = Idle]
  /\ UNCHANGED <<size, running, known, runFile, runOpen, runLive, runTimer, leaked, wasLive, foreign>>

FullFailed ==
  /\ Failures
  /\ net["full"] # Idle
  /\ net' = [net EXCEPT !["full"] = Idle]
  /\ UNCHANGED <<size, running, known, page>>

closeRun ==
  /\ runOpen
  /\ runOpen' = FALSE /\ runTimer' = FALSE /\ runLive' = FALSE
  /\ UNCHANGED <<size, running, known, net, runFile, runText, runOffset, runTruncated, leaked, wasLive, filled, overtaken, foreign>>

\* onLiveMessage: the live channel reports that a job stopped.  "If the
\* live-tailed run's job just stopped, do a final poll and stop."
JobStopped(f) ==
  /\ f \in known \ running
  /\ known' = known \ {f}
  /\ IF runLive /\ runFile = f /\ ~runTailBusy
     THEN Send("tick", Request(runFile, runOffset, FALSE))
     ELSE UNCHANGED net
  /\ UNCHANGED <<size, running, page>>

Next == \/ \E f \in Files : WriteLine(f) \/ Finish(f) \/ JobStopped(f)
                            \/ \E s \in OpenSlots : openRun(f, s)
        \/ \E s \in Slots : TakeSize(s) \/ ReadAll(s)
        \/ \E s \in OpenSlots : OpenAnswered(s) \/ OpenFailed(s)
        \/ Tick \/ TickAnswered \/ TickFailed
        \/ loadFullLog \/ FullAnswered \/ FullFailed
        \/ closeRun

Spec == Init /\ [][Next]_vars

-----------------------------------------------------------------------------
(* Properties.                                                             *)

\* Every variable has its type; at most one request is between its two reads of
\* the file.
TypeOK ==
  /\ size \in [Files -> 0..MaxLines]
  /\ running \subseteq known /\ known \subseteq Files
  /\ \A s \in Slots : net[s] = Idle \/
       net[s] \in [file : Files, off : Full..MaxLines, live : BOOLEAN, st : {"sent", "stat", "done"},
                  size : 0..MaxLines, from : 0..MaxLines, to : 0..MaxLines, cut : BOOLEAN]
  /\ \A s, t \in Slots : s # t => \E r \in {s, t} : net[r] = Idle \/ net[r].st # "stat"
  /\ runFile \in Files \cup {NoFile}
  /\ runText \in Seq(Files \X (1..MaxLines))
  /\ runOffset \in 0..MaxLines
  /\ runOpen => runFile \in Files
  /\ {runTruncated, runOpen, runLive, runTimer, wasLive, filled, overtaken, foreign} \subseteq BOOLEAN
  /\ leaked \in 0..1

\* The view holds every line between its first one and the offset the tail goes
\* on from.
Whole == \A i, j \in 1..MaxLines :
  <<runFile, i>> \in Range(runText) /\ i < j /\ j <= runOffset
    => <<runFile, j>> \in Range(runText)

\* The offset the tail goes on from is one the file has reached, and no line is
\* lost between the handler's two looks at a growing file, nor between the
\* answers of a tail, a reopened view, a full log and the ticks left over from
\* an earlier view of the run, as long as no full log overtakes a tick.
NoGap == ~foreign /\ runFile \in Files =>
           /\ runOffset <= size[runFile]
           /\ (filled /\ ~overtaken => Whole)

\* debian/changelog: "responses flag truncation".  A view that lacks the head
\* of the log says so, which is what offers "Load full log", unless an answer
\* of another run gets into the view.
MissingHeadIsFlagged ==
  filled /\ ~foreign /\ runOffset > 0 /\ ~runTruncated => <<runFile, 1>> \in Range(runText)

\* openRun: "Open a backup run's detail log": that run's and no other's.
ShowsTheRunOpened ==
  filled => \A l \in Range(runText) : l[1] = runFile

\* openRun: live-tail "until it finishes or the modal is closed".
TailEndsWithModal == ~runOpen => ~runTimer /\ leaked = 0

\* onLiveMessage: "If the live-tailed run's job just stopped, do a final poll
\* and stop."  A tail that stopped by itself shows the log to its end.
FinalPollShowsEnd ==
  runOpen /\ wasLive /\ filled /\ ~runLive /\ (\A s \in Slots : net[s] = Idle)
    => \A i \in 1..size[runFile] : <<runFile, i>> \in Range(runText)

\* loadFullLog: "Re-fetch the currently-open log in full".
FullLogIsWhole == filled => Whole
=============================================================================
