------------------------------ MODULE LiveStatus ------------------------------
(***************************************************************************)
(* The live job status of the dashboard: webserver/wshub.cpp, which pushes *)
(* every statusChanged of the backupManager to the connected browsers, and *)
(* the page of var/www/js/app.js and ws.js, which loads a snapshot of all  *)
(* jobs (GET /api/jobs), then follows the pushes while its socket is open  *)
(* and polls when it is not.  The answers of requests and the messages of  *)
(* the socket travel on different connections, so they overtake each other.*)
(*                                                                         *)
(* The manager lives in tiBackupLib: a backup starts, then ends finished   *)
(* or failed.  One page is modelled; its session can end at any moment     *)
(* (expiry, logout elsewhere, restart of the daemon).  The jobs themselves *)
(* do not change here (DiskMain models that).                              *)
(***************************************************************************)
EXTENDS Naturals, Sequences

CONSTANTS Jobs,
          Slots,       \* bound: requests for the job list in flight
          MaxWire      \* bound: messages of the socket in flight

ASSUME LiveStatusAssumption == MaxWire \in Nat

Status == {"standby", "running", "failed", "finished"}
Statuses == [Jobs -> Status]
NoJobs == [j \in {} |-> "standby"]

Message == [name : Jobs, status : Status]

Free == [state |-> "free", st |-> NoJobs]
Asked == [state |-> "asked", st |-> NoJobs]
Denied == [state |-> "denied", st |-> NoJobs]
Served(st) == [state |-> "served", st |-> st]
AskStates == {Free, Asked, Denied} \cup {Served(st) : st \in Statuses}

VARIABLES status,   \* backupManager: the status of each job
          session,  \* whether the page's session cookie is valid
          client,   \* WsHub: the page's socket is in m_clients
          wire,     \* jobStatus messages sent and not yet received
          sock,     \* liveSocket.sock: "closed", "connecting" or "open"
          view,     \* "login" or "app"
          page,     \* "dashboard" or another page
          polling,  \* pollTimer is set
          jobs,     \* the statuses the page shows, NoJobs before the first load
          asks      \* requests for the job list, by slot

hub == <<client, wire>>
shown == <<view, page, polling, jobs>>
vars == <<status, session, client, wire, sock, view, page, polling, jobs, asks>>

Init == /\ status \in [Jobs -> {"standby"}]
        /\ session = FALSE /\ client = FALSE /\ wire = << >>
        /\ sock = "closed" /\ view = "login" /\ page = "dashboard"
        /\ polling = FALSE /\ jobs = NoJobs
        /\ asks = [i \in Slots |-> Free]

-----------------------------------------------------------------------------
(* The daemon.                                                             *)

broadcast(msg) == wire' = IF client THEN Append(wire, msg) ELSE wire

\* statusChanged: the manager's new status, pushed to the clients.
StatusChanged(j, s) ==
  /\ IF status[j] = "running" THEN s \in {"finished", "failed"} ELSE s = "running"
  /\ status' = [status EXCEPT ![j] = s]
  /\ client => Len(wire) < MaxWire
  /\ broadcast([name |-> j, status |-> s])
  /\ UNCHANGED <<session, client, sock, shown, asks>>

\* The verifier lets the upgrade of a valid session pass.
acceptPending ==
  /\ session /\ sock = "connecting" /\ ~client
  /\ client' = TRUE
  /\ UNCHANGED <<status, session, wire, sock, shown, asks>>

\* A plausible bug: jobs the manager has not run yet are left out of the answer.
MutServeJobs(i) ==
  /\ asks[i] = Asked
  /\ LET ran == {j \in Jobs : status[j] # "standby"}
     IN asks' = [asks EXCEPT ![i] = IF session THEN Served([j \in ran |-> status[j]]) ELSE Denied]
  /\ UNCHANGED <<status, session, hub, sock, shown>>

\* GET /api/jobs answers the statuses of this moment.
ServeJobs(i) ==
  /\ asks[i] = Asked
  /\ asks' = [asks EXCEPT ![i] = IF session THEN Served(status) ELSE Denied]
  /\ UNCHANGED <<status, session, hub, sock, shown>>

SessionEnds ==
  /\ session
  /\ session' = FALSE
  /\ UNCHANGED <<status, hub, sock, shown, asks>>

-----------------------------------------------------------------------------
(* The page: its socket.                                                   *)

\* onopen: push takes over from polling.
Opened ==
  /\ sock = "connecting" /\ client
  /\ sock' = "open" /\ polling' = FALSE
  /\ UNCHANGED <<status, session, hub, view, page, jobs, asks>>

startPoll == polling' = (view = "app")

\* onclose: the upgrade was refused, a proxy does not let it through, or the
\* connection was lost.
Closed ==
  /\ sock # "closed"
  /\ sock' = "closed" /\ client' = FALSE /\ wire' = << >>
  /\ startPoll
  /\ UNCHANGED <<status, session, view, page, jobs, asks>>

onLiveMessage ==
  /\ sock = "open" /\ wire # << >>
  /\ wire' = Tail(wire)
  /\ LET msg == Head(wire) IN
       jobs' = IF msg.name \in DOMAIN jobs THEN [jobs EXCEPT ![msg.name] = msg.status]
                                           ELSE jobs
  /\ UNCHANGED <<status, session, client, sock, view, page, polling, asks>>

-----------------------------------------------------------------------------
(* The page: requests and navigation.                                      *)

FreeSlot(i) == asks[i] = Free /\ \A k \in Slots : asks[k] = Free => i <= k

loadDashboard == \E i \in Slots : FreeSlot(i) /\ asks' = [asks EXCEPT ![i] = Asked]

\* connectLive, then go("dashboard").
enterApp ==
  /\ view' = "app" /\ page' = "dashboard"
  /\ sock' = "connecting" /\ client' = FALSE /\ wire' = << >>
  /\ loadDashboard

doLogin ==
  /\ view = "login"
  /\ session' = TRUE
  /\ enterApp
  /\ UNCHANGED <<status, polling, jobs>>

go(p) ==
  /\ view = "app"
  /\ page' = p
  /\ IF p = "dashboard" THEN loadDashboard ELSE UNCHANGED asks
  /\ UNCHANGED <<status, session, hub, sock, view, polling, jobs>>

\* A plausible bug: an interval that polls on the log page instead.
MutPollTick ==
  /\ polling /\ page # "dashboard"
  /\ loadDashboard
  /\ UNCHANGED <<status, session, hub, sock, shown>>

\* The interval of startPoll.
PollTick ==
  /\ polling /\ page = "dashboard"
  /\ loadDashboard
  /\ UNCHANGED <<status, session, hub, sock, shown>>

\* A plausible bug: a logout that leaves the interval running.
MutLeaveApp ==
  /\ UNCHANGED polling
  /\ sock' = "closed" /\ client' = FALSE /\ wire' = << >>
  /\ view' = "login"

\* The handler of "unauthorized" (and the end of doLogout); liveSocket.close
\* drops the onclose of the socket it closes.
LeaveApp ==
  /\ polling' = FALSE
  /\ sock' = "closed" /\ client' = FALSE /\ wire' = << >>
  /\ view' = "login"

doLogout ==
  /\ view = "app"
  /\ session' = FALSE
  /\ LeaveApp
  /\ UNCHANGED <<status, page, jobs, asks>>

JobsArrive(i) ==
  /\ asks[i].state = "served"
  /\ jobs' = asks[i].st
  /\ asks' = [asks EXCEPT ![i] = Free]
  /\ UNCHANGED <<status, session, hub, sock, view, page, polling>>

DenialArrives(i) ==
  /\ asks[i].state = "denied"
  /\ asks' = [asks EXCEPT ![i] = Free]
  /\ LeaveApp
  /\ UNCHANGED <<status, session, page, jobs>>

AskFails(i) ==
  /\ asks[i] # Free
  /\ asks' = [asks EXCEPT ![i] = Free]
  /\ UNCHANGED <<status, session, hub, sock, shown>>

Next == \/ \E j \in Jobs, s \in Status : StatusChanged(j, s)
        \/ \E i \in Slots : ServeJobs(i) \/ JobsArrive(i) \/ DenialArrives(i) \/ AskFails(i)
        \/ acceptPending \/ SessionEnds
        \/ Opened \/ Closed \/ onLiveMessage
        \/ doLogin \/ doLogout \/ PollTick
        \/ \E p \in {"dashboard", "logs"} : go(p)

Spec == Init /\ [][Next]_vars

\* What the daemon and the browser do by themselves, on a network that does not
\* lose every request or every answer; the user, a backup and the end of a
\* session are never forced.
Fairness == /\ WF_vars(PollTick)
            /\ \A i \in Slots : /\ SF_vars(ServeJobs(i))
                                /\ SF_vars(JobsArrive(i) \/ DenialArrives(i))

FairSpec == Spec /\ Fairness

-----------------------------------------------------------------------------
(* Properties.                                                             *)

\* Types of the daemon's, the hub's and the page's state; the statuses shown
\* are those of all jobs or none.
TypeOK ==
  /\ status \in Statuses
  /\ session \in BOOLEAN /\ client \in BOOLEAN /\ polling \in BOOLEAN
  /\ wire \in Seq(Message)
  /\ sock \in {"closed", "connecting", "open"}
  /\ view \in {"login", "app"} /\ page \in {"dashboard", "logs"}
  /\ jobs \in Statuses \cup {NoJobs}
  /\ asks \in [Slots -> AskStates]

\* ws.js: "reports open/close so the app can switch between live push and
\* polling".  In the app the page has exactly one of the two, outside it none,
\* whatever the order in which sockets open and close, sessions end and the
\* user logs in again; and the hub never keeps a client the page has left.
OneChannel ==
  /\ (view = "app") <=> (polling \/ sock # "closed")
  /\ ~(polling /\ sock # "closed")
  /\ client => sock # "closed"

\* Polling alone is enough: a page that stays on the dashboard without a socket
\* ends up showing the statuses of the manager once they no longer change, although
\* answers of several polls are in flight, arrive in any order and get lost.
PollingConverges ==
  (<>[][UNCHANGED status]_vars /\ <>[](polling /\ page = "dashboard")) => <>[](jobs = status)

\* "live job status streams to the browser over a WebSocket": a connected
\* dashboard with nothing left to receive shows the statuses of the manager.
PushedStatusIsCurrent ==
  (sock = "open" /\ wire = << >> /\ jobs # NoJobs /\ \A i \in Slots : asks[i] = Free)
     => jobs = status

=============================================================================
