------------------------------ MODULE PageProofs ------------------------------
(***************************************************************************)
(* Proofs about two parts of the page that share no state: LiveStatus (its *)
(* types, and that the page always has exactly one channel for the status  *)
(* of the jobs) and MountPanel with its picker (types; that the panel is   *)
(* of its partition; where a chosen destination lies, and which folder is  *)
(* picked once one was made).  Nothing is assumed of when the user clicks. *)
(***************************************************************************)
EXTENDS LiveStatus, MountPanel, SequenceTheorems, TLAPS

-----------------------------------------------------------------------------
(* LiveStatus.                                                             *)

\* A message appended to, or taken from, the socket leaves a sequence of messages.
LEMMA WireTyped ==
  ASSUME NEW T, NEW q \in Seq(T), NEW e \in T
  PROVE  Append(q, e) \in Seq(T) /\ (q # << >> => Head(q) \in T /\ Tail(q) \in Seq(T))
  OBVIOUS

\* A served answer holds the statuses of all jobs.
LEMMA ServedTyped ==
  ASSUME NEW a \in AskStates, a.state = "served"
  PROVE  a.st \in Statuses
  BY DEF AskStates, Free, Asked, Denied, Served

\* A request takes a slot and leaves the others.
LEMMA AskTyped ==
  ASSUME asks \in [Slots -> AskStates], loadDashboard
  PROVE  asks' \in [Slots -> AskStates]
<1>1. Asked \in AskStates
  BY DEF AskStates
<1> QED BY <1>1 DEF loadDashboard

\* Every step keeps the types.
LEMMA TypeStep == TypeOK /\ [Next]_vars => TypeOK'
<1> SUFFICES ASSUME TypeOK, [Next]_vars
             PROVE  TypeOK'
  OBVIOUS
<1> USE DEF TypeOK, hub, shown
<1>0. Free \in AskStates /\ Denied \in AskStates /\ << >> \in Seq(Message)
  BY DEF AskStates
<1>1. ASSUME NEW j \in Jobs, NEW s \in Status, StatusChanged(j, s)
      PROVE  TypeOK'
  <2> DEFINE msg == [name |-> j, status |-> s]
  <2>1. msg \in Message
    BY DEF Message
  <2>2. Append(wire, msg) \in Seq(Message)
    BY <2>1, WireTyped
  <2>3. wire' \in Seq(Message)
    BY <1>1, <2>2 DEF StatusChanged, broadcast
  <2>4. status' \in Statuses
    BY <1>1 DEF StatusChanged, Statuses
  <2> QED BY <1>1, <2>3, <2>4 DEF StatusChanged
<1>2. ASSUME NEW i \in Slots, ServeJobs(i)
      PROVE  TypeOK'
  <2>1. (IF session THEN Served(status) ELSE Denied) \in AskStates
    BY <1>0 DEF AskStates
  <2>2. asks' \in [Slots -> AskStates]
    BY <1>2, <2>1 DEF ServeJobs
  <2> QED BY <1>2, <2>2 DEF ServeJobs
<1>3. ASSUME NEW i \in Slots, JobsArrive(i)
      PROVE  TypeOK'
  <2>1. jobs' \in Statuses
    BY <1>3, ServedTyped DEF JobsArrive
  <2> QED BY <1>0, <1>3, <2>1 DEF JobsArrive
<1>4. ASSUME NEW i \in Slots, DenialArrives(i) \/ AskFails(i)
      PROVE  TypeOK'
  <2>1. asks' \in [Slots -> AskStates]
    BY <1>0, <1>4 DEF DenialArrives, AskFails
  <2> QED BY <1>0, <1>4, <2>1 DEF DenialArrives, AskFails, LeaveApp
<1>5. CASE acceptPending \/ SessionEnds \/ Opened \/ Closed \/ doLogout
  BY <1>0, <1>5 DEF acceptPending, SessionEnds, Opened, Closed, startPoll, doLogout, LeaveApp
<1>6. CASE onLiveMessage
  <2>1. /\ Head(wire) \in Message
        /\ wire' \in Seq(Message)
    BY <1>6, WireTyped DEF onLiveMessage
  <2>2. Head(wire).status \in Status
    BY <2>1 DEF Message
  <2>3. jobs' \in Statuses \cup {NoJobs}
    <3>1. CASE jobs \in Statuses
      BY <1>6, <2>2, <3>1 DEF onLiveMessage, Statuses
    <3>2. CASE jobs = NoJobs
      BY <1>6, <3>2 DEF onLiveMessage, NoJobs
    <3> QED BY <3>1, <3>2
  <2> QED BY <1>6, <2>1, <2>3 DEF onLiveMessage
<1>7. CASE doLogin
  BY <1>0, <1>7, AskTyped DEF doLogin, enterApp
<1>8. CASE PollTick
  BY <1>8, AskTyped DEF PollTick
<1>9. ASSUME NEW p \in {"dashboard", "logs"}, go(p)
      PROVE  TypeOK'
  <2>1. asks' \in [Slots -> AskStates]
    BY <1>9, AskTyped DEF go
  <2> QED BY <1>9, <2>1 DEF go
<1>10. CASE UNCHANGED vars
  BY <1>10 DEF vars
<1> QED BY <1>1, <1>2, <1>3, <1>4, <1>5, <1>6, <1>7, <1>8, <1>9, <1>10 DEF Next

\* Type correctness for every set of jobs, slots and bound.
THEOREM TypeCorrect == Spec => []TypeOK
<1>1. Init => TypeOK
  <2> SUFFICES ASSUME Init
               PROVE  TypeOK
    OBVIOUS
  <2>1. status \in Statuses
    BY DEF Init, Statuses, Status
  <2>2. Free \in AskStates
    BY DEF AskStates
  <2>3. asks \in [Slots -> AskStates]
    BY <2>2 DEF Init
  <2>4. wire \in Seq(Message)
    BY DEF Init
  <2> QED BY <2>1, <2>3, <2>4 DEF Init, TypeOK
<1> QED BY <1>1, TypeStep, PTL DEF Spec

\* No step leaves the page with two channels or none: OneChannel is inductive.
LEMMA ChannelStep == OneChannel /\ [Next]_vars => OneChannel'
<1> SUFFICES ASSUME OneChannel, [Next]_vars
             PROVE  OneChannel'
  OBVIOUS
<1> USE DEF OneChannel, hub, shown
<1>1. ASSUME NEW j \in Jobs, NEW s \in Status, StatusChanged(j, s)
      PROVE  OneChannel'
  BY <1>1 DEF StatusChanged
<1>2. ASSUME NEW i \in Slots, ServeJobs(i) \/ JobsArrive(i) \/ AskFails(i)
      PROVE  OneChannel'
  BY <1>2 DEF ServeJobs, JobsArrive, AskFails
<1>3. ASSUME NEW i \in Slots, DenialArrives(i)
      PROVE  OneChannel'
  BY <1>3 DEF DenialArrives, LeaveApp
<1>4. CASE acceptPending \/ SessionEnds \/ onLiveMessage \/ PollTick
  BY <1>4 DEF acceptPending, SessionEnds, onLiveMessage, PollTick
<1>5. CASE Opened
  BY <1>5 DEF Opened
<1>6. CASE Closed
  BY <1>6 DEF Closed, startPoll
<1>7. CASE doLogin
  BY <1>7 DEF doLogin, enterApp
<1>8. CASE doLogout
  BY <1>8 DEF doLogout, LeaveApp
<1>9. ASSUME NEW p \in {"dashboard", "logs"}, go(p)
      PROVE  OneChannel'
  BY <1>9 DEF go
<1>10. CASE UNCHANGED vars
  BY <1>10 DEF vars
<1> QED BY <1>1, <1>2, <1>3, <1>4, <1>5, <1>6, <1>7, <1>8, <1>9, <1>10 DEF Next

\* The page has exactly one of push and polling in the app, none outside it, and
\* the hub keeps no client the page has left.
THEOREM OneChannelAlways == Spec => []OneChannel
<1>1. Init => OneChannel
  BY DEF Init, OneChannel
<1> QED BY <1>1, ChannelStep, PTL DEF Spec

-----------------------------------------------------------------------------
(* MountPanel: the inductive invariant.                                    *)

BusyKinds == {"last", "mount", "umount"}
InfoKinds == {"info", "last"}
PanelKinds == {"job", "info", "last", "mount", "umount"}
PickerKinds == {"browse", "mkdir", "create"}

\* The chain of requests that keeps the panel's buttons disabled is one.
ChainInv == \A c, d \in calls : c.kind \in BusyKinds /\ d.kind \in BusyKinds => c = d

TypeInv == PanelTypeOK /\ ChainInv

\* A folder lies in a folder.
TreeInv == \A r \in Disks : \A f \in folders[r] : f # << >> => Front(f) \in folders[r]

\* Unless refreshes raced, those awaited are for the partition selected, and
\* with none awaited the panel tells of it.
RacedInv == ~raced =>
  /\ \A c \in calls : c.kind \in InfoKinds => c.part = partition_uuid
  /\ PanelIsOfPartition

\* While the picker's partition is where the panel says, what it shows lies
\* under that mount point, and the listings awaited are of that partition.
UnderInv == known =>
  /\ picker.open /\ Known
  /\ picker.path # NoPath => picker.path.root = editorMountDir
  /\ \A c \in calls : c.kind = "browse" => c.root = picker.root

\* What the primary button picks after a listing of path that selects name.
Picked(path, name) == IF name \in Entries(path) THEN Below(path, name) ELSE path

\* The request of a "New folder" that was not disturbed leads to the folder.
Makes(c) ==
  /\ c.root = picker.root
  /\ c.kind = "mkdir" => c.path = picker.path
  /\ c.kind = "create" => /\ c.path \in Path /\ c.path = Target(picker.root, picker.path)
                          /\ made = Below(c.path, c.name)
  /\ c.kind = "browse" => c.path = picker.path /\ Picked(Target(c.root, c.path), c.name) = made

MadeInv == made # NoPath =>
  /\ \A c, d \in calls : Named(c) /\ Named(d) => c = d
  /\ \A c \in calls : Named(c) => Makes(c)

PanelInv == TypeInv /\ TreeInv /\ RacedInv /\ UnderInv /\ MadeInv

-----------------------------------------------------------------------------
(* Paths and calls.                                                        *)

LEMMA NoPathIsNone == \A p \in Path : p # NoPath
  BY PickerAssumption

LEMMA TopIsPath ==
  ASSUME NEW r \in Places
  PROVE  Top(r) \in Path /\ Top(r).root = r /\ Top(r).rel = << >>
  BY DEF Top, Path

\* A folder below another: one name longer, and that other is where it lies.
LEMMA BelowIs ==
  ASSUME NEW f \in Path, NEW n \in Names
  PROVE  /\ Below(f, n) = [root |-> f.root, rel |-> Append(f.rel, n)]
         /\ [f EXCEPT !.rel = Append(@, n)] = Below(f, n)
         /\ Below(f, n) \in Path
         /\ Append(f.rel, n) # << >> /\ Append(f.rel, n) # f.rel
         /\ Front(Append(f.rel, n)) = f.rel
<1>1. f.rel \in Seq(Names) /\ f.root \in Places /\ f # NoPath
  BY NoPathIsNone DEF Path
<1>2. Below(f, n) = [root |-> f.root, rel |-> Append(f.rel, n)] /\ [f EXCEPT !.rel = Append(@, n)] = Below(f, n)
  BY <1>1 DEF Below, Path
<1>3. /\ Append(f.rel, n) \in Seq(Names) /\ Append(f.rel, n) # << >>
      /\ Len(f.rel) \in Nat /\ Len(Append(f.rel, n)) = Len(f.rel) + 1
  BY <1>1
<1>4. Front(Append(f.rel, n)) = f.rel
  BY <1>1, <1>3 DEF Front
<1>5. Append(f.rel, n) # f.rel
  BY <1>3
<1> QED BY <1>1, <1>2, <1>3, <1>4, <1>5 DEF Path

LEMMA BelowIsPath ==
  ASSUME NEW f \in Path \cup {NoPath}, NEW n \in Names
  PROVE  Below(f, n) \in Path
<1>1. CASE f \in Path
  BY <1>1, BelowIs
<1>2. CASE f = NoPath
  <2>1. <<n>> \in Seq(Names)
    OBVIOUS
  <2> QED BY <1>2, <2>1 DEF Below, Path, Places
<1> QED BY <1>1, <1>2

\* A folder's parent.
LEMMA FrontIs ==
  ASSUME NEW f \in Seq(Names), f # << >>
  PROVE  Front(f) \in Seq(Names) /\ Len(f) \in Nat \ {0} /\ Len(Front(f)) = Len(f) - 1
<1>1. Len(f) \in Nat \ {0}
  OBVIOUS
<1>2. Front(f) \in Seq(Names) /\ Len(Front(f)) = Len(f) - 1
  <2> DEFINE n == Len(f) - 1
  <2>1. 1 \in Int /\ n \in Nat /\ n \in Int /\ \A i \in 1 .. n : f[i] \in Names
    BY <1>1
  <2>2. /\ SubSeq(f, 1, n) \in Seq(Names)
        /\ Len(SubSeq(f, 1, n)) = IF 1 <= n THEN n - 1 + 1 ELSE 0
    <3> HIDE DEF n
    <3> QED BY <2>1, SubSeqProperties
  <2>3. Len(SubSeq(f, 1, n)) = n
    <3>1. \A k \in Nat : (IF 1 <= k THEN k - 1 + 1 ELSE 0) = k
      OBVIOUS
    <3> HIDE DEF n
    <3> QED BY <2>1, <2>2, <3>1
  <2> QED BY <2>2, <2>3 DEF Front
<1> QED BY <1>1, <1>2

\* What lies below a folder's parent lies below it.
LEMMA PrefixOfFront ==
  ASSUME NEW a \in Seq(Names), NEW f \in Seq(Names), f # << >>, IsPrefix(a, Front(f))
  PROVE  IsPrefix(a, f)
<1>1. Len(f) \in Nat \ {0} /\ Len(a) \in Nat
  BY FrontIs
<1>2. Front(f) \in Seq(Names) /\ Len(Front(f)) = Len(f) - 1
  BY FrontIs
<1>3. Len(a) <= Len(f) - 1
  BY <1>2 DEF IsPrefix
<1>4. SubSeq(Front(f), 1, Len(a)) = SubSeq(f, 1, Len(a))
  BY <1>1, <1>2, <1>3, SubSeqOfSubSeq DEF Front
<1> QED BY <1>1, <1>2, <1>3, <1>4 DEF IsPrefix


\* Every kind of request comes with its fields.
LEMMA CallsAre ==
  ASSUME PanelTypeOK, NEW c \in calls
  PROVE  /\ c.kind \in PickerKinds \cup PanelKinds
         /\ c.kind \in PanelKinds => c \in PanelCall /\ c.part \in Parts
         /\ c.kind \in PickerKinds =>
              /\ c \in PickerCall /\ c.root \in Roots
              /\ c.path \in Path \cup {NoPath} /\ c.name \in Names \cup {NoName}
              /\ c.kind # "browse" => c.name \in Names
  BY DEF PanelTypeOK, PanelCall, PickerCall, PickerKinds, PanelKinds

\* What TypeInv says of the calls in flight.
CallsOK ==
  /\ \A c \in calls : c \in PanelCall \/ c \in PickerCall
  /\ mountBusy = \E c \in calls : c.kind \in BusyKinds
  /\ \A c, d \in calls : c.kind \in BusyKinds /\ d.kind \in BusyKinds => c = d

\* A request is sent that does not keep the buttons disabled.
LEMMA RefreshSent ==
  ASSUME CallsOK, NEW p \in Parts, NEW k \in {"job", "info"}, Asks([kind |-> k, part |-> p]), mountBusy' = mountBusy
  PROVE  CallsOK'
<1> DEFINE c == [kind |-> k, part |-> p]
<1>1. c \in PanelCall /\ c.kind \notin BusyKinds
  BY DEF PanelCall, BusyKinds
<1>2. calls' = calls \cup {c}
  BY DEF Asks
<1> HIDE DEF c
<1> QED BY <1>1, <1>2 DEF CallsOK

LEMMA PickerCallSent ==
  ASSUME CallsOK, NEW c \in PickerCall, Asks(c), mountBusy' = mountBusy
  PROVE  CallsOK'
<1>1. c.kind \notin BusyKinds
  BY DEF PickerCall, BusyKinds
<1> QED BY <1>1 DEF CallsOK, Asks

\* The picker's request is answered, and another one may follow.
LEMMA CallSwapped ==
  ASSUME CallsOK, NEW c \in calls, c.kind \in PickerKinds, NEW next, \A d \in next : d \in PickerCall,
         Answered(c, next), mountBusy' = mountBusy
  PROVE  CallsOK'
<1>1. \A d \in next : d.kind \notin BusyKinds
  BY DEF PickerCall, BusyKinds
<1>2. c.kind \notin BusyKinds
  BY DEF PickerKinds, BusyKinds
<1> QED BY <1>1, <1>2 DEF CallsOK, Answered

\* The panel's request is answered; the refresh behind it asks once more.
LEMMA CallRefreshes ==
  ASSUME CallsOK, PanelTypeOK, NEW c \in calls, c.kind \in {"mount", "umount"}, LastRefresh(c)
  PROVE  /\ CallsOK'
         /\ partInfo' \in Info /\ editorMountDir' \in Dirs \cup {NoDir}
<1>1. c.kind \in BusyKinds
  BY DEF BusyKinds
<1>2. \A d \in calls \ {c} : d.kind \notin BusyKinds
  BY <1>1 DEF CallsOK
<1>3. CASE partition_uuid = NoPart
  <2>1. Null /\ mountBusy' = FALSE /\ calls' = calls \ {c}
    BY <1>3 DEF LastRefresh, Refresh
  <2>2. CallsOK'
    BY <1>2, <2>1 DEF CallsOK
  <2> QED BY <2>1, <2>2 DEF Null, Info
<1>4. CASE partition_uuid # NoPart
  <2> DEFINE last == [kind |-> "last", part |-> partition_uuid]
  <2>1. /\ calls' = (calls \ {c}) \cup {last}
        /\ mountBusy' = TRUE
        /\ UNCHANGED <<partInfo, editorMountDir>>
    BY <1>4 DEF LastRefresh, Refresh
  <2>2. last \in PanelCall /\ last.kind \in BusyKinds
    BY <1>4 DEF PanelTypeOK, PanelCall, BusyKinds
  <2>3. CallsOK'
    BY <1>2, <2>1, <2>2 DEF CallsOK
  <2> QED BY <2>1, <2>3 DEF PanelTypeOK
<1> QED BY <1>3, <1>4

-----------------------------------------------------------------------------
(* Types.                                                                  *)

\* The rest of what TypeInv says.
StateOK ==
  /\ mounted \in Mounts
  /\ partition_uuid \in Parts \cup {NoPart} /\ partInfo \in Info /\ editorMountDir \in Dirs \cup {NoDir}
  /\ folders \in [Disks -> SUBSET Seq(Names)] /\ \A r \in Disks : << >> \in folders[r]
  /\ picker \in Picker
  /\ made \in Path \cup {NoPath}

HistoryOK == raced \in BOOLEAN /\ known \in BOOLEAN

LEMMA TypeInvIs == TypeInv <=> CallsOK /\ StateOK /\ HistoryOK
<1> USE DEF BusyKinds
<1>1. ASSUME TypeInv PROVE CallsOK /\ StateOK /\ HistoryOK
  BY <1>1, Zenon DEF TypeInv, PanelTypeOK, ChainInv, CallsOK, StateOK, HistoryOK
<1>2. ASSUME CallsOK, StateOK, HistoryOK PROVE TypeInv
  <2>1. PanelTypeOK
    BY <1>2, Zenon DEF PanelTypeOK, CallsOK, StateOK, HistoryOK
  <2>2. ChainInv
    BY <1>2, Zenon DEF ChainInv, CallsOK
  <2> QED BY <2>1, <2>2 DEF TypeInv
<1> QED BY <1>1, <1>2

\* Where a root lies, and that no two disks in use lie at one place.
LEMMA BaseIs ==
  ASSUME StateOK
  PROVE  /\ \A r \in Roots : Base(r) \in Places \cup {NoDir}
         /\ \A r \in Roots : Browsable(r) => Base(r) \in Places
         /\ \A r, s \in Disks : Base(r) = Base(s) => r = s \/ Base(r) = NoDir
<1>1. /\ mounted \in [Parts -> Dirs \cup {NoDir}]
      /\ \A p, q \in Parts : mounted[p] = mounted[q] => p = q \/ mounted[p] = NoDir
  BY DEF StateOK, Mounts
<1>2. /\ Host \notin Parts /\ Host # NoDir /\ Host \notin Dirs /\ NoDir \notin Dirs
  BY PickerAssumption
<1> QED BY <1>1, <1>2 DEF Base, Browsable, Roots, Disks, Places

LEMMA TargetIsPath ==
  ASSUME StateOK, NEW r \in Roots, Browsable(r), NEW p \in Path \cup {NoPath}
  PROVE  Target(r, p) \in Path
<1>1. Top(Base(r)) \in Path
  BY BaseIs, TopIsPath
<1> QED BY <1>1 DEF Target, Exists

\* A mount or an unmount leaves partitions at places of their own.
LEMMA MountsKept ==
  ASSUME StateOK, NEW p \in Parts, NEW d, d = NoDir \/ d \in FreeDirs \/ d = mounted[p], MountedAt(p, d)
  PROVE  mounted' \in Mounts /\ made' = NoPath /\ UNCHANGED <<folders, picker>>
<1>1. mounted' \in [Parts -> Dirs \cup {NoDir}]
  BY DEF MountedAt, StateOK, Mounts, FreeDirs
<1>2. \A q \in Parts : q # p => mounted'[q] = mounted[q]
  BY DEF MountedAt, StateOK, Mounts
<1>3. mounted'[p] = d
  BY DEF MountedAt, StateOK, Mounts
<1>4. \A q, s \in Parts : mounted[q] = mounted[s] => q = s \/ mounted[q] = NoDir
  BY DEF StateOK, Mounts
<1>5. \A q, s \in Parts : mounted'[q] = mounted'[s] => q = s \/ mounted'[q] = NoDir
  BY <1>2, <1>3, <1>4 DEF FreeDirs
<1> QED BY <1>1, <1>5 DEF Mounts, MountedAt

LEMMA PanelTypeInit == PanelInit => TypeInv
<1> SUFFICES ASSUME PanelInit PROVE CallsOK /\ StateOK /\ HistoryOK
  BY TypeInvIs
<1>1. picker \in Picker
  BY DEF PanelInit, PickerInit, Picker, Roots
<1>2. CallsOK /\ HistoryOK
  BY DEF PanelInit, PickerInit, CallsOK, HistoryOK
<1>3. folders \in [Disks -> SUBSET Seq(Names)] /\ \A r \in Disks : << >> \in folders[r]
  BY DEF PanelInit, PickerInit
<1> QED BY <1>1, <1>2, <1>3 DEF PanelInit, PickerInit, StateOK, Info, NoInfo

LEMMA PanelTypeStep ==
  ASSUME TypeInv,
         \/ newJob \/ onDeviceChange \/ mountForBrowse \/ umountForBrowse
         \/ \E p \in Parts : editJob(p) \/ onPartitionChange(p) \/ OthersMount(p)
         \/ \E c \in calls : PartitionApplied(c) \/ InfoAnswered(c) \/ MountAnswered(c) \/ MountFails(c) \/ UmountAnswered(c)
  PROVE  CallsOK' /\ StateOK'
<1>0. CallsOK /\ StateOK /\ PanelTypeOK
  BY TypeInvIs DEF TypeInv
<1> USE <1>0 DEF panel, pickerVars
<1>1. CASE newJob \/ onDeviceChange
  BY <1>1 DEF newJob, onDeviceChange, Null, CallsOK, StateOK, Info
<1>2. ASSUME NEW p \in Parts, editJob(p)
      PROVE  CallsOK' /\ StateOK'
  <2>1. CallsOK'
    BY <1>2, RefreshSent DEF editJob
  <2> QED BY <1>2, <2>1 DEF editJob, Null, StateOK, Info
<1>3. ASSUME NEW p \in Parts, onPartitionChange(p)
      PROVE  CallsOK' /\ StateOK'
  <2>1. CallsOK'
    BY <1>3, RefreshSent DEF onPartitionChange
  <2> QED BY <1>3, <2>1 DEF onPartitionChange, StateOK
<1>4. ASSUME NEW p \in Parts, OthersMount(p)
      PROVE  CallsOK' /\ StateOK'
  <2>1. PICK d : (d = NoDir \/ d \in FreeDirs) /\ MountedAt(p, d)
    BY <1>4 DEF OthersMount
  <2>2. mounted' \in Mounts /\ made' = NoPath /\ UNCHANGED <<folders, picker>>
    BY <2>1, MountsKept
  <2> QED BY <1>4, <2>2 DEF OthersMount, CallsOK, StateOK
<1>5. CASE mountForBrowse \/ umountForBrowse
  <2>1. PICK kind \in {"mount", "umount"}, shows \in BOOLEAN : Ask(kind, shows)
    BY <1>5 DEF mountForBrowse, umountForBrowse
  <2> DEFINE c == [kind |-> kind, part |-> partition_uuid]
  <2>2. c \in PanelCall /\ c.kind \in BusyKinds
    BY <2>1 DEF Ask, StateOK, PanelCall, BusyKinds
  <2>3. \A d \in calls : d.kind \notin BusyKinds
    BY <2>1 DEF Ask, CallsOK
  <2>4. calls' = calls \cup {c} /\ mountBusy' = TRUE
    BY <2>1 DEF Ask, Asks
  <2>5. CallsOK'
    <3> HIDE DEF c
    <3> QED BY <2>2, <2>3, <2>4 DEF CallsOK
  <2> QED BY <2>1, <2>5 DEF Ask, StateOK
<1>6. ASSUME NEW c \in calls, InfoAnswered(c)
      PROVE  CallsOK' /\ StateOK'
  <2>1. c.part \in Parts
    BY <1>6, CallsAre DEF InfoAnswered, PanelKinds
  <2>2. partInfo' \in Info /\ editorMountDir' \in Dirs \cup {NoDir}
    <3>1. CASE SetInfo(PartitionInfo(c.part))
      <4>1. mounted[c.part] \in Dirs \cup {NoDir}
        BY <2>1 DEF StateOK, Mounts
      <4> QED BY <2>1, <3>1, <4>1 DEF SetInfo, PartitionInfo, Info
    <3>2. CASE SetInfo(NoInfo)
      BY <3>2 DEF SetInfo, NoInfo, Info
    <3> QED BY <1>6, <3>1, <3>2 DEF InfoAnswered
  <2>3. CallsOK'
    <3>1. calls' = calls \ {c} /\ mountBusy' = (mountBusy /\ c.kind = "info")
      BY <1>6 DEF InfoAnswered
    <3>2. CASE c.kind = "info"
      <4>1. c.kind \notin BusyKinds
        BY <3>2 DEF BusyKinds
      <4>2. mountBusy' = mountBusy
        BY <3>1, <3>2 DEF CallsOK
      <4> QED BY <3>1, <4>1, <4>2 DEF CallsOK
    <3>3. CASE c.kind = "last"
      <4>1. c.kind \in BusyKinds /\ mountBusy' = FALSE
        BY <3>1, <3>3 DEF BusyKinds
      <4> QED BY <3>1, <4>1 DEF CallsOK
    <3> QED BY <1>6, <3>2, <3>3 DEF InfoAnswered
  <2> QED BY <1>6, <2>2, <2>3 DEF InfoAnswered, StateOK
<1>7. ASSUME NEW c \in calls, MountAnswered(c) \/ UmountAnswered(c)
      PROVE  CallsOK' /\ StateOK'
  <2>1. c.kind \in {"mount", "umount"} /\ LastRefresh(c)
    BY <1>7 DEF MountAnswered, UmountAnswered
  <2>2. c.part \in Parts
    BY <2>1, CallsAre DEF PanelKinds
  <2>3. CallsOK' /\ partInfo' \in Info /\ editorMountDir' \in Dirs \cup {NoDir}
    BY <2>1, CallRefreshes
  <2>4. mounted' \in Mounts /\ made' \in {made, NoPath} /\ UNCHANGED <<folders, picker>>
    <3>1. CASE UNCHANGED <<mounted, pickerVars>>
      BY <3>1 DEF StateOK
    <3>2. CASE ~UNCHANGED <<mounted, pickerVars>>
      <4>1. PICK d : (d = NoDir \/ d \in FreeDirs \/ d = mounted[c.part]) /\ MountedAt(c.part, d)
        BY <1>7, <3>2 DEF MountAnswered, UmountAnswered
      <4> QED BY <2>2, <4>1, MountsKept
    <3> QED BY <3>1, <3>2
  <2> QED BY <1>7, <2>3, <2>4 DEF MountAnswered, UmountAnswered, StateOK
<1>8. ASSUME NEW c \in calls, MountFails(c)
      PROVE  CallsOK' /\ StateOK'
  <2>1. c.kind \in BusyKinds /\ calls' = calls \ {c} /\ mountBusy' = FALSE
    BY <1>8 DEF MountFails, BusyKinds
  <2>2. CallsOK'
    BY <2>1 DEF CallsOK
  <2> QED BY <1>8, <2>2 DEF MountFails, StateOK
<1>9. ASSUME NEW c \in calls, PartitionApplied(c)
      PROVE  CallsOK' /\ StateOK'
  <2>1. c.kind = "job" /\ c.part \in Parts /\ c.part # NoPart
    BY <1>9, CallsAre, PickerAssumption DEF PartitionApplied, PanelKinds
  <2> DEFINE d == [kind |-> "info", part |-> c.part]
  <2>2. d \in PanelCall /\ d.kind \notin BusyKinds /\ c.kind \notin BusyKinds
    BY <2>1 DEF PanelCall, BusyKinds
  <2>3. calls' = (calls \ {c}) \cup {d} /\ UNCHANGED <<partInfo, editorMountDir>>
    BY <1>9, <2>1 DEF PartitionApplied, Refresh
  <2>4. CallsOK'
    <3> HIDE DEF d
    <3>1. mountBusy' = mountBusy
      BY <1>9 DEF PartitionApplied
    <3> QED BY <2>2, <2>3, <3>1 DEF CallsOK
  <2> QED BY <1>9, <2>1, <2>3, <2>4 DEF PartitionApplied, StateOK
<1> QED BY <1>1, <1>2, <1>3, <1>4, <1>5, <1>6, <1>7, <1>8, <1>9

LEMMA PickerTypeStep ==
  ASSUME TypeInv, PickerAction \/ \E r \in Disks : OthersChange(r), UNCHANGED panel
  PROVE  CallsOK' /\ StateOK'
<1>0. CallsOK /\ StateOK
  BY TypeInvIs
<1> USE <1>0 DEF panel, pickerVars
<1>2. /\ picker \in Picker /\ picker.root \in Roots /\ picker.path \in Path \cup {NoPath}
      /\ picker.base \in Path \cup {NoPath} /\ picker.entries \subseteq Names
  BY DEF StateOK, Picker
<1>3. ASSUME NEW p \in Path \cup {NoPath}, Goes(p)
      PROVE  CallsOK' /\ StateOK'
  <2> DEFINE c == [kind |-> "browse", root |-> picker.root, path |-> p, name |-> NoName]
  <2>1. c \in PickerCall
    BY <1>2, <1>3 DEF PickerCall
  <2>2. CallsOK'
    BY <1>3, <2>1, PickerCallSent DEF Goes, pickerLoad
  <2> QED BY <1>3, <2>2 DEF Goes, StateOK
<1>4. ASSUME NEW n \in Names, pickerEnter(n)
      PROVE  CallsOK' /\ StateOK'
  <2>1. Below(picker.path, n) \in Path
    BY <1>2, BelowIsPath
  <2> QED BY <1>3, <1>4, <2>1 DEF pickerEnter
<1>5. CASE pickerUp
  <2>1. CASE picker.path = NoPath \/ picker.path.rel = << >>
    BY <1>2, <1>3, <1>5, <2>1 DEF pickerUp
  <2>2. CASE ~(picker.path = NoPath \/ picker.path.rel = << >>)
    <3>1. picker.path \in Path /\ picker.path.rel \in Seq(Names) /\ picker.path.rel # << >>
      BY <1>2, <2>2 DEF Path
    <3>2. Front(picker.path.rel) \in Seq(Names)
      BY <3>1, FrontIs
    <3>3. [picker.path EXCEPT !.rel = Front(@)] \in Path
      BY <3>1, <3>2 DEF Path
    <3> QED BY <1>3, <1>5, <2>2, <3>3 DEF pickerUp
  <2> QED BY <2>1, <2>2
<1>6. CASE pickerPlace
  <2>1. Top(Host) \in Path
    BY TopIsPath DEF Places
  <2> QED BY <1>2, <1>3, <1>6, <2>1 DEF pickerPlace
<1>7. ASSUME NEW n \in Names, pickerSelect(n)
      PROVE  CallsOK' /\ StateOK'
  <2>1. picker' \in Picker
    BY <1>2, <1>7 DEF pickerSelect, Picker
  <2> QED BY <1>7, <2>1 DEF pickerSelect, StateOK, CallsOK
<1>8. ASSUME NEW n \in Names, pickerNewFolder(n)
      PROVE  CallsOK' /\ StateOK'
  <2> DEFINE c == [kind |-> "mkdir", root |-> picker.root, path |-> picker.path, name |-> n]
  <2>1. c \in PickerCall
    BY <1>2 DEF PickerCall
  <2>2. CallsOK'
    BY <1>8, <2>1, PickerCallSent DEF pickerNewFolder, NewFolder
  <2>3. Below(picker.path, n) \in Path
    BY <1>2, BelowIsPath
  <2> QED BY <1>8, <2>2, <2>3 DEF pickerNewFolder, NewFolder, StateOK
<1>9. CASE pickerCancel
  <2>1. picker' \in Picker
    BY <1>2, <1>9 DEF pickerCancel, Closes, Picker
  <2> QED BY <1>9, <2>1 DEF pickerCancel, Closes, StateOK, CallsOK
<1>10. ASSUME NEW r \in Disks, OthersChange(r)
       PROVE  CallsOK' /\ StateOK'
  <2>1. /\ folders' \in [Disks -> SUBSET Seq(Names)]
        /\ \A s \in Disks : << >> \in folders'[s]
    <3>1. ASSUME NEW rel \in folders[r], NEW n \in Names,
                 folders' = [folders EXCEPT ![r] = @ \cup {Append(rel, n)}]
          PROVE  folders' \in [Disks -> SUBSET Seq(Names)] /\ \A s \in Disks : << >> \in folders'[s]
      <4>1. Append(rel, n) \in Seq(Names)
        BY DEF StateOK
      <4> QED BY <3>1, <4>1 DEF StateOK
    <3>2. ASSUME NEW rel \in folders[r] \ {<< >>},
                 folders' = [folders EXCEPT ![r] = {f \in @ : ~IsPrefix(rel, f)}]
          PROVE  folders' \in [Disks -> SUBSET Seq(Names)] /\ \A s \in Disks : << >> \in folders'[s]
      <4>1. ~IsPrefix(rel, << >>)
        <5>1. rel \in Seq(Names) /\ rel # << >>
          BY DEF StateOK
        <5> QED BY <5>1 DEF IsPrefix
      <4> QED BY <3>2, <4>1 DEF StateOK
    <3> QED BY <1>10, <3>1, <3>2 DEF OthersChange
  <2> QED BY <1>10, <2>1 DEF OthersChange, StateOK, CallsOK
<1> QED BY <1>4, <1>5, <1>6, <1>7, <1>8, <1>9, <1>10 DEF PickerAction

\* A picker opens on a root, or closes with a choice.
LEMMA OpenTypeStep ==
  ASSUME TypeInv, pickSource \/ pickDest \/ pickerChoose
  PROVE  CallsOK' /\ StateOK'
<1>0. CallsOK /\ StateOK /\ picker \in Picker
  BY TypeInvIs DEF StateOK
<1>1. ASSUME NEW r \in Roots, openPicker(r), UNCHANGED panel
      PROVE  CallsOK' /\ StateOK'
  <2> DEFINE c == [kind |-> "browse", root |-> r, path |-> NoPath, name |-> NoName]
  <2>1. c \in PickerCall
    BY DEF PickerCall
  <2>2. CallsOK'
    BY <1>0, <1>1, <2>1, PickerCallSent DEF openPicker, pickerLoad, panel
  <2>3. picker' \in Picker
    BY <1>0, <1>1 DEF openPicker, Picker
  <2> QED BY <1>0, <1>1, <2>2, <2>3 DEF openPicker, panel, StateOK
<1>2. CASE pickerChoose
  <2>1. picker' \in Picker
    BY <1>0, <1>2 DEF pickerChoose, Closes, Picker
  <2> QED BY <1>0, <1>2, <2>1 DEF pickerChoose, Closes, panel, CallsOK, StateOK
<1>3. Host \in Roots /\ partition_uuid \in Roots
  BY <1>0 DEF StateOK, Roots, Disks
<1> QED BY <1>1, <1>2, <1>3 DEF pickSource, pickDest

LEMMA AnswerTypeStep ==
  ASSUME TypeInv, NEW c \in calls, PickerAnswer(c), UNCHANGED panel
  PROVE  CallsOK' /\ StateOK'
<1>0. CallsOK /\ StateOK /\ PanelTypeOK /\ picker \in Picker
  BY TypeInvIs DEF TypeInv, StateOK
<1> USE <1>0 DEF panel
<1>2. c.kind \in PickerKinds
  BY DEF PickerAnswer, BrowseAnswered, BrowseFails, MkdirResolved, MkdirAnswered, MkdirFails, PickerKinds
<1>3. /\ c \in PickerCall /\ c.root \in Roots
      /\ c.path \in Path \cup {NoPath} /\ c.name \in Names \cup {NoName}
      /\ c.kind # "browse" => c.name \in Names
  BY <1>2, CallsAre
<1>4. ASSUME NEW next, \A d \in next : d \in PickerCall, Answered(c, next)
      PROVE  CallsOK'
  BY <1>2, <1>4, CallSwapped
<1>5. CASE BrowseAnswered(c)
  <2> DEFINE t == Target(c.root, c.path)
             b == Top(Base(c.root))
  <2>1. t \in Path /\ b \in Path
    BY <1>3, <1>5, TargetIsPath, BaseIs, TopIsPath DEF BrowseAnswered
  <2>2. Entries(t) \subseteq Names
    BY DEF Entries
  <2>3. picker' = [picker EXCEPT !.path = t, !.base = b, !.entries = Entries(t), !.sel = c.name]
    BY <1>5 DEF BrowseAnswered
  <2>4. picker' \in Picker
    <3> HIDE DEF t, b
    <3> QED BY <1>3, <2>1, <2>2, <2>3 DEF Picker
  <2>5. CallsOK'
    BY <1>4, <1>5 DEF BrowseAnswered
  <2> QED BY <1>5, <2>4, <2>5 DEF BrowseAnswered, StateOK
<1>6. CASE BrowseFails(c)
  <2>1. picker' \in Picker /\ made' \in {made, NoPath}
    BY <1>3, <1>6 DEF BrowseFails, Picker
  <2>2. CallsOK'
    BY <1>4, <1>6 DEF BrowseFails
  <2> QED BY <1>6, <2>1, <2>2 DEF BrowseFails, StateOK
<1>7. CASE MkdirResolved(c)
  <2> DEFINE t == Target(c.root, c.path)
             d == [c EXCEPT !.kind = "create", !.path = t]
  <2>1. t \in Path /\ c.name \in Names
    BY <1>3, <1>7, TargetIsPath DEF MkdirResolved
  <2>2. d \in PickerCall
    BY <1>3, <1>7, <2>1 DEF MkdirResolved, PickerCall
  <2>3. Below(t, c.name) \in Path
    BY <2>1, BelowIs
  <2>4. made' \in {NoPath, Below(t, c.name)} /\ Answered(c, {d})
    BY <1>7 DEF MkdirResolved
  <2>5. CallsOK'
    BY <1>4, <2>2, <2>4
  <2> QED BY <1>7, <2>3, <2>4, <2>5 DEF MkdirResolved, StateOK
<1>8. CASE MkdirAnswered(c)
  <2> DEFINE d == [kind |-> "browse", root |-> picker.root, path |-> picker.path, name |-> c.name]
  <2>1. d \in PickerCall
    BY <1>3 DEF PickerCall, Picker
  <2>2. CallsOK'
    BY <1>4, <1>8, <2>1 DEF MkdirAnswered
  <2>3. folders' \in [Disks -> SUBSET Seq(Names)] /\ \A r \in Disks : << >> \in folders'[r]
    <3>1. CASE MadeOutOfSight(c.path)
      BY <3>1 DEF MadeOutOfSight, StateOK
    <3>2. ASSUME NEW r \in Disks, MadeOn(r, c.path, c.name)
          PROVE  folders' \in [Disks -> SUBSET Seq(Names)] /\ \A s \in Disks : << >> \in folders'[s]
      <4>1. c.path.rel \in Seq(Names) /\ c.name \in Names
        BY <1>3, <1>8, <3>2 DEF MkdirAnswered, MadeOn, StateOK
      <4>2. Append(c.path.rel, c.name) \in Seq(Names)
        BY <4>1
      <4> QED BY <3>2, <4>2 DEF MadeOn, StateOK
    <3> QED BY <1>8, <3>1, <3>2 DEF MkdirAnswered
  <2>4. made' \in {made, NoPath}
    BY <1>8 DEF MkdirAnswered, MadeOn, MadeOutOfSight
  <2> QED BY <1>8, <2>2, <2>3, <2>4 DEF MkdirAnswered, StateOK
<1>9. CASE MkdirFails(c)
  BY <1>4, <1>9 DEF MkdirFails, StateOK
<1> QED BY <1>5, <1>6, <1>7, <1>8, <1>9 DEF PickerAnswer

\* The histories are truth values.
LEMMA HistoryTypeStep ==
  ASSUME HistoryOK, StateOK', Follow
  PROVE  HistoryOK'
<1>1. raced' \in BOOLEAN
  BY DEF Follow, HistoryOK
<1>2. picker'.open \in BOOLEAN
  BY DEF StateOK, Picker
<1>3. known' \in BOOLEAN
  BY <1>2 DEF Follow, HistoryOK
<1> QED BY <1>1, <1>3 DEF HistoryOK

LEMMA PanelTypeKept == TypeInv /\ [PanelNext]_panelVars => TypeInv'
<1> SUFFICES ASSUME TypeInv, [PanelNext]_panelVars PROVE TypeInv'
  OBVIOUS
<1>1. CASE UNCHANGED panelVars
  BY <1>1 DEF panelVars, panel, pickerVars, panelHistory, TypeInv, PanelTypeOK, ChainInv
<1>2. CASE PanelNext
  <2>1. CallsOK' /\ StateOK'
    BY <1>2, PanelTypeStep, PickerTypeStep, OpenTypeStep, AnswerTypeStep DEF PanelNext
  <2>2. HistoryOK'
    BY <1>2, <2>1, TypeInvIs, HistoryTypeStep DEF PanelNext
  <2> QED BY <2>1, <2>2, TypeInvIs, PTL
<1> QED BY <1>1, <1>2

\* Types, whenever the user clicks and whatever others mount: what comes from
\* the daemon and what is kept from it has its shape, and the panel's buttons are
\* disabled just while a mount, an unmount or the refresh behind one is out.
THEOREM PanelTypeCorrect == PanelSpec => []PanelTypeOK
<1>1. TypeInv => PanelTypeOK
  BY DEF TypeInv
<1> QED BY <1>1, PanelTypeInit, PanelTypeKept, PTL DEF PanelSpec

-----------------------------------------------------------------------------
(* The folders of a disk are a tree.                                       *)

LEMMA TreeGrows ==
  ASSUME StateOK, TreeInv, NEW r \in Disks, NEW rel \in folders[r], NEW n \in Names,
         folders' = [folders EXCEPT ![r] = @ \cup {Append(rel, n)}]
  PROVE  TreeInv'
<1>1. rel \in Seq(Names)
  BY DEF StateOK
<1>2. Append(rel, n) \in Seq(Names) /\ Front(Append(rel, n)) = rel
  BY <1>1 DEF Front
<1>3. folders'[r] = folders[r] \cup {Append(rel, n)}
  BY DEF StateOK
<1>4. \A s \in Disks : s # r => folders'[s] = folders[s]
  BY DEF StateOK
<1>5. \A f \in folders'[r] : f # << >> => Front(f) \in folders'[r]
  BY <1>2, <1>3 DEF TreeInv
<1> QED BY <1>4, <1>5 DEF TreeInv

LEMMA TreeShrinks ==
  ASSUME StateOK, TreeInv, NEW r \in Disks, NEW rel \in folders[r],
         folders' = [folders EXCEPT ![r] = {f \in @ : ~IsPrefix(rel, f)}]
  PROVE  TreeInv'
<1>1. folders'[r] = {f \in folders[r] : ~IsPrefix(rel, f)}
  BY DEF StateOK
<1>2. ASSUME NEW f \in folders'[r], f # << >>
      PROVE  Front(f) \in folders'[r]
  <2>1. f \in folders[r] /\ ~IsPrefix(rel, f)
    BY <1>1, <1>2
  <2>2. f \in Seq(Names) /\ rel \in Seq(Names)
    BY <2>1 DEF StateOK
  <2>3. Front(f) \in folders[r] /\ ~IsPrefix(rel, Front(f))
    BY <1>2, <2>1, <2>2, PrefixOfFront DEF TreeInv
  <2> QED BY <1>1, <2>3
<1>3. \A s \in Disks : s # r => folders'[s] = folders[s]
  BY DEF StateOK
<1> QED BY <1>2, <1>3 DEF TreeInv

LEMMA TreeStep == TypeInv /\ TreeInv /\ [PanelNext]_panelVars => TreeInv'
<1> SUFFICES ASSUME TypeInv, TreeInv, [PanelNext]_panelVars PROVE TreeInv'
  OBVIOUS
<1>0. StateOK
  BY TypeInvIs
<1>1. CASE folders' = folders
  BY <1>1 DEF TreeInv
<1>2. ASSUME NEW r \in Disks, OthersChange(r)
      PROVE  TreeInv'
  BY <1>0, <1>2, TreeGrows, TreeShrinks DEF OthersChange
<1>3. ASSUME NEW c \in calls, MkdirAnswered(c), folders' # folders
      PROVE  TreeInv'
  <2>1. PICK r \in Disks : MadeOn(r, c.path, c.name)
    BY <1>3 DEF MkdirAnswered, MadeOutOfSight
  <2>2. c.name \in Names
    BY <1>3, CallsAre DEF TypeInv, MkdirAnswered, PickerKinds
  <2>3. PICK rel, n : rel = c.path.rel /\ n = c.name
    OBVIOUS
  <2>4. rel \in folders[r] /\ n \in Names /\ folders' = [folders EXCEPT ![r] = @ \cup {Append(rel, n)}]
    BY <2>1, <2>2, <2>3 DEF MadeOn
  <2> QED BY <1>0, <2>4, TreeGrows
<1>4. CASE UNCHANGED panelVars
  BY <1>1, <1>4 DEF panelVars, pickerVars
<1>5. CASE PickerAction
  BY <1>1, <1>5 DEF PickerAction, pickerUp, pickerPlace, pickerCancel, Closes, pickerEnter, pickerSelect,
     pickerNewFolder, NewFolder, Goes, pickerVars
<1>6. ASSUME NEW c \in calls,
             PartitionApplied(c) \/ InfoAnswered(c) \/ MountAnswered(c) \/ MountFails(c) \/ UmountAnswered(c)
      PROVE  folders' = folders
  BY <1>6 DEF PartitionApplied, InfoAnswered, MountAnswered, MountFails, UmountAnswered, MountedAt, pickerVars
<1>7. ASSUME NEW p \in Parts, editJob(p) \/ onPartitionChange(p) \/ OthersMount(p)
      PROVE  folders' = folders
  BY <1>7 DEF editJob, onPartitionChange, OthersMount, MountedAt, pickerVars
<1>8. CASE newJob \/ onDeviceChange \/ mountForBrowse \/ umountForBrowse \/ pickSource \/ pickDest \/ pickerChoose
  BY <1>1, <1>8 DEF newJob, onDeviceChange, mountForBrowse, umountForBrowse, Ask, pickSource, pickDest,
     pickerChoose, Closes, openPicker, pickerVars
<1>9. ASSUME NEW c \in calls, PickerAnswer(c), ~MkdirAnswered(c)
      PROVE  folders' = folders
  BY <1>9 DEF PickerAnswer, BrowseAnswered, BrowseFails, MkdirResolved, MkdirFails
<1> QED BY <1>1, <1>2, <1>3, <1>4, <1>5, <1>6, <1>7, <1>8, <1>9 DEF PanelNext

-----------------------------------------------------------------------------
(* The panel.                                                              *)

\* The panel shows the partition selected, and its mount point.
Shown == partInfo.part \in {partition_uuid, NoPart} /\ editorMountDir = partInfo.dir

LEMMA NullIsShown ==
  ASSUME Null
  PROVE  Shown'
  BY DEF Null, NoInfo, Shown

\* A refresh is sent, or the panel is cleared.
LEMMA RefreshShows ==
  ASSUME NEW k \in InfoKinds, NEW p, NEW rest, Refresh(k, p, rest)
  PROVE  Refreshes' # {} \/ Shown'
<1>1. CASE p = NoPart
  BY <1>1, NullIsShown DEF Refresh
<1>2. CASE p # NoPart
  <2> DEFINE d == [kind |-> k, part |-> p]
  <2>1. d \in calls' /\ d.kind \in {"info", "last"}
    BY <1>2 DEF Refresh, InfoKinds
  <2> HIDE DEF d
  <2> QED BY <2>1 DEF Refreshes
<1> QED BY <1>1, <1>2

\* The panel is left alone, and no refresh is answered.
LEMMA QuietPanel ==
  ASSUME RacedInv, ~raced, UNCHANGED <<partition_uuid, partInfo, editorMountDir>>,
         NEW gone, \A c \in gone : c.kind \notin InfoKinds, \A c \in calls \ gone : c \in calls'
  PROVE  Refreshes' # {} \/ Shown'
<1>1. CASE Refreshes = {}
  BY <1>1 DEF RacedInv, PanelIsOfPartition, Shown
<1>2. ASSUME NEW c \in Refreshes
      PROVE  Refreshes' # {}
  <2>1. c \in calls' /\ c.kind \in {"info", "last"}
    BY <1>2 DEF Refreshes, InfoKinds
  <2> QED BY <2>1 DEF Refreshes
<1> QED BY <1>1, <1>2

LEMMA PanelShows ==
  ASSUME TypeInv, RacedInv, ~raced, PanelNext
  PROVE  Refreshes' # {} \/ Shown'
<1>0. PanelTypeOK /\ StateOK
  BY TypeInvIs DEF TypeInv
<1>1. CASE newJob \/ onDeviceChange \/ \E p \in Parts : editJob(p)
  BY <1>1, NullIsShown DEF newJob, onDeviceChange, editJob
<1>2. ASSUME NEW p \in Parts, onPartitionChange(p)
      PROVE  Refreshes' # {}
  <2> DEFINE d == [kind |-> "info", part |-> p]
  <2>1. d \in calls' /\ d.kind \in {"info", "last"}
    BY <1>2 DEF onPartitionChange, Asks
  <2> HIDE DEF d
  <2> QED BY <2>1 DEF Refreshes
<1>3. ASSUME NEW c \in calls, PartitionApplied(c) \/ MountAnswered(c) \/ UmountAnswered(c)
      PROVE  Refreshes' # {} \/ Shown'
  <2>1. "info" \in InfoKinds /\ "last" \in InfoKinds
    BY DEF InfoKinds
  <2> QED BY <1>3, <2>1, RefreshShows DEF PartitionApplied, MountAnswered, UmountAnswered, LastRefresh
<1>4. ASSUME NEW c \in calls, InfoAnswered(c)
      PROVE  Shown'
  <2>1. c.part = partition_uuid /\ partition_uuid' = partition_uuid
    BY <1>4 DEF InfoAnswered, RacedInv, InfoKinds
  <2> QED BY <1>4, <2>1 DEF InfoAnswered, SetInfo, PartitionInfo, NoInfo, Shown
<1>5. ASSUME UNCHANGED <<partition_uuid, partInfo, editorMountDir>>, \A c \in calls : c \in calls'
      PROVE  Refreshes' # {} \/ Shown'
  BY <1>5, QuietPanel
<1>6. ASSUME NEW c \in calls, MountFails(c)
      PROVE  Refreshes' # {} \/ Shown'
  <2>1. c.kind \notin InfoKinds
    BY <1>6 DEF MountFails, InfoKinds
  <2>2. \A d \in {c} : d.kind \notin InfoKinds
    BY <2>1
  <2>3. \A d \in calls \ {c} : d \in calls'
    BY <1>6 DEF MountFails
  <2> QED BY <1>6, <2>2, <2>3, QuietPanel DEF MountFails
<1>7. CASE mountForBrowse \/ umountForBrowse \/ \E p \in Parts : OthersMount(p)
  BY <1>5, <1>7 DEF mountForBrowse, umountForBrowse, Ask, Asks, OthersMount, panel
<1>8. CASE pickSource \/ pickDest \/ pickerChoose
  BY <1>5, <1>8 DEF pickSource, pickDest, pickerChoose, Closes, openPicker, pickerLoad, Asks, panel
<1>9. CASE UNCHANGED panel /\ (PickerAction \/ \E r \in Disks : OthersChange(r))
  BY <1>5, <1>9 DEF PickerAction, pickerUp, pickerPlace, pickerCancel, Closes, pickerEnter, pickerSelect,
     pickerNewFolder, NewFolder, Goes, pickerLoad, Asks, OthersChange, panel
<1>10. ASSUME NEW c \in calls, PickerAnswer(c), UNCHANGED panel
       PROVE  Refreshes' # {} \/ Shown'
  <2>1. c.kind \notin InfoKinds /\ \A d \in calls \ {c} : d \in calls'
    BY <1>10 DEF PickerAnswer, BrowseAnswered, BrowseFails, MkdirResolved, MkdirAnswered, MkdirFails, Answered, InfoKinds
  <2>2. \A d \in {c} : d.kind \notin InfoKinds
    BY <2>1
  <2> QED BY <1>10, <2>1, <2>2, QuietPanel DEF panel
<1> QED BY <1>1, <1>2, <1>3, <1>4, <1>6, <1>7, <1>8, <1>9, <1>10 DEF PanelNext

LEMMA RacedStep == TypeInv /\ RacedInv /\ [PanelNext]_panelVars => RacedInv'
<1> SUFFICES ASSUME TypeInv, RacedInv, [PanelNext]_panelVars PROVE RacedInv'
  OBVIOUS
<1>1. CASE UNCHANGED panelVars
  BY <1>1 DEF panelVars, panel, panelHistory, RacedInv, PanelIsOfPartition, Refreshes
<1>2. CASE PanelNext
  <2> SUFFICES ASSUME ~raced'
               PROVE  (\A c \in calls : c.kind \in InfoKinds => c.part = partition_uuid)' /\ PanelIsOfPartition'
    BY DEF RacedInv
  <2>1. ~Raced' /\ (Refreshes' = {} => ~raced)
    BY <1>2 DEF PanelNext, Follow
  <2>2. \A c \in calls' : c.kind \in InfoKinds => c.part = partition_uuid'
    BY <2>1 DEF Raced, Refreshes, InfoKinds
  <2>3. Refreshes' = {} => Shown'
    BY <1>2, <2>1, PanelShows
  <2> QED BY <2>2, <2>3 DEF PanelIsOfPartition, Shown
<1> QED BY <1>1, <1>2

-----------------------------------------------------------------------------
(* The picker's place.                                                     *)

\* What is to be shown of the picker after a step.
Placed == /\ picker.path # NoPath => picker.path.root = editorMountDir
          /\ \A c \in calls : c.kind = "browse" => c.root = picker.root

\* Only the editor's two buttons open the picker.
LEMMA PickerOpens ==
  ASSUME TypeInv, PanelNext, ~picker.open, picker'.open
  PROVE  pickSource \/ pickDest
<1>0. picker \in Picker
  BY TypeInvIs DEF StateOK
<1>1. ASSUME picker' = picker
      PROVE  FALSE
  BY <1>1
<1>2. \A p \in Parts : ~editJob(p) /\ ~onPartitionChange(p) /\ ~OthersMount(p)
  BY <1>1 DEF editJob, onPartitionChange, OthersMount, MountedAt, pickerVars
<1>3. ~newJob /\ ~onDeviceChange /\ ~mountForBrowse /\ ~umountForBrowse /\ ~pickerChoose
  BY <1>1 DEF newJob, onDeviceChange, mountForBrowse, umountForBrowse, Ask, pickerVars, pickerChoose, Closes
<1>4. \A c \in calls : /\ ~PartitionApplied(c) /\ ~InfoAnswered(c) /\ ~MountAnswered(c) /\ ~MountFails(c)
                       /\ ~UmountAnswered(c)
  BY <1>1 DEF PartitionApplied, InfoAnswered, MountAnswered, MountFails, UmountAnswered, MountedAt, pickerVars
<1>5. ~PickerAction
  BY DEF PickerAction, pickerUp, pickerPlace, pickerCancel, Closes, pickerEnter, pickerSelect, pickerNewFolder,
     NewFolder, Goes
<1>6. \A c \in calls : ~PickerAnswer(c)
  <2> SUFFICES ASSUME NEW c \in calls, PickerAnswer(c) PROVE FALSE
    OBVIOUS
  <2>1. picker'.open = picker.open
    BY <1>0 DEF PickerAnswer, BrowseAnswered, BrowseFails, MkdirResolved, MkdirAnswered, MkdirFails, Picker
  <2> QED BY <2>1
<1>7. \A r \in Disks : ~OthersChange(r)
  BY <1>1 DEF OthersChange
<1> QED BY <1>2, <1>3, <1>4, <1>5, <1>6, <1>7 DEF PanelNext

\* A picker opens with no folder in sight.
LEMMA OpenedPlaced ==
  ASSUME TypeInv, pickSource \/ pickDest, \A c \in calls : c.kind # "browse"
  PROVE  Placed'
<1>1. PICK r : openPicker(r)
  BY DEF pickSource, pickDest
<1>2. picker'.path = NoPath /\ picker'.root = r
  BY <1>1, TypeInvIs DEF openPicker, StateOK, Picker
<1> DEFINE d == [kind |-> "browse", root |-> r, path |-> NoPath, name |-> NoName]
<1>3. calls' = calls \cup {d} /\ d.root = r
  BY <1>1 DEF openPicker, pickerLoad, Asks
<1> HIDE DEF d
<1> QED BY <1>2, <1>3 DEF Placed

\* What is shown is left alone, and listings are asked for of the picker's root.
LEMMA StaysPlaced ==
  ASSUME Placed, picker'.path = picker.path, picker'.root = picker.root, editorMountDir' = editorMountDir,
         \A c \in calls' : c \in calls \/ c.kind # "browse" \/ c.root = picker.root
  PROVE  Placed'
  BY DEF Placed

LEMMA PanelPlaced ==
  ASSUME Placed, editorMountDir' = editorMountDir,
         \/ \E p \in Parts : editJob(p) \/ OthersMount(p)
         \/ \E c \in calls : PartitionApplied(c) \/ InfoAnswered(c) \/ MountAnswered(c) \/ MountFails(c) \/ UmountAnswered(c)
  PROVE  Placed'
<1>1. picker' = picker
  BY DEF editJob, OthersMount, PartitionApplied, InfoAnswered, MountAnswered, MountFails, UmountAnswered,
     MountedAt, pickerVars
<1>2. \A k, p : [kind |-> k, part |-> p].kind = k
  OBVIOUS
<1>3. ASSUME NEW p \in Parts, editJob(p) \/ OthersMount(p)
      PROVE  \A c \in calls' : c \in calls \/ c.kind # "browse"
  BY <1>2, <1>3 DEF editJob, OthersMount, Asks
<1>4. ASSUME NEW c \in calls, InfoAnswered(c) \/ MountFails(c)
      PROVE  \A d \in calls' : d \in calls \/ d.kind # "browse"
  BY <1>4 DEF InfoAnswered, MountFails
<1>5. ASSUME NEW k \in InfoKinds, NEW p, NEW c, Refresh(k, p, calls \ {c})
      PROVE  \A d \in calls' : d \in calls \/ d.kind # "browse"
  <2>1. k # "browse"
    BY DEF InfoKinds
  <2> QED BY <1>2, <1>5, <2>1 DEF Refresh
<1>6. ASSUME NEW c \in calls, PartitionApplied(c) \/ MountAnswered(c) \/ UmountAnswered(c)
      PROVE  \A d \in calls' : d \in calls \/ d.kind # "browse"
  <2>1. "info" \in InfoKinds /\ "last" \in InfoKinds
    BY DEF InfoKinds
  <2> QED BY <1>5, <1>6, <2>1 DEF PartitionApplied, MountAnswered, UmountAnswered, LastRefresh
<1>7. \A c \in calls' : c \in calls \/ c.kind # "browse"
  BY <1>3, <1>4, <1>6
<1> QED BY <1>1, <1>7, StaysPlaced

LEMMA PickerPlaced ==
  ASSUME TypeInv, Placed, picker'.open, UNCHANGED panel, PickerAction \/ \E r \in Disks : OthersChange(r)
  PROVE  Placed'
<1>0. picker \in Picker
  BY TypeInvIs DEF StateOK
<1>1. editorMountDir' = editorMountDir
  BY DEF panel
<1>2. ASSUME NEW p, Goes(p)
      PROVE  Placed'
  <2> DEFINE d == [kind |-> "browse", root |-> picker.root, path |-> p, name |-> NoName]
  <2>1. calls' = calls \cup {d} /\ d.root = picker.root /\ picker' = picker
    BY <1>2 DEF Goes, pickerLoad, Asks, pickerVars
  <2> HIDE DEF d
  <2> QED BY <1>1, <2>1, StaysPlaced
<1>3. CASE pickerUp \/ pickerPlace \/ \E n \in Names : pickerEnter(n)
  BY <1>2, <1>3 DEF pickerUp, pickerPlace, pickerEnter
<1>4. ASSUME NEW n \in Names, pickerSelect(n)
      PROVE  Placed'
  <2>1. picker'.path = picker.path /\ picker'.root = picker.root /\ calls' = calls
    BY <1>0, <1>4 DEF pickerSelect, Picker
  <2> QED BY <1>1, <2>1, StaysPlaced
<1>5. ASSUME NEW n \in Names, pickerNewFolder(n)
      PROVE  Placed'
  <2> DEFINE d == [kind |-> "mkdir", root |-> picker.root, path |-> picker.path, name |-> n]
  <2>1. calls' = calls \cup {d} /\ d.root = picker.root /\ picker' = picker
    BY <1>5 DEF pickerNewFolder, NewFolder, Asks
  <2> HIDE DEF d
  <2> QED BY <1>1, <2>1, StaysPlaced
<1>6. ~pickerCancel
  BY <1>0 DEF pickerCancel, Closes, Picker
<1>7. ASSUME NEW r \in Disks, OthersChange(r)
      PROVE  Placed'
  BY <1>1, <1>7, StaysPlaced DEF OthersChange
<1> QED BY <1>3, <1>4, <1>5, <1>6, <1>7 DEF PickerAction

LEMMA AnswerPlaced ==
  ASSUME TypeInv, UnderInv, known, UNCHANGED panel, NEW c \in calls, PickerAnswer(c)
  PROVE  Placed'
<1>0. StateOK /\ picker \in Picker /\ PanelTypeOK
  BY TypeInvIs DEF TypeInv, StateOK
<1>1. editorMountDir' = editorMountDir /\ Placed /\ Known
  BY DEF panel, UnderInv, Placed
<1>2. c.kind \in PickerKinds
  BY DEF PickerAnswer, BrowseAnswered, BrowseFails, MkdirResolved, MkdirAnswered, MkdirFails, PickerKinds
<1>3. c \in PickerCall /\ c.root \in Roots /\ c.path \in Path \cup {NoPath}
  BY <1>0, <1>2, CallsAre
<1>4. CASE BrowseAnswered(c)
  <2> DEFINE t == Target(c.root, c.path)
  <2>1. c.root = partition_uuid /\ c.root \in Parts /\ c.root # Host
    BY <1>1, <1>4, PickerAssumption DEF BrowseAnswered, Placed, Known
  <2>2. Base(c.root) = editorMountDir
    BY <1>1, <1>4, <2>1 DEF BrowseAnswered, Browsable, Base, Known
  <2>3. t.root = editorMountDir
    BY <2>1, <2>2 DEF Target, Top
  <2>4. picker'.path = t /\ picker'.root = picker.root
    BY <1>0, <1>4 DEF BrowseAnswered, Picker
  <2>5. \A d \in calls' : d \in calls
    BY <1>4 DEF BrowseAnswered, Answered
  <2> HIDE DEF t
  <2> QED BY <1>1, <2>3, <2>4, <2>5 DEF Placed
<1>5. CASE BrowseFails(c)
  <2>1. picker'.path = picker.path /\ picker'.root = picker.root
    BY <1>0, <1>5 DEF BrowseFails, Picker
  <2>2. \A d \in calls' : d \in calls
    BY <1>5 DEF BrowseFails, Answered
  <2> QED BY <1>1, <2>1, <2>2, StaysPlaced
<1>6. CASE MkdirResolved(c)
  <2> DEFINE d == [c EXCEPT !.kind = "create", !.path = Target(c.root, c.path)]
  <2>1. picker' = picker /\ calls' = (calls \ {c}) \cup {d}
    BY <1>6 DEF MkdirResolved, Answered
  <2>2. d.kind = "create"
    BY <1>3 DEF PickerCall
  <2> HIDE DEF d
  <2> QED BY <1>1, <2>1, <2>2, StaysPlaced
<1>7. CASE MkdirAnswered(c)
  <2> DEFINE d == [kind |-> "browse", root |-> picker.root, path |-> picker.path, name |-> c.name]
  <2>1. picker' = picker /\ calls' = (calls \ {c}) \cup {d} /\ d.root = picker.root
    BY <1>7 DEF MkdirAnswered, Answered
  <2> HIDE DEF d
  <2> QED BY <1>1, <2>1, StaysPlaced
<1>8. CASE MkdirFails(c)
  BY <1>1, <1>8, StaysPlaced DEF MkdirFails, Answered
<1> QED BY <1>4, <1>5, <1>6, <1>7, <1>8 DEF PickerAnswer

LEMMA UnderStep == TypeInv /\ UnderInv /\ [PanelNext]_panelVars => UnderInv'
<1> SUFFICES ASSUME TypeInv, UnderInv, [PanelNext]_panelVars PROVE UnderInv'
  OBVIOUS
<1>1. CASE UNCHANGED panelVars
  BY <1>1 DEF panelVars, panel, pickerVars, panelHistory, UnderInv, Known
<1>2. CASE PanelNext
  <2> SUFFICES ASSUME known' PROVE picker'.open /\ Known' /\ Placed'
    BY DEF UnderInv, Placed
  <2>1. /\ picker'.open /\ Known'
        /\ picker.open => known /\ editorMountDir' = editorMountDir
        /\ ~picker.open => \A c \in calls : c.kind # "browse"
    BY <1>2 DEF PanelNext, Follow
  <2>2. CASE ~picker.open
    BY <1>2, <2>1, <2>2, PickerOpens, OpenedPlaced
  <2>3. CASE picker.open
    <3>1. Placed /\ known /\ editorMountDir' = editorMountDir
      BY <2>1, <2>3 DEF UnderInv, Placed
    <3>2. picker \in Picker
      BY TypeInvIs DEF StateOK
    <3>3. /\ ~newJob /\ ~onDeviceChange /\ ~mountForBrowse /\ ~umountForBrowse /\ ~pickSource /\ ~pickDest
          /\ \A p \in Parts : ~onPartitionChange(p)
      BY <2>3 DEF InEditor, newJob, onDeviceChange, mountForBrowse, umountForBrowse, Ask, pickSource, pickDest,
         onPartitionChange
    <3>4. ~pickerChoose
      BY <2>1, <3>2 DEF pickerChoose, Closes, Picker
    <3> QED BY <1>2, <2>1, <3>1, <3>3, <3>4, PanelPlaced, PickerPlaced, AnswerPlaced DEF PanelNext
  <2> QED BY <2>1, <2>2, <2>3
<1> QED BY <1>1, <1>2

-----------------------------------------------------------------------------
(* The folder that is made.                                                *)

\* A disk in use is the only one at its place.
LEMMA OneDisk ==
  ASSUME StateOK, NEW r \in Disks, NEW p \in Path, Base(r) = p.root
  PROVE  Exists(p) <=> p.rel \in folders[r]
<1>1. p # NoPath /\ p.root \in Places /\ NoDir \notin Places
  BY NoPathIsNone, PickerAssumption DEF Path, Places
<1>2. \A s \in Disks : Base(s) = p.root => s = r
  BY <1>1, BaseIs
<1> QED BY <1>1, <1>2 DEF Exists

\* A new folder lies in the place the next listing shows, or is itself that
\* place, empty, when a folder of that path had been removed.
LEMMA NewIsPicked ==
  ASSUME StateOK, StateOK', TreeInv, UNCHANGED mounted,
         NEW root \in Roots, NEW dir \in Path \cup {NoPath}, NEW name \in Names,
         NEW at \in Path, at = Target(root, dir),
         NEW r \in Disks, MadeOn(r, at, name), NEW new \in Path, new = Below(at, name)
  PROVE  Picked(Target(root, dir), name)' = new
<1>1. /\ at.root = Base(r) /\ at.rel \in folders[r] /\ Append(at.rel, name) \notin folders[r]
      /\ folders'[r] = folders[r] \cup {Append(at.rel, name)}
      /\ \A s \in Disks : s # r => folders'[s] = folders[s]
  BY DEF MadeOn, StateOK
<1>2. /\ new.root = at.root /\ new.rel = Append(at.rel, name)
      /\ Below(new, name) \in Path /\ Below(new, name).root = new.root /\ Below(new, name).rel = Append(new.rel, name)
      /\ Append(new.rel, name) # << >> /\ Append(new.rel, name) # new.rel /\ Front(Append(new.rel, name)) = new.rel
      /\ [at EXCEPT !.rel = Append(@, name)] = new
      /\ [new EXCEPT !.rel = Append(@, name)] = Below(new, name)
  <2>1. new = [root |-> at.root, rel |-> Append(at.rel, name)] /\ [at EXCEPT !.rel = Append(@, name)] = new
    BY BelowIs
  <2>2. new.root = at.root /\ new.rel = Append(at.rel, name)
    BY <2>1
  <2>3. Below(new, name) = [root |-> new.root, rel |-> Append(new.rel, name)] /\ Below(new, name) \in Path
    BY BelowIs
  <2>4. Below(new, name).root = new.root /\ Below(new, name).rel = Append(new.rel, name)
    BY <2>3
  <2>5. /\ Append(new.rel, name) # << >> /\ Append(new.rel, name) # new.rel /\ Front(Append(new.rel, name)) = new.rel
        /\ [new EXCEPT !.rel = Append(@, name)] = Below(new, name)
    BY BelowIs
  <2> QED BY <2>1, <2>2, <2>3, <2>4, <2>5
<1>3. \A s \in Roots : Base(s)' = Base(s)
  BY DEF Base
<1>4. r \in Roots
  BY DEF Roots
<1>5. \A p \in Path : Exists(p)' <=> Exists(p) \/ p = new
  <2> SUFFICES ASSUME NEW p \in Path PROVE Exists(p)' <=> Exists(p) \/ p = new
    OBVIOUS
  <2>1. CASE p.root = Base(r)
    <3>1. Exists(p) <=> p.rel \in folders[r]
      BY <2>1, OneDisk
    <3>2. Exists(p)' <=> p.rel \in folders'[r]
      <4>1. p # NoPath /\ p.root \in Places /\ NoDir \notin Places
        BY NoPathIsNone, PickerAssumption DEF Path, Places
      <4>2. \A s \in Disks : Base(s) = p.root => s = r
        BY <2>1, <4>1, BaseIs
      <4>3. \A s \in Disks : s \in Roots
        BY DEF Roots
      <4> QED BY <1>3, <2>1, <4>1, <4>2, <4>3 DEF Exists
    <3>3. p = new <=> p.rel = new.rel
      <4>1. p.root = new.root
        BY <1>1, <1>2, <2>1
      <4>2. p = [root |-> p.root, rel |-> p.rel] /\ new = [root |-> new.root, rel |-> new.rel]
        BY DEF Path
      <4> QED BY <4>1, <4>2
    <3> QED BY <1>1, <1>2, <3>1, <3>2, <3>3
  <2>2. CASE p.root # Base(r)
    <3>1. p # new
      BY <1>1, <1>2, <2>2
    <3>2. \A s \in Disks : s \in Roots
      BY DEF Roots
    <3>3. \A s \in Disks : Base(s) = p.root => folders'[s] = folders[s]
      BY <1>1, <2>2
    <3> QED BY <1>3, <3>1, <3>2, <3>3 DEF Exists
  <2> QED BY <2>1, <2>2
<1>6. ~Exists(new)
  <2>1. new.root = Base(r) /\ new.rel \notin folders[r]
    BY <1>1, <1>2
  <2>2. Exists(new) <=> new.rel \in folders[r]
    BY <2>1, OneDisk
  <2> QED BY <2>1, <2>2
<1>7. name \in Entries(at)'
  BY <1>2, <1>5 DEF Entries
<1>8. Target(root, dir)' = IF Exists(dir)' /\ (dir.root = Base(root) \/ root = Host) THEN dir ELSE Top(Base(root))
  BY <1>3 DEF Target
<1>9. dir \in Path \/ (dir = NoPath /\ ~Exists(dir) /\ ~Exists(dir)')
  BY DEF Exists
<1>10. CASE Target(root, dir)' = at
  BY <1>7, <1>10 DEF Picked, Below
<1>11. CASE Target(root, dir)' # at
  <2>1. dir = new /\ Target(root, dir)' = new
    BY <1>5, <1>8, <1>9, <1>11 DEF Target
  <2>2. ~Exists(Below(new, name))
    <3>1. PICK below : below = Below(new, name)
      OBVIOUS
    <3>2. /\ below \in Path /\ below.root = Base(r) /\ below.rel # << >> /\ Front(below.rel) = new.rel
          /\ new.rel \notin folders[r]
      BY <1>1, <1>2, <3>1
    <3>3. below.rel \notin folders[r]
      BY <3>2 DEF TreeInv
    <3>4. Exists(below) <=> below.rel \in folders[r]
      BY <3>2, OneDisk
    <3> QED BY <3>1, <3>3, <3>4
  <2>3. Below(new, name) # new
    BY <1>2
  <2>4. name \notin Entries(new)'
    BY <1>2, <1>5, <2>2, <2>3 DEF Entries
  <2> QED BY <2>1, <2>4 DEF Picked
<1> QED BY <1>10, <1>11

\* Nothing that the new folder's way depends on changes.
LEMMA QuietMade ==
  ASSUME MadeInv, UNCHANGED <<mounted, folders, made>>, picker'.root = picker.root, picker'.path = picker.path,
         \A c \in calls' : c \in calls \/ ~Named(c)
  PROVE  MadeInv'
<1>1. \A c : Makes(c)' <=> Makes(c)
  BY DEF Makes, Picked, Entries, Target, Exists, Base, Below, Top
<1> QED BY <1>1 DEF MadeInv, Named

LEMMA PanelMade ==
  ASSUME MadeInv,
         \/ newJob \/ onDeviceChange \/ mountForBrowse \/ umountForBrowse
         \/ \E p \in Parts : editJob(p) \/ onPartitionChange(p) \/ OthersMount(p)
         \/ \E c \in calls : PartitionApplied(c) \/ InfoAnswered(c) \/ MountAnswered(c) \/ MountFails(c) \/ UmountAnswered(c)
  PROVE  MadeInv'
<1>1. CASE made' = NoPath
  BY <1>1 DEF MadeInv
<1>2. ASSUME UNCHANGED <<mounted, pickerVars>>, NEW k \in PanelKinds, NEW p,
             \A c \in calls' : c \in calls \/ c = [kind |-> k, part |-> p]
      PROVE  MadeInv'
  <2> DEFINE d == [kind |-> k, part |-> p]
  <2>1. ~Named(d)
    BY DEF Named, PanelKinds
  <2>2. \A c \in calls' : c \in calls \/ c = d
    BY <1>2
  <2>3. \A c \in calls' : c \in calls \/ ~Named(c)
    <3> HIDE DEF d
    <3> QED BY <2>1, <2>2
  <2>4. UNCHANGED <<mounted, folders, made>> /\ picker'.root = picker.root /\ picker'.path = picker.path
    BY <1>2 DEF pickerVars
  <2> QED BY <2>3, <2>4, QuietMade
<1>3. "job" \in PanelKinds /\ "info" \in PanelKinds /\ "last" \in PanelKinds /\ "mount" \in PanelKinds /\ "umount" \in PanelKinds
  BY DEF PanelKinds
<1>4. CASE newJob \/ onDeviceChange
  BY <1>2, <1>3, <1>4 DEF newJob, onDeviceChange
<1>5. CASE mountForBrowse \/ umountForBrowse
  BY <1>2, <1>3, <1>5 DEF mountForBrowse, umountForBrowse, Ask, Asks
<1>6. ASSUME NEW p \in Parts, editJob(p) \/ onPartitionChange(p)
      PROVE  MadeInv'
  BY <1>2, <1>3, <1>6 DEF editJob, onPartitionChange, Asks
<1>7. ASSUME NEW c \in calls, PartitionApplied(c) \/ InfoAnswered(c) \/ MountFails(c)
      PROVE  MadeInv'
  BY <1>2, <1>3, <1>7 DEF PartitionApplied, Refresh, InfoAnswered, MountFails
<1>8. ASSUME NEW p \in Parts, OthersMount(p)
      PROVE  MadeInv'
  BY <1>1, <1>8 DEF OthersMount, MountedAt
<1>9. ASSUME NEW c \in calls, MountAnswered(c) \/ UmountAnswered(c), made' # NoPath
      PROVE  MadeInv'
  BY <1>2, <1>3, <1>9 DEF MountAnswered, UmountAnswered, MountedAt, LastRefresh, Refresh
<1> QED BY <1>1, <1>4, <1>5, <1>6, <1>7, <1>8, <1>9

LEMMA PickerMade ==
  ASSUME TypeInv, MadeInv,
         \/ pickSource \/ pickDest \/ pickerChoose
         \/ PickerAction \/ \E r \in Disks : OthersChange(r)
  PROVE  MadeInv'
<1>0. picker \in Picker
  BY TypeInvIs DEF StateOK
<1>1. CASE made' = NoPath
  BY <1>1 DEF MadeInv
<1>2. CASE pickSource \/ pickDest \/ pickerChoose \/ pickerCancel \/ \E r \in Disks : OthersChange(r)
  BY <1>1, <1>2 DEF pickSource, pickDest, openPicker, pickerChoose, pickerCancel, Closes, OthersChange
<1>3. ASSUME NEW p, Goes(p)
      PROVE  MadeInv'
  <2> DEFINE d == [kind |-> "browse", root |-> picker.root, path |-> p, name |-> NoName]
  <2>1. ~Named(d)
    BY DEF Named
  <2>2. calls' = calls \cup {d} /\ UNCHANGED <<mounted, pickerVars>>
    BY <1>3 DEF Goes, pickerLoad, Asks
  <2> HIDE DEF d
  <2> QED BY <2>1, <2>2, QuietMade DEF pickerVars
<1>4. CASE pickerUp \/ pickerPlace \/ \E n \in Names : pickerEnter(n)
  BY <1>3, <1>4 DEF pickerUp, pickerPlace, pickerEnter
<1>5. ASSUME NEW n \in Names, pickerSelect(n)
      PROVE  MadeInv'
  <2>1. picker'.path = picker.path /\ picker'.root = picker.root /\ UNCHANGED <<mounted, folders, calls, made>>
    BY <1>0, <1>5 DEF pickerSelect, Picker
  <2> QED BY <2>1, QuietMade
<1>6. ASSUME NEW n \in Names, pickerNewFolder(n), made' # NoPath
      PROVE  MadeInv'
  <2> PICK d : d = [kind |-> "mkdir", root |-> picker.root, path |-> picker.path, name |-> n]
    OBVIOUS
  <2>1. calls' = calls \cup {d} /\ picker' = picker /\ \A c \in calls : ~Named(c)
    BY <1>6 DEF pickerNewFolder, NewFolder, Asks
  <2>2. d.kind = "mkdir" /\ d.root = picker.root /\ d.path = picker.path
    OBVIOUS
  <2>3. Makes(d)'
    BY <2>1, <2>2 DEF Makes
  <2> QED BY <2>1, <2>3 DEF MadeInv, Named
<1> QED BY <1>1, <1>2, <1>4, <1>5, <1>6 DEF PickerAction

LEMMA AnswerMade ==
  ASSUME TypeInv, StateOK', TreeInv, MadeInv, NEW c \in calls, PickerAnswer(c)
  PROVE  MadeInv'
<1>0. StateOK /\ picker \in Picker /\ PanelTypeOK
  BY TypeInvIs DEF TypeInv, StateOK
<1>1. CASE made' = NoPath
  BY <1>1 DEF MadeInv
<1>2. c.kind \in PickerKinds
  BY DEF PickerAnswer, BrowseAnswered, BrowseFails, MkdirResolved, MkdirAnswered, MkdirFails, PickerKinds
<1>3. /\ c \in PickerCall /\ c.root \in Roots
      /\ c.path \in Path \cup {NoPath}
      /\ c.kind # "browse" => c.name \in Names
  BY <1>0, <1>2, CallsAre
<1>4. /\ picker.root \in Roots /\ picker.path \in Path \cup {NoPath}
  BY <1>0 DEF Picker
<1>5. CASE BrowseAnswered(c) \/ MkdirFails(c)
  BY <1>1, <1>5 DEF BrowseAnswered, MkdirFails
<1>6. CASE BrowseFails(c) /\ made' # NoPath
  BY <1>6, QuietMade DEF BrowseFails, Answered
\* The request that is followed is the only one.
<1>7. ASSUME made # NoPath, Named(c), NEW d, Answered(c, {d}), Makes(d)'
      PROVE  MadeInv'
  <2>1. \A e \in calls : Named(e) => e = c
    BY <1>7 DEF MadeInv
  <2>2. \A e \in calls' : Named(e) => e = d
    BY <1>7, <2>1 DEF Answered
  <2> QED BY <1>7, <2>2 DEF MadeInv, Named
<1>8. CASE MkdirResolved(c) /\ made' # NoPath
  <2> PICK t, d : t = Target(c.root, c.path) /\ d = [c EXCEPT !.kind = "create", !.path = t]
    OBVIOUS
  <2>1. /\ made # NoPath /\ made' = Below(t, c.name) /\ UNCHANGED <<mounted, folders, picker>>
        /\ Answered(c, {d}) /\ c.kind = "mkdir" /\ Browsable(c.root)
    BY <1>8 DEF MkdirResolved
  <2>2. d.kind = "create" /\ d.name = c.name /\ d.path = t /\ d.root = c.root
    BY <1>3 DEF PickerCall
  <2>3. Named(c) /\ Makes(c)
    BY <2>1 DEF Named, MadeInv
  <2>4. t \in Path
    BY <1>0, <1>3, <2>1, TargetIsPath
  <2>5. t = Target(picker.root, picker.path) /\ c.root = picker.root
    BY <2>1, <2>3 DEF Makes
  <2>6. Target(picker.root, picker.path)' = Target(picker.root, picker.path)
    BY <2>1 DEF Target, Exists, Base, Top
  <2>7. Makes(d)'
    BY <2>1, <2>2, <2>4, <2>5, <2>6 DEF Makes, Below
  <2> QED BY <1>7, <2>1, <2>3, <2>7
<1>9. CASE MkdirAnswered(c) /\ made' # NoPath
  <2> PICK d : d = [kind |-> "browse", root |-> picker.root, path |-> picker.path, name |-> c.name]
    OBVIOUS
  <2>1. c.kind = "create" /\ Answered(c, {d}) /\ UNCHANGED <<mounted, picker>>
    BY <1>9 DEF MkdirAnswered
  <2>2. PICK r \in Disks : MadeOn(r, c.path, c.name)
    BY <1>9 DEF MkdirAnswered, MadeOutOfSight
  <2>3. made' = made /\ made # NoPath
    BY <1>9, <2>2 DEF MadeOn
  <2>4. Named(c)
    BY <2>1 DEF Named
  <2>5. c.path \in Path /\ c.path = Target(picker.root, picker.path) /\ made = Below(c.path, c.name)
    BY <2>1, <2>3, <2>4 DEF MadeInv, Makes
  <2>6. PICK root, dir, name, at, new :
          /\ root = picker.root /\ dir = picker.path /\ name = c.name /\ at = c.path /\ new = made
    OBVIOUS
  <2>7. /\ root \in Roots /\ dir \in Path \cup {NoPath} /\ name \in Names /\ at \in Path /\ new \in Path
        /\ at = Target(root, dir) /\ MadeOn(r, at, name) /\ new = Below(at, name)
    BY <1>3, <1>4, <2>1, <2>2, <2>5, <2>6, BelowIs
  <2>8. Picked(Target(root, dir), name)' = new
    BY <1>0, <2>1, <2>7, NewIsPicked
  <2>9. d.kind = "browse" /\ d.root = root /\ d.path = dir /\ d.name = name
    BY <2>6
  <2>10. Makes(d)'
    BY <2>1, <2>3, <2>6, <2>8, <2>9 DEF Makes
  <2> QED BY <1>7, <2>1, <2>3, <2>4, <2>10
<1> QED BY <1>1, <1>5, <1>6, <1>8, <1>9 DEF PickerAnswer

LEMMA MadeStep == TypeInv /\ TypeInv' /\ TreeInv /\ MadeInv /\ [PanelNext]_panelVars => MadeInv'
<1> SUFFICES ASSUME TypeInv, TypeInv', TreeInv, MadeInv, [PanelNext]_panelVars PROVE MadeInv'
  OBVIOUS
<1>1. StateOK'
  BY TypeInvIs, PTL
<1>2. CASE UNCHANGED panelVars
  BY <1>2, QuietMade DEF panelVars, pickerVars
<1>3. CASE PanelNext
  BY <1>1, <1>3, PanelMade, PickerMade, AnswerMade DEF PanelNext
<1> QED BY <1>2, <1>3

-----------------------------------------------------------------------------
(* The theorems.                                                           *)

LEMMA PanelInvInit == PanelInit => PanelInv
<1> SUFFICES ASSUME PanelInit PROVE PanelInv
  OBVIOUS
<1>1. TypeInv
  BY PanelTypeInit
<1>2. RacedInv /\ UnderInv /\ MadeInv
  BY DEF PanelInit, PickerInit, RacedInv, PanelIsOfPartition, UnderInv, MadeInv, NoInfo
<1>3. TreeInv
  BY DEF PanelInit, PickerInit, TreeInv
<1> QED BY <1>1, <1>2, <1>3 DEF PanelInv

LEMMA PanelInvHolds == PanelSpec => []PanelInv
<1>1. PanelInv /\ [PanelNext]_panelVars => PanelInv'
  BY PanelTypeKept, TreeStep, RacedStep, UnderStep, MadeStep DEF PanelInv
<1> QED BY <1>1, PanelInvInit, PTL DEF PanelSpec

\* With no refresh awaited the panel tells of the partition selected, and
\* editorMountDir is the mount point it shows, unless refreshes for two
\* partitions were awaited at once: refreshPartInfo and its callers.
THEOREM PanelTellsOfPartition == PanelSpec => []PanelIsOfPartition
<1>1. PanelInv => PanelIsOfPartition
  BY DEF PanelInv, RacedInv, PanelIsOfPartition
<1> QED BY <1>1, PanelInvHolds, PTL

\* What pickDest makes of a choice in the partition's picker is kept relative to
\* %MNTBACKUPDIR%, whoever mounts and unmounts, as long as the partition is not
\* mounted elsewhere than the panel said.
THEOREM DestinationsAreGeneric == PanelSpec => []DestIsGeneric
<1>1. ASSUME PanelInv, known, picker.path # NoPath
      PROVE  folderDest = [root |-> Generic, rel |-> Choice.rel]
  <2>1. picker \in Picker /\ picker.path.root = editorMountDir
    BY <1>1, TypeInvIs DEF PanelInv, StateOK, UnderInv
  <2>2. picker.path \in Path /\ picker.entries \subseteq Names
    BY <1>1, <2>1 DEF Picker
  <2>3. \A n \in Names : Below(picker.path, n) \in Path /\ Below(picker.path, n).root = picker.path.root
    BY <2>2, BelowIs
  <2>4. Choice \in Path /\ Choice.root = editorMountDir
    BY <2>1, <2>2, <2>3 DEF Choice
  <2> QED BY <2>4 DEF folderDest, toGeneric, Path
<1>2. PanelInv => DestIsGeneric
  BY <1>1 DEF DestIsGeneric
<1> QED BY <1>2, PanelInvHolds, PTL

\* When "New folder" is through, the primary button picks the folder that was
\* made, also when both requests were clamped to the root: resolveBrowseTarget
\* on the way there and on the way back.
THEOREM NewFolderPicked == PanelSpec => NewFolderIsPicked
<1>1. ASSUME PanelInv, NEW c \in calls \ calls', BrowseAnswered(c), c.name # NoName, made # NoPath
      PROVE  Choice' = made
  <2>1. Named(c) /\ c.kind = "browse"
    BY <1>1 DEF BrowseAnswered, Named
  <2> DEFINE t == Target(c.root, c.path)
  <2>2. Picked(t, c.name) = made
    BY <1>1, <2>1 DEF PanelInv, MadeInv, Makes
  <2>3. picker \in Picker
    BY <1>1, TypeInvIs DEF PanelInv, StateOK
  <2>4. picker'.path = t /\ picker'.entries = Entries(t) /\ picker'.sel = c.name
    BY <1>1, <2>3 DEF BrowseAnswered, Picker
  <2> QED BY <2>2, <2>4 DEF Choice, Picked, Below
<1>2. PanelInv /\ [PanelNext]_panelVars =>
        [\A c \in calls \ calls' : BrowseAnswered(c) /\ c.name # NoName /\ made # NoPath => Choice' = made]_panelVars
  BY <1>1
<1> QED BY <1>2, PanelInvHolds, PTL DEF PanelSpec, NewFolderIsPicked
=============================================================================
