--------------------------- MODULE RunLogTailProofs ---------------------------
(***************************************************************************)
(* Proofs about the run-log viewer: for any number of runs, lines and      *)
(* failing requests, and any size of the preview.  That no line is lost    *)
(* rests on what the requests in flight hold (ReadsInv), on which of them  *)
(* may be in flight together (SlotInv), on whose they are (OwnInv) and on  *)
(* where a tick goes on from (TickInv).                                    *)
(*                                                                         *)
(* What is said about the view needs OneOpen: nobody clicks on another run *)
(* before the modal of the last shows.                                     *)
(***************************************************************************)
EXTENDS RunLogTail, SequenceTheorems, TLAPS

OneOpen == \A s, t \in OpenSlots : s = t

Reqs == [file : Files, off : Full..MaxLines, live : BOOLEAN, st : {"sent", "stat", "done"},
         size : 0..MaxLines, from : 0..MaxLines, to : 0..MaxLines, cut : BOOLEAN]

Busy(s) == net[s] # Idle

\* The types as the proof uses them: a request is sent for a run that was opened.
TailTyped ==
  /\ size \in [Files -> 0..MaxLines]
  /\ running \subseteq known /\ known \subseteq Files
  /\ net \in [Slots -> Reqs \cup {Idle}]
  /\ \A s, t \in Slots : s # t => \E r \in {s, t} : ~Busy(r) \/ net[r].st # "stat"
  /\ runFile \in Files \cup {NoFile}
  /\ runText \in Seq(Files \X (1..MaxLines))
  /\ runOffset \in 0..MaxLines
  /\ runOpen \/ (\E s \in Slots : Busy(s)) => runFile \in Files
  /\ {runTruncated, runOpen, runLive, runTimer, wasLive, filled, overtaken, foreign} \subseteq BOOLEAN
  /\ leaked \in 0..1

\* The size that was taken is one the file had before it was read; a read from an
\* offset starts there, and one without it at the head of the log or it says so.
ReadInv(r) ==
  /\ r.st # "sent" => r.size <= size[r.file]
  /\ r.st = "done" => /\ r.size <= r.to /\ r.to <= size[r.file]
                      /\ 0 <= r.off /\ r.off <= r.size => r.from = r.off
                      /\ r.off < 0 => IF r.cut THEN r.off # Full /\ r.to > 0 ELSE r.from = 0

ReadsInv == \A s \in Slots : Busy(s) => ReadInv(net[s])

\* While the answer to openRun is awaited the modal does not show and nothing
\* ticks; a full log is only asked for when there is one.
SlotInv ==
  /\ \A s \in OpenSlots : Busy(s) => /\ net[s].off = NoOffset /\ net[s].file = runFile
                                     /\ ~runOpen /\ ~runTimer /\ ~runLive
  /\ Busy("full") => /\ net["full"].off = Full /\ size[net["full"].file] > 0
                     /\ net["full"].st # "sent" => net["full"].size > 0
  /\ Busy("tick") => net["tick"].off >= 0
  /\ leaked = 0
  /\ runTruncated => runFile \in Files /\ size[runFile] > 0

\* The offset and the requests in flight belong to the run that is open.
OwnInv ==
  ~foreign /\ runFile \in Files =>
    /\ runOffset <= size[runFile]
    /\ \A s \in {"tick", "full"} : Busy(s) => ~Foreign(net[s], runFile)

Has(n) == <<runFile, n>> \in Range(runText)

\* A tick goes on from an offset the view has reached or will reach, unless a
\* full log overtook it.
TickInv ==
  ~foreign /\ Busy("tick") =>
    /\ \A s \in OpenSlots : Busy(s) /\ net[s].st # "sent" => net["tick"].off <= net[s].size
    /\ filled => net["tick"].off <= runOffset \/ (overtaken /\ Has(1))

WholeInv == filled /\ ~overtaken /\ ~foreign => Whole

ViewInv == SlotInv /\ OwnInv /\ TickInv /\ WholeInv /\ MissingHeadIsFlagged

IInv == TailTyped /\ ReadsInv /\ ViewInv

-----------------------------------------------------------------------------
\* What an answer holds: the lines behind its offset.
LEMMA LinesFact ==
  ASSUME NEW r \in Reqs
  PROVE  /\ Lines(r) \in Seq(Files \X (1..MaxLines))
         /\ \A f, n : <<f, n>> \in Range(Lines(r)) <=> f = r.file /\ n \in r.from + 1 .. r.to
<1> DEFINE k == r.to - r.from
<1>1. r.from \in Nat /\ r.to \in Nat /\ r.to <= MaxLines /\ r.file \in Files /\ MaxLines \in Nat
  BY TailAssumption DEF Reqs
<1>2. k \in Int /\ \A i \in 1..k : r.from + i \in 1..MaxLines
  BY <1>1
<1>3. Lines(r) = [i \in 1..k |-> <<r.file, r.from + i>>]
  BY DEF Lines
<1>4. \A i \in 1..k : <<r.file, r.from + i>> \in Files \X (1..MaxLines)
  BY <1>1, <1>2
<1>5. Lines(r) \in Seq(Files \X (1..MaxLines))
  <2>1. CASE k >= 0
    BY <1>2, <1>3, <1>4, <2>1
  <2>2. CASE ~(k >= 0)
    <3>1. 1..k = {}
      BY <1>2, <2>2
    <3>2. Lines(r) = <<>>
      BY <1>3, <3>1
    <3> QED BY <3>2
  <2> QED BY <2>1, <2>2
<1>6. \A f, n : <<f, n>> \in Range(Lines(r)) <=> \E i \in 1..k : f = r.file /\ n = r.from + i
  BY <1>3 DEF Range
<1>7. \A n : n \in r.from + 1 .. r.to <=> \E i \in 1..k : n = r.from + i
  <2>1. ASSUME NEW n \in r.from + 1 .. r.to PROVE \E i \in 1..k : n = r.from + i
    <3>1. n - r.from \in 1..k /\ n = r.from + (n - r.from)
      BY <1>1, <2>1
    <3> QED BY <3>1
  <2>2. ASSUME NEW n, NEW i \in 1..k, n = r.from + i PROVE n \in r.from + 1 .. r.to
    BY <1>1, <2>2
  <2> QED BY <2>1, <2>2
<1> QED BY <1>5, <1>6, <1>7

LEMMA RangeConcat ==
  ASSUME NEW S, NEW s \in Seq(S), NEW t \in Seq(S)
  PROVE  \A e : e \in Range(s \o t) <=> e \in Range(s) \/ e \in Range(t)
<1> DEFINE u == s \o t
<1>1. /\ u \in Seq(S) /\ Len(u) = Len(s) + Len(t)
      /\ \A i \in 1..Len(s) + Len(t) : u[i] = IF i <= Len(s) THEN s[i] ELSE t[i - Len(s)]
  BY ConcatProperties
<1> HIDE DEF u
<1>2. PICK m \in Nat, n \in Nat : m = Len(s) /\ n = Len(t)
  OBVIOUS
<1>3. DOMAIN u = 1..m + n /\ DOMAIN s = 1..m /\ DOMAIN t = 1..n
  BY <1>1, <1>2
<1>4. \A i \in 1..m : i \in 1..m + n /\ u[i] = s[i]
  BY <1>1, <1>2
<1>5. \A i \in 1..n : m + i \in 1..m + n /\ u[m + i] = t[i]
  <2>1. SUFFICES ASSUME NEW i \in 1..n PROVE m + i \in 1..m + n /\ u[m + i] = t[i]
    OBVIOUS
  <2>2. PICK j \in 1..m + n : j = m + i /\ ~(j <= m) /\ j - m = i
    BY <1>2
  <2>3. u[j] = t[j - m]
    BY <1>1, <1>2, <2>2
  <2> QED BY <2>2, <2>3
<1>6. \A i \in 1..m + n : i \in 1..m \/ \E j \in 1..n : i = m + j
  <2>1. SUFFICES ASSUME NEW i \in 1..m + n, ~(i \in 1..m) PROVE i - m \in 1..n /\ i = m + (i - m)
    OBVIOUS
  <2> QED BY <1>2, <2>1
<1>7. ASSUME NEW e, e \in Range(u) PROVE e \in Range(s) \/ e \in Range(t)
  <2>1. PICK i \in 1..m + n : e = u[i]
    BY <1>3, <1>7 DEF Range
  <2> QED BY <1>3, <1>4, <1>5, <1>6, <2>1 DEF Range
<1>8. ASSUME NEW e, e \in Range(s) \/ e \in Range(t) PROVE e \in Range(u)
  <2>1. CASE e \in Range(s)
    BY <1>3, <1>4, <2>1 DEF Range
  <2>2. CASE e \in Range(t)
    BY <1>3, <1>5, <2>2 DEF Range
  <2> QED BY <1>8, <2>1, <2>2
<1> QED BY <1>7, <1>8 DEF u

\* What the handler's second look leaves in the answer.
LEMMA ReadFact ==
  ASSUME size \in [Files -> 0..MaxLines], NEW r \in Reqs, r.size <= size[r.file]
  PROVE  LET q == ReadLog(r) IN
         /\ q \in Reqs /\ q.st = "done"
         /\ q.file = r.file /\ q.off = r.off /\ q.size = r.size /\ q.live = r.live
         /\ ReadInv(q)
<1> DEFINE end == size[r.file]
           q == ReadLog(r)
<1>1. end \in 0..MaxLines /\ MaxLines \in Nat /\ Preview \in Nat \ {0}
  BY TailAssumption DEF Reqs
<1>2. r.off \in Full..MaxLines /\ r.size \in 0..MaxLines /\ r.file \in Files /\ r.live \in BOOLEAN /\ r.cut \in BOOLEAN
  BY DEF Reqs
<1>3. CASE r.off >= 0 /\ r.off <= r.size
  <2>1. q = [r EXCEPT !.st = "done", !.from = r.off, !.to = end]
    BY <1>3 DEF ReadLog
  <2>2. r.off \in 0..MaxLines
    BY <1>1, <1>2, <1>3
  <2>3. q \in Reqs
    BY <1>1, <2>1, <2>2 DEF Reqs
  <2>4. /\ q.st = "done" /\ q.file = r.file /\ q.off = r.off /\ q.size = r.size /\ q.live = r.live
        /\ q.from = r.off /\ q.to = end
    BY <2>1 DEF Reqs
  <2> HIDE DEF q
  <2>5. ReadInv(q)
    BY <1>1, <1>2, <1>3, <2>4 DEF ReadInv
  <2> QED BY <2>3, <2>4, <2>5 DEF q
<1>4. CASE ~(r.off >= 0 /\ r.off <= r.size)
  <2> DEFINE a == IF r.off = Full THEN 0 ELSE Max0(end - Preview)
             c == r.off # Full /\ end > Preview
  <2>1. q = [r EXCEPT !.st = "done", !.to = end, !.from = a, !.cut = c]
    BY <1>4 DEF ReadLog
  <2>2. a \in 0..MaxLines /\ c \in BOOLEAN /\ (~c => a = 0) /\ (c => end > 0 /\ r.off # Full)
    BY <1>1 DEF Max0
  <2> HIDE DEF a, c
  <2>3. q \in Reqs
    BY <1>1, <2>1, <2>2 DEF Reqs
  <2>4. /\ q.st = "done" /\ q.file = r.file /\ q.off = r.off /\ q.size = r.size /\ q.live = r.live
        /\ q.from = a /\ q.to = end /\ (q.cut <=> c)
    BY <2>1 DEF Reqs
  <2> HIDE DEF q
  <2>5. ~(0 <= q.off /\ q.off <= q.size)
    BY <1>2, <1>4, <2>4
  <2>6. q.size <= q.to /\ q.to <= size[q.file] /\ q.size <= size[q.file]
    BY <1>1, <2>4
  <2>7. (~q.cut => q.from = 0) /\ (q.cut => q.to > 0 /\ q.off # Full)
    BY <2>2, <2>4
  <2>8. ReadInv(q)
    BY <2>5, <2>6, <2>7 DEF ReadInv
  <2> QED BY <2>3, <2>4, <2>8 DEF q
<1> QED BY <1>3, <1>4


LEMMA TailInit == Init => IInv
<1> SUFFICES ASSUME Init PROVE IInv
  OBVIOUS
<1> USE TailAssumption DEF Init
<1>1. TailTyped
  <2>1. \A s \in Slots : ~Busy(s)
    BY DEF Busy
  <2>2. runText \in Seq(Files \X (1..MaxLines))
    OBVIOUS
  <2>3. size \in [Files -> 0..MaxLines] /\ net \in [Slots -> Reqs \cup {Idle}]
    OBVIOUS
  <2>4. \A s, t \in Slots : s # t => \E r \in {s, t} : ~Busy(r) \/ net[r].st # "stat"
    BY <2>1
  <2>5. runOffset \in 0..MaxLines /\ leaked \in 0..1
    OBVIOUS
  <2>6. {runTruncated, runOpen, runLive, runTimer, wasLive, filled, overtaken, foreign} \subseteq BOOLEAN
    OBVIOUS
  <2>7. ~runOpen /\ running \subseteq known /\ known \subseteq Files /\ runFile \in Files \cup {NoFile}
    OBVIOUS
  <2> HIDE DEF Init
  <2> QED BY <2>1, <2>2, <2>3, <2>4, <2>5, <2>6, <2>7 DEF TailTyped
<1>2. ReadsInv /\ SlotInv /\ OwnInv /\ TickInv
  BY DEF ReadsInv, SlotInv, OwnInv, TickInv, Busy, Slots
<1>3. WholeInv /\ MissingHeadIsFlagged
  BY DEF WholeInv, MissingHeadIsFlagged
<1> QED BY <1>1, <1>2, <1>3 DEF IInv, ViewInv

\* A request is sent for a run, from an offset or without one.
LEMMA SendFact ==
  ASSUME TailTyped, NEW slot \in Slots, NEW f \in Files, NEW off \in Full..MaxLines, NEW live \in BOOLEAN,
         Send(slot, Request(f, off, live))
  PROVE  /\ net' \in [Slots -> Reqs \cup {Idle}]
         /\ \A s \in Slots : s # slot => net'[s] = net[s]
         /\ net'[slot] = Request(f, off, live)
         /\ net'[slot].st = "sent" /\ net'[slot].file = f /\ net'[slot].off = off
<1>1. Request(f, off, live) \in Reqs
  BY TailAssumption DEF Request, Reqs
<1>2. net' = [net EXCEPT ![slot] = Request(f, off, live)] /\ net \in [Slots -> Reqs \cup {Idle}]
  BY DEF Send, TailTyped
<1>3. net'[slot] = Request(f, off, live)
  BY <1>2
<1>4. net'[slot].st = "sent" /\ net'[slot].file = f /\ net'[slot].off = off
  BY <1>3 DEF Request
<1> QED BY <1>1, <1>2, <1>3, <1>4

\* The handler's first look.
LEMMA StatFact ==
  ASSUME TailTyped, NEW s \in Slots, TakeSize(s)
  PROVE  /\ net' \in [Slots -> Reqs \cup {Idle}]
         /\ \A t \in Slots : t # s => net'[t] = net[t]
         /\ Busy(s) /\ net[s] \in Reqs /\ net[s].st = "sent"
         /\ net'[s].st = "stat" /\ net'[s].file = net[s].file /\ net'[s].off = net[s].off
         /\ net'[s].live = net[s].live /\ net'[s].size = size[net[s].file]
<1>1. net \in [Slots -> Reqs \cup {Idle}] /\ size \in [Files -> 0..MaxLines]
  BY DEF TailTyped
<1>2. Busy(s) /\ net[s] \in Reqs /\ net[s].st = "sent"
  BY <1>1 DEF TakeSize, Busy
<1> DEFINE q == [net[s] EXCEPT !.st = "stat", !.size = size[net[s].file]]
<1>3. net' = [net EXCEPT ![s] = q]
  BY <1>1 DEF TakeSize
<1>4. size[net[s].file] \in 0..MaxLines
  BY <1>1, <1>2 DEF Reqs
<1>5. q \in Reqs
  BY <1>2, <1>4 DEF Reqs
<1>6. /\ q.st = "stat" /\ q.file = net[s].file /\ q.off = net[s].off
      /\ q.live = net[s].live /\ q.size = size[net[s].file]
  BY <1>2 DEF Reqs
<1> HIDE DEF q
<1> QED BY <1>1, <1>2, <1>3, <1>5, <1>6

\* The handler's second look.
LEMMA ReadAllFact ==
  ASSUME TailTyped, ReadsInv, NEW s \in Slots, ReadAll(s)
  PROVE  /\ net' \in [Slots -> Reqs \cup {Idle}]
         /\ \A t \in Slots : t # s => net'[t] = net[t]
         /\ Busy(s) /\ net[s] \in Reqs /\ net[s].st = "stat"
         /\ net'[s].st = "done" /\ net'[s].file = net[s].file /\ net'[s].off = net[s].off
         /\ net'[s].live = net[s].live /\ net'[s].size = net[s].size /\ ReadInv(net'[s])
<1>1. net \in [Slots -> Reqs \cup {Idle}] /\ size \in [Files -> 0..MaxLines]
  BY DEF TailTyped
<1>2. Busy(s) /\ net[s] \in Reqs /\ net[s].st = "stat"
  BY <1>1 DEF ReadAll, Busy
<1> DEFINE q == ReadLog(net[s])
<1>3. net' = [net EXCEPT ![s] = q]
  BY <1>1 DEF ReadAll
<1>4. net[s].size <= size[net[s].file]
  BY <1>2 DEF ReadsInv, ReadInv
<1>5. /\ q \in Reqs /\ q.st = "done" /\ q.file = net[s].file /\ q.off = net[s].off
      /\ q.size = net[s].size /\ q.live = net[s].live /\ ReadInv(q)
  BY <1>1, <1>2, <1>4, ReadFact
<1> HIDE DEF q
<1> QED BY <1>1, <1>2, <1>3, <1>5


LEMMA IdleFact ==
  ASSUME TailTyped, NEW s \in Slots, net' = [net EXCEPT ![s] = Idle]
  PROVE  /\ net' \in [Slots -> Reqs \cup {Idle}]
         /\ \A t \in Slots : t # s => net'[t] = net[t]
         /\ net'[s] = Idle
  BY DEF TailTyped

\* The part of the types that is about the requests, kept when one of them
\* changes and does not begin its two looks at the file.
LEMMA NetTyped ==
  ASSUME TailTyped, NEW s \in Slots,
         \A t \in Slots : t # s => net'[t] = net[t],
         net'[s] = Idle \/ net'[s].st # "stat"
  PROVE  \A t, u \in Slots : t # u => \E r \in {t, u} : ~(net'[r] # Idle) \/ net'[r].st # "stat"
<1> SUFFICES ASSUME NEW t \in Slots, NEW u \in Slots, t # u
             PROVE  \E r \in {t, u} : ~(net'[r] # Idle) \/ net'[r].st # "stat"
  OBVIOUS
<1>1. CASE t = s \/ u = s
  BY <1>1
<1>2. CASE t # s /\ u # s
  <2>1. \E r \in {t, u} : ~Busy(r) \/ net[r].st # "stat"
    BY DEF TailTyped
  <2> QED BY <1>2, <2>1 DEF Busy
<1> QED BY <1>1, <1>2

LEMMA TypedStep == ASSUME TailTyped, ReadsInv, [Next]_vars PROVE TailTyped'
<1> USE TailAssumption DEF page
<1>0. /\ size \in [Files -> 0..MaxLines] /\ net \in [Slots -> Reqs \cup {Idle}]
      /\ running \subseteq known /\ known \subseteq Files /\ runFile \in Files \cup {NoFile}
      /\ runText \in Seq(Files \X (1..MaxLines)) /\ runOffset \in 0..MaxLines /\ leaked \in 0..1
      /\ {runTruncated, runOpen, runLive, runTimer, wasLive, filled, overtaken, foreign} \subseteq BOOLEAN
  BY DEF TailTyped
<1>a. Full \in Full..MaxLines /\ NoOffset \in Full..MaxLines /\ 0..MaxLines \subseteq Full..MaxLines
  BY DEF Full, NoOffset
<1>b. OpenSlots \subseteq Slots /\ "tick" \in Slots /\ "full" \in Slots
  BY DEF Slots
<1>1. ASSUME NEW f \in Files, WriteLine(f) PROVE TailTyped'
  <2>1. size' \in [Files -> 0..MaxLines]
    BY <1>0, <1>1 DEF WriteLine
  <2> QED BY <1>1, <2>1 DEF WriteLine, TailTyped, Busy
<1>2. ASSUME NEW f \in Files, Finish(f) PROVE TailTyped'
  BY <1>2 DEF Finish, TailTyped, Busy
<1>3. ASSUME NEW f \in Files, JobStopped(f) PROVE TailTyped'
  <2>1. UNCHANGED <<size, running, page>> /\ running' \subseteq known' /\ known' \subseteq Files
    BY <1>0, <1>3 DEF JobStopped
  <2>2. CASE runLive /\ runFile = f /\ ~runTailBusy
    <3>1. Send("tick", Request(runFile, runOffset, FALSE)) /\ runFile \in Files
      BY <1>3, <2>2 DEF JobStopped
    <3>2. /\ net' \in [Slots -> Reqs \cup {Idle}]
          /\ \A s \in Slots : s # "tick" => net'[s] = net[s]
          /\ net'["tick"].st = "sent"
      BY <1>0, <1>a, <1>b, <3>1, SendFact
    <3>3. \A t, u \in Slots : t # u => \E r \in {t, u} : ~(net'[r] # Idle) \/ net'[r].st # "stat"
      BY <1>b, <3>2, NetTyped
    <3> QED BY <2>1, <3>1, <3>2, <3>3 DEF TailTyped, Busy
  <2>3. CASE ~(runLive /\ runFile = f /\ ~runTailBusy)
    <3>1. net' = net
      BY <1>3, <2>3 DEF JobStopped
    <3> QED BY <2>1, <3>1 DEF TailTyped, Busy
  <2> QED BY <2>2, <2>3
<1>4. ASSUME NEW f \in Files, NEW s \in OpenSlots, openRun(f, s) PROVE TailTyped'
  <2>1. (f \in known) \in BOOLEAN /\ Send(s, Request(f, NoOffset, f \in known))
    BY <1>4 DEF openRun
  <2>2. /\ net' \in [Slots -> Reqs \cup {Idle}]
        /\ \A t \in Slots : t # s => net'[t] = net[t]
        /\ net'[s].st = "sent"
    BY <1>0, <1>a, <1>b, <2>1, SendFact
  <2>3. \A t, u \in Slots : t # u => \E r \in {t, u} : ~(net'[r] # Idle) \/ net'[r].st # "stat"
    BY <1>b, <2>2, NetTyped
  <2>4. {runTruncated, runOpen, runLive, runTimer, wasLive, filled, overtaken, foreign}' \subseteq BOOLEAN
    <3>1. {runTruncated, runOpen, runLive, runTimer, filled, overtaken}' \subseteq BOOLEAN
      BY <1>0, <1>4 DEF openRun
    <3>2. wasLive' \in BOOLEAN
      BY <1>4 DEF openRun
    <3>3. foreign' \in BOOLEAN
      BY <1>4 DEF openRun
    <3> QED BY <3>1, <3>2, <3>3
  <2>5. /\ runText' = <<>> /\ runOffset' = 0 /\ runFile' = f
        /\ UNCHANGED <<size, running, known, leaked>>
    BY <1>4 DEF openRun
  <2> QED BY <1>0, <2>2, <2>3, <2>4, <2>5 DEF TailTyped, Busy
<1>5. ASSUME NEW s \in Slots, TakeSize(s) PROVE TailTyped'
  <2>1. /\ net' \in [Slots -> Reqs \cup {Idle}]
        /\ \A t \in Slots : t # s => net'[t] = net[t]
        /\ Busy(s)
    BY <1>5, StatFact
  <2>2. /\ \A t \in Slots : Busy(t) => net[t].st # "stat"
        /\ UNCHANGED <<size, running, known, page>>
    BY <1>5 DEF TakeSize, Busy
  <2>3. \A t, u \in Slots : t # u => \E r \in {t, u} : ~(net'[r] # Idle) \/ net'[r].st # "stat"
    BY <2>1, <2>2 DEF Busy
  <2> QED BY <2>1, <2>2, <2>3 DEF TailTyped, Busy
<1>6. ASSUME NEW s \in Slots, ReadAll(s) PROVE TailTyped'
  <2>1. /\ net' \in [Slots -> Reqs \cup {Idle}]
        /\ \A t \in Slots : t # s => net'[t] = net[t]
        /\ Busy(s) /\ net'[s].st = "done"
    BY <1>6, ReadAllFact
  <2>2. UNCHANGED <<size, running, known, page>>
    BY <1>6 DEF ReadAll
  <2>3. \A t, u \in Slots : t # u => \E r \in {t, u} : ~(net'[r] # Idle) \/ net'[r].st # "stat"
    BY <2>1, NetTyped
  <2> QED BY <2>1, <2>2, <2>3 DEF TailTyped, Busy
<1>7. ASSUME NEW s \in OpenSlots, Opened(s), net[s] # Idle,
             runText' \in Seq(Files \X (1..MaxLines)), runOffset' \in 0..MaxLines, {runTruncated, filled}' \subseteq BOOLEAN
      PROVE  TailTyped'
  <2>1. net' = [net EXCEPT ![s] = Idle] /\ net[s] \in Reqs /\ net[s].live \in BOOLEAN
    BY <1>0, <1>7, <1>b DEF Opened, Reqs
  <2>2. /\ net' \in [Slots -> Reqs \cup {Idle}]
        /\ \A t \in Slots : t # s => net'[t] = net[t]
        /\ net'[s] = Idle
    BY <1>b, <2>1, IdleFact
  <2>3. \A t, u \in Slots : t # u => \E r \in {t, u} : ~(net'[r] # Idle) \/ net'[r].st # "stat"
    BY <1>b, <2>2, NetTyped
  <2>4. runFile \in Files
    BY <1>7, <1>b DEF TailTyped, Busy
  <2>5. /\ UNCHANGED <<size, running, known, runFile, wasLive, overtaken, foreign>>
        /\ leaked' \in 0..1 /\ {runOpen, runLive, runTimer}' \subseteq BOOLEAN
    BY <1>0, <1>7, <2>1 DEF Opened
  <2> QED BY <1>0, <1>7, <2>2, <2>3, <2>4, <2>5 DEF TailTyped, Busy
<1>8. ASSUME NEW s \in OpenSlots, OpenAnswered(s) PROVE TailTyped'
  <2>1. net[s] \in Reqs /\ net[s] # Idle
    BY <1>0, <1>8, <1>b DEF OpenAnswered
  <2>2. Lines(net[s]) \in Seq(Files \X (1..MaxLines)) /\ net[s].size \in 0..MaxLines /\ net[s].cut \in BOOLEAN
    BY <2>1, LinesFact DEF Reqs
  <2> QED BY <1>7, <1>8, <2>1, <2>2 DEF OpenAnswered
<1>9. ASSUME NEW s \in OpenSlots, OpenFailed(s) PROVE TailTyped'
  BY <1>0, <1>7, <1>9 DEF OpenFailed
<1>10. CASE Tick
  <2>1. /\ Send("tick", Request(runFile, runOffset, FALSE)) /\ runFile \in Files
        /\ UNCHANGED <<size, running, known, page>>
    BY <1>0, <1>10 DEF Tick
  <2>2. /\ net' \in [Slots -> Reqs \cup {Idle}]
        /\ \A s \in Slots : s # "tick" => net'[s] = net[s]
        /\ net'["tick"].st = "sent"
    BY <1>0, <1>a, <1>b, <2>1, SendFact
  <2>3. \A t, u \in Slots : t # u => \E r \in {t, u} : ~(net'[r] # Idle) \/ net'[r].st # "stat"
    BY <1>b, <2>2, NetTyped
  <2> QED BY <2>1, <2>2, <2>3 DEF TailTyped, Busy
<1>11. CASE TickAnswered \/ TickFailed
  <2>1. TickDone /\ runTailBusy
    BY <1>11 DEF TickAnswered, TickFailed
  <2>2. /\ net' \in [Slots -> Reqs \cup {Idle}]
        /\ \A t \in Slots : t # "tick" => net'[t] = net[t]
        /\ net'["tick"] = Idle
    BY <1>b, <2>1, IdleFact DEF TickDone
  <2>3. \A t, u \in Slots : t # u => \E r \in {t, u} : ~(net'[r] # Idle) \/ net'[r].st # "stat"
    BY <1>b, <2>2, NetTyped
  <2>4. net["tick"] \in Reqs /\ runFile \in Files
    BY <1>0, <1>b, <2>1 DEF runTailBusy, TailTyped, Busy
  <2>5. /\ Lines(net["tick"]) \in Seq(Files \X (1..MaxLines)) /\ net["tick"].size \in 0..MaxLines
    BY <2>4, LinesFact DEF Reqs
  <2>6. runText' \in Seq(Files \X (1..MaxLines)) /\ runOffset' \in 0..MaxLines
    <3>1. runText \o Lines(net["tick"]) \in Seq(Files \X (1..MaxLines))
      BY <1>0, <2>5, ConcatProperties
    <3> QED BY <1>0, <1>11, <2>5, <3>1 DEF TickAnswered, TickFailed
  <2>7. /\ {runLive, runTimer}' \subseteq BOOLEAN
        /\ UNCHANGED <<size, running, known, runFile, runTruncated, runOpen, leaked, wasLive, filled, overtaken, foreign>>
    BY <1>0, <2>1 DEF TickDone
  <2> QED BY <1>0, <2>2, <2>3, <2>4, <2>6, <2>7 DEF TailTyped, Busy
<1>12. CASE loadFullLog
  <2>1. /\ Send("full", Request(runFile, Full, FALSE)) /\ runFile \in Files
        /\ UNCHANGED <<size, running, known, page>>
    BY <1>12 DEF loadFullLog, TailTyped
  <2>2. /\ net' \in [Slots -> Reqs \cup {Idle}]
        /\ \A s \in Slots : s # "full" => net'[s] = net[s]
        /\ net'["full"].st = "sent"
    BY <1>0, <1>a, <1>b, <2>1, SendFact
  <2>3. \A t, u \in Slots : t # u => \E r \in {t, u} : ~(net'[r] # Idle) \/ net'[r].st # "stat"
    BY <1>b, <2>2, NetTyped
  <2> QED BY <2>1, <2>2, <2>3 DEF TailTyped, Busy
<1>13. CASE FullAnswered \/ FullFailed
  <2>1. net["full"] # Idle /\ net' = [net EXCEPT !["full"] = Idle] /\ UNCHANGED <<size, running, known, runFile>>
    BY <1>13 DEF FullAnswered, FullFailed
  <2>2. /\ net' \in [Slots -> Reqs \cup {Idle}]
        /\ \A t \in Slots : t # "full" => net'[t] = net[t]
        /\ net'["full"] = Idle
    BY <1>b, <2>1, IdleFact
  <2>3. \A t, u \in Slots : t # u => \E r \in {t, u} : ~(net'[r] # Idle) \/ net'[r].st # "stat"
    BY <1>b, <2>2, NetTyped
  <2>4. net["full"] \in Reqs /\ runFile \in Files
    BY <1>0, <1>b, <2>1 DEF TailTyped, Busy
  <2>5. /\ Lines(net["full"]) \in Seq(Files \X (1..MaxLines)) /\ net["full"].size \in 0..MaxLines
    BY <2>4, LinesFact DEF Reqs
  <2>6. runText' \in Seq(Files \X (1..MaxLines)) /\ runOffset' \in 0..MaxLines /\ leaked' \in 0..1
    BY <1>0, <1>13, <2>5 DEF FullAnswered, FullFailed
  <2>7. {runTruncated, runOpen, runLive, runTimer, wasLive, filled, overtaken, foreign}' \subseteq BOOLEAN
    BY <1>0, <1>13 DEF FullAnswered, FullFailed, runTailBusy
  <2> QED BY <1>0, <2>1, <2>2, <2>3, <2>4, <2>6, <2>7 DEF TailTyped, Busy
<1>14. CASE closeRun
  BY <1>0, <1>14 DEF closeRun, TailTyped, Busy
<1>15. CASE UNCHANGED vars
  BY <1>15 DEF vars, TailTyped, Busy
<1> QED BY <1>1, <1>2, <1>3, <1>4, <1>5, <1>6, <1>8, <1>9, <1>10, <1>11, <1>12, <1>13, <1>14, <1>15 DEF Next


-----------------------------------------------------------------------------
LEMMA NetFact ==
  ASSUME TailTyped
  PROVE  /\ \A s \in Slots : Busy(s) => /\ net[s] \in Reqs /\ net[s].file \in Files /\ net[s].off \in Int
                                        /\ net[s].size \in Nat /\ net[s].from \in Nat /\ net[s].to \in Nat
                                        /\ runFile \in Files
         /\ \A f \in Files : size[f] \in Nat
         /\ runOffset \in Nat /\ MaxLines \in Nat
         /\ OpenSlots \subseteq Slots /\ "tick" \in Slots /\ "full" \in Slots
         /\ "tick" \notin OpenSlots /\ "full" \notin OpenSlots
<1>1. ASSUME NEW s \in Slots, Busy(s) PROVE net[s] \in Reqs
  BY <1>1 DEF TailTyped, Busy
<1>2. ASSUME NEW s \in Slots, Busy(s) PROVE runFile \in Files
  BY <1>2 DEF TailTyped
<1>3. ASSUME NEW r \in Reqs
      PROVE  r.file \in Files /\ r.off \in Int /\ r.size \in Nat /\ r.from \in Nat /\ r.to \in Nat
  BY TailAssumption DEF Reqs
<1>4. \A f \in Files : size[f] \in Nat
  BY TailAssumption DEF TailTyped
<1>5. runOffset \in Nat /\ MaxLines \in Nat
  BY TailAssumption DEF TailTyped
<1>6. OpenSlots \subseteq Slots /\ "tick" \in Slots /\ "full" \in Slots /\ "tick" \notin OpenSlots /\ "full" \notin OpenSlots
  BY TailAssumption DEF Slots
<1> QED BY <1>1, <1>2, <1>3, <1>4, <1>5, <1>6

\* What is said of the answers holds however many calls of openRun are in flight.
LEMMA ReadsStep == ASSUME TailTyped, ReadsInv, [Next]_vars PROVE ReadsInv'
<1>1. ASSUME size' = size, NEW s \in Slots, \A t \in Slots : t # s => net'[t] = net[t],
             net'[s] = Idle \/ net'[s].st \in {"sent"} \/ ReadInv(net'[s])
      PROVE  ReadsInv'
  BY <1>1 DEF ReadsInv, ReadInv, Busy
<1>2. ASSUME NEW f \in Files, WriteLine(f) PROVE ReadsInv'
  <2>1. net' = net /\ \A g \in Files : size[g] \in Nat /\ (size'[g] = size[g] \/ size'[g] = size[g] + 1)
    BY <1>2, NetFact DEF WriteLine, TailTyped
  <2>2. ASSUME NEW s \in Slots, Busy(s) PROVE ReadInv(net[s])'
    <3>1. ReadInv(net[s]) /\ net[s].file \in Files /\ net[s].size \in Nat /\ net[s].to \in Nat
      BY <2>2, NetFact DEF ReadsInv
    <3> QED BY <2>1, <3>1 DEF ReadInv
  <2> QED BY <2>1, <2>2 DEF ReadsInv, Busy
<1>3. ASSUME UNCHANGED <<size, net>> PROVE ReadsInv'
  BY <1>3 DEF ReadsInv, ReadInv, Busy
<1>4. ASSUME NEW s \in Slots, NEW f \in Files, NEW off \in Full..MaxLines, NEW live \in BOOLEAN,
             Send(s, Request(f, off, live)), size' = size
      PROVE  ReadsInv'
  BY <1>1, <1>4, SendFact
<1>5. ASSUME NEW s \in Slots, net' = [net EXCEPT ![s] = Idle], size' = size PROVE ReadsInv'
  BY <1>1, <1>5, IdleFact
<1>6. /\ runOffset \in Full..MaxLines /\ NoOffset \in Full..MaxLines /\ Full \in Full..MaxLines
      /\ FALSE \in BOOLEAN /\ OpenSlots \subseteq Slots /\ "tick" \in Slots /\ "full" \in Slots
  BY TailAssumption DEF TailTyped, Full, NoOffset, Slots
<1>7. ASSUME NEW f \in Files, NEW s \in OpenSlots, openRun(f, s) PROVE ReadsInv'
  <2>1. Send(s, Request(f, NoOffset, f \in known)) /\ (f \in known) \in BOOLEAN /\ size' = size
    BY <1>7 DEF openRun
  <2> QED BY <1>4, <1>6, <2>1
<1>8. ASSUME NEW s \in Slots, TakeSize(s) PROVE ReadsInv'
  <2>1. /\ size' = size /\ \A t \in Slots : t # s => net'[t] = net[t]
        /\ net'[s].st = "stat" /\ net'[s].size = size[net'[s].file] /\ size[net'[s].file] \in Nat
    <3>1. net[s].file \in Files /\ size[net[s].file] \in Nat
      BY <1>8, StatFact, NetFact
    <3> QED BY <1>8, <3>1, StatFact DEF TakeSize
  <2> QED BY <1>1, <2>1 DEF ReadInv
<1>9. ASSUME NEW s \in Slots, ReadAll(s) PROVE ReadsInv'
  <2>1. size' = size
    BY <1>9 DEF ReadAll
  <2> QED BY <1>1, <1>9, <2>1, ReadAllFact
<1>10. ASSUME NEW s \in OpenSlots, OpenAnswered(s) \/ OpenFailed(s) PROVE ReadsInv'
  BY <1>5, <1>6, <1>10 DEF OpenAnswered, OpenFailed, Opened
<1>11. ASSUME Send("tick", Request(runFile, runOffset, FALSE)), runFile \in Files, size' = size PROVE ReadsInv'
  BY <1>4, <1>6, <1>11
<1>12. CASE Tick
  BY <1>11, <1>12 DEF Tick, TailTyped, page
<1>13. ASSUME NEW f \in Files, JobStopped(f) PROVE ReadsInv'
  <2>1. size' = size /\ (net' = net \/ (runFile = f /\ Send("tick", Request(runFile, runOffset, FALSE))))
    BY <1>13 DEF JobStopped
  <2> QED BY <1>3, <1>11, <2>1
<1>14. CASE loadFullLog
  <2>1. runFile \in Files /\ Send("full", Request(runFile, Full, FALSE)) /\ size' = size
    BY <1>14 DEF loadFullLog, TailTyped
  <2> QED BY <1>4, <1>6, <2>1
<1>15. CASE TickAnswered \/ TickFailed
  BY <1>5, <1>6, <1>15 DEF TickAnswered, TickFailed, TickDone
<1>16. CASE FullAnswered \/ FullFailed
  BY <1>5, <1>6, <1>16 DEF FullAnswered, FullFailed
<1>17. CASE closeRun \/ (\E f \in Files : Finish(f)) \/ UNCHANGED vars
  BY <1>3, <1>17 DEF closeRun, Finish, vars
<1> QED BY <1>2, <1>7, <1>8, <1>9, <1>10, <1>12, <1>13, <1>14, <1>15, <1>16, <1>17 DEF Next

\* The file grows.
LEMMA WriteStep == ASSUME IInv, NEW f \in Files, WriteLine(f) PROVE ViewInv'
<1> USE DEF IInv, ViewInv, page
<1>1. UNCHANGED <<running, known, net, page>>
  BY DEF WriteLine
<1>2. \A g \in Files : size[g] \in Nat /\ (size'[g] = size[g] \/ size'[g] = size[g] + 1)
  BY NetFact DEF WriteLine, TailTyped
<1>3. SlotInv'
  <2>1. Busy("full") => size'[net["full"].file] > 0
    BY <1>2, NetFact DEF SlotInv
  <2>2. runTruncated => runFile \in Files /\ size'[runFile] > 0
    BY <1>2 DEF SlotInv
  <2> QED BY <1>1, <2>1, <2>2 DEF SlotInv, Busy
<1>4. OwnInv'
  <2>1. SUFFICES ASSUME ~foreign, runFile \in Files
                 PROVE  /\ runOffset <= size'[runFile]
                        /\ \A s \in {"tick", "full"} : Busy(s) => ~Foreign(net[s], runFile)'
    BY <1>1 DEF OwnInv, Busy
  <2>2. runOffset <= size'[runFile]
    BY <1>2, <2>1, NetFact DEF OwnInv
  <2>3. ASSUME NEW s \in {"tick", "full"}, Busy(s) PROVE ~Foreign(net[s], runFile)'
    <3>1. ~Foreign(net[s], runFile) /\ net[s].off \in Int
      BY <2>1, <2>3, NetFact DEF OwnInv
    <3>2. net'[s] = net[s] /\ runFile' = runFile
      BY <1>1
    <3> QED BY <1>2, <2>1, <3>1, <3>2 DEF Foreign
  <2> QED BY <2>2, <2>3
<1>5. TickInv' /\ WholeInv' /\ MissingHeadIsFlagged'
  BY <1>1 DEF TickInv, WholeInv, Whole, MissingHeadIsFlagged, Has, Busy
<1> QED BY <1>3, <1>4, <1>5

\* Neither the file nor a request changes, and nothing is put into the view.
LEMMA QuietStep ==
  ASSUME IInv,
         UNCHANGED <<size, net, runFile, runText, runOffset, runTruncated, leaked, filled, overtaken, foreign>>,
         (~runOpen' /\ ~runLive' /\ ~runTimer') \/ UNCHANGED <<runOpen, runLive, runTimer>>
  PROVE  ViewInv'
<1> USE DEF IInv, ViewInv
<1>1. SlotInv'
  BY DEF SlotInv, Busy
<1>2. OwnInv' /\ TickInv'
  BY DEF OwnInv, TickInv, Foreign, Has, Busy
<1>3. WholeInv' /\ MissingHeadIsFlagged'
  BY DEF WholeInv, Whole, MissingHeadIsFlagged
<1> QED BY <1>1, <1>2, <1>3

\* The interval, or the final poll, sends a tick: no answer to openRun is awaited.
LEMMA SendTickStep ==
  ASSUME IInv, ~Busy("tick"), runTimer \/ runLive, runFile \in Files,
         Send("tick", Request(runFile, runOffset, FALSE)), UNCHANGED <<size, page>>
  PROVE  ViewInv'
<1> USE DEF IInv, ViewInv, page
<1>1. /\ \A s \in Slots : s # "tick" => net'[s] = net[s]
      /\ net'["tick"].st = "sent" /\ net'["tick"].file = runFile /\ net'["tick"].off = runOffset
  <2>1. runOffset \in Full..MaxLines /\ FALSE \in BOOLEAN
    BY TailAssumption DEF TailTyped, Full
  <2>2. TailTyped /\ "tick" \in Slots
    BY NetFact
  <2> HIDE DEF IInv, ViewInv, page
  <2>3. \A f \in Files, off \in Full..MaxLines, live \in BOOLEAN :
          Send("tick", Request(f, off, live)) =>
            /\ \A s \in Slots : s # "tick" => net'[s] = net[s]
            /\ net'["tick"].st = "sent" /\ net'["tick"].file = f /\ net'["tick"].off = off
    BY <2>2, SendFact
  <2> QED BY <2>1, <2>3
<1>2. \A s \in OpenSlots : ~Busy(s) /\ ~Busy(s)'
  BY <1>1, NetFact DEF SlotInv, Busy
<1>3. SlotInv'
  BY <1>1, <1>2, NetFact DEF SlotInv, Busy
<1>4. OwnInv'
  BY <1>1, NetFact DEF OwnInv, Foreign, Busy
<1>5. TickInv'
  BY <1>1, <1>2, NetFact DEF TickInv
<1>6. WholeInv' /\ MissingHeadIsFlagged'
  BY DEF WholeInv, Whole, MissingHeadIsFlagged
<1> QED BY <1>3, <1>4, <1>5, <1>6

\* Another run is opened: what is in flight for the one before is foreign to it.
LEMMA OpenStep ==
  ASSUME IInv, OneOpen, NEW f \in Files, NEW s \in OpenSlots, openRun(f, s)
  PROVE  ViewInv'
<1> USE DEF IInv, ViewInv
<1>1. /\ \A t \in Slots : t # s => net'[t] = net[t]
      /\ net'[s].st = "sent" /\ net'[s].file = f /\ net'[s].off = NoOffset
  <2>1. Send(s, Request(f, NoOffset, f \in known)) /\ (f \in known) \in BOOLEAN
    BY DEF openRun
  <2>2. NoOffset \in Full..MaxLines
    BY TailAssumption DEF NoOffset, Full
  <2>3. s \in Slots
    BY NetFact
  <2>4. \A t \in Slots : t # s => net'[t] = net[t]
    BY <2>1, <2>2, <2>3, SendFact
  <2>5. net'[s].st = "sent" /\ net'[s].file = f /\ net'[s].off = NoOffset
    BY <2>1, <2>2, <2>3, SendFact
  <2> QED BY <2>4, <2>5
<1>2. /\ runFile' = f /\ runText' = <<>> /\ runOffset' = 0 /\ ~runTruncated' /\ ~filled'
      /\ ~runOpen /\ ~runOpen' /\ ~runTimer' /\ ~runLive' /\ leaked' = leaked /\ size' = size
      /\ foreign' <=> \E t \in {"tick", "full"} : Busy(t) /\ Foreign(net[t], f)
  BY DEF openRun, Busy
<1>3. \A t \in {"tick", "full"} : net'[t] = net[t] /\ t \in Slots
  BY <1>1, NetFact
<1>4. SlotInv'
  <2>1. \A t \in OpenSlots : t = s
    BY DEF OneOpen
  <2>2. \A t \in OpenSlots : Busy(t)' => /\ net'[t].off = NoOffset /\ net'[t].file = runFile'
                                         /\ ~runOpen' /\ ~runTimer' /\ ~runLive'
    BY <1>1, <1>2, <2>1
  <2>3. Busy("full")' => /\ net'["full"].off = Full /\ size'[net'["full"].file] > 0
                         /\ net'["full"].st # "sent" => net'["full"].size > 0
    BY <1>2, <1>3 DEF SlotInv, Busy
  <2>4. Busy("tick")' => net'["tick"].off >= 0
    BY <1>3 DEF SlotInv, Busy
  <2> QED BY <1>2, <2>2, <2>3, <2>4 DEF SlotInv
<1>5. OwnInv'
  BY <1>2, <1>3, NetFact DEF OwnInv, Foreign, Busy
<1>6. TickInv'
  <2>1. \A t \in OpenSlots : net'[t].st = "sent"
    BY <1>1 DEF OneOpen
  <2> QED BY <1>2, <2>1 DEF TickInv
<1>7. WholeInv' /\ MissingHeadIsFlagged'
  BY <1>2 DEF WholeInv, MissingHeadIsFlagged
<1> QED BY <1>4, <1>5, <1>6, <1>7


\* A tick of the run that is open has an offset that the file has reached.
LEMMA TickOffset ==
  ASSUME IInv, ~foreign, Busy("tick")
  PROVE  runFile \in Files /\ net["tick"].file = runFile /\ net["tick"].off <= size[runFile]
<1>1. /\ net["tick"] \in Reqs /\ net["tick"].off \in Int /\ net["tick"].size \in Nat /\ runFile \in Files
      /\ size[runFile] \in Nat /\ "tick" \in Slots
  BY NetFact DEF IInv
<1>2. ~Foreign(net["tick"], runFile)
  BY <1>1 DEF IInv, ViewInv, OwnInv
<1>3. ReadInv(net["tick"])
  BY <1>1 DEF IInv, ReadsInv
<1> QED BY <1>1, <1>2, <1>3 DEF Foreign, ReadInv

\* Either look of the handler at the file: what was asked for stays.
LEMMA ServeStep ==
  ASSUME IInv, NEW s \in Slots, TakeSize(s) \/ ReadAll(s) PROVE ViewInv'
<1> USE DEF IInv, ViewInv, page
<1>1. /\ \A t \in Slots : t # s => net'[t] = net[t]
      /\ Busy(s) /\ net[s] \in Reqs
      /\ net'[s].st # "sent" /\ net'[s].file = net[s].file /\ net'[s].off = net[s].off
      /\ net'[s].size = IF net[s].st = "sent" THEN size[net[s].file] ELSE net[s].size
      /\ ReadInv(net'[s])
  <2>1. CASE TakeSize(s)
    <3>1. net[s].file \in Files /\ size[net[s].file] \in Nat
      BY <2>1, StatFact, NetFact
    <3> QED BY <2>1, <3>1, StatFact DEF ReadInv
  <2>2. CASE ReadAll(s)
    BY <2>2, ReadAllFact
  <2> QED BY <2>1, <2>2
<1>2. UNCHANGED <<size, page>>
  BY DEF TakeSize, ReadAll
<1>3. SlotInv'
  <2>1. ASSUME NEW t \in OpenSlots, Busy(t)'
        PROVE  net'[t].off = NoOffset /\ net'[t].file = runFile /\ ~runOpen /\ ~runTimer /\ ~runLive
    <3>1. Busy(t) /\ t \in Slots
      BY <1>1, <2>1, NetFact DEF Busy
    <3>2. net'[t].off = net[t].off /\ net'[t].file = net[t].file
      BY <1>1, <3>1
    <3> QED BY <3>1, <3>2 DEF SlotInv
  <2>2. ASSUME Busy("full")'
        PROVE  /\ net'["full"].off = Full /\ size[net'["full"].file] > 0
               /\ net'["full"].st # "sent" => net'["full"].size > 0
    <3>1. Busy("full") /\ "full" \in Slots
      BY <1>1, <2>2, NetFact DEF Busy
    <3>2. CASE s = "full"
      BY <1>1, <3>1, <3>2 DEF SlotInv
    <3>3. CASE s # "full"
      BY <1>1, <3>1, <3>3 DEF SlotInv
    <3> QED BY <3>2, <3>3
  <2>3. ASSUME Busy("tick")' PROVE net'["tick"].off >= 0
    <3>1. Busy("tick") /\ net'["tick"].off = net["tick"].off
      BY <1>1, <2>3, NetFact DEF Busy
    <3> QED BY <3>1 DEF SlotInv
  <2> QED BY <1>2, <2>1, <2>2, <2>3 DEF SlotInv
<1>4. OwnInv'
  <2>1. SUFFICES ASSUME ~foreign, runFile \in Files, NEW t \in {"tick", "full"}, Busy(t)'
                 PROVE  ~Foreign(net[t], runFile)'
    BY <1>2 DEF OwnInv, Busy
  <2>2. Busy(t) /\ t \in Slots /\ ~Foreign(net[t], runFile)
    BY <1>1, <2>1, NetFact DEF OwnInv, Busy
  <2>3. CASE t = s
    BY <1>1, <1>2, <2>2, <2>3 DEF Foreign
  <2>4. CASE t # s
    BY <1>1, <1>2, <2>2, <2>4 DEF Foreign
  <2> QED BY <2>3, <2>4
<1>5. TickInv'
  <2>1. SUFFICES ASSUME ~foreign, Busy("tick")'
                 PROVE  /\ \A t \in OpenSlots : Busy(t)' /\ net'[t].st # "sent" => net'["tick"].off <= net'[t].size
                        /\ filled => net'["tick"].off <= runOffset \/ (overtaken /\ Has(1))
    BY <1>2 DEF TickInv, Has
  <2>2. Busy("tick") /\ net'["tick"].off = net["tick"].off
    BY <1>1, <2>1, NetFact DEF Busy
  <2>3. ASSUME NEW t \in OpenSlots, Busy(t)', net'[t].st # "sent"
        PROVE  net'["tick"].off <= net'[t].size
    <3>1. Busy(t) /\ t \in Slots
      BY <1>1, <2>3, NetFact DEF Busy
    <3>2. CASE t = s /\ net[s].st = "sent"
      <4>1. net[t].file = runFile
        BY <3>1 DEF SlotInv
      <4>2. net'[t].size = size[runFile]
        BY <1>1, <3>2, <4>1
      <4> QED BY <2>1, <2>2, <4>2, TickOffset
    <3>3. CASE t = s /\ net[s].st # "sent"
      BY <1>1, <2>1, <2>2, <3>1, <3>3 DEF TickInv
    <3>4. CASE t # s
      BY <1>1, <2>1, <2>2, <2>3, <3>1, <3>4 DEF TickInv
    <3> QED BY <3>2, <3>3, <3>4
  <2> QED BY <2>1, <2>2, <2>3 DEF TickInv
<1>6. WholeInv' /\ MissingHeadIsFlagged'
  BY <1>2 DEF WholeInv, Whole, MissingHeadIsFlagged
<1> QED BY <1>3, <1>4, <1>5, <1>6

\* The view is what an answer holds.
LEMMA ViewOfAnswer ==
  ASSUME NEW r \in Reqs, runText' = Lines(r), r.size <= r.to
  PROVE  /\ \A i, j \in 1..MaxLines :
              <<r.file, i>> \in Range(runText') /\ i < j /\ j <= r.size => <<r.file, j>> \in Range(runText')
         /\ r.from = 0 /\ r.to > 0 => <<r.file, 1>> \in Range(runText')
<1>1. r.from \in Nat /\ r.to \in Nat /\ r.size \in Nat
  BY TailAssumption DEF Reqs
<1>2. \A n : <<r.file, n>> \in Range(runText') <=> n \in r.from + 1 .. r.to
  BY LinesFact
<1>3. ASSUME NEW i \in 1..MaxLines, NEW j \in 1..MaxLines, i \in r.from + 1 .. r.to, i < j, j <= r.size
      PROVE  j \in r.from + 1 .. r.to
  BY <1>1, <1>3
<1> QED BY <1>1, <1>2, <1>3

LEMMA OpenedStep ==
  ASSUME IInv, OneOpen, NEW s \in OpenSlots, OpenAnswered(s) \/ OpenFailed(s) PROVE ViewInv'
<1> USE DEF IInv, ViewInv
<1>1. /\ Opened(s) /\ Busy(s) /\ net[s] \in Reqs /\ s \in Slots /\ runFile \in Files
      /\ net[s].file = runFile /\ net[s].off = NoOffset /\ ReadInv(net[s])
      /\ net[s].size \in Nat /\ net[s].from \in Nat /\ net[s].to \in Nat
      /\ ~runOpen /\ ~runTimer /\ ~runLive
  <2>1. Opened(s) /\ Busy(s)
    BY DEF OpenAnswered, OpenFailed, Busy
  <2> QED BY <2>1, NetFact DEF SlotInv, ReadsInv
<1>2. /\ \A t \in Slots : t # s => net'[t] = net[t]
      /\ ~Busy(s)' /\ UNCHANGED <<size, runFile, overtaken, foreign>> /\ leaked' = leaked
  <2>1. net' = [net EXCEPT ![s] = Idle]
    BY <1>1 DEF Opened
  <2>2. net'[s] = Idle /\ \A t \in Slots : t # s => net'[t] = net[t]
    BY <1>1, <2>1, IdleFact
  <2> QED BY <1>1, <2>2 DEF Opened, Busy
<1>3. \A t \in OpenSlots : ~Busy(t)'
  BY <1>2 DEF OneOpen
<1>4. \A t \in {"tick", "full"} : net'[t] = net[t] /\ t \in Slots
  BY <1>2, NetFact
<1>5. CASE OpenAnswered(s)
  <2>1. /\ runText' = Lines(net[s]) /\ runOffset' = net[s].size /\ (runTruncated' <=> net[s].cut) /\ filled'
        /\ net[s].st = "done"
    BY <1>5 DEF OpenAnswered
  <2>2. /\ net[s].size <= net[s].to /\ net[s].to <= size[runFile] /\ size[runFile] \in Nat
        /\ (net[s].cut => net[s].to > 0) /\ (~net[s].cut => net[s].from = 0)
    <3>1. net[s].off < 0
      BY <1>1 DEF NoOffset
    <3> QED BY <1>1, <2>1, <3>1, NetFact DEF ReadInv
  <2>3. SlotInv'
    BY <1>1, <1>2, <1>3, <1>4, <2>1, <2>2 DEF SlotInv, Busy
  <2>4. OwnInv'
    BY <1>1, <1>2, <1>4, <2>1, <2>2 DEF OwnInv, Foreign, Busy
  <2>5. TickInv'
    BY <1>1, <1>2, <1>3, <1>4, <2>1 DEF TickInv, Busy
  <2>6. WholeInv' /\ MissingHeadIsFlagged'
    <3>1. Whole'
      BY <1>1, <1>2, <2>1, <2>2, ViewOfAnswer DEF Whole
    <3>2. runOffset' > 0 /\ ~runTruncated' => <<runFile', 1>> \in Range(runText')
      BY <1>1, <1>2, <2>1, <2>2, ViewOfAnswer
    <3> QED BY <3>1, <3>2 DEF WholeInv, MissingHeadIsFlagged
  <2> QED BY <2>3, <2>4, <2>5, <2>6
<1>6. CASE OpenFailed(s)
  <2>1. UNCHANGED <<runText, runOffset, runTruncated, filled>>
    BY <1>6 DEF OpenFailed
  <2>2. SlotInv'
    BY <1>1, <1>2, <1>3, <1>4, <2>1 DEF SlotInv, Busy
  <2>3. OwnInv'
    BY <1>1, <1>2, <1>4, <2>1 DEF OwnInv, Foreign, Busy
  <2>4. TickInv'
    BY <1>1, <1>2, <1>3, <1>4, <2>1 DEF TickInv, Has, Busy
  <2>5. WholeInv' /\ MissingHeadIsFlagged'
    BY <1>2, <2>1 DEF WholeInv, Whole, MissingHeadIsFlagged
  <2> QED BY <2>2, <2>3, <2>4, <2>5
<1> QED BY <1>5, <1>6


LEMMA TickEndStep ==
  ASSUME IInv, TickAnswered \/ TickFailed PROVE ViewInv'
<1> USE DEF IInv, ViewInv
<1> DEFINE r == net["tick"]
<1>1. /\ TickDone /\ Busy("tick") /\ r \in Reqs /\ r.off \in Int /\ r.off >= 0 /\ ReadInv(r)
      /\ r.file \in Files /\ r.size \in Nat /\ r.from \in Nat /\ r.to \in Nat /\ runFile \in Files /\ runOffset \in Nat
  <2>1. TickDone /\ Busy("tick")
    BY DEF TickAnswered, TickFailed, runTailBusy, Busy
  <2> QED BY <2>1, NetFact DEF SlotInv, ReadsInv
<1>2. /\ \A t \in Slots : t # "tick" => net'[t] = net[t]
      /\ ~Busy("tick")' /\ (runTimer' => runTimer) /\ (runLive' => runLive)
      /\ UNCHANGED <<size, runFile, runTruncated, runOpen, leaked, filled, overtaken, foreign>>
  <2>1. net' = [net EXCEPT !["tick"] = Idle] /\ "tick" \in Slots
    BY <1>1, NetFact DEF TickDone
  <2>2. net'["tick"] = Idle /\ \A t \in Slots : t # "tick" => net'[t] = net[t]
    BY <2>1, IdleFact
  <2> QED BY <1>1, <2>2 DEF TickDone, Busy
<1>3. "full" \in Slots /\ \A t \in OpenSlots : t \in Slots /\ t # "tick"
  BY NetFact
<1>4. SlotInv'
  BY <1>2, <1>3 DEF SlotInv, Busy
<1>5. TickInv'
  BY <1>2 DEF TickInv
<1>6. CASE TickFailed
  <2>1. UNCHANGED <<runText, runOffset>>
    BY <1>6 DEF TickFailed
  <2>2. OwnInv'
    BY <1>2, <1>3, <2>1 DEF OwnInv, Foreign, Busy
  <2>3. WholeInv' /\ MissingHeadIsFlagged'
    BY <1>2, <2>1 DEF WholeInv, Whole, MissingHeadIsFlagged
  <2> QED BY <1>4, <1>5, <2>2, <2>3
<1>7. CASE TickAnswered
  <2>1. runText' = runText \o Lines(r) /\ runOffset' = r.size /\ r.st = "done"
    BY <1>7 DEF TickAnswered
  <2>2. \A f, n : <<f, n>> \in Range(runText') <=>
                    <<f, n>> \in Range(runText) \/ (f = r.file /\ n \in r.from + 1 .. r.to)
    <3>1. runText \in Seq(Files \X (1..MaxLines)) /\ Lines(r) \in Seq(Files \X (1..MaxLines))
      BY <1>1, LinesFact DEF TailTyped
    <3>2. \A e : e \in Range(runText') <=> e \in Range(runText) \/ e \in Range(Lines(r))
      BY <2>1, <3>1, RangeConcat
    <3>3. \A f, n : <<f, n>> \in Range(Lines(r)) <=> f = r.file /\ n \in r.from + 1 .. r.to
      BY <1>1, LinesFact
    <3> QED BY <3>2, <3>3
  <2> HIDE DEF r
  <2>3. r.size <= r.to /\ r.to <= size[r.file] /\ size[r.file] \in Nat /\ (r.off <= r.size => r.from = r.off)
    BY <1>1, <2>1, NetFact DEF ReadInv
  <2>4. ASSUME ~foreign PROVE r.file = runFile /\ r.off <= r.size /\ r.from = r.off
    <3>1. ~Foreign(r, runFile)
      BY <1>1, <2>4 DEF OwnInv, r
    <3> QED BY <1>1, <2>1, <2>3, <3>1 DEF Foreign
  <2>5. OwnInv'
    <3>1. ~foreign => runOffset' <= size[runFile]
      BY <1>1, <2>1, <2>3, <2>4
    <3> QED BY <1>1, <1>2, <1>3, <3>1 DEF OwnInv, Foreign, Busy
  <2>6. WholeInv'
    <3>1. SUFFICES ASSUME filled, ~overtaken, ~foreign, NEW i \in 1..MaxLines, NEW j \in 1..MaxLines,
                          <<runFile, i>> \in Range(runText'), i < j, j <= r.size
                   PROVE  <<runFile, j>> \in Range(runText')
      BY <1>2, <2>1 DEF WholeInv, Whole
    <3>2. r.off <= runOffset
      BY <1>1, <3>1 DEF TickInv, r
    <3>3. CASE <<runFile, i>> \in Range(runText) /\ j <= runOffset
      BY <2>2, <3>1, <3>3 DEF WholeInv, Whole
    <3>4. CASE <<runFile, i>> \in Range(runText) /\ ~(j <= runOffset)
      <4>1. j \in r.from + 1 .. r.to
        BY <1>1, <2>3, <2>4, <3>1, <3>2, <3>4
      <4> QED BY <2>2, <2>4, <3>1, <4>1
    <3>5. CASE i \in r.from + 1 .. r.to
      <4>1. j \in r.from + 1 .. r.to
        BY <1>1, <2>3, <3>1, <3>5
      <4> QED BY <2>2, <2>4, <3>1, <4>1
    <3> QED BY <2>2, <3>1, <3>3, <3>4, <3>5
  <2>7. MissingHeadIsFlagged'
    <3>1. SUFFICES ASSUME filled, ~foreign, r.size > 0, ~runTruncated
                   PROVE  <<runFile, 1>> \in Range(runText')
      BY <1>2, <2>1 DEF MissingHeadIsFlagged
    <3>2. CASE Has(1)
      BY <2>2, <3>2 DEF Has
    <3>3. CASE ~Has(1)
      <4>1. r.off <= runOffset
        BY <1>1, <3>1, <3>3 DEF TickInv, r
      <4>2. ~(runOffset > 0)
        BY <3>1, <3>3 DEF MissingHeadIsFlagged, Has
      <4>3. r.from = 0 /\ 1 \in r.from + 1 .. r.to
        BY <1>1, <2>3, <2>4, <3>1, <4>1, <4>2
      <4> QED BY <2>2, <2>4, <3>1, <4>3
    <3> QED BY <3>2, <3>3
  <2> QED BY <1>4, <1>5, <2>5, <2>6, <2>7
<1> QED BY <1>6, <1>7

LEMMA LoadFullStep == ASSUME IInv, loadFullLog PROVE ViewInv'
<1> USE DEF IInv, ViewInv, page
<1>1. /\ runFile \in Files /\ runOpen /\ size[runFile] > 0 /\ UNCHANGED <<size, page>>
      /\ size[runFile] \in Nat
  BY NetFact DEF loadFullLog, SlotInv
<1>2. /\ \A s \in Slots : s # "full" => net'[s] = net[s]
      /\ net'["full"].st = "sent" /\ net'["full"].file = runFile /\ net'["full"].off = Full
  <2>1. \A f \in Files, off \in Full..MaxLines, live \in BOOLEAN :
          Send("full", Request(f, off, live)) =>
            /\ \A s \in Slots : s # "full" => net'[s] = net[s]
            /\ net'["full"].st = "sent" /\ net'["full"].file = f /\ net'["full"].off = off
    BY NetFact, SendFact
  <2>2. Full \in Full..MaxLines /\ Send("full", Request(runFile, Full, FALSE))
    <3>1. Full \in Full..MaxLines
      BY TailAssumption DEF Full
    <3> QED BY <3>1 DEF loadFullLog
  <2> QED BY <1>1, <2>1, <2>2
<1>3. "tick" \in Slots /\ \A t \in OpenSlots : t \in Slots /\ t # "full"
  BY NetFact
<1>4. SlotInv'
  BY <1>1, <1>2, <1>3 DEF SlotInv, Busy
<1>5. OwnInv'
  <2>1. ~Foreign(net["full"], runFile)'
    BY <1>1, <1>2 DEF Foreign, Full
  <2> QED BY <1>1, <1>2, <1>3, <2>1 DEF OwnInv, Foreign, Busy
<1>6. TickInv' /\ WholeInv' /\ MissingHeadIsFlagged'
  BY <1>1, <1>2, <1>3 DEF TickInv, Has, Busy, WholeInv, Whole, MissingHeadIsFlagged
<1> QED BY <1>4, <1>5, <1>6

LEMMA FullEndStep ==
  ASSUME IInv, FullAnswered \/ FullFailed PROVE ViewInv'
<1> USE DEF IInv, ViewInv, page
<1> DEFINE r == net["full"]
<1>1. /\ Busy("full") /\ r \in Reqs /\ r.off = Full /\ ReadInv(r) /\ size[r.file] > 0
      /\ (r.st # "sent" => r.size > 0)
      /\ r.file \in Files /\ r.size \in Nat /\ r.from \in Nat /\ r.to \in Nat /\ runFile \in Files
      /\ size[r.file] \in Nat
  <2>1. Busy("full")
    BY DEF FullAnswered, FullFailed, Busy
  <2> QED BY <2>1, NetFact DEF SlotInv, ReadsInv
<1>2. /\ \A t \in Slots : t # "full" => net'[t] = net[t]
      /\ ~Busy("full")' /\ UNCHANGED <<size, runFile, runOpen, runLive, runTimer, leaked, foreign>>
  <2>1. net' = [net EXCEPT !["full"] = Idle] /\ "full" \in Slots
    BY NetFact DEF FullAnswered, FullFailed
  <2>2. net'["full"] = Idle /\ \A t \in Slots : t # "full" => net'[t] = net[t]
    BY <2>1, IdleFact
  <2> QED BY <2>2 DEF FullAnswered, FullFailed, Busy
<1>3. "tick" \in Slots /\ \A t \in OpenSlots : t \in Slots /\ t # "full"
  BY NetFact
<1>4. CASE FullFailed
  <2>1. UNCHANGED page
    BY <1>4 DEF FullFailed
  <2> QED BY <1>2, <1>3, <1>4, <2>1
      DEF SlotInv, OwnInv, TickInv, Foreign, Has, Busy, WholeInv, Whole, MissingHeadIsFlagged
<1>5. CASE FullAnswered
  <2>1. /\ runText' = Lines(r) /\ runOffset' = r.size /\ ~runTruncated' /\ filled'
        /\ (overtaken' <=> overtaken \/ Busy("tick")) /\ r.st = "done"
    BY <1>5 DEF FullAnswered, runTailBusy, Busy
  <2> HIDE DEF r
  <2>2. r.size <= r.to /\ r.to <= size[r.file] /\ r.from = 0 /\ r.to > 0
    <3>1. r.off < 0
      BY <1>1 DEF Full
    <3> QED BY <1>1, <2>1, <3>1 DEF ReadInv
  <2>3. ~foreign => r.file = runFile
    BY <1>1 DEF OwnInv, Foreign, r
  <2>4. ~foreign => <<runFile', 1>> \in Range(runText')
    BY <1>1, <1>2, <2>1, <2>2, <2>3, ViewOfAnswer
  <2>5. SlotInv'
    BY <1>2, <1>3, <2>1 DEF SlotInv, Busy
  <2>6. OwnInv'
    <3>1. ~foreign => runOffset' <= size[runFile]
      BY <1>1, <2>1, <2>2, <2>3
    <3> QED BY <1>1, <1>2, <1>3, <3>1 DEF OwnInv, Foreign, Busy
  <2>7. TickInv'
    BY <1>2, <1>3, <2>1, <2>4 DEF TickInv, Has, Busy
  <2>8. WholeInv' /\ MissingHeadIsFlagged'
    <3>1. ~foreign => Whole'
      BY <1>1, <1>2, <2>1, <2>2, <2>3, ViewOfAnswer DEF Whole
    <3> QED BY <1>2, <2>4, <3>1 DEF WholeInv, MissingHeadIsFlagged
  <2> QED BY <2>5, <2>6, <2>7, <2>8
<1> QED BY <1>4, <1>5

LEMMA ViewStep == ASSUME OneOpen, IInv, [Next]_vars PROVE ViewInv'
<1>1. ASSUME NEW f \in Files, JobStopped(f) PROVE ViewInv'
  <2>1. UNCHANGED <<size, running, page>>
    BY <1>1 DEF JobStopped
  <2>2. CASE runLive /\ runFile = f /\ ~runTailBusy
    <3>1. ~Busy("tick") /\ Send("tick", Request(runFile, runOffset, FALSE))
      BY <1>1, <2>2 DEF JobStopped, runTailBusy, Busy
    <3> QED BY <2>1, <2>2, <3>1, SendTickStep
  <2>3. CASE ~(runLive /\ runFile = f /\ ~runTailBusy)
    <3>1. net' = net
      BY <1>1, <2>3 DEF JobStopped
    <3> QED BY <2>1, <3>1, QuietStep DEF page
  <2> QED BY <2>2, <2>3
<1>2. CASE Tick
  <2>1. ~Busy("tick") /\ Send("tick", Request(runFile, runOffset, FALSE)) /\ UNCHANGED <<size, page>>
    BY <1>2 DEF Tick, runTailBusy, Busy
  <2>2. runTimer /\ runFile \in Files
    BY <1>2 DEF Tick, IInv, ViewInv, SlotInv, TailTyped
  <2> QED BY <2>1, <2>2, SendTickStep
<1>3. CASE (\E f \in Files : Finish(f)) \/ UNCHANGED vars
  BY <1>3, QuietStep DEF Finish, vars, page
<1>4. CASE closeRun
  BY <1>4, QuietStep DEF closeRun
<1> QED BY <1>1, <1>2, <1>3, <1>4, WriteStep, OpenStep, ServeStep, OpenedStep, TickEndStep,
           LoadFullStep, FullEndStep DEF Next

-----------------------------------------------------------------------------
\* Every variable keeps its type, and of the requests at most one is between the
\* handler's two looks at the file, however many calls of openRun are in flight.
THEOREM TailTypeCorrect == Spec => []TypeOK
<1>1. Init => TailTyped /\ ReadsInv
  BY TailInit DEF IInv
<1>2. ASSUME TailTyped /\ ReadsInv, [Next]_vars PROVE (TailTyped /\ ReadsInv)'
  BY <1>2, TypedStep, ReadsStep
<1>3. TailTyped => TypeOK
  BY DEF TailTyped, TypeOK, Reqs, Busy
<1> QED BY <1>1, <1>2, <1>3, PTL DEF Spec

LEMMA ViewInvariant == ASSUME OneOpen PROVE Spec => []IInv
<1>1. ASSUME IInv, [Next]_vars PROVE IInv'
  BY <1>1, TypedStep, ReadsStep, ViewStep DEF IInv
<1> QED BY <1>1, TailInit, PTL DEF Spec

\* While one openRun is awaited at a time, the offset the tail goes on from is one
\* the file has reached, and no line between the first one shown and that offset is
\* missing: not between f.size() and readAll(), and not when answers of openRun,
\* the tail and the full log, to this view or an earlier one, arrive in any order
\* but that of a full log before a tick.
THEOREM NoGapHolds == ASSUME OneOpen PROVE Spec => []NoGap
<1>1. IInv => NoGap
  BY DEF IInv, ViewInv, OwnInv, WholeInv, NoGap
<1> QED BY <1>1, ViewInvariant, PTL

\* While one openRun is awaited at a time, a view of the run that is open that
\* lacks the head of its log says so.
THEOREM HeadIsFlagged == ASSUME OneOpen PROVE Spec => []MissingHeadIsFlagged
<1>1. IInv => MissingHeadIsFlagged
  BY DEF IInv, ViewInv
<1> QED BY <1>1, ViewInvariant, PTL

=============================================================================
