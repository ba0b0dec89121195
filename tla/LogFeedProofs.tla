---------------------------- MODULE LogFeedProofs ----------------------------
(***************************************************************************)
(* Proofs about the daemon's log feed: for any number of lines written and *)
(* rotated, and any limits of the route and the page.  The invariant has a *)
(* part for each of the feed's stations: what the position of the hub says *)
(* about what was pushed (PosInv), which notification is still to come     *)
(* (WakeInv), which lines were pushed (PushedInv), what a snapshot holds   *)
(* (SnapInv), and where the newest line is (NewestInv).                    *)
(***************************************************************************)
EXTENDS LogFeed, SequenceTheorems, TLAPS

Line == 1 .. MaxLine

\* The types as the proof uses them: what is on the wire is the end of what was
\* pushed.
FeedTyped ==
  /\ {exists, watched, fileChanged, directoryChanged, handling, opened, blind} \subseteq BOOLEAN
  /\ unwatched \subseteq {"dir", "file"}
  /\ written \in 0 .. MaxLine /\ rotated \in 0 .. written /\ from \in 0 .. written
  /\ m_logPos \in 0 .. MaxLine
  /\ ~exists => written = 0
  /\ pushed \in Seq(Line) /\ wire \in Seq(Line) /\ Len(wire) <= Len(pushed)
  /\ \A i \in 1 .. Len(wire) : wire[i] = pushed[Len(pushed) - Len(wire) + i]
  /\ late \subseteq {"unnoticed", "untaken"} \X (rotated + 1 .. written)
  /\ logLines \in Seq(Line) /\ Len(logLines) <= Shown
  /\ snapshot \in [step : {"none", "asked", "served"}, lines : Seq(Line)]
  /\ Len(snapshot.lines) <= Lines

\* The hub reads on behind everything it has pushed, and behind what was there
\* when it started.
PosInv ==
  /\ from <= rotated + Seek
  /\ \A i \in 1 .. Len(pushed) : from < pushed[i] /\ pushed[i] <= rotated + Seek
  /\ \A i, j \in 1 .. Len(pushed) : i < j => pushed[i] < pushed[j]

\* A file that is not watched is being announced or is about to be watched,
\* unless the constructor has missed its creation.  A hub that is not at the end
\* of the file will be told, unless the constructor has missed a change.
WakeInv ==
  /\ fileChanged => watched
  /\ watched \/ "file" \in unwatched => exists
  /\ handling => unwatched = {}
  /\ handling /\ exists => watched \/ directoryChanged
  /\ exists => watched \/ directoryChanged \/ "file" \in unwatched \/ blind
  /\ exists => (m_logPos # size => ~Quiet \/ blind)

Pushed(l) == \E i \in 1 .. Len(pushed) : pushed[i] = l
Late(l) == <<"unnoticed", l>> \in late

\* What lies before the position was pushed, unless the position is beyond the
\* file or the line came while it was.
PushedInv ==
  /\ m_logPos > size => \A l \in rotated + 1 .. written : Late(l)
  /\ \A l \in rotated + 1 .. rotated + Seek : l > from /\ ~Late(l) => Pushed(l)

\* A snapshot that no line has overtaken ends with the newest.
SnapInv ==
  snapshot.step = "served" /\ size > 0 /\ <<"untaken", written>> \notin late
    => Len(snapshot.lines) > 0 /\ snapshot.lines[Len(snapshot.lines)] = written

OnWire(l) == \E i \in 1 .. Len(wire) : wire[i] = l
OnPage(l) == \E i \in 1 .. Len(logLines) : logLines[i] = l

\* The newest line is still to be pushed, on its way, or on the page with
\* nothing behind it that could drive it out.
NewestInv ==
  opened /\ size > 0 /\ (\A w \in {"unnoticed", "untaken"} : <<w, written>> \notin late)
    => m_logPos < size \/ OnWire(written) \/ (wire = <<>> /\ OnPage(written))

IInv == FeedTyped /\ PosInv /\ WakeInv /\ PushedInv /\ SnapInv /\ NewestInv

-----------------------------------------------------------------------------
\* The end of a sequence.
LEMMA LastFact ==
  ASSUME NEW S, NEW s \in Seq(S), NEW n \in Nat
  PROVE  /\ Last(s, n) \in Seq(S)
         /\ Len(Last(s, n)) = IF Len(s) > n THEN n ELSE Len(s)
         /\ \A i \in 1 .. Len(Last(s, n)) : Last(s, n)[i] = s[Len(s) - Len(Last(s, n)) + i]
<1>1. CASE Len(s) > n
  <2> DEFINE m == Len(s) - n + 1
  <2>1. m \in Int /\ Len(s) \in Int /\ \A i \in m .. Len(s) : s[i] \in S
    BY <1>1
  <2>2. /\ SubSeq(s, m, Len(s)) \in Seq(S)
        /\ Len(SubSeq(s, m, Len(s))) = IF m <= Len(s) THEN Len(s) - m + 1 ELSE 0
        /\ \A i \in 1 .. Len(s) - m + 1 : SubSeq(s, m, Len(s))[i] = s[m + i - 1]
    BY <2>1, SubSeqProperties
  <2>3. Last(s, n) = SubSeq(s, m, Len(s))
    BY <1>1 DEF Last
  <2>4. Len(SubSeq(s, m, Len(s))) = n
    BY <1>1, <2>2
  <2>5. ASSUME NEW i \in 1 .. n
        PROVE  SubSeq(s, m, Len(s))[i] = s[Len(s) - n + i]
    <3>1. i \in 1 .. Len(s) - m + 1 /\ m + i - 1 = Len(s) - n + i
      BY <1>1
    <3> QED BY <2>2, <3>1
  <2> QED BY <1>1, <2>2, <2>3, <2>4, <2>5
<1>2. CASE ~(Len(s) > n)
  <2>1. Last(s, n) = s
    BY <1>2 DEF Last
  <2> QED BY <1>2, <2>1
<1> QED BY <1>1, <1>2

LEMMA LastNewest ==
  ASSUME NEW S, NEW s \in Seq(S), NEW n \in Nat \ {0}, Len(s) > 0
  PROVE  Len(Last(s, n)) > 0 /\ Last(s, n)[Len(Last(s, n))] = s[Len(s)]
<1> DEFINE t == Last(s, n)
<1>1. /\ t \in Seq(S) /\ Len(t) = IF Len(s) > n THEN n ELSE Len(s)
      /\ \A i \in 1 .. Len(t) : t[i] = s[Len(s) - Len(t) + i]
  BY LastFact
<1> HIDE DEF t
<1>2. Len(t) \in 1 .. Len(s)
  BY <1>1
<1>3. PICK k \in Nat, l \in Nat : k = Len(t) /\ l = Len(s) /\ k \in 1 .. l
  BY <1>1, <1>2
<1>4. \A i \in 1 .. k : t[i] = s[l - k + i]
  BY <1>1, <1>3
<1>5. t[k] = s[l]
  <2>1. k \in 1 .. k /\ l - k + k = l
    BY <1>3
  <2> QED BY <1>4, <2>1
<1> QED BY <1>2, <1>3, <1>4, <1>5 DEF t

\* Lines of the file are numbered from behind the ones before.
LEMMA LinesFromFact ==
  ASSUME NEW a \in Nat, NEW b \in 0 .. MaxLine, a <= b
  PROVE  /\ LinesFrom(a, b) \in Seq(Line)
         /\ Len(LinesFrom(a, b)) = b - a
         /\ \A i \in 1 .. b - a : LinesFrom(a, b)[i] = a + i
  BY FeedAssumption DEF LinesFrom, Line

\* What emitLogTail does: the lines behind the position are pushed.
LEMMA EmitFact ==
  ASSUME FeedTyped, emitLogTail
  PROVE  LET n == written - (rotated + Seek)
         IN /\ Seek \in 0 .. size /\ n \in Nat
            /\ m_logPos' = size
            /\ wire' \in Seq(Line) /\ Len(wire') = Len(wire) + n
            /\ pushed' \in Seq(Line) /\ Len(pushed') = Len(pushed) + n
            /\ \A i \in 1 .. Len(wire) + n :
                 wire'[i] = IF i <= Len(wire) THEN wire[i] ELSE rotated + Seek + (i - Len(wire))
            /\ \A i \in 1 .. Len(pushed) + n :
                 pushed'[i] = IF i <= Len(pushed) THEN pushed[i] ELSE rotated + Seek + (i - Len(pushed))
<1> DEFINE a == rotated + Seek
           n == written - a
           chunk == LinesFrom(a, written)
<1>1. /\ written \in 0 .. MaxLine /\ rotated \in 0 .. written /\ m_logPos \in 0 .. MaxLine
      /\ pushed \in Seq(Line) /\ wire \in Seq(Line) /\ MaxLine \in Nat
  BY FeedAssumption DEF FeedTyped
<1>2. Seek \in 0 .. size /\ a \in Nat /\ a <= written /\ n \in Nat /\ size \in Nat
  BY <1>1 DEF Seek, size
<1>3. chunk \in Seq(Line) /\ Len(chunk) = n /\ \A i \in 1 .. n : chunk[i] = a + i
  BY <1>1, <1>2, LinesFromFact
<1>4. m_logPos' = Seek + Len(chunk) /\ wire' = wire \o chunk /\ pushed' = pushed \o chunk
  BY DEF emitLogTail
<1>5. m_logPos' = size
  BY <1>1, <1>2, <1>3, <1>4 DEF size
<1> HIDE DEF chunk
<1>6. ASSUME NEW q \in Seq(Line)
      PROVE  /\ q \o chunk \in Seq(Line) /\ Len(q \o chunk) = Len(q) + n
             /\ \A i \in 1 .. Len(q) + n : (q \o chunk)[i] = IF i <= Len(q) THEN q[i] ELSE a + (i - Len(q))
  <2>1. /\ q \o chunk \in Seq(Line) /\ Len(q \o chunk) = Len(q) + Len(chunk)
        /\ \A i \in 1 .. Len(q) + Len(chunk) : (q \o chunk)[i] = IF i <= Len(q) THEN q[i] ELSE chunk[i - Len(q)]
    BY <1>3, ConcatProperties
  <2>2. ASSUME NEW i \in 1 .. Len(q) + n, ~(i <= Len(q))
        PROVE  chunk[i - Len(q)] = a + (i - Len(q))
    <3>1. i - Len(q) \in 1 .. n
      BY <1>2, <2>2
    <3> QED BY <1>3, <3>1
  <2> QED BY <1>3, <2>1, <2>2
<1> QED BY <1>1, <1>2, <1>4, <1>5, <1>6

\* The page keeps the last lines of what it shows and what it is given.
LEMMA PushLogFact ==
  ASSUME NEW q \in Seq(Line), NEW r \in Seq(Line), pushLog(q, r)
  PROVE  /\ logLines' \in Seq(Line) /\ Len(logLines') <= Shown
         /\ Len(r) > 0 => Len(logLines') > 0 /\ logLines'[Len(logLines')] = r[Len(r)]
<1> DEFINE all == q \o r
<1>1. /\ all \in Seq(Line) /\ Len(all) = Len(q) + Len(r)
      /\ \A i \in 1 .. Len(q) + Len(r) : all[i] = IF i <= Len(q) THEN q[i] ELSE r[i - Len(q)]
  BY ConcatProperties
<1>2. Shown \in Nat \ {0} /\ logLines' = Last(all, Shown)
  BY FeedAssumption DEF pushLog
<1> HIDE DEF all
<1>3. /\ Last(all, Shown) \in Seq(Line)
      /\ Len(Last(all, Shown)) = IF Len(all) > Shown THEN Shown ELSE Len(all)
      /\ \A i \in 1 .. Len(Last(all, Shown)) : Last(all, Shown)[i] = all[Len(all) - Len(Last(all, Shown)) + i]
  BY <1>1, <1>2, LastFact
<1>4. ASSUME Len(r) > 0
      PROVE  Len(logLines') > 0 /\ logLines'[Len(logLines')] = r[Len(r)]
  <2>1. Len(q) \in Nat /\ Len(r) \in Nat
    OBVIOUS
  <2>2. all[Len(all)] = r[Len(r)]
    BY <1>1, <1>4, <2>1
  <2>3. Len(all) > 0 /\ Shown > 0
    BY <1>1, <1>2, <1>4, <2>1
  <2> QED BY <1>1, <1>2, <2>2, <2>3, LastNewest
<1> QED BY <1>1, <1>2, <1>3, <1>4

\* What the route answers with ends with the newest line.
LEMMA ServedFact ==
  ASSUME written \in 0 .. MaxLine, rotated \in 0 .. written
  PROVE  LET ls == Last(LinesFrom(rotated, written), Lines)
         IN /\ ls \in Seq(Line) /\ Len(ls) <= Lines
            /\ size > 0 => Len(ls) > 0 /\ ls[Len(ls)] = written
<1> DEFINE all == LinesFrom(rotated, written)
<1>1. Lines \in Nat \ {0} /\ MaxLine \in Nat
  BY FeedAssumption
<1>2. /\ all \in Seq(Line) /\ Len(all) = written - rotated
      /\ \A i \in 1 .. written - rotated : all[i] = rotated + i
  BY <1>1, LinesFromFact
<1> HIDE DEF all
<1>3. /\ Last(all, Lines) \in Seq(Line)
      /\ Len(Last(all, Lines)) = IF Len(all) > Lines THEN Lines ELSE Len(all)
      /\ \A i \in 1 .. Len(Last(all, Lines)) : Last(all, Lines)[i] = all[Len(all) - Len(Last(all, Lines)) + i]
  BY <1>1, <1>2, LastFact
<1>4. ASSUME size > 0
      PROVE  Len(Last(all, Lines)) > 0 /\ Last(all, Lines)[Len(Last(all, Lines))] = written
  <2>1. written - rotated > 0
    BY <1>4 DEF size
  <2>2. Len(all) > 0 /\ all[Len(all)] = written
    BY <1>1, <1>2, <2>1
  <2> QED BY <1>1, <1>2, <2>2, LastNewest
<1>5. Len(Last(all, Lines)) <= Lines
  BY <1>1, <1>2, <1>3
<1> QED BY <1>3, <1>4, <1>5 DEF all

LEMMA FeedInit == Init => IInv
<1> SUFFICES ASSUME Init PROVE IInv
  OBVIOUS
<1> USE FeedAssumption DEF Init, NoCall, Line
<1>1. written \in {0, 1} /\ (~exists => written = 0) /\ rotated = 0 /\ m_logPos = written /\ from = written
  OBVIOUS
<1>2. size = written /\ Seek = written
  BY <1>1 DEF Seek, size
<1>3. written <= MaxLine
  OBVIOUS
<1>4. FeedTyped
  <2>1. wire = <<>> /\ pushed = <<>> /\ logLines = <<>> /\ snapshot = [step |-> "none", lines |-> <<>>]
    OBVIOUS
  <2>2. <<>> \in Seq(Line) /\ Len(<<>>) = 0
    OBVIOUS
  <2>3. snapshot \in [step : {"none", "asked", "served"}, lines : Seq(Line)] /\ Len(snapshot.lines) <= Lines
    BY <2>1, <2>2
  <2>4. written \in 0 .. MaxLine /\ rotated \in 0 .. written /\ from \in 0 .. written /\ m_logPos \in 0 .. MaxLine
    BY <1>1, <1>3
  <2>5. /\ {exists, watched, fileChanged, directoryChanged, handling, opened, blind} \subseteq BOOLEAN
        /\ unwatched \subseteq {"dir", "file"}
    OBVIOUS
  <2>6. Len(logLines) <= Shown
    BY <2>1, <2>2
  <2>7. late \subseteq {"unnoticed", "untaken"} \X (rotated + 1 .. written)
    OBVIOUS
  <2>8. Len(wire) <= Len(pushed) /\ \A i \in 1 .. Len(wire) : wire[i] = pushed[Len(pushed) - Len(wire) + i]
    BY <2>1, <2>2
  <2> HIDE DEF Init, NoCall, Line
  <2> QED BY <1>1, <2>1, <2>2, <2>3, <2>4, <2>5, <2>6, <2>7, <2>8 DEF FeedTyped
<1>5. PosInv /\ WakeInv /\ PushedInv
  BY <1>1, <1>2 DEF PosInv, WakeInv, PushedInv, Quiet
<1>6. SnapInv /\ NewestInv
  BY DEF SnapInv, NewestInv
<1> QED BY <1>4, <1>5, <1>6 DEF IInv

-----------------------------------------------------------------------------
\* A line on the wire is still the end of what was pushed when both are extended.
LEMMA EmitTyped ==
  ASSUME FeedTyped, emitLogTail,
         UNCHANGED <<exists, written, rotated, unwatched, from, late, page>>,
         {watched, fileChanged, directoryChanged, handling}' \subseteq BOOLEAN
  PROVE  FeedTyped'
<1> USE DEF FeedTyped, page
<1> DEFINE a == rotated + Seek
           n == written - a
<1>1. /\ Seek \in 0 .. size /\ n \in Nat /\ m_logPos' = size
      /\ wire' \in Seq(Line) /\ Len(wire') = Len(wire) + n
      /\ pushed' \in Seq(Line) /\ Len(pushed') = Len(pushed) + n
      /\ \A i \in 1 .. Len(wire) + n :
           wire'[i] = IF i <= Len(wire) THEN wire[i] ELSE a + (i - Len(wire))
      /\ \A i \in 1 .. Len(pushed) + n :
           pushed'[i] = IF i <= Len(pushed) THEN pushed[i] ELSE a + (i - Len(pushed))
  BY EmitFact
<1> HIDE DEF a, n
<1>2. m_logPos' \in 0 .. MaxLine /\ Len(wire') <= Len(pushed') /\ blind' = FALSE
  BY <1>1, FeedAssumption DEF size, emitLogTail
<1>3. PICK w \in Nat, q \in Nat : w = Len(wire) /\ q = Len(pushed) /\ w <= q
  OBVIOUS
<1>4. ASSUME NEW i \in 1 .. w + n
      PROVE  wire'[i] = pushed'[(q + n) - (w + n) + i]
  <2>1. (q + n) - (w + n) + i = q - w + i /\ i \in Nat /\ q - w + i \in 1 .. q + n
    BY <1>1, <1>3
  <2>2. PICK j \in 1 .. q + n : j = q - w + i
    BY <2>1
  <2>3. /\ wire'[i] = IF i <= w THEN wire[i] ELSE a + (i - w)
        /\ pushed'[j] = IF j <= q THEN pushed[j] ELSE a + (j - q)
    BY <1>1, <1>3
  <2>4. i <= w <=> j <= q
    BY <1>3, <2>1, <2>2
  <2>5. i - w = j - q
    BY <1>3, <2>1, <2>2
  <2>6. ASSUME i <= w PROVE wire[i] = pushed[j]
    <3>1. i \in 1 .. Len(wire) /\ j = Len(pushed) - Len(wire) + i
      BY <1>3, <2>2, <2>6
    <3> QED BY <3>1
  <2>7. wire'[i] = pushed'[j]
    BY <2>3, <2>4, <2>5, <2>6
  <2> QED BY <2>1, <2>2, <2>7
<1>5. \A i \in 1 .. Len(wire') : wire'[i] = pushed'[Len(pushed') - Len(wire') + i]
  BY <1>1, <1>3, <1>4
<1> QED BY <1>1, <1>2, <1>5

LEMMA TypedStep == ASSUME FeedTyped, [Next]_vars PROVE FeedTyped'
<1> USE FeedAssumption DEF hub, page
<1>1. CASE CreateFile \/ OtherFile
  <2>1. directoryChanged' \in BOOLEAN
    BY <1>1 DEF CreateFile, OtherFile, Appears
  <2>2. exists' \in BOOLEAN /\ blind' \in BOOLEAN /\ (exists => exists')
    <3>1. exists \in BOOLEAN /\ blind \in BOOLEAN
      BY DEF FeedTyped
    <3>2. CASE CreateFile
      <4>1. blind' = ("dir" \in unwatched) /\ exists' = TRUE
        BY <3>2 DEF CreateFile
      <4>2. ("dir" \in unwatched) \in BOOLEAN
        OBVIOUS
      <4> QED BY <4>1, <4>2
    <3>3. CASE OtherFile
      BY <3>1, <3>3 DEF OtherFile
    <3> QED BY <1>1, <3>2, <3>3
  <2>3. UNCHANGED <<written, rotated, from, hub, fileChanged, page, wire, pushed, late>>
    BY <1>1 DEF CreateFile, OtherFile
  <2> QED BY <2>1, <2>2, <2>3 DEF FeedTyped
<1>13. CASE WatchDirectory \/ WatchFile
  BY <1>13 DEF WatchDirectory, WatchFile, FeedTyped
<1>2. CASE logMessageOutput
  <2>1. /\ written' = written + 1 /\ written' <= MaxLine
        /\ late' = late \cup (OpenWindows \X {written'}) /\ OpenWindows \subseteq {"unnoticed", "untaken"}
    BY <1>2 DEF logMessageOutput, FeedTyped, OpenWindows
  <2>2. late' \subseteq {"unnoticed", "untaken"} \X (rotated + 1 .. written')
    <3>1. written' \in rotated + 1 .. written' /\ rotated + 1 .. written \subseteq rotated + 1 .. written'
      BY <2>1 DEF FeedTyped
    <3>2. late \subseteq {"unnoticed", "untaken"} \X (rotated + 1 .. written)
      BY DEF FeedTyped
    <3> QED BY <2>1, <3>1, <3>2
  <2>3. {exists, watched, fileChanged, directoryChanged, handling, opened, blind}' \subseteq BOOLEAN
    BY <1>2 DEF logMessageOutput, FeedTyped, Touched
  <2>4. /\ written' \in 0 .. MaxLine /\ from' \in 0 .. written' /\ rotated' \in 0 .. written'
        /\ ~exists' => written' = 0
    BY <1>2, <2>1 DEF logMessageOutput, FeedTyped
  <2>5. UNCHANGED <<m_logPos, unwatched, pushed, wire, logLines, snapshot, rotated>>
    BY <1>2 DEF logMessageOutput
  <2> QED BY <2>2, <2>3, <2>4, <2>5 DEF FeedTyped
<1>3. CASE Rotate
  <2>1. rotated' = written /\ late' = {} /\ Touched
    BY <1>3 DEF Rotate
  <2>2. {exists, watched, fileChanged, directoryChanged, handling, opened, blind}' \subseteq BOOLEAN
    BY <1>3 DEF Rotate, FeedTyped, Touched
  <2> QED BY <1>3, <2>1, <2>2 DEF Rotate, FeedTyped
<1>4. CASE FileChanged
  BY <1>4, EmitTyped DEF FileChanged, FeedTyped
<1>5. CASE DirectoryChanged
  BY <1>5 DEF DirectoryChanged, FeedTyped
<1>6. CASE DirectoryEmit
  BY <1>6, EmitTyped DEF DirectoryEmit, FeedTyped
<1>7. CASE ServeMain
  <2>1. /\ snapshot'.lines \in Seq(Line) /\ Len(snapshot'.lines) <= Lines
        /\ snapshot' \in [step : {"none", "asked", "served"}, lines : Seq(Line)]
    BY <1>7, ServedFact DEF ServeMain, FeedTyped
  <2> QED BY <1>7, <2>1 DEF ServeMain, FeedTyped
<1>8. CASE LogTailArrives
  <2>1. Head(wire) \in Line /\ <<Head(wire)>> \in Seq(Line)
    BY <1>8 DEF LogTailArrives, FeedTyped
  <2>2. logLines' \in Seq(Line) /\ Len(logLines') <= Shown
    BY <1>8, <2>1, PushLogFact DEF LogTailArrives, FeedTyped
  <2>3. /\ wire' \in Seq(Line) /\ Len(wire') = Len(wire) - 1 /\ Len(wire) > 0
        /\ \A i \in 1 .. Len(wire') : wire'[i] = wire[i + 1]
    BY <1>8, HeadTailProperties DEF LogTailArrives, FeedTyped
  <2>4. PICK w \in Nat, q \in Nat : w = Len(wire) /\ q = Len(pushed) /\ w <= q
    BY DEF FeedTyped
  <2>5. ASSUME NEW i \in 1 .. w - 1
        PROVE  wire'[i] = pushed[q - (w - 1) + i]
    <3>1. i + 1 \in 1 .. w /\ q - w + (i + 1) = q - (w - 1) + i
      BY <2>4
    <3> QED BY <2>3, <2>4, <3>1 DEF FeedTyped
  <2>6. /\ Len(wire') <= Len(pushed')
        /\ \A i \in 1 .. Len(wire') : wire'[i] = pushed'[Len(pushed') - Len(wire') + i]
    <3>1. pushed' = pushed /\ Len(wire') = w - 1 /\ Len(pushed) = q /\ w - 1 <= q
      BY <1>8, <2>3, <2>4 DEF LogTailArrives
    <3> QED BY <2>5, <3>1
  <2>7. UNCHANGED <<exists, written, rotated, from, late, hub, fileChanged, watched, directoryChanged,
                    pushed, opened, snapshot, blind>>
    BY <1>8 DEF LogTailArrives
  <2> QED BY <2>2, <2>3, <2>6, <2>7 DEF FeedTyped
<1>9. CASE loadLogs
  BY <1>9 DEF loadLogs, FeedTyped, NoCall
<1>10. CASE LogsLoaded
  <2>1. snapshot.lines \in Seq(Line) /\ <<>> \in Seq(Line)
    BY DEF FeedTyped
  <2>2. logLines' \in Seq(Line) /\ Len(logLines') <= Shown
    BY <1>10, <2>1, PushLogFact DEF LogsLoaded
  <2>3. snapshot' \in [step : {"none", "asked", "served"}, lines : Seq(Line)] /\ Len(snapshot'.lines) <= Lines
    BY <1>10, <2>1 DEF LogsLoaded, NoCall
  <2> QED BY <1>10, <2>2, <2>3 DEF LogsLoaded, FeedTyped
<1>11. CASE LoadFails
  <2>1. snapshot' \in [step : {"none", "asked", "served"}, lines : Seq(Line)] /\ Len(snapshot'.lines) <= Lines
    BY <1>11 DEF LoadFails, NoCall
  <2> QED BY <1>11, <2>1 DEF LoadFails, FeedTyped
<1>12. CASE UNCHANGED vars
  BY <1>12 DEF vars, FeedTyped
<1> QED BY <1>1, <1>2, <1>3, <1>4, <1>5, <1>6, <1>7, <1>8, <1>9, <1>10, <1>11, <1>12, <1>13 DEF Next

LEMMA PosStep == ASSUME FeedTyped, PosInv, [Next]_vars PROVE PosInv'
<1> USE DEF hub, page
<1>1. /\ written \in Nat /\ rotated \in 0 .. written /\ m_logPos \in Nat /\ from \in Nat
      /\ pushed \in Seq(Line)
  BY FeedAssumption DEF FeedTyped
<1>0. \A i \in 1 .. Len(pushed) : pushed[i] \in Nat
  <2>1. Line \subseteq Nat
    BY FeedAssumption DEF Line
  <2>2. \A i \in 1 .. Len(pushed) : pushed[i] \in Line
    BY <1>1, ElementOfSeq
  <2> QED BY <2>1, <2>2
<1>2. ASSUME emitLogTail, UNCHANGED <<written, rotated, from>>
      PROVE  PosInv'
  <2> DEFINE a == rotated + Seek
             n == written - a
  <2>1. /\ Seek \in 0 .. size /\ n \in Nat /\ m_logPos' = size
        /\ pushed' \in Seq(Line) /\ Len(pushed') = Len(pushed) + n
        /\ \A i \in 1 .. Len(pushed) + n :
             pushed'[i] = IF i <= Len(pushed) THEN pushed[i] ELSE a + (i - Len(pushed))
    BY <1>2, EmitFact
  <2>2. a \in Nat /\ a <= written /\ a + n = written
    BY <1>1, <2>1 DEF size
  <2>3. from <= a /\ \A i \in 1 .. Len(pushed) : from < pushed[i] /\ pushed[i] <= a
    BY DEF PosInv
  <2>4. \A i, j \in 1 .. Len(pushed) : i < j => pushed[i] < pushed[j]
    BY DEF PosInv
  <2> HIDE DEF a, n
  <2>5. rotated' + Seek' = written
    BY <1>1, <1>2, <2>1 DEF Seek, size
  <2>6. PICK q \in Nat : q = Len(pushed)
    BY <1>1
  <2> USE <2>6
  <2>7. ASSUME NEW i \in 1 .. q + n
        PROVE  from < pushed'[i] /\ pushed'[i] <= written
    <3>1. CASE i <= q
      <4>1. pushed'[i] = pushed[i] /\ i \in 1 .. Len(pushed) /\ pushed[i] \in Nat
        BY <1>0, <2>1, <2>6, <3>1
      <4> QED BY <1>1, <2>2, <2>3, <4>1
    <3>2. CASE ~(i <= q)
      <4>1. pushed'[i] = a + (i - q) /\ i - q \in 1 .. n
        BY <2>1, <2>6, <3>2
      <4> QED BY <1>1, <2>1, <2>2, <2>3, <4>1
    <3> QED BY <3>1, <3>2
  <2>8. ASSUME NEW i \in 1 .. q + n, NEW j \in 1 .. q + n, i < j
        PROVE  pushed'[i] < pushed'[j]
    <3>1. CASE j <= q
      <4>1. pushed'[i] = pushed[i] /\ pushed'[j] = pushed[j] /\ i \in 1 .. Len(pushed) /\ j \in 1 .. Len(pushed)
        BY <2>1, <2>6, <2>8, <3>1
      <4> QED BY <2>4, <2>8, <4>1
    <3>2. CASE i <= q /\ ~(j <= q)
      <4>1. pushed'[i] = pushed[i] /\ i \in 1 .. Len(pushed) /\ pushed[i] \in Nat
        BY <1>0, <2>1, <2>6, <3>2
      <4>2. pushed'[j] = a + (j - q) /\ j - q \in 1 .. n
        BY <2>1, <2>6, <3>2
      <4> QED BY <2>1, <2>2, <2>3, <4>1, <4>2
    <3>3. CASE ~(i <= q)
      <4>1. pushed'[i] = a + (i - q) /\ pushed'[j] = a + (j - q)
        BY <2>1, <2>6, <2>8, <3>3
      <4> QED BY <2>1, <2>2, <2>6, <2>8, <4>1
    <3> QED BY <3>1, <3>2, <3>3
  <2> QED BY <1>1, <1>2, <2>1, <2>2, <2>3, <2>5, <2>6, <2>7, <2>8 DEF PosInv
<1>3. ASSUME UNCHANGED <<m_logPos, written, rotated, from, pushed>>
      PROVE  PosInv'
  BY <1>3 DEF PosInv, Seek, size
<1>4. CASE CreateFile \/ OtherFile \/ WatchDirectory \/ WatchFile
  BY <1>3, <1>4 DEF CreateFile, OtherFile, WatchDirectory, WatchFile
<1>5. CASE logMessageOutput
  <2>1. UNCHANGED <<m_logPos, rotated, from, pushed>> /\ written' = written + 1
    BY <1>5 DEF logMessageOutput
  <2>2. Seek' = Seek \/ (Seek = 0 /\ Seek' = m_logPos)
    BY <1>1, <2>1 DEF Seek, size
  <2>3. Seek \in Nat
    BY <1>1 DEF Seek
  <2>4. PICK a \in Nat, b \in Nat : a = rotated + Seek /\ b = rotated' + Seek' /\ a <= b
    <3>1. PICK d \in Nat : Seek' = Seek + d
      BY <1>1, <2>2, <2>3
    <3>2. rotated + Seek \in Nat /\ rotated' + Seek' = (rotated + Seek) + d
      BY <1>1, <2>1, <2>3, <3>1
    <3> QED BY <3>1, <3>2
  <2>5. from <= a /\ \A i \in 1 .. Len(pushed) : from < pushed[i] /\ pushed[i] <= a
    BY <2>4 DEF PosInv
  <2>6. from <= b /\ \A i \in 1 .. Len(pushed) : from < pushed[i] /\ pushed[i] <= b
    BY <1>0, <1>1, <2>4, <2>5
  <2> QED BY <2>1, <2>4, <2>6 DEF PosInv
<1>6. CASE Rotate
  <2>1. rotated' = written /\ UNCHANGED <<m_logPos, written, from, pushed>>
    BY <1>6 DEF Rotate
  <2>2. rotated' + Seek' = written
    BY <1>1, <2>1 DEF Seek, size
  <2>3. rotated + Seek <= written /\ rotated + Seek \in Nat
    BY <1>1 DEF Seek, size
  <2> QED BY <1>0, <1>1, <2>1, <2>2, <2>3 DEF PosInv
<1>7. CASE FileChanged
  BY <1>2, <1>7 DEF FileChanged
<1>8. CASE DirectoryChanged
  BY <1>3, <1>8 DEF DirectoryChanged
<1>9. CASE DirectoryEmit
  BY <1>2, <1>9 DEF DirectoryEmit
<1>10. CASE ServeMain \/ LogTailArrives \/ loadLogs \/ LogsLoaded \/ LoadFails \/ UNCHANGED vars
  <2>1. UNCHANGED <<m_logPos, rotated, from, pushed, written>>
    BY <1>10 DEF ServeMain, LogTailArrives, loadLogs, LogsLoaded, LoadFails, vars
  <2> QED BY <1>3, <2>1
<1> QED BY <1>4, <1>5, <1>6, <1>7, <1>8, <1>9, <1>10 DEF Next

LEMMA WakeStep == ASSUME FeedTyped, WakeInv, [Next]_vars PROVE WakeInv'
<1> USE DEF hub, page
<1>1. /\ written \in Nat /\ rotated \in 0 .. written /\ m_logPos \in Nat
      /\ {exists, watched, fileChanged, directoryChanged, handling, blind} \subseteq BOOLEAN
      /\ ~exists => written = 0
  BY FeedAssumption DEF FeedTyped
<1>2. ASSUME emitLogTail, UNCHANGED <<written, rotated>>
      PROVE  m_logPos' = size'
  BY <1>2, EmitFact DEF size
<1>3. CASE CreateFile
  BY <1>3 DEF CreateFile, Appears, WakeInv, Quiet
<1>4. CASE OtherFile
  BY <1>1, <1>4 DEF OtherFile, Appears, WakeInv, Quiet, size
<1>5. CASE WatchDirectory \/ WatchFile
  <2>1. "file" \in unwatched => watched' \/ "file" \in unwatched'
    BY <1>5 DEF WatchDirectory, WatchFile
  <2>2. UNCHANGED <<exists, written, rotated, m_logPos, fileChanged, directoryChanged, handling, blind>>
    BY <1>5 DEF WatchDirectory, WatchFile
  <2>3. watched' \/ "file" \in unwatched' => exists
    BY <1>5 DEF WatchDirectory, WatchFile, WakeInv
  <2>4. (watched => watched') /\ ~handling
    BY <1>5 DEF WatchDirectory, WatchFile, WakeInv
  <2> QED BY <2>1, <2>2, <2>3, <2>4 DEF WakeInv, Quiet, size
<1>6. CASE logMessageOutput \/ Rotate
  <2>1. Touched /\ exists /\ UNCHANGED <<exists, m_logPos, unwatched, watched, directoryChanged, handling>>
    BY <1>6 DEF logMessageOutput, Rotate
  <2>2. fileChanged' \/ directoryChanged' \/ blind'
    BY <2>1 DEF Touched, WakeInv
  <2>3. (fileChanged' => watched') /\ (blind => blind')
    BY <2>1 DEF Touched, WakeInv
  <2> QED BY <2>1, <2>2, <2>3 DEF WakeInv, Quiet
<1>7. CASE FileChanged
  BY <1>2, <1>7 DEF FileChanged, WakeInv
<1>8. CASE DirectoryChanged
  BY <1>1, <1>8 DEF DirectoryChanged, Up, WakeInv, Quiet
<1>9. CASE DirectoryEmit
  BY <1>2, <1>9 DEF DirectoryEmit, WakeInv
<1>10. CASE ServeMain \/ LogTailArrives \/ loadLogs \/ LogsLoaded \/ LoadFails \/ UNCHANGED vars
  <2>1. UNCHANGED <<exists, written, rotated, m_logPos, unwatched, watched, fileChanged, directoryChanged, handling, blind>>
    BY <1>10 DEF ServeMain, LogTailArrives, loadLogs, LogsLoaded, LoadFails, vars
  <2> QED BY <2>1 DEF WakeInv, Quiet, size
<1> QED BY <1>3, <1>4, <1>5, <1>6, <1>7, <1>8, <1>9, <1>10 DEF Next

\* emitLogTail takes nothing back and pushes every line behind the position.
LEMMA EmitPushes ==
  ASSUME FeedTyped, emitLogTail
  PROVE  /\ \A l : Pushed(l) => Pushed(l)'
         /\ \A l : OnWire(l) => OnWire(l)'
         /\ \A l \in rotated + Seek + 1 .. written : Pushed(l)' /\ OnWire(l)'
<1> DEFINE a == rotated + Seek
           n == written - a
<1>1. /\ Seek \in 0 .. size /\ n \in Nat /\ m_logPos' = size
      /\ wire' \in Seq(Line) /\ Len(wire') = Len(wire) + n
      /\ pushed' \in Seq(Line) /\ Len(pushed') = Len(pushed) + n
      /\ \A i \in 1 .. Len(wire) + n :
           wire'[i] = IF i <= Len(wire) THEN wire[i] ELSE a + (i - Len(wire))
      /\ \A i \in 1 .. Len(pushed) + n :
           pushed'[i] = IF i <= Len(pushed) THEN pushed[i] ELSE a + (i - Len(pushed))
  BY EmitFact
<1>2. a \in Nat /\ written \in Nat /\ a + n = written
  BY <1>1, FeedAssumption DEF FeedTyped, size
<1> HIDE DEF a, n
<1>3. PICK w \in Nat, q \in Nat : w = Len(wire) /\ q = Len(pushed)
  BY DEF FeedTyped
<1>4. ASSUME NEW l, Pushed(l) PROVE Pushed(l)'
  <2>1. PICK i \in 1 .. q : pushed[i] = l
    BY <1>3, <1>4 DEF Pushed
  <2>2. i \in 1 .. q + n /\ pushed'[i] = l
    BY <1>1, <1>3, <2>1
  <2> QED BY <1>1, <1>3, <2>2 DEF Pushed
<1>5. ASSUME NEW l, OnWire(l) PROVE OnWire(l)'
  <2>1. PICK i \in 1 .. w : wire[i] = l
    BY <1>3, <1>5 DEF OnWire
  <2>2. i \in 1 .. w + n /\ wire'[i] = l
    BY <1>1, <1>3, <2>1
  <2> QED BY <1>1, <1>3, <2>2 DEF OnWire
<1>6. ASSUME NEW l \in a + 1 .. written PROVE Pushed(l)' /\ OnWire(l)'
  <2>1. /\ q + (l - a) \in 1 .. q + n /\ ~(q + (l - a) <= q) /\ a + ((q + (l - a)) - q) = l
        /\ w + (l - a) \in 1 .. w + n /\ ~(w + (l - a) <= w) /\ a + ((w + (l - a)) - w) = l
    BY <1>1, <1>2, <1>3
  <2>2. pushed'[q + (l - a)] = l
    BY <1>1, <1>3, <2>1
  <2>3. wire'[w + (l - a)] = l
    BY <1>1, <1>3, <2>1
  <2> QED BY <1>1, <1>3, <2>1, <2>2, <2>3 DEF Pushed, OnWire
<1> QED BY <1>4, <1>5, <1>6 DEF a

LEMMA PushedStep == ASSUME FeedTyped, WakeInv, PushedInv, [Next]_vars PROVE PushedInv'
<1> USE DEF hub, page
<1>1. /\ written \in Nat /\ rotated \in 0 .. written /\ m_logPos \in Nat /\ from \in Nat
  BY FeedAssumption DEF FeedTyped
<1>2. ASSUME emitLogTail, UNCHANGED <<written, rotated, from, late>>
      PROVE  PushedInv'
  <2>1. m_logPos' = size /\ size' = size /\ size \in Nat /\ Seek' = size
    BY <1>1, <1>2, EmitFact DEF size, Seek
  <2>2. rotated' + Seek' = written
    BY <1>1, <1>2, <2>1 DEF size
  <2>3. ASSUME NEW l \in rotated + 1 .. written, l > from, ~Late(l)
        PROVE  Pushed(l)'
    <3>1. CASE l \in rotated + 1 .. rotated + Seek
      BY <1>2, <2>3, <3>1, EmitPushes DEF PushedInv
    <3>2. CASE l \in rotated + Seek + 1 .. written
      BY <1>2, <3>2, EmitPushes
    <3>3. Seek \in Nat
      BY <1>1 DEF Seek
    <3> QED BY <1>1, <3>1, <3>2, <3>3
  <2>4. \A l \in rotated' + 1 .. rotated' + Seek' : l > from' /\ ~Late(l)' => Pushed(l)'
    BY <1>2, <2>2, <2>3 DEF Late
  <2>5. ~(m_logPos' > size')
    BY <2>1
  <2> QED BY <2>4, <2>5 DEF PushedInv
<1>3. ASSUME UNCHANGED <<m_logPos, written, rotated, from, pushed, late>>
      PROVE  PushedInv'
  BY <1>3 DEF PushedInv, Pushed, Late, Seek, size
<1>4. CASE CreateFile \/ OtherFile \/ WatchDirectory \/ WatchFile
  BY <1>3, <1>4 DEF CreateFile, OtherFile, WatchDirectory, WatchFile
<1>5. CASE logMessageOutput
  <2>1. /\ UNCHANGED <<m_logPos, rotated, from, pushed>> /\ written' = written + 1 /\ exists
        /\ late' = late \cup (OpenWindows \X {written + 1})
    BY <1>5 DEF logMessageOutput
  <2>2. \A l : Late(l) => Late(l)'
    BY <2>1 DEF Late
  <2>3. ASSUME m_logPos > size
        PROVE  \A l \in rotated + 1 .. written + 1 : Late(l)'
    <3>1. \A l \in rotated + 1 .. written : Late(l)'
      BY <2>2, <2>3 DEF PushedInv
    <3>2. ~Quiet \/ blind
      BY <1>1, <2>1, <2>3 DEF WakeInv, size
    <3>3. <<"unnoticed", written + 1>> \in late'
      BY <2>1, <2>3, <3>2 DEF OpenWindows
    <3>4. \A l \in rotated + 1 .. written + 1 : l \in rotated + 1 .. written \/ l = written + 1
      BY <1>1
    <3> QED BY <3>1, <3>3, <3>4 DEF Late
  <2>4. size' = size + 1 /\ size \in Nat
    BY <1>1, <2>1 DEF size
  <2>5. CASE m_logPos > size
    <3>1. Seek' = 0 \/ rotated' + Seek' = written + 1
      BY <1>1, <2>1, <2>4, <2>5 DEF Seek, size
    <3>2. \A l \in rotated' + 1 .. rotated' + Seek' : Late(l)'
      <4>1. CASE Seek' = 0
        BY <1>1, <2>1, <4>1
      <4>2. CASE rotated' + Seek' = written + 1
        BY <2>1, <2>3, <2>5, <4>2
      <4> QED BY <3>1, <4>1, <4>2
    <3> QED BY <2>1, <2>3, <2>5, <3>2 DEF PushedInv
  <2>6. CASE ~(m_logPos > size)
    <3>1. Seek' = Seek /\ ~(m_logPos' > size')
      BY <1>1, <2>1, <2>4, <2>6 DEF Seek
    <3>2. \A l \in rotated' + 1 .. rotated' + Seek' : l > from' /\ ~Late(l)' => Pushed(l)'
      BY <2>1, <2>2, <3>1 DEF PushedInv, Pushed
    <3> QED BY <3>1, <3>2 DEF PushedInv
  <2> QED BY <2>5, <2>6
<1>6. CASE Rotate
  <2>1. UNCHANGED <<m_logPos, written>> /\ rotated' = written
    BY <1>6 DEF Rotate
  <2>2. Seek' = 0 /\ size' = 0
    BY <1>1, <2>1 DEF Seek, size
  <2> QED BY <1>1, <2>1, <2>2 DEF PushedInv
<1>7. CASE FileChanged
  BY <1>2, <1>7 DEF FileChanged
<1>8. CASE DirectoryChanged
  BY <1>3, <1>8 DEF DirectoryChanged
<1>9. CASE DirectoryEmit
  BY <1>2, <1>9 DEF DirectoryEmit
<1>10. CASE ServeMain \/ LogTailArrives \/ loadLogs \/ LogsLoaded \/ LoadFails \/ UNCHANGED vars
  <2>1. UNCHANGED <<m_logPos, written, rotated, from, pushed, late>>
    BY <1>10 DEF ServeMain, LogTailArrives, loadLogs, LogsLoaded, LoadFails, vars
  <2> QED BY <1>3, <2>1
<1> QED BY <1>4, <1>5, <1>6, <1>7, <1>8, <1>9, <1>10 DEF Next

LEMMA SnapStep == ASSUME FeedTyped, SnapInv, [Next]_vars PROVE SnapInv'
<1> USE DEF hub, page
<1>1. ASSUME UNCHANGED <<snapshot, written, rotated, late>> PROVE SnapInv'
  BY <1>1 DEF SnapInv, size
<1>2. ASSUME snapshot'.step # "served" PROVE SnapInv'
  BY <1>2 DEF SnapInv
<1>3. CASE \/ CreateFile \/ OtherFile \/ WatchDirectory \/ WatchFile \/ FileChanged
           \/ DirectoryChanged \/ DirectoryEmit \/ LogTailArrives \/ UNCHANGED vars
  BY <1>1, <1>3 DEF CreateFile, OtherFile, WatchDirectory, WatchFile, FileChanged, DirectoryChanged,
                    DirectoryEmit, LogTailArrives, vars
<1>4. CASE logMessageOutput
  BY <1>4 DEF logMessageOutput, OpenWindows, SnapInv
<1>5. CASE Rotate
  <2>1. size' = 0
    BY <1>5, FeedAssumption DEF Rotate, size, FeedTyped
  <2> QED BY <2>1 DEF SnapInv
<1>6. CASE ServeMain
  BY <1>6, ServedFact DEF ServeMain, SnapInv, FeedTyped, size
<1>7. CASE loadLogs \/ LogsLoaded \/ LoadFails
  <2>1. snapshot'.step # "served"
    BY <1>7 DEF loadLogs, LogsLoaded, LoadFails, NoCall
  <2> QED BY <1>2, <2>1
<1> QED BY <1>3, <1>4, <1>5, <1>6, <1>7 DEF Next

\* What is on the wire is in order, and its last line is the last that was pushed.
LEMMA WireFact ==
  ASSUME FeedTyped, PosInv
  PROVE  /\ \A i, j \in 1 .. Len(wire) : i < j => wire[i] < wire[j]
         /\ \A i \in 1 .. Len(pushed) : from < pushed[i] /\ pushed[i] <= written /\ pushed[i] \in Nat
         /\ \A i \in 1 .. Len(wire) : wire[i] <= written /\ wire[i] \in Nat
         /\ Len(wire) > 0 => Len(pushed) > 0 /\ wire[Len(wire)] = pushed[Len(pushed)]
<1>1. /\ written \in Nat /\ rotated \in 0 .. written /\ m_logPos \in Nat
      /\ pushed \in Seq(Line) /\ wire \in Seq(Line) /\ Line \subseteq Nat
  BY FeedAssumption DEF FeedTyped, Line
<1>2. PICK w \in Nat, q \in Nat : w = Len(wire) /\ q = Len(pushed) /\ w <= q
  BY DEF FeedTyped
<1>3. \A i \in 1 .. w : wire[i] = pushed[q - w + i] /\ q - w + i \in 1 .. q
  BY <1>2 DEF FeedTyped
<1>4. \A i, j \in 1 .. w : i < j => wire[i] < wire[j]
  <2>1. SUFFICES ASSUME NEW i \in 1 .. w, NEW j \in 1 .. w, i < j
                 PROVE  wire[i] < wire[j]
    OBVIOUS
  <2>2. q - w + i < q - w + j
    BY <1>2, <2>1
  <2> QED BY <1>2, <1>3, <2>2 DEF PosInv
<1>5. rotated + Seek <= written /\ rotated + Seek \in Nat
  BY <1>1 DEF Seek, size
<1>6. \A i \in 1 .. q : from < pushed[i] /\ pushed[i] <= written /\ pushed[i] \in Nat
  <2>1. SUFFICES ASSUME NEW i \in 1 .. q
                 PROVE  from < pushed[i] /\ pushed[i] <= written /\ pushed[i] \in Nat
    OBVIOUS
  <2>2. pushed[i] \in Nat
    BY <1>1, <1>2, ElementOfSeq
  <2>3. from < pushed[i] /\ pushed[i] <= rotated + Seek
    BY <1>2 DEF PosInv
  <2> QED BY <1>1, <1>5, <2>2, <2>3
<1>7. \A i \in 1 .. w : wire[i] <= written /\ wire[i] \in Nat
  BY <1>3, <1>6
<1>8. ASSUME w > 0 PROVE q > 0 /\ wire[w] = pushed[q]
  <2>1. w \in 1 .. w /\ q - w + w = q
    BY <1>2, <1>8
  <2> QED BY <1>2, <1>3, <1>8, <2>1
<1> QED BY <1>2, <1>4, <1>6, <1>7, <1>8

LEMMA NewestStep ==
  ASSUME FeedTyped, PosInv, WakeInv, PushedInv, SnapInv, NewestInv, [Next]_vars
  PROVE  NewestInv'
<1> USE DEF hub, page
<1> DEFINE Known == \A w \in {"unnoticed", "untaken"} : <<w, written>> \notin late
<1>1. /\ written \in Nat /\ rotated \in 0 .. written /\ m_logPos \in Nat /\ from \in Nat
      /\ size \in Nat /\ wire \in Seq(Line) /\ pushed \in Seq(Line)
  BY FeedAssumption DEF FeedTyped, size
<1>2. ASSUME UNCHANGED <<m_logPos, written, rotated, late, wire, logLines, opened>>
      PROVE  NewestInv'
  BY <1>2 DEF NewestInv, OnWire, OnPage, size
<1>3. size > 0 /\ Known => m_logPos <= size
  <2>1. SUFFICES ASSUME size > 0, Known, m_logPos > size PROVE FALSE
    BY <1>1
  <2>2. written \in rotated + 1 .. written
    BY <1>1, <2>1 DEF size
  <2> QED BY <2>1, <2>2 DEF PushedInv, Late
<1>4. ASSUME emitLogTail, UNCHANGED <<written, rotated, late, page>>
      PROVE  NewestInv'
  <2>1. SUFFICES ASSUME opened, size > 0, Known
                 PROVE  OnWire(written)' \/ (wire' = <<>> /\ OnPage(written)')
    BY <1>4 DEF NewestInv, size
  <2>2. CASE m_logPos < size
    <3>1. written \in rotated + Seek + 1 .. written
      BY <1>1, <2>2 DEF Seek, size
    <3> QED BY <1>4, <3>1, EmitPushes DEF OnWire
  <2>3. CASE OnWire(written)
    BY <1>4, <2>3, EmitPushes DEF OnWire
  <2>4. CASE ~(m_logPos < size) /\ wire = <<>> /\ OnPage(written)
    <3>1. m_logPos = size
      BY <1>1, <1>3, <2>1, <2>4
    <3>2. written - (rotated + Seek) = 0
      BY <1>1, <3>1 DEF Seek, size
    <3>3. wire' \in Seq(Line) /\ Len(wire') = 0
      BY <1>4, <2>4, <3>2, EmitFact
    <3>4. wire' = <<>>
      BY <3>3, EmptySeq
    <3> QED BY <1>4, <2>4, <3>4 DEF OnPage
  <2> QED BY <2>1, <2>2, <2>3, <2>4 DEF NewestInv
<1>5. CASE \/ CreateFile \/ OtherFile \/ WatchDirectory \/ WatchFile \/ DirectoryChanged
           \/ ServeMain \/ loadLogs \/ LoadFails \/ UNCHANGED vars
  <2>1. UNCHANGED <<m_logPos, written, rotated, late, wire, logLines, opened>>
    BY <1>5 DEF CreateFile, OtherFile, WatchDirectory, WatchFile, DirectoryChanged, ServeMain, loadLogs, LoadFails, vars
  <2> QED BY <1>2, <2>1
<1>6. CASE logMessageOutput
  <2>1. /\ UNCHANGED <<m_logPos, rotated>> /\ written' = written + 1 /\ exists
        /\ late' = late \cup (OpenWindows \X {written'})
    BY <1>6 DEF logMessageOutput
  <2>2. size' = size + 1
    BY <1>1, <2>1 DEF size
  <2>3. CASE m_logPos <= size
    <3>1. m_logPos' < size'
      BY <1>1, <2>1, <2>2, <2>3
    <3> QED BY <3>1 DEF NewestInv
  <2>4. CASE m_logPos > size
    <3>1. ~Quiet \/ blind => <<"unnoticed", written'>> \in late'
      BY <2>1, <2>4 DEF OpenWindows
    <3>2. ~Quiet \/ blind
      BY <1>1, <2>1, <2>4 DEF WakeInv
    <3> QED BY <3>1, <3>2 DEF NewestInv
  <2> QED BY <1>1, <2>3, <2>4
<1>7. CASE Rotate
  <2>1. size' = 0
    BY <1>1, <1>7 DEF Rotate, size
  <2> QED BY <2>1 DEF NewestInv
<1>8. CASE FileChanged \/ DirectoryEmit
  BY <1>4, <1>8 DEF FileChanged, DirectoryEmit
<1>9. CASE LogTailArrives
  <2>1. UNCHANGED <<m_logPos, written, rotated, late, opened>> /\ wire # <<>>
    BY <1>9 DEF LogTailArrives
  <2>2. SUFFICES ASSUME opened, size > 0, Known, ~(m_logPos < size)
                 PROVE  OnWire(written)' \/ (wire' = <<>> /\ OnPage(written)')
    BY <2>1 DEF NewestInv, size
  <2>3. PICK i \in 1 .. Len(wire) : wire[i] = written
    BY <2>1, <2>2 DEF NewestInv, OnWire
  <2>4. /\ wire' \in Seq(Line) /\ Len(wire') = Len(wire) - 1
        /\ \A k \in 1 .. Len(wire') : wire'[k] = wire[k + 1]
        /\ Head(wire) = wire[1] /\ Head(wire) \in Line
    BY <1>1, <1>9, <2>1, HeadTailProperties DEF LogTailArrives
  <2>5. CASE i = 1
    <3>1. Len(wire) = 1
      <4>1. SUFFICES ASSUME Len(wire) # 1 PROVE FALSE
        OBVIOUS
      <4>2. 2 \in 1 .. Len(wire) /\ 1 \in 1 .. Len(wire)
        <5>1. PICK w \in Nat : w = Len(wire)
          BY <1>1
        <5>2. w >= 1 /\ w # 1
          BY <2>5, <4>1, <5>1
        <5> QED BY <5>1, <5>2
      <4> QED BY <1>1, <2>3, <2>5, <4>2, WireFact
    <3>2. wire' = <<>>
      BY <2>4, <3>1, EmptySeq
    <3>3. PICK h \in Line : h = written /\ h = Head(wire)
      BY <2>3, <2>4, <2>5
    <3>4. <<h>> \in Seq(Line) /\ Len(<<h>>) = 1 /\ <<h>>[1] = h
      OBVIOUS
    <3>5. pushLog(logLines, <<h>>) /\ logLines \in Seq(Line)
      BY <1>9, <3>3 DEF LogTailArrives, FeedTyped
    <3>6. PICK r \in Seq(Line) : r = <<h>>
      BY <3>4
    <3>7. Len(logLines') > 0 /\ logLines'[Len(logLines')] = r[Len(r)] /\ logLines' \in Seq(Line)
      <4>1. pushLog(logLines, r) /\ logLines \in Seq(Line) /\ Len(r) > 0
        BY <3>4, <3>5, <3>6
      <4> HIDE <3>6
      <4> QED BY <4>1, PushLogFact
    <3>8. logLines'[Len(logLines')] = written
      BY <3>3, <3>4, <3>6, <3>7
    <3> QED BY <2>1, <3>2, <3>7, <3>8 DEF OnPage
  <2>6. CASE i # 1
    <3>1. i - 1 \in 1 .. Len(wire') /\ (i - 1) + 1 = i
      BY <1>1, <2>4, <2>6
    <3>2. wire'[i - 1] = written
      BY <2>3, <2>4, <3>1
    <3> QED BY <2>1, <3>1, <3>2 DEF OnWire
  <2> QED BY <2>5, <2>6
<1>10. CASE LogsLoaded
  <2>1. /\ UNCHANGED <<m_logPos, written, rotated, late, wire>>
        /\ snapshot.step = "served" /\ pushLog(<<>>, snapshot.lines)
    BY <1>10 DEF LogsLoaded
  <2>2. SUFFICES ASSUME size > 0, Known, ~(m_logPos < size), wire # <<>> \/ ~OnPage(written)'
                 PROVE  OnWire(written)
    BY <2>1 DEF NewestInv, OnWire, size
  <2>3. OnPage(written)'
    <3>1. snapshot.lines \in Seq(Line) /\ <<>> \in Seq(Line)
      BY DEF FeedTyped
    <3>2. Len(snapshot.lines) > 0 /\ snapshot.lines[Len(snapshot.lines)] = written
      BY <2>1, <2>2 DEF SnapInv
    <3>3. logLines' \in Seq(Line) /\ Len(logLines') > 0 /\ logLines'[Len(logLines')] = written
      BY <2>1, <3>1, <3>2, PushLogFact
    <3> QED BY <2>1, <3>3 DEF OnPage
  <2>4. Len(wire) > 0
    BY <1>1, <2>2, <2>3, EmptySeq
  <2>5. Len(pushed) > 0 /\ wire[Len(wire)] = pushed[Len(pushed)] /\ Len(pushed) \in 1 .. Len(pushed)
    BY <1>1, <2>4, WireFact
  <2>6. from < written
    BY <1>1, <2>5, WireFact
  <2>7. written \in rotated + 1 .. rotated + Seek
    BY <1>1, <1>3, <2>2 DEF Seek, size
  <2>8. PICK i \in 1 .. Len(pushed) : pushed[i] = written
    BY <2>2, <2>6, <2>7 DEF PushedInv, Pushed, Late
  <2>9. i = Len(pushed)
    <3>1. SUFFICES ASSUME i < Len(pushed) PROVE FALSE
      BY <1>1
    <3>2. written < pushed[Len(pushed)]
      BY <2>5, <2>8, <3>1 DEF PosInv
    <3> QED BY <1>1, <2>5, <3>2, WireFact
  <2> QED BY <1>1, <2>4, <2>5, <2>8, <2>9 DEF OnWire
<1> QED BY <1>5, <1>6, <1>7, <1>8, <1>9, <1>10 DEF Next

LEMMA FeedInvariant == Spec => []IInv
<1>1. ASSUME IInv, [Next]_vars PROVE IInv'
  BY <1>1, TypedStep, PosStep, WakeStep, PushedStep, SnapStep, NewestStep DEF IInv
<1> QED BY <1>1, FeedInit, PTL DEF Spec

-----------------------------------------------------------------------------
\* Every variable keeps its type, and what is on the wire is the end of what
\* was pushed: emitLogTail broadcasts to the page what it reads, in that order.
THEOREM FeedTypeCorrect == Spec => []TypeOK
<1>1. ASSUME FeedTyped PROVE wire = Last(pushed, Len(wire))
  <2>1. PICK w \in Nat : w = Len(wire) /\ w <= Len(pushed)
    BY <1>1 DEF FeedTyped
  <2> DEFINE t == Last(pushed, w)
  <2>2. pushed \in Seq(Line) /\ wire \in Seq(Line) /\ Len(pushed) \in Nat
    BY <1>1 DEF FeedTyped
  <2>3. /\ t \in Seq(Line) /\ Len(t) = IF Len(pushed) > w THEN w ELSE Len(pushed)
        /\ \A i \in 1 .. Len(t) : t[i] = pushed[Len(pushed) - Len(t) + i]
    BY <2>2, LastFact
  <2> HIDE DEF t
  <2>4. Len(t) = w
    BY <2>1, <2>2, <2>3
  <2>5. \A i \in 1 .. w : t[i] = wire[i]
    BY <1>1, <2>1, <2>3, <2>4 DEF FeedTyped
  <2>6. wire = t
    BY <2>1, <2>2, <2>3, <2>4, <2>5, SeqEqual
  <2> QED BY <2>1, <2>6 DEF t
<1>2. FeedTyped => TypeOK
  BY <1>1 DEF FeedTyped, TypeOK, Line
<1>3. IInv => TypeOK
  BY <1>2 DEF IInv
<1> QED BY <1>3, FeedInvariant, PTL

\* The hub pushes no line twice and none out of order, however often the log is
\* rotated and however the notifications are merged.
THEOREM PushedInOrder == Spec => []PushedOnceInOrder
<1>1. IInv => PushedOnceInOrder
  <2>1. IInv => DOMAIN pushed = 1 .. Len(pushed)
    BY DEF IInv, FeedTyped
  <2> QED BY <2>1 DEF IInv, PosInv, PushedOnceInOrder
<1> QED BY <1>1, FeedInvariant, PTL

\* A hub that has nothing left to handle is at the end of the file, unless that
\* changed while the hub was being set up: re-adding the path in directoryChanged
\* and reading afterwards misses no change.
THEOREM NoWakeupLost == Spec => []NoLostWakeup
<1>1. IInv => NoLostWakeup
  BY DEF IInv, WakeInv, NoLostWakeup
<1> QED BY <1>1, FeedInvariant, PTL

\* A hub that has nothing left to handle has pushed every line in the file,
\* except those that were logged between a truncation and its notice, or while it
\* was being set up, if it has not read since.
THEOREM NewLinesPushed == Spec => []EveryLinePushed
<1>1. ASSUME IInv, Quiet, ~blind, NEW l \in rotated + 1 .. written, l > from, <<"unnoticed", l>> \notin late
      PROVE  \E i \in DOMAIN pushed : pushed[i] = l
  <2>1. written \in Nat /\ rotated \in 0 .. written /\ from \in Nat /\ pushed \in Seq(Line)
    BY <1>1, FeedAssumption DEF IInv, FeedTyped
  <2>2. exists
    BY <1>1, <2>1 DEF IInv, FeedTyped
  <2>3. m_logPos = size
    BY <1>1, <2>2 DEF IInv, WakeInv
  <2>4. rotated + Seek = written
    BY <2>1, <2>3 DEF Seek, size
  <2>5. Pushed(l)
    BY <1>1, <2>4 DEF IInv, PushedInv, Late
  <2> QED BY <2>1, <2>5 DEF Pushed
<1>2. IInv => EveryLinePushed
  BY <1>1 DEF EveryLinePushed
<1> QED BY <1>2, FeedInvariant, PTL

\* Once the log is loaded and everything has arrived, the newest line is on the
\* page, unless it was logged in one of the two windows, or while the hub was being set
\* up, if it has not read since: loadLogs replaces what
\* was pushed by a snapshot that is at least as new.
THEOREM PageIsCurrent == Spec => []PageShowsLatest
<1>1. ASSUME IInv, opened, Quiet, ~blind, wire = <<>>, size > 0,
             \A w \in {"unnoticed", "untaken"} : <<w, written>> \notin late
      PROVE  \E i \in DOMAIN logLines : logLines[i] = written
  <2>1. written \in Nat /\ rotated \in 0 .. written /\ logLines \in Seq(Line) /\ m_logPos \in Nat
    BY <1>1, FeedAssumption DEF IInv, FeedTyped
  <2>2. exists
    BY <1>1, <2>1 DEF IInv, FeedTyped, size
  <2>3. m_logPos = size
    BY <1>1, <2>2 DEF IInv, WakeInv
  <2>4. ~(m_logPos < size) /\ ~OnWire(written)
    BY <1>1, <2>1, <2>3 DEF OnWire, size
  <2>5. OnPage(written)
    BY <1>1, <2>4 DEF IInv, NewestInv
  <2> QED BY <2>1, <2>5 DEF OnPage
<1>2. IInv => PageShowsLatest
  BY <1>1 DEF PageShowsLatest
<1> QED BY <1>2, FeedInvariant, PTL

-----------------------------------------------------------------------------
(* LogFeed implements TailFeed.                                            *)

\* A position beyond the end of the file is left from a file truncated since.
AheadInv == m_logPos > size => rotated > 0

LEMMA AheadStep == ASSUME FeedTyped, AheadInv, [Next]_vars PROVE AheadInv'
<1> USE DEF hub, page
<1>1. /\ written \in Nat /\ rotated \in 0 .. written /\ m_logPos \in Nat
  BY FeedAssumption DEF FeedTyped
<1>2. ASSUME UNCHANGED <<written, rotated, m_logPos>> PROVE AheadInv'
  BY <1>2 DEF AheadInv, size
<1>3. ASSUME emitLogTail, UNCHANGED <<written, rotated>> PROVE AheadInv'
  <2>1. m_logPos' = size /\ size' = size
    BY <1>3, EmitFact DEF size
  <2> QED BY <1>1, <2>1 DEF AheadInv, size
<1>4. CASE logMessageOutput
  BY <1>1, <1>4 DEF logMessageOutput, AheadInv, size
<1>5. CASE Rotate
  BY <1>1, <1>5 DEF Rotate, AheadInv, size
<1>6. CASE FileChanged \/ DirectoryEmit
  BY <1>3, <1>6 DEF FileChanged, DirectoryEmit
<1>7. CASE \/ CreateFile \/ OtherFile \/ WatchDirectory \/ WatchFile \/ DirectoryChanged \/ ServeMain
           \/ LogTailArrives \/ loadLogs \/ LogsLoaded \/ LoadFails \/ UNCHANGED vars
  BY <1>2, <1>7 DEF CreateFile, OtherFile, WatchDirectory, WatchFile, DirectoryChanged, ServeMain, LogTailArrives, loadLogs, LogsLoaded, LoadFails, vars
<1> QED BY <1>4, <1>5, <1>6, <1>7 DEF Next

LEMMA AheadInvariant == Spec => [](FeedTyped /\ AheadInv)
<1>1. Init => FeedTyped /\ AheadInv
  <2>1. Init => AheadInv
    BY DEF Init, AheadInv, size
  <2> QED BY <2>1, FeedInit DEF IInv
<1>2. ASSUME FeedTyped /\ AheadInv, [Next]_vars PROVE (FeedTyped /\ AheadInv)'
  BY <1>2, TypedStep, AheadStep
<1> QED BY <1>1, <1>2, PTL DEF Spec

LEMMA InitIsTail == Init => Reader!TInit
  BY FeedAssumption DEF Init, Reader!TInit, Seek, size

\* emitLogTail feeds the reader; a line logged moves the place where the hub
\* goes on only if that is beyond the file, and a truncation to its new start.
LEMMA StepIsTail ==
  ASSUME FeedTyped, AheadInv, [Next]_vars
  PROVE  Reader!TNext \/ UNCHANGED <<written, rotated, rotated + Seek, pushed>>
<1> USE DEF hub, page
<1>1. /\ written \in Nat /\ rotated \in 0 .. written /\ m_logPos \in Nat
  BY FeedAssumption DEF FeedTyped
<1>2. ASSUME UNCHANGED <<written, rotated, m_logPos, pushed>>
      PROVE  UNCHANGED <<written, rotated, rotated + Seek, pushed>>
  BY <1>2 DEF Seek, size
<1>3. ASSUME emitLogTail, UNCHANGED <<written, rotated>>
      PROVE  Reader!Feed
  <2>1. m_logPos' = size /\ size' = size
    BY <1>3, EmitFact DEF size
  <2>2. (rotated + Seek)' = written
    BY <1>1, <1>3, <2>1 DEF Seek, size
  <2>3. pushed' = pushed \o LinesFrom(rotated + Seek, written)
    BY <1>3 DEF emitLogTail
  <2> QED BY <1>3, <2>2, <2>3 DEF Reader!Feed, LinesFrom
<1>4. CASE logMessageOutput
  <2>1. written' = written + 1 /\ UNCHANGED <<rotated, m_logPos, pushed>>
    BY <1>4 DEF logMessageOutput
  <2>2. CASE m_logPos > size
    <3>1. Reader!Skips
      BY <1>1, <2>2 DEF AheadInv, Reader!Skips, Seek, size
    <3>2. (rotated + Seek)' = rotated + Seek \/ (rotated + Seek)' = written'
      BY <1>1, <2>1, <2>2 DEF Seek, size
    <3> QED BY <2>1, <3>1, <3>2 DEF Reader!Log, Reader!TNext
  <2>3. CASE ~(m_logPos > size)
    <3>1. (rotated + Seek)' = rotated + Seek
      BY <1>1, <2>1, <2>3 DEF Seek, size
    <3> QED BY <2>1, <3>1 DEF Reader!Log, Reader!TNext
  <2> QED BY <2>2, <2>3
<1>5. CASE Rotate
  <2>1. rotated' = written /\ UNCHANGED <<written, m_logPos, pushed>>
    BY <1>5 DEF Rotate
  <2>2. (rotated + Seek)' = written
    BY <1>1, <2>1 DEF Seek, size
  <2> QED BY <2>1, <2>2 DEF Reader!TNext, Reader!Truncate
<1>6. CASE FileChanged \/ DirectoryEmit
  BY <1>3, <1>6 DEF FileChanged, DirectoryEmit, Reader!TNext
<1>7. CASE \/ CreateFile \/ OtherFile \/ WatchDirectory \/ WatchFile \/ DirectoryChanged \/ ServeMain
           \/ LogTailArrives \/ loadLogs \/ LogsLoaded \/ LoadFails \/ UNCHANGED vars
  BY <1>2, <1>7 DEF CreateFile, OtherFile, WatchDirectory, WatchFile, DirectoryChanged, ServeMain, LogTailArrives, loadLogs, LogsLoaded, LoadFails, vars
<1> QED BY <1>4, <1>5, <1>6, <1>7 DEF Next

\* What the hub pushes is a tail of the log with no line left out within a file:
\* a line logged leaves its position alone unless that lies beyond a truncated
\* file, and emitLogTail pushes exactly what is behind it.
THEOREM PushedIsTail == Spec => ImplementsTailFeed
<1> USE DEF ImplementsTailFeed
<1>1. FeedTyped /\ AheadInv /\ [Next]_vars => [Reader!TNext]_<<written, rotated, rotated + Seek, pushed>>
  BY StepIsTail
<1> QED BY <1>1, InitIsTail, AheadInvariant, PTL DEF Spec, Reader!TSpec

=============================================================================
