---------------------------- MODULE WebStartProofs ----------------------------
(***************************************************************************)
(* Proofs about WebStart.  One inductive invariant carries its four        *)
(* properties: what the files are once nobody writes them (FilesInv), what *)
(* the daemon has read of them so far (DaemonInv), and what was fixed at   *)
(* the start (StartInv).                                                   *)
(***************************************************************************)
EXTENDS WebStart, TLAPS

\* A generator that writes has a number of its own; one that was never joined
\* by the other is the only one that writes, and the key is already its own
\* when it comes to the certificate.
GenInv ==
  \A g \in Running : /\ gen[g].n \in Pairs
                     /\ gen[g].alone => Running = {g}
                     /\ gen[g].alone /\ gen[g].pc \in {"cert", "open"} => key = gen[g].n

\* Files nobody writes are a pair, unless a generation was cut off or mixed.
FilesInv == sound /\ Running = {} /\ BothExist => cert = key /\ cert \in Pairs

\* What an undisturbed start has read of the default pair.
DaemonInv ==
  daemon.source = "default" =>
    /\ BothExist
    /\ ~daemon.raced =>
         /\ daemon.pc \in {"chosen", "read"} => sound /\ Running = {}
         /\ daemon.pc = "read" => daemon.cert = cert
         /\ daemon.pc \in {"loaded", "up"} => daemon.cert = daemon.key /\ daemon.cert \in Pairs

\* HSTS was sent only with files that are still there, and a start that found
\* them serves them.
HstsInv == hsts => BothExist /\ (daemon.pc # "down" /\ ~daemon.half => m_tls)

\* paths/logs does not change while the daemon starts.
StartInv ==
  /\ daemon.pc # "down" => g_debugLogging = main_conf.debug
  /\ daemon.pc \in {"chosen", "read", "loaded"} => g_logFile \in {NoDir, main_conf.logs}
  /\ daemon.pc = "up" => m_logPath = g_logFile

IInv == TypeOK /\ GenInv /\ FilesInv /\ DaemonInv /\ HstsInv /\ StartInv

\* A number is neither a missing nor an empty file.
LEMMA Marks == /\ Absent # Cut /\ Own # Absent /\ Own # Cut /\ NoDir \notin Dirs
               /\ \A n \in Pairs : n \in Nat /\ n # Absent /\ n # Cut
  BY StartAssumption DEF Pairs

\* The initial states satisfy the invariant.
LEMMA IInit == Init => IInv
<1> SUFFICES ASSUME Init
             PROVE  IInv
  OBVIOUS
<1>1. TypeOK
  <2>1. NotRunning \in Generator /\ Down \in Daemon /\ m_logPath = NoDir
    BY StartAssumption DEF Init, NotRunning, Generator, Down, Daemon
  <2>2. main_conf \in Conf
    BY DEF Init, Conf
  <2>3. gen \in [Generators -> Generator] /\ daemon \in Daemon /\ daemon.pc = "down"
    BY <2>1 DEF Init, Down
  <2>4. generated \in 0 .. MaxGen /\ cert = Absent /\ key = Absent
    BY StartAssumption DEF Init
  <2>5. g_debugLogging \in BOOLEAN /\ hsts \in BOOLEAN /\ sound \in BOOLEAN /\ g_logFile = NoDir
    BY DEF Init
  <2> QED BY <2>1, <2>2, <2>3, <2>4, <2>5 DEF TypeOK
<1>2. GenInv /\ FilesInv
  BY DEF Init, GenInv, FilesInv, NotRunning, Running, BothExist
<1>3. daemon.source = "none" /\ daemon.pc = "down" /\ ~hsts
  BY DEF Init, Down
<1>4. DaemonInv /\ HstsInv /\ StartInv
  BY <1>3 DEF DaemonInv, HstsInv, StartInv
<1> QED BY <1>1, <1>2, <1>4 DEF IInv

\* Every step keeps the types; the number of a generator that writes is a pair's.
LEMMA TypeStep == TypeOK /\ GenInv /\ [Next]_vars => TypeOK'
<1> SUFFICES ASSUME TypeOK, GenInv, [Next]_vars
             PROVE  TypeOK'
  OBVIOUS
<1> USE DEF TypeOK, logs
<1>1. ASSUME NEW g \in Generators, Generate(g)
      PROVE  TypeOK'
  <2>1. generated + 1 \in 0 .. MaxGen
    BY <1>1, StartAssumption DEF Generate, StartsWriting
  <2>2. gen' \in [Generators -> Generator]
    BY <1>1, <2>1 DEF Generate, StartsWriting, Generator
  <2>3. daemon' \in Daemon /\ daemon'.pc = daemon.pc
    BY <1>1 DEF Generate, StartsWriting, Daemon
  <2> QED BY <1>1, <2>1, <2>2, <2>3 DEF Generate, StartsWriting
<1>2. ASSUME NEW g \in Generators, WriteKey(g) \/ OpenCert(g) \/ WriteCert(g)
      PROVE  TypeOK'
  <2>1. gen[g].n \in Pairs /\ gen[g].alone \in BOOLEAN
    BY <1>2 DEF WriteKey, OpenCert, WriteCert, GeneratorStep, GenInv, Running, Generator
  <2>2. gen' \in [Generators -> Generator]
    BY <1>2 DEF WriteKey, OpenCert, WriteCert, GeneratorStep, Generator
  <2> QED BY <1>2, <2>1, <2>2 DEF WriteKey, OpenCert, WriteCert, GeneratorStep
<1>3. ASSUME NEW g \in Generators, GeneratorDies(g)
      PROVE  TypeOK'
  <2>1. NotRunning \in Generator
    BY StartAssumption DEF NotRunning, Generator
  <2>2. sound' \in BOOLEAN
    BY <1>3 DEF GeneratorDies
  <2>3. gen' \in [Generators -> Generator]
    BY <1>3, <2>1 DEF GeneratorDies
  <2>4. UNCHANGED <<cert, key, generated, main_conf, daemon, logs, hsts>>
    BY <1>3 DEF GeneratorDies
  <2> QED BY <2>2, <2>3, <2>4
<1>4. CASE Start
  <2>1. Source(BothExist) \in {"own", "default", "none"}
    BY DEF Source
  <2>2. daemon' \in Daemon /\ daemon'.pc = "chosen"
    BY <1>4, <2>1 DEF Start, Starts, Down, Daemon, Conf
  <2>3. main_conf.logs \in Dirs /\ main_conf.debug \in BOOLEAN
    BY DEF Conf
  <2> QED BY <1>4, <2>2, <2>3 DEF Start, Starts, files
<1>5. CASE ReadCert \/ ReadKey
  <2>1. Contents(cert) \in Pairs \cup {Absent, Own} /\ Contents(key) \in Pairs \cup {Absent, Own}
    BY DEF Contents
  <2>2. daemon' \in Daemon /\ daemon'.pc # "up" /\ daemon.pc # "up"
    BY <1>5, <2>1 DEF ReadCert, ReadKey, Daemon
  <2> QED BY <1>5, <2>2 DEF ReadCert, ReadKey, files
<1>6. ASSUME NEW taken \in BOOLEAN, Listen(taken)
      PROVE  TypeOK'
  <2> DEFINE ok == ~taken /\ (m_tls => NewQt)
  <2>1. daemon' \in Daemon /\ (daemon'.pc = "up") = ok /\ m_logPath = NoDir
    BY <1>6 DEF Listen, Daemon
  <2>2. main_conf.logs \in Dirs
    BY DEF Conf
  <2>3. m_logPath' \in Dirs \cup {NoDir} /\ (m_logPath' # NoDir) = ok
    BY <1>6, <2>1, <2>2, StartAssumption DEF Listen, NewHub
  <2> QED BY <1>6, <2>1, <2>2, <2>3 DEF Listen, qInfo, files
<1>7. CASE Die
  <2>1. Down \in Daemon /\ Down.pc = "down"
    BY DEF Down, Daemon
  <2> QED BY <1>7, <2>1 DEF Die, files
<1>8. ASSUME NEW found \in BOOLEAN, serveStatic(found)
      PROVE  TypeOK'
  BY <1>8 DEF serveStatic, files
<1>9. ASSUME NEW dbg \in BOOLEAN, NEW dir \in Dirs, putPrefs(dbg, dir)
      PROVE  TypeOK'
  <2>1. main_conf' \in Conf
    BY <1>9 DEF putPrefs, Conf
  <2> QED BY <1>9, <2>1 DEF putPrefs, files
<1>10. ASSUME NEW field \in {"tls_cert", "tls_key"}, EditTls(field)
      PROVE  TypeOK'
  <2>1. main_conf' \in Conf
    BY <1>10 DEF EditTls, Conf
  <2> QED BY <1>10, <2>1 DEF EditTls, files
<1>11. CASE UNCHANGED vars
  BY <1>11 DEF vars, files
<1> QED BY <1>1, <1>2, <1>3, <1>4, <1>5, <1>6, <1>7, <1>8, <1>9, <1>10, <1>11 DEF Next

\* Every step keeps what the generators know: one that joins another makes both
\* impure, and one alone is the only writer of the key.
LEMMA GenStep == TypeOK /\ GenInv /\ [Next]_vars => GenInv'
<1> SUFFICES ASSUME TypeOK, GenInv, [Next]_vars
             PROVE  GenInv'
  OBVIOUS
<1> USE DEF GenInv, Running
<1>0. gen \in [Generators -> Generator] /\ generated \in 0 .. MaxGen
  BY DEF TypeOK
<1>1. ASSUME NEW g \in Generators, Generate(g)
      PROVE  GenInv'
  <2>1. generated + 1 \in Pairs
    BY <1>0, <1>1, StartAssumption DEF Generate, StartsWriting, Pairs
  <2>2. /\ gen'[g].pc = "key" /\ gen'[g].n \in Pairs /\ (gen'[g].alone => Running = {})
        /\ \A h \in Generators \ {g} : gen'[h].pc = gen[h].pc /\ gen'[h].n = gen[h].n /\ ~gen'[h].alone
    BY <1>0, <1>1, <2>1 DEF Generate, StartsWriting, Generator
  <2>3. \A h \in Running' \ {g} : h \in Running /\ gen'[h].n \in Pairs /\ ~gen'[h].alone
    BY <2>2
  <2>4. gen'[g].alone => Running' = {g}
    <3>1. SUFFICES ASSUME gen'[g].alone
                   PROVE  Running' = {g}
      OBVIOUS
    <3>2. \A h \in Generators \ {g} : gen[h].pc = "idle"
      BY <2>2, <3>1
    <3> QED BY <2>2, <3>2
  <2> QED BY <2>2, <2>3, <2>4
<1>2. ASSUME NEW g \in Generators, WriteKey(g) \/ OpenCert(g) \/ WriteCert(g)
      PROVE  GenInv'
  <2>1. /\ gen'[g].n = gen[g].n /\ gen'[g].alone = gen[g].alone
        /\ \A h \in Generators \ {g} : gen'[h] = gen[h]
    BY <1>0, <1>2 DEF WriteKey, OpenCert, WriteCert, GeneratorStep, Generator
  <2>2. g \in Running /\ Running' \subseteq Running
    BY <1>0, <1>2 DEF WriteKey, OpenCert, WriteCert, GeneratorStep, Generator
  <2>3. CASE WriteKey(g)
    <3>1. key' = gen[g].n
      BY <2>3 DEF WriteKey
    <3>2. \A h \in Running \ {g} : ~gen[h].alone
      BY <2>2
    <3> QED BY <2>1, <2>2, <3>1, <3>2
  <2>4. CASE OpenCert(g)
    <3>1. gen[g].pc = "cert" /\ key' = key
      BY <2>4 DEF OpenCert, GeneratorStep
    <3> QED BY <2>1, <2>2, <3>1
  <2>5. CASE WriteCert(g)
    <3>1. g \notin Running' /\ key' = key
      BY <1>0, <2>5 DEF WriteCert, GeneratorStep, Generator
    <3>2. \A h \in Running' : h \in Running /\ h # g /\ gen'[h] = gen[h]
      BY <2>1, <2>2, <3>1
    <3>3. \A h \in Running' : ~gen[h].alone
      BY <2>2, <3>2
    <3> QED BY <3>2, <3>3
  <2> QED BY <1>2, <2>3, <2>4, <2>5
<1>3. ASSUME NEW g \in Generators, GeneratorDies(g)
      PROVE  GenInv'
  BY <1>0, <1>3 DEF GeneratorDies, NotRunning
<1>4. ASSUME UNCHANGED <<gen, key>>
      PROVE  GenInv'
  BY <1>4
<1> QED BY <1>1, <1>2, <1>3, <1>4 DEF Next, Start, Starts, ReadCert, ReadKey, Listen, Die, serveStatic, putPrefs, EditTls,
     vars, files

\* What a step may be, as far as files, daemon and settings are concerned.
LEMMA StepKinds ==
  ASSUME [Next]_vars
  PROVE  \/ \E g \in Generators : Generate(g) \/ WriteKey(g) \/ OpenCert(g) \/ WriteCert(g) \/ GeneratorDies(g)
         \/ Start \/ ReadCert \/ ReadKey \/ (\E taken \in BOOLEAN : Listen(taken)) \/ Die
         \/ (\E found \in BOOLEAN : serveStatic(found))
         \/ (\E dbg \in BOOLEAN, dir \in Dirs : putPrefs(dbg, dir))
         \/ (\E field \in {"tls_cert", "tls_key"} : EditTls(field)) \/ UNCHANGED vars
  BY DEF Next

\* No step takes one of the two files away.
LEMMA FilesStay ==
  ASSUME TypeOK, GenInv, [Next]_vars
  PROVE  BothExist => BothExist'
<1> USE DEF BothExist
<1>1. ASSUME NEW g \in Generators, Generate(g)
      PROVE  BothExist => BothExist'
  BY <1>1, Marks DEF Generate, StartsWriting
<1>2. ASSUME NEW g \in Generators, WriteKey(g) \/ OpenCert(g) \/ WriteCert(g)
      PROVE  BothExist => BothExist'
  <2>1. gen[g].n \in Pairs
    BY <1>2 DEF WriteKey, OpenCert, WriteCert, GeneratorStep, GenInv, Running
  <2> QED BY <1>2, <2>1, Marks DEF WriteKey, OpenCert, WriteCert
<1>3. ASSUME NEW g \in Generators, GeneratorDies(g)
      PROVE  BothExist => BothExist'
  BY <1>3 DEF GeneratorDies
<1>4. ASSUME UNCHANGED files
      PROVE  BothExist => BothExist'
  BY <1>4 DEF files
<1> QED BY <1>1, <1>2, <1>3, <1>4, StepKinds DEF Start, Starts, ReadCert, ReadKey, Listen, Die, serveStatic, putPrefs,
     EditTls, vars

\* Every step keeps FilesInv: only a generator that was alone leaves a pair
\* behind, and one that dies with both files there spoils them.
LEMMA FilesStep == TypeOK /\ GenInv /\ FilesInv /\ [Next]_vars => FilesInv'
<1> SUFFICES ASSUME TypeOK, GenInv, FilesInv, [Next]_vars
             PROVE  FilesInv'
  OBVIOUS
<1>0. gen \in [Generators -> Generator]
  BY DEF TypeOK
<1>1. ASSUME NEW g \in Generators, Generate(g) \/ WriteKey(g) \/ OpenCert(g)
      PROVE  FilesInv'
  <2>1. g \in Running'
    BY <1>0, <1>1 DEF Generate, StartsWriting, WriteKey, OpenCert, GeneratorStep, Running, Generator
  <2> QED BY <2>1 DEF FilesInv
<1>2. ASSUME NEW g \in Generators, WriteCert(g)
      PROVE  FilesInv'
  <2>1. cert' = gen[g].n /\ key' = key /\ sound' = gen[g].alone /\ gen[g].pc = "open" /\ g \in Running
    BY <1>2 DEF WriteCert, GeneratorStep, Running
  <2> QED BY <2>1 DEF GenInv, FilesInv
<1>3. ASSUME NEW g \in Generators, GeneratorDies(g)
      PROVE  FilesInv'
  BY <1>3 DEF GeneratorDies, FilesInv, BothExist
<1>4. ASSUME UNCHANGED files
      PROVE  FilesInv'
  BY <1>4 DEF files, FilesInv, BothExist, Running
<1> QED BY <1>1, <1>2, <1>3, <1>4, StepKinds DEF Start, Starts, ReadCert, ReadKey, Listen, Die, serveStatic, putPrefs,
     EditTls, vars

\* Every step keeps DaemonInv: a start that nobody disturbs reads the pair that
\* FilesInv speaks of.
LEMMA DaemonStep == TypeOK /\ GenInv /\ FilesInv /\ DaemonInv /\ [Next]_vars => DaemonInv'
<1> SUFFICES ASSUME TypeOK, GenInv, FilesInv, DaemonInv, [Next]_vars
             PROVE  DaemonInv'
  OBVIOUS
<1>0. daemon \in Daemon /\ sound \in BOOLEAN /\ (BothExist => BothExist')
  BY FilesStay DEF TypeOK
<1>1. ASSUME NEW g \in Generators, Generate(g)
      PROVE  DaemonInv'
  <2>1. /\ daemon'.source = daemon.source /\ daemon'.pc = daemon.pc /\ daemon'.cert = daemon.cert
        /\ daemon'.key = daemon.key
        /\ ~daemon'.raced => ~daemon.raced /\ daemon.pc \notin {"chosen", "read"}
    BY <1>0, <1>1 DEF Generate, StartsWriting, Daemon
  <2> QED BY <1>0, <2>1 DEF DaemonInv
<1>2. ASSUME NEW g \in Generators, WriteKey(g) \/ OpenCert(g) \/ WriteCert(g) \/ GeneratorDies(g)
      PROVE  DaemonInv'
  <2>1. Running # {} /\ daemon' = daemon
    BY <1>2 DEF WriteKey, OpenCert, WriteCert, GeneratorStep, GeneratorDies, Running
  <2> QED BY <1>0, <2>1 DEF DaemonInv
<1>3. CASE Start
  <2>1. daemon'.source = "default" => BothExist
    BY <1>3 DEF Start, Starts, Source, Down
  <2>2. daemon'.pc = "chosen" /\ (~daemon'.raced => Running = {} /\ sound)
    BY <1>0, <1>3 DEF Start, Starts, Down
  <2>3. UNCHANGED <<cert, key, gen, sound>>
    BY <1>3 DEF Start, Starts, files
  <2> QED BY <2>1, <2>2, <2>3 DEF DaemonInv, BothExist, Running
<1>4. CASE ReadCert \/ ReadKey
  <2> SUFFICES ASSUME daemon.source = "default"
               PROVE  DaemonInv'
    BY <1>0, <1>4 DEF DaemonInv, ReadCert, ReadKey, Daemon
  <2>1. ~daemon.raced => /\ sound /\ Running = {} /\ cert = key /\ cert \in Pairs
                         /\ Contents(cert) = cert /\ Contents(key) = key
    BY <1>4, Marks DEF DaemonInv, FilesInv, ReadCert, ReadKey, Contents
  <2>2. UNCHANGED <<cert, key, gen, sound>>
    BY <1>4 DEF ReadCert, ReadKey, files
  <2>3. CASE ReadCert
    BY <1>0, <2>1, <2>2, <2>3 DEF ReadCert, DaemonInv, BothExist, Running, Daemon
  <2>4. CASE ReadKey
    <3>1. ~daemon.raced => daemon.cert = cert
      BY <2>4 DEF ReadKey, DaemonInv
    <3> QED BY <1>0, <2>1, <2>2, <2>4, <3>1 DEF ReadKey, DaemonInv, BothExist, Running, Daemon
  <2> QED BY <1>4, <2>3, <2>4
<1>5. ASSUME NEW taken \in BOOLEAN, Listen(taken)
      PROVE  DaemonInv'
  <2>1. /\ daemon.pc = "loaded" /\ daemon'.pc \in {"up", "noweb"}
        /\ daemon'.source = daemon.source /\ daemon'.cert = daemon.cert /\ daemon'.key = daemon.key
        /\ daemon'.raced = daemon.raced
    BY <1>0, <1>5 DEF Listen, Daemon
  <2> QED BY <1>0, <2>1 DEF DaemonInv
<1>6. CASE Die
  BY <1>6 DEF Die, Down, DaemonInv
<1>7. ASSUME UNCHANGED <<files, daemon>>
      PROVE  DaemonInv'
  BY <1>7 DEF files, DaemonInv, BothExist, Running
<1> QED BY <1>1, <1>2, <1>3, <1>4, <1>5, <1>6, <1>7, StepKinds DEF serveStatic, putPrefs, EditTls, vars

\* Every step keeps HstsInv: HSTS is first sent by a daemon that serves the
\* default pair, and a start with both files there falls back to plain HTTP
\* only when one of the two settings is missing.
LEMMA HstsStep == TypeOK /\ GenInv /\ DaemonInv /\ HstsInv /\ [Next]_vars => HstsInv'
<1> SUFFICES ASSUME TypeOK, GenInv, DaemonInv, HstsInv, [Next]_vars
             PROVE  HstsInv'
  OBVIOUS
<1>0. daemon \in Daemon /\ main_conf \in Conf /\ (BothExist => BothExist')
  BY FilesStay DEF TypeOK
<1>1. CASE Start
  <2>1. hsts' = hsts /\ daemon'.half = (main_conf.tls_cert # main_conf.tls_key) /\ daemon'.source = Source(BothExist)
    BY <1>1 DEF Start, Starts, Down
  <2>2. BothExist /\ main_conf.tls_cert = main_conf.tls_key => Source(BothExist) # "none"
    BY <1>0 DEF Source, Conf
  <2> QED BY <1>0, <2>1, <2>2 DEF HstsInv, m_tls
<1>2. ASSUME NEW found \in BOOLEAN, serveStatic(found)
      PROVE  HstsInv'
  <2>1. daemon' = daemon /\ (hsts' => hsts \/ daemon.source = "default")
    BY <1>2 DEF serveStatic
  <2> QED BY <1>0, <2>1 DEF HstsInv, DaemonInv, m_tls
<1>3. CASE Die
  BY <1>0, <1>3 DEF Die, Down, HstsInv
<1>4. ASSUME hsts' = hsts, daemon'.source = daemon.source, daemon'.half = daemon.half,
             daemon.pc = "down" => daemon'.pc = "down"
      PROVE  HstsInv'
  BY <1>0, <1>4 DEF HstsInv, m_tls
<1>5. ASSUME NEW g \in Generators,
             Generate(g) \/ WriteKey(g) \/ OpenCert(g) \/ WriteCert(g) \/ GeneratorDies(g)
      PROVE  HstsInv'
  BY <1>0, <1>4, <1>5 DEF Generate, StartsWriting, WriteKey, OpenCert, WriteCert, GeneratorStep, GeneratorDies, Daemon
<1>6. ASSUME ReadCert \/ ReadKey \/ \E taken \in BOOLEAN : Listen(taken)
      PROVE  HstsInv'
  BY <1>0, <1>4, <1>6 DEF ReadCert, ReadKey, Listen, Daemon
<1>7. ASSUME UNCHANGED <<daemon, hsts>>
      PROVE  HstsInv'
  BY <1>4, <1>7
<1> QED BY <1>1, <1>2, <1>3, <1>5, <1>6, <1>7, StepKinds DEF putPrefs, EditTls, vars

\* Every step keeps StartInv: the panel, which alone changes paths/logs and the
\* debug switch, does not serve before the start is over.
LEMMA StartStep == TypeOK /\ StartInv /\ [Next]_vars => StartInv'
<1> SUFFICES ASSUME TypeOK, StartInv, [Next]_vars
             PROVE  StartInv'
  OBVIOUS
<1>0. daemon \in Daemon /\ main_conf \in Conf
  BY DEF TypeOK
<1>1. CASE Start
  <2>1. daemon'.pc = "chosen" /\ main_conf' = main_conf
    BY <1>1 DEF Start, Starts, Down
  <2> QED BY <1>1, <2>1 DEF Start, Starts, StartInv
<1>2. ASSUME NEW taken \in BOOLEAN, Listen(taken)
      PROVE  StartInv'
  <2>1. daemon.pc = "loaded" /\ daemon'.pc \in {"up", "noweb"}
    BY <1>0, <1>2 DEF Listen, Daemon
  <2>2. g_logFile' = main_conf.logs
    BY <1>2, <2>1 DEF Listen, qInfo, StartInv
  <2>3. daemon'.pc = "up" => m_logPath' = main_conf.logs
    BY <1>0, <1>2 DEF Listen, NewHub, Daemon
  <2> QED BY <1>2, <2>1, <2>2, <2>3 DEF Listen, StartInv
<1>3. CASE Die
  BY <1>3 DEF Die, Down, StartInv
<1>4. ASSUME NEW dbg \in BOOLEAN, NEW dir \in Dirs, putPrefs(dbg, dir)
      PROVE  StartInv'
  <2>1. daemon.pc = "up" /\ main_conf'.debug = dbg
    BY <1>0, <1>4 DEF putPrefs, Reachable, Conf
  <2> QED BY <1>4, <2>1 DEF putPrefs, StartInv
<1>5. ASSUME UNCHANGED logs, main_conf'.logs = main_conf.logs, main_conf'.debug = main_conf.debug,
             \/ daemon'.pc = daemon.pc
             \/ daemon.pc \in {"chosen", "read"} /\ daemon'.pc \in {"read", "loaded"}
      PROVE  StartInv'
  BY <1>5 DEF logs, StartInv
<1>6. ASSUME NEW g \in Generators,
             Generate(g) \/ WriteKey(g) \/ OpenCert(g) \/ WriteCert(g) \/ GeneratorDies(g)
      PROVE  StartInv'
  BY <1>0, <1>5, <1>6 DEF Generate, StartsWriting, WriteKey, OpenCert, WriteCert, GeneratorStep, GeneratorDies, Daemon
<1>7. CASE ReadCert \/ ReadKey
  BY <1>0, <1>5, <1>7 DEF ReadCert, ReadKey, Daemon
<1>8. ASSUME NEW field \in {"tls_cert", "tls_key"}, EditTls(field)
      PROVE  StartInv'
  BY <1>0, <1>5, <1>8 DEF EditTls, Conf
<1>9. ASSUME UNCHANGED <<daemon, main_conf, logs>>
      PROVE  StartInv'
  BY <1>5, <1>9
<1> QED BY <1>1, <1>2, <1>3, <1>4, <1>6, <1>7, <1>8, <1>9, StepKinds DEF serveStatic, vars

\* The invariant holds in every reachable state.
LEMMA Invariance == Spec => []IInv
<1>1. IInv /\ [Next]_vars => IInv'
  BY TypeStep, GenStep, FilesStep, DaemonStep, HstsStep, StartStep DEF IInv
<1> QED BY <1>1, IInit, PTL DEF Spec

\* Types of files, generators, daemon and settings; the hub has a log path
\* exactly while the panel is up (bindServer succeeded).
THEOREM StartTypeCorrect == Spec => []TypeOK
<1>1. IInv => TypeOK
  BY DEF IInv
<1> QED BY <1>1, Invariance, PTL

\* However generators and starts interleave and die, a start that met none of
\* them and no spoiled pair serves a certificate with its key (bindServer,
\* gen-web-cert.sh).
THEOREM MatchingPairServed == Spec => []ServesMatchingPair
<1>1. IInv => ServesMatchingPair
  BY DEF IInv, DaemonInv, ServesMatchingPair
<1> QED BY <1>1, Invariance, PTL

\* After HSTS was sent with the generated certificate the panel never comes up
\* over plain HTTP, unless one of web/tls_cert and web/tls_key was missing.
THEOREM HttpsIsKept == Spec => []HttpsStays
<1>1. IInv => HttpsStays
  BY DEF IInv, HstsInv, HttpsStays
<1> QED BY <1>1, Invariance, PTL

\* The hub of a panel that is up tails the file its daemon logs to, and the
\* debug switch is the stored one (logMessageOutput, PUT /api/prefs).
THEOREM HubTailsDaemonLog == Spec => []LogAsStarted
<1>1. IInv => LogAsStarted
  BY DEF IInv, StartInv, LogAsStarted
<1> QED BY <1>1, Invariance, PTL

=============================================================================
