------------------------------- MODULE WebStart -------------------------------
(***************************************************************************)
(* How the web panel comes up: the generated key pair in <config>/pki, the *)
(* script that writes it (scripts/gen-web-cert.sh, run by the package's    *)
(* postinst and, with --force, by `tiBackup --regenerate-web-cert`), the   *)
(* start of the daemon (main.cpp, the constructor and bindServer of        *)
(* webserver.cpp) and the settings that take effect in the running daemon. *)
(*                                                                         *)
(* Each of these is a process of its own and may die between two of its    *)
(* steps; systemd starts the daemon again.  The start itself has no step   *)
(* back: what it read is what it serves until it dies.                     *)
(*                                                                         *)
(* Data abstraction.  A key or certificate is the number of the generation *)
(* that wrote it; the administrator's own pair is Own and matches.  Of two *)
(* generators that write one file the last one wins.  A configuration that *)
(* cannot be read ends the start before it has an effect; paths/logs and   *)
(* main/debug are set in the panel.                                        *)
(***************************************************************************)
EXTENDS Naturals

CONSTANTS Absent,  \* no such file
          Cut,     \* a file created or truncated, its contents not written yet
          Own,     \* contents of the files web/tls_cert, web/tls_key name
          Dirs,    \* log directories
          NoDir,   \* no log file opened
          NewQt,   \* the build has Qt >= 6.5
          MaxGen   \* bound: pairs ever generated

ASSUME StartAssumption == /\ MaxGen \in Nat /\ NewQt \in BOOLEAN /\ NoDir \notin Dirs
                          /\ Absent # Cut /\ Own \notin {Absent, Cut}
                          /\ {Absent, Cut, Own} \cap Nat = {}

Pairs == 1 .. MaxGen
Generators == {"postinst", "tool"}

VARIABLES cert, key,     \* pki/tibackup-web.pem and .key
          generated,     \* pairs begun
          gen,           \* the two generators
          main_conf,     \* web/tls_cert and tls_key (set or not), paths/logs, main/debug
          daemon,        \* how far it is, and what it holds
          g_logFile, m_logPath, g_debugLogging,
          hsts,          \* history: HTTPS was served with a generated pair
          sound          \* history: no generation was cut off with both files
                         \* there, or mixed with another, since the last whole one

files == <<cert, key, generated, gen, sound>>
logs == <<g_logFile, m_logPath, g_debugLogging>>
vars == <<files, main_conf, daemon, logs, hsts>>

Generator == [pc : {"idle", "key", "cert", "open"}, n : 0 .. MaxGen, alone : BOOLEAN]
Conf == [tls_cert : BOOLEAN, tls_key : BOOLEAN, logs : Dirs, debug : BOOLEAN]
Daemon == [pc : {"down", "chosen", "read", "loaded", "up", "noweb"},
           source : {"own", "default", "none"},
           cert : Pairs \cup {Absent, Own}, key : Pairs \cup {Absent, Own},
           half : BOOLEAN, taken : BOOLEAN, raced : BOOLEAN]

NotRunning == [pc |-> "idle", n |-> 0, alone |-> TRUE]
Down == [pc |-> "down", source |-> "none", cert |-> Absent, key |-> Absent,
         half |-> FALSE, taken |-> FALSE, raced |-> FALSE]

Running == {g \in Generators : gen[g].pc # "idle"}
BothExist == cert # Absent /\ key # Absent

Init == /\ cert = Absent /\ key = Absent /\ generated = 0
        /\ gen = [g \in Generators |-> NotRunning]
        /\ main_conf \in [tls_cert : {FALSE}, tls_key : {FALSE}, logs : Dirs, debug : BOOLEAN]
        /\ daemon = Down
        /\ g_logFile = NoDir /\ m_logPath = NoDir /\ g_debugLogging = FALSE
        /\ hsts = FALSE /\ sound = TRUE

-----------------------------------------------------------------------------
(* The script.  openssl creates the key file, writes it, then the          *)
(* certificate.                                                            *)

StartsWriting(g) ==
  /\ gen[g].pc = "idle" /\ generated < MaxGen
  /\ g = "postinst" => ~BothExist
  /\ generated' = generated + 1
  /\ key' = Cut
  /\ gen' = [h \in Generators |->
               IF h = g THEN [pc |-> "key", n |-> generated + 1, alone |-> Running = {}]
                        ELSE [gen[h] EXCEPT !.alone = FALSE]]
  /\ daemon' = [daemon EXCEPT !.raced = @ \/ daemon.pc \in {"chosen", "read"}]

\* A plausible bug: the script removes the old pair before it calls openssl.
MutGenerate(g) == StartsWriting(g) /\ cert' = Absent /\ UNCHANGED <<main_conf, logs, hsts, sound>>

\* Without --force a pair that is there is kept.
Generate(g) == StartsWriting(g) /\ UNCHANGED <<cert, main_conf, logs, hsts, sound>>

GeneratorStep(g, from, to) ==
  /\ gen[g].pc = from
  /\ gen' = [gen EXCEPT ![g].pc = to]
  /\ UNCHANGED <<generated, main_conf, daemon, logs, hsts>>

WriteKey(g) == GeneratorStep(g, "key", "cert") /\ key' = gen[g].n /\ UNCHANGED <<cert, sound>>

OpenCert(g) == GeneratorStep(g, "cert", "open") /\ cert' = Cut /\ UNCHANGED <<key, sound>>

WriteCert(g) == GeneratorStep(g, "open", "idle") /\ cert' = gen[g].n /\ sound' = gen[g].alone /\ UNCHANGED key

\* It dies, or the disk is full: a pair of which both files are there is kept
\* by the next run without --force, whatever is in them.
GeneratorDies(g) ==
  /\ g \in Running
  /\ gen' = [gen EXCEPT ![g] = NotRunning]
  /\ sound' = (sound /\ ~BothExist)
  /\ UNCHANGED <<cert, key, generated, main_conf, daemon, logs, hsts>>

-----------------------------------------------------------------------------
(* The start.                                                              *)

\* Which pair the constructor goes on with.
Source(exist) ==
  CASE main_conf.tls_cert /\ main_conf.tls_key -> "own"
    [] ~main_conf.tls_cert /\ ~main_conf.tls_key /\ exist -> "default"
    [] OTHER -> "none"

Starts(exist) ==
  /\ daemon.pc = "down"
  /\ daemon' = [Down EXCEPT !.pc = "chosen", !.source = Source(exist),
                            !.half = main_conf.tls_cert # main_conf.tls_key,
                            !.raced = Running # {} \/ ~sound]
  /\ g_debugLogging' = main_conf.debug
  /\ g_logFile' \in {NoDir, main_conf.logs}
  /\ UNCHANGED <<files, main_conf, m_logPath, hsts>>

\* A plausible bug: one file of the default pair is enough.
MutStart == Starts(cert # Absent \/ key # Absent)

\* main(), the scheduler's first check, which may log something, and the
\* constructor up to the choice of the pair.
Start == Starts(BothExist)

\* An empty or broken file leaves the setting out.
Contents(file) == IF daemon.source = "own" THEN Own
                  ELSE IF daemon.source = "default" /\ file # Cut THEN file ELSE Absent

ReadCert ==
  /\ daemon.pc = "chosen"
  /\ daemon' = [daemon EXCEPT !.pc = "read", !.cert = Contents(cert)]
  /\ UNCHANGED <<files, main_conf, logs, hsts>>

ReadKey ==
  /\ daemon.pc = "read"
  /\ daemon' = [daemon EXCEPT !.pc = "loaded", !.key = Contents(key)]
  /\ UNCHANGED <<files, main_conf, logs, hsts>>

m_tls == daemon.source # "none"

\* A plausible bug: the hub is made whether or not the server listens.
MutNewHub(ok) == m_logPath' = main_conf.logs

NewHub(ok) == m_logPath' = IF ok THEN main_conf.logs ELSE m_logPath

\* A plausible bug: nothing is logged when the panel is up.
MutQInfo == UNCHANGED g_logFile

\* The message that follows either way.  The first one of a process opens its
\* log file.
qInfo == g_logFile' = IF g_logFile = NoDir THEN main_conf.logs ELSE g_logFile

\* bindServer, the hub when it succeeded, and the message.  A port that is
\* taken is not tried again; the daemon runs on without a panel.
Listen(taken) ==
  /\ daemon.pc = "loaded"
  /\ LET ok == ~taken /\ (m_tls => NewQt)
     IN /\ daemon' = [daemon EXCEPT !.pc = IF ok THEN "up" ELSE "noweb", !.taken = taken]
        /\ NewHub(ok)
  /\ qInfo
  /\ UNCHANGED <<files, main_conf, g_debugLogging, hsts>>

\* It dies at any moment: a crash, a restart, an upgrade.
Die ==
  /\ daemon.pc # "down"
  /\ daemon' = Down
  /\ g_logFile' = NoDir /\ m_logPath' = NoDir /\ g_debugLogging' = FALSE
  /\ UNCHANGED <<files, main_conf, hsts>>

-----------------------------------------------------------------------------
(* The running panel, and the administrator.                               *)

\* A browser gets through: over TLS it needs a certificate and its key.
Reachable == daemon.pc = "up" /\ (m_tls => daemon.cert = daemon.key /\ daemon.cert # Absent)

\* A page, or the answer to an unknown /api/ path; a file that is missing or
\* lies outside the docroot is a bare 404, without headers.
serveStatic(found) ==
  /\ Reachable
  /\ hsts' = (hsts \/ (found /\ daemon.source = "default"))
  /\ UNCHANGED <<files, main_conf, daemon, logs>>

\* PUT /api/prefs, its part that is not the mail server.  paths/scripts is not
\* among its fields.
putPrefs(dbg, dir) ==
  /\ Reachable
  /\ main_conf' = [main_conf EXCEPT !.debug = dbg, !.logs = dir]
  /\ g_debugLogging' = dbg
  /\ UNCHANGED <<files, daemon, g_logFile, m_logPath, hsts>>

\* main.conf is edited by hand, one setting and then the other.
EditTls(field) ==
  /\ main_conf' = [main_conf EXCEPT ![field] = ~@]
  /\ UNCHANGED <<files, daemon, logs, hsts>>

Next == \/ \E g \in Generators : \/ Generate(g) \/ WriteKey(g) \/ OpenCert(g) \/ WriteCert(g)
                                 \/ GeneratorDies(g)
        \/ Start \/ ReadCert \/ ReadKey \/ Die
        \/ \E taken \in BOOLEAN : Listen(taken)
        \/ \E found \in BOOLEAN : serveStatic(found)
        \/ \E dbg \in BOOLEAN, dir \in Dirs : putPrefs(dbg, dir)
        \/ \E field \in {"tls_cert", "tls_key"} : EditTls(field)

Spec == Init /\ [][Next]_vars

-----------------------------------------------------------------------------
\* Types of the state; the panel's hub and the log file exist with the panel.
TypeOK ==
  /\ {cert, key} \subseteq Pairs \cup {Absent, Cut}
  /\ generated \in 0 .. MaxGen /\ gen \in [Generators -> Generator] /\ main_conf \in Conf /\ daemon \in Daemon
  /\ {g_logFile, m_logPath} \subseteq Dirs \cup {NoDir}
  /\ g_debugLogging \in BOOLEAN /\ hsts \in BOOLEAN /\ sound \in BOOLEAN
  /\ (m_logPath # NoDir) = (daemon.pc = "up")

\* The daemon serves HTTPS with a certificate and the key that belongs to it:
\* an installation cut off halfway is not loaded, and the next one repairs it.
\* Left out is a start during a generation, or after one that was cut off with
\* both files there (a forced one, or a first one at its very end): the script
\* keeps that pair from then on.
ServesMatchingPair ==
  daemon.pc = "up" /\ daemon.source = "default" /\ ~daemon.raced
    => daemon.cert = daemon.key /\ daemon.cert \in Pairs

\* A browser that was once sent HSTS with the generated certificate refuses
\* plain HTTP for a year; whatever dies or is generated anew in between, the
\* panel comes back over TLS, unless just one of web/tls_cert and web/tls_key
\* was set when it started.
HttpsStays == hsts /\ daemon.pc = "up" /\ ~daemon.half => m_tls

\* The hub tails the file the daemon logs to, also after paths/logs was changed
\* in the panel: both took the value of the start.  The debug switch is the
\* stored one at any time.
LogAsStarted == daemon.pc = "up" => m_logPath = g_logFile /\ g_debugLogging = main_conf.debug

\* README.md: "A self-signed TLS certificate is generated on install, so the
\* web UI comes up over HTTPS": the only thing that keeps it from coming up is
\* a port that is taken.
ComesUp == daemon.pc = "noweb" => daemon.taken

\* The Log tab opens with the file the daemon logs to.
LogTabIsDaemonLog == daemon.pc = "up" => main_conf.logs = g_logFile

\* A pair of which both files are there is a pair.
KeptPairMatches == Running = {} /\ BothExist => cert = key

=============================================================================
