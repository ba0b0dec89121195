------------------------------- MODULE WebAuth -------------------------------
(***************************************************************************)
(* The authentication routes of webserver/apirouter.cpp over the session   *)
(* store, the browser page that calls them (var/www/js/app.js, api.js) and *)
(* the separate `tiBackup --set-web-password` process of main.cpp.         *)
(*                                                                         *)
(* All HTTP handlers run on the daemon's one main thread, so no two of     *)
(* them interleave.  Setup and login nevertheless span two steps: they     *)
(* read the stored hash, spend a slow key derivation on it and write       *)
(* afterwards, and in between the other process, the clock and a crash are *)
(* free to act.  The pair web/salt, web/passhash is always written in one  *)
(* sync(), so it is one value.                                             *)
(*                                                                         *)
(* A browser may have the panel open in several pages (tabs): they share   *)
(* the browser's cookie, and each keeps its own CSRF token and view.       *)
(***************************************************************************)
EXTENDS SessionStore, Sequences

CONSTANTS Pages,           \* the tabs in which the panel is open
          Browser,         \* which client's browser each of them is in
          Passwords,       \* what may be typed
          ShortPasswords,  \* those of fewer than 8 characters
          NoPass,          \* web/passhash is empty
          Idle             \* the main thread is in its event loop

Hashes == [pw : Passwords, legacy : BOOLEAN]

Handlers == [op : {"setup", "login"}, c : Clients, page : Pages,
             pw : Passwords, seen : {NoPass} \cup Hashes]

ASSUME AuthAssumption == /\ Browser \in [Pages -> Clients]
                         /\ ShortPasswords \subseteq Passwords
                         /\ NoPass \notin Hashes
                         /\ Idle \notin Handlers

VARIABLES stored,     \* main.conf: web/salt + web/passhash
          busy,       \* the handler the main thread is inside, or Idle
          jar,        \* per browser: the tibackup_sid cookie
          csrf,       \* per page: api.csrf, lost when the page reloads
          view,       \* per page: what it shows
          failTimes,  \* history: per client, when its checks failed since its
                      \* last success or the daemon's last start
          superseded  \* history: pages whose cookie another page's setup or
                      \* login replaced since they were last given a token

pageVars == <<csrf, view, superseded>>
authVars == <<stored, busy, jar, csrf, view, failTimes, superseded>>
vars == <<m_sessions, m_logins, now, issued, stored, busy, jar, csrf, view, failTimes,
          superseded>>

-----------------------------------------------------------------------------
(* Password hashes (webserver/auth/passwordhash.cpp).                      *)

hash(pw) == [pw |-> pw, legacy |-> FALSE]

verify(pw, h) == h # NoPass /\ h.pw = pw

needsUpgrade(h) == h.legacy

-----------------------------------------------------------------------------
(* Requests and responses.                                                 *)

NoCookie == [token |-> NoToken, expires |-> 0]

buildSessionCookie(t) == [token |-> t, expires |-> now + Ttl]

\* The cookie the browser sends: it drops one whose Max-Age has run out.
sessionToken(c) == IF now < jar[c].expires THEN jar[c].token ELSE NoToken

isAuthed(c) == Valid(m_sessions, sessionToken(c))

\* The header of a page against the session of its browser's cookie.
csrfOk(p) == LET want == csrfFor(m_sessions, sessionToken(Browser[p]))
             IN want # NoToken /\ csrf[p] = want

\* The page's "unauthorized" listener, run on every 401 it receives.
OnUnauthorized(p) ==
  /\ csrf' = [csrf EXCEPT ![p] = NoToken]
  /\ view' = [view EXCEPT ![p] = IF @ = "app" THEN "login" ELSE @]
  /\ UNCHANGED superseded

\* A successful setup or login: a new session, its cookie for the browser and
\* its CSRF token for the page that asked, and for no other page.
EnterApp(p, sessions) ==
  \E t \in Tokens \ issued :
    /\ m_sessions' = createSession(sessions, t)
    /\ issued' = issued \cup {t}
    /\ jar' = [jar EXCEPT ![Browser[p]] = buildSessionCookie(t)]
    /\ csrf' = [csrf EXCEPT ![p] = t]
    /\ view' = [view EXCEPT ![p] = "app"]
    /\ superseded' = (superseded \cup {q \in Pages : Browser[q] = Browser[p]}) \ {p}

-----------------------------------------------------------------------------
AuthInit == /\ Init
            /\ stored \in {NoPass} \cup
                 [pw : Passwords \ ShortPasswords, legacy : {TRUE}]
            /\ busy = Idle
            /\ jar = [c \in Clients |-> NoCookie]
            /\ csrf = [p \in Pages |-> NoToken]
            /\ view = [p \in Pages |-> "login"]
            /\ failTimes = [c \in Clients |-> << >>]
            /\ superseded = {}

\* A plausible bug: a reloaded page is not given its CSRF token back.
MutAuthStatus(p) ==
  /\ busy = Idle
  /\ m_sessions' = validate(m_sessions, sessionToken(Browser[p]))
  /\ csrf' = [csrf EXCEPT ![p] = NoToken]
  /\ view' = [view EXCEPT ![p] = IF stored = NoPass THEN "setup"
                                 ELSE IF isAuthed(Browser[p]) THEN "app" ELSE "login"]
  /\ superseded' = superseded \ {p}
  /\ UNCHANGED <<m_logins, now, issued, stored, busy, jar, failTimes>>

\* A (re)load of a page: GET /api/auth/status, then init() picks the view.  The
\* other pages of the browser are told nothing.
AuthStatus(p) ==
  LET c == Browser[p] IN
  /\ busy = Idle
  /\ m_sessions' = validate(m_sessions, sessionToken(c))
  /\ csrf' = [csrf EXCEPT ![p] = IF stored # NoPass /\ isAuthed(c)
                                 THEN csrfFor(m_sessions, sessionToken(c))
                                 ELSE NoToken]
  /\ view' = [view EXCEPT ![p] = IF stored = NoPass THEN "setup"
                                 ELSE IF isAuthed(c) THEN "app" ELSE "login"]
  /\ superseded' = superseded \ {p}
  /\ UNCHANGED <<m_logins, now, issued, stored, busy, jar, failTimes>>

\* POST /api/setup up to the key derivation.  Refused (with no effect) once a
\* password is stored, and for a short one.
SetupBegin(p, pw) ==
  /\ busy = Idle
  /\ stored = NoPass
  /\ pw \notin ShortPasswords
  /\ busy' = [op |-> "setup", c |-> Browser[p], page |-> p, pw |-> pw, seen |-> stored]
  /\ UNCHANGED <<storeVars, stored, jar, pageVars, failTimes>>

SetupEnd ==
  /\ busy # Idle /\ busy.op = "setup"
  /\ stored' = hash(busy.pw)
  /\ EnterApp(busy.page, m_sessions)
  /\ busy' = Idle
  /\ UNCHANGED <<m_logins, now, failTimes>>

\* A plausible bug: the credentials are checked without asking the throttle.
MutLoginBegin(p, pw) ==
  /\ busy = Idle
  /\ busy' = IF stored = NoPass THEN Idle
             ELSE [op |-> "login", c |-> Browser[p], page |-> p, pw |-> pw, seen |-> stored]
  /\ UNCHANGED <<storeVars, stored, jar, pageVars, failTimes>>

\* POST /api/auth/login: 429 while the client is locked (no effect), 409 while
\* no password is stored, else on to the credential check.
LoginBegin(p, pw) ==
  /\ busy = Idle
  /\ ~Locked(m_logins, Browser[p])
  /\ m_logins' = loginAllowed(m_logins, Browser[p])
  /\ busy' = IF stored = NoPass THEN Idle
             ELSE [op |-> "login", c |-> Browser[p], page |-> p, pw |-> pw, seen |-> stored]
  /\ UNCHANGED <<m_sessions, now, issued, stored, jar, pageVars, failTimes>>

LoginBad ==
  /\ busy # Idle /\ busy.op = "login"
  /\ ~verify(busy.pw, busy.seen)
  /\ m_logins' = loginFailed(m_logins, busy.c)
  /\ failTimes' = [failTimes EXCEPT ![busy.c] = Append(@, now)]
  /\ OnUnauthorized(busy.page)
  /\ busy' = Idle
  /\ UNCHANGED <<m_sessions, now, issued, stored, jar>>

LoginGood ==
  /\ busy # Idle /\ busy.op = "login"
  /\ verify(busy.pw, busy.seen)
  /\ m_logins' = loginSucceeded(m_logins, busy.c)
  /\ failTimes' = [failTimes EXCEPT ![busy.c] = << >>]
  /\ stored' = IF needsUpgrade(busy.seen) THEN hash(busy.pw) ELSE stored
  /\ EnterApp(busy.page, m_sessions)
  /\ busy' = Idle
  /\ UNCHANGED now

\* POST /api/auth/logout.  The page forgets its session whatever the answer;
\* the server drops it only for an authenticated request with the right token,
\* and with the cookie gone the browser's other pages are logged out, too.
Logout(p) ==
  LET c == Browser[p] IN
  /\ busy = Idle
  /\ view[p] = "app"
  /\ LET s == validate(m_sessions, sessionToken(c))
         ok == isAuthed(c) /\ csrfOk(p)
     IN /\ m_sessions' = IF ok THEN drop(s, sessionToken(c)) ELSE s
        /\ jar' = IF ok THEN [jar EXCEPT ![c] = NoCookie] ELSE jar
  /\ csrf' = [csrf EXCEPT ![p] = NoToken]
  /\ view' = [view EXCEPT ![p] = "login"]
  /\ UNCHANGED <<m_logins, now, issued, stored, busy, failTimes, superseded>>

\* Any other authenticated route: the session slides, or a 401 comes back.
Request(p) ==
  /\ busy = Idle
  /\ view[p] = "app"
  /\ m_sessions' = validate(m_sessions, sessionToken(Browser[p]))
  /\ IF isAuthed(Browser[p]) THEN UNCHANGED pageVars ELSE OnUnauthorized(p)
  /\ UNCHANGED <<m_logins, now, issued, stored, busy, jar, failTimes>>

\* The same route, called by a client that keeps a cookie beyond its Max-Age: a
\* script, or a browser whose clock is slow.  The server looks at the token only.
KeptCookie(t) ==
  /\ busy = Idle
  /\ m_sessions' = validate(m_sessions, t)
  /\ UNCHANGED <<m_logins, now, issued, stored, busy, jar, pageVars, failTimes>>

\* `tiBackup --set-web-password`: its own process, at any moment.
setWebPassword(pw) ==
  /\ pw \notin ShortPasswords
  /\ stored' = hash(pw)
  /\ UNCHANGED <<storeVars, busy, jar, pageVars, failTimes>>

\* The daemon dies, also in the middle of a handler, and systemd restarts it:
\* the tables are gone, the browsers keep what they have.
Restart ==
  /\ m_sessions' = NoEntries
  /\ m_logins' = NoEntries
  /\ busy' = Idle
  /\ failTimes' = [c \in Clients |-> << >>]
  /\ UNCHANGED <<now, issued, stored, jar, pageVars>>

AuthTick == Tick /\ UNCHANGED authVars

AuthNext == \/ \E p \in Pages : \/ AuthStatus(p) \/ Logout(p) \/ Request(p)
                                \/ \E pw \in Passwords : SetupBegin(p, pw)
                                \/ \E pw \in Passwords : LoginBegin(p, pw)
            \/ SetupEnd \/ LoginBad \/ LoginGood
            \/ \E t \in issued : KeptCookie(t)
            \/ \E pw \in Passwords : setWebPassword(pw)
            \/ Restart
            \/ AuthTick

AuthSpec == AuthInit /\ [][AuthNext]_vars

-----------------------------------------------------------------------------
(* Properties.                                                             *)

\* Every part of the composed state has its type.
AuthTypeOK ==
  /\ TypeOK
  /\ stored \in {NoPass} \cup Hashes
  /\ busy \in {Idle} \cup Handlers
  /\ jar \in [Clients -> [token : Tokens \cup {NoToken}, expires : Nat]]
  /\ csrf \in [Pages -> Tokens \cup {NoToken}]
  /\ view \in [Pages -> {"login", "setup", "app"}]
  /\ failTimes \in [Clients -> Seq(Nat)]
  /\ superseded \subseteq Pages

\* The throttle's promise: without a success in between, a client has at most
\* kMaxFails credential checks fail in any window of kLockSeconds.  It takes
\* loginAllowed, loginFailed, their order in the login handler and the erasing
\* of elapsed locks together: a count lost on any of these ways breaks it.
ThrottleWindow ==
  \A c \in Clients : \A i \in 1..(Len(failTimes[c]) - MaxFails) :
    failTimes[c][i + MaxFails] - failTimes[c][i] >= LockSeconds

\* A lock is neither lifted, shortened nor extended while it lasts, whatever
\* the client or anyone else sends; only a restart of the daemon forgets it.
LockHolds ==
  [][\A c \in Clients : Locked(m_logins, c) =>
       \/ c \in DOMAIN m_logins' /\ m_logins'[c] = m_logins[c]
       \/ Restart]_vars

\* As long as the browser's session is alive, a page that shows the app holds
\* the matching CSRF token, so its writes are not answered 403: also after a
\* reload, a restart of the daemon, a login over an older session, or a logout
\* and login elsewhere in the browser.  The one exception is a page whose cookie
\* another page's login replaced; a reload of it ends that.
AppViewCanWrite ==
  \A p \in Pages : view[p] = "app" /\ isAuthed(Browser[p]) /\ p \notin superseded
                     => csrfOk(p)

\* The same of every page.  The code does not hold it: nothing tells a page that
\* its browser's cookie is another one (api.js takes only a 401 for news).
EveryAppViewCanWrite ==
  \A p \in Pages : view[p] = "app" /\ isAuthed(Browser[p]) => csrfOk(p)

\* A logout ends the session of the browser.  The code does not hold it: a page
\* with an older token is refused with 403, drops the answer and shows the login
\* form, while cookie and session stay good.
LogoutEndsSession ==
  [][\A p \in Pages : view[p] = "app" /\ view'[p] = "login" /\ busy' = busy
       => ~Valid(m_sessions', jar'[Browser[p]].token) \/ now >= jar[Browser[p]].expires]_vars

\* Comment on the setup route: "(public, one-shot)".  The handler never
\* replaces a password that is already stored.
SetupIsOneShot ==
  [][busy # Idle /\ busy.op = "setup" /\ busy' = Idle /\ stored' # stored
       => stored = NoPass]_vars

\* Comment in the login route: "transparently migrate a legacy ... hash".
\* Migrating the hash never changes which password opens the panel.
UpgradeIsTransparent ==
  [][busy # Idle /\ busy.op = "login" /\ busy' = Idle /\ stored' # stored
       => verify(stored.pw, stored')]_vars

\* Comment in buildSessionCookie(): the Max-Age is coupled to the session's TTL
\* "so the browser cookie and the server session expire consistently".
CookieExpiresWithSession ==
  \A c \in Clients : Live(jar[c].token) => now <= jar[c].expires
=============================================================================
