----------------------------- MODULE SessionStore -----------------------------
(***************************************************************************)
(* webserver/auth/sessionstore.{h,cpp}: the in-memory session table and    *)
(* the per-client login gate of the web panel.  Every public method holds  *)
(* m_mutex from its first access to its last, so each one is one atomic    *)
(* step; the handlers that call several of them are in WebAuth.            *)
(*                                                                         *)
(* Data abstraction.  A token is 32 random bytes: here a value that was    *)
(* never handed out before.  The CSRF token drawn beside it identifies the *)
(* session just as well, so it is written as the session's token.  A       *)
(* session record therefore reduces to its lastSeen.                       *)
(***************************************************************************)
EXTENDS Integers, FiniteSets, Functions

CONSTANTS Tokens,        \* values randomToken() may return
          NoToken,       \* the empty QString
          Clients,       \* remote addresses
          MaxFails,      \* kMaxFails
          LockSeconds,   \* kLockSeconds
          Ttl,           \* m_ttl
          MaxTime        \* bound: the last instant a behaviour reaches

ASSUME StoreAssumption == /\ NoToken \notin Tokens
                          /\ MaxFails \in Nat \ {0}
                          /\ LockSeconds \in Nat \ {0}
                          /\ Ttl \in Nat
                          /\ MaxTime \in Nat

VARIABLES m_sessions,    \* token -> lastSeen, for the tokens the hash holds
          m_logins,      \* client -> LoginGate, for the clients the hash holds
          now,           \* QDateTime::currentSecsSinceEpoch(); 1 is the first
          issued         \* history: the tokens this process ever handed out

storeVars == <<m_sessions, m_logins, now, issued>>

NoEntries == [x \in {} |-> x]

Without(f, k) == Restrict(f, DOMAIN f \ {k})

Put(f, k, v) == [x \in DOMAIN f \cup {k} |-> IF x = k THEN v ELSE f[x]]

-----------------------------------------------------------------------------
(* The methods, as functions of the tables they read and write.            *)

FreshGate == [fails |-> 0, lockedUntil |-> 0]

Expired(s, t) == now - s[t] > Ttl

purgeExpired(s) == Restrict(s, {t \in DOMAIN s : ~Expired(s, t)})

createSession(s, t) == Put(purgeExpired(s), t, now)

\* What validate() answers, and the table it leaves behind: an expired
\* session is erased by the call that notices it.
Valid(s, t) == t # NoToken /\ t \in DOMAIN s /\ ~Expired(s, t)

\* A plausible bug: the lookup succeeds, the age is never looked at.
MutValidate(s, t) == IF t \in DOMAIN s THEN [s EXCEPT ![t] = now] ELSE s

validate(s, t) ==
  IF Valid(s, t) THEN [s EXCEPT ![t] = now]
  ELSE IF t # NoToken THEN Without(s, t) ELSE s

csrfFor(s, t) == IF t \in DOMAIN s THEN t ELSE NoToken

drop(s, t) == Without(s, t)

Locked(g, c) == c \in DOMAIN g /\ g[c].lockedUntil > now

\* A plausible bug: every client that is not locked is forgotten.
MutLoginAllowed(g, c) == IF c \in DOMAIN g /\ ~Locked(g, c) THEN Without(g, c) ELSE g

\* The table loginAllowed() leaves behind (it answers ~Locked(g, c)).
loginAllowed(g, c) ==
  IF c \in DOMAIN g /\ ~Locked(g, c) /\ g[c].lockedUntil # 0
  THEN Without(g, c) ELSE g

Gate(g, c) == IF c \in DOMAIN g THEN g[c] ELSE FreshGate

\* A plausible bug: one failure too many before the lock.
MutLoginFailed(g, c) ==
  IF Locked(g, c) THEN g
  ELSE LET n == Gate(g, c).fails + 1
       IN Put(g, c, IF n > MaxFails
                    THEN [fails |-> 0, lockedUntil |-> now + LockSeconds]
                    ELSE [Gate(g, c) EXCEPT !.fails = n])

loginFailed(g, c) ==
  IF Locked(g, c) THEN g
  ELSE LET n == Gate(g, c).fails + 1
       IN Put(g, c, IF n >= MaxFails
                    THEN [fails |-> 0, lockedUntil |-> now + LockSeconds]
                    ELSE [Gate(g, c) EXCEPT !.fails = n])

loginSucceeded(g, c) == Without(g, c)

-----------------------------------------------------------------------------
(* The store by itself: any method, at any moment, by any caller.          *)

Init == /\ m_sessions = NoEntries
        /\ m_logins = NoEntries
        /\ now = 1
        /\ issued = {}

CreateSession == \E t \in Tokens \ issued :
                   /\ m_sessions' = createSession(m_sessions, t)
                   /\ issued' = issued \cup {t}
                   /\ UNCHANGED <<m_logins, now>>

Validate(t) == /\ m_sessions' = validate(m_sessions, t)
               /\ UNCHANGED <<m_logins, now, issued>>

Drop(t) == /\ m_sessions' = drop(m_sessions, t)
           /\ UNCHANGED <<m_logins, now, issued>>

LoginAllowed(c) == /\ m_logins' = loginAllowed(m_logins, c)
                   /\ UNCHANGED <<m_sessions, now, issued>>

LoginFailed(c) == /\ m_logins' = loginFailed(m_logins, c)
                  /\ UNCHANGED <<m_sessions, now, issued>>

LoginSucceeded(c) == /\ m_logins' = loginSucceeded(m_logins, c)
                     /\ UNCHANGED <<m_sessions, now, issued>>

Tick == /\ now < MaxTime
        /\ now' = now + 1
        /\ UNCHANGED <<m_sessions, m_logins, issued>>

Next == \/ CreateSession
        \/ \E t \in Tokens \cup {NoToken} : Validate(t) \/ Drop(t)
        \/ \E c \in Clients : LoginAllowed(c) \/ LoginFailed(c) \/ LoginSucceeded(c)
        \/ Tick

Spec == Init /\ [][Next]_storeVars

-----------------------------------------------------------------------------
(* Properties.                                                             *)

Live(t) == Valid(m_sessions, t)

\* The tables hold what their C++ types hold, a failure count never reaches
\* kMaxFails (the failure that reaches it turns into a lock), no lock ends
\* later than kLockSeconds from now, and no session was seen in the future.
TypeOK == /\ now \in Nat \ {0}
          /\ issued \subseteq Tokens
          /\ DOMAIN m_sessions \subseteq issued
          /\ \A t \in DOMAIN m_sessions : m_sessions[t] \in 1..now
          /\ DOMAIN m_logins \subseteq Clients
          /\ \A c \in DOMAIN m_logins :
               m_logins[c] \in [fails : 0..(MaxFails - 1), lockedUntil : 0..(now + LockSeconds)]

\* A token that stopped being good (dropped, or idle longer than m_ttl) is
\* never good again, whatever is called on it afterwards: validate() refreshes
\* only sessions that are still alive, and no token is handed out twice.
DeadTokensStayDead ==
  [][\A t \in issued : ~Live(t) => ~Live(t)']_storeVars

\* sessionstore.h on csrfFor(): "The CSRF token bound to a session, or empty
\* if unknown/expired."
CsrfForExpiredIsEmpty ==
  \A t \in Tokens : csrfFor(m_sessions, t) # NoToken => Live(t)
=============================================================================
