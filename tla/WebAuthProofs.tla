---------------------------- MODULE WebAuthProofs ----------------------------
(***************************************************************************)
(* Proofs about the session store by itself, and about the login throttle, *)
(* the life of a session and the page's CSRF token as the handlers of      *)
(* apirouter.cpp use it: for any number of clients, tokens and limits, and *)
(* any interleaving with the clock, the other process and restarts.        *)
(***************************************************************************)
EXTENDS WebAuth, TLAPS

\* What the table operators return: removing and adding a key, sweeping.
LEMMA WithoutFact ==
  ASSUME NEW f, NEW k
  PROVE  /\ DOMAIN Without(f, k) = DOMAIN f \ {k}
         /\ \A x \in DOMAIN f \ {k} : Without(f, k)[x] = f[x]
  BY DEF Without, Restrict

LEMMA PutFact ==
  ASSUME NEW f, NEW k, NEW v
  PROVE  /\ DOMAIN Put(f, k, v) = DOMAIN f \cup {k}
         /\ Put(f, k, v)[k] = v
         /\ \A x \in DOMAIN f \ {k} : Put(f, k, v)[x] = f[x]
  BY DEF Put

LEMMA PurgeFact ==
  ASSUME NEW s
  PROVE  /\ DOMAIN purgeExpired(s) \subseteq DOMAIN s
         /\ \A t \in DOMAIN purgeExpired(s) : purgeExpired(s)[t] = s[t] /\ ~Expired(s, t)
  BY DEF purgeExpired, Restrict

\* An element of a sequence over a set is in that set.
LEMMA ElementInSet ==
  ASSUME NEW S, NEW q \in Seq(S), NEW i \in DOMAIN q
  PROVE  q[i] \in S
  OBVIOUS

\* The parts of the type invariant, apart.
SessionsOK(s) == /\ DOMAIN s \subseteq issued
                 /\ \A t \in DOMAIN s : s[t] \in 1..now

GateValues == [fails : 0..(MaxFails - 1), lockedUntil : 0..(now + LockSeconds)]

LoginsOK(g) == /\ DOMAIN g \subseteq Clients
               /\ \A c \in DOMAIN g : g[c] \in GateValues

\* A session table that validate() or a sweep leaves behind is well typed.
LEMMA ValidateTyped ==
  ASSUME now \in Nat \ {0}, NEW s, SessionsOK(s), NEW t
  PROVE  SessionsOK(validate(s, t)) /\ SessionsOK(drop(s, t)) /\ SessionsOK(purgeExpired(s))
<1>1. SessionsOK(Without(s, t))
  BY DEF SessionsOK, Without, Restrict
<1>2. ASSUME t \in DOMAIN s
      PROVE  SessionsOK([s EXCEPT ![t] = now])
  BY <1>2 DEF SessionsOK
<1>3. SessionsOK(purgeExpired(s))
  BY PurgeFact DEF SessionsOK
<1> QED
  BY <1>1, <1>2, <1>3 DEF validate, drop, Valid

\* A login gate keeps its bounds through each of the three methods.
LEMMA LoginsTyped ==
  ASSUME now \in Nat \ {0}, NEW g, LoginsOK(g), NEW c \in Clients
  PROVE  LoginsOK(loginAllowed(g, c)) /\ LoginsOK(loginFailed(g, c)) /\ LoginsOK(loginSucceeded(g, c))
<1>1. LoginsOK(Without(g, c))
  BY DEF LoginsOK, Without, Restrict
<1>2. ASSUME NEW e \in GateValues
      PROVE  LoginsOK(Put(g, c, e))
  BY <1>2 DEF LoginsOK, Put
<1>3. Gate(g, c) \in GateValues
  BY StoreAssumption DEF Gate, FreshGate, LoginsOK, GateValues
<1>4. LoginsOK(loginFailed(g, c))
  <2> DEFINE n == Gate(g, c).fails + 1
             locking == [fails |-> 0, lockedUntil |-> now + LockSeconds]
             counting == [Gate(g, c) EXCEPT !.fails = n]
  <2>1. LoginsOK(Put(g, c, locking))
    <3>1. locking \in GateValues
      BY StoreAssumption DEF GateValues
    <3> QED BY <1>2, <3>1
  <2>2. CASE n >= MaxFails
    BY <2>1, <2>2 DEF loginFailed
  <2>3. CASE ~(n >= MaxFails)
    <3>1. counting \in GateValues
      BY <1>3, <2>3, StoreAssumption DEF GateValues
    <3> QED BY <3>1, <1>2, <2>3 DEF loginFailed
  <2> QED BY <2>2, <2>3
<1> QED
  BY <1>1, <1>4 DEF loginAllowed, loginSucceeded

-----------------------------------------------------------------------------
\* Type correctness of the store: in particular, in every reachable state no
\* failure count has reached kMaxFails and no lock outlasts kLockSeconds.
THEOREM StoreTypeCorrect == Spec => []TypeOK
<1> USE DEF SessionsOK, LoginsOK, GateValues
<1>1. Init => TypeOK
  BY DEF Init, TypeOK, NoEntries
<1>2. TypeOK /\ [Next]_storeVars => TypeOK'
  <2> SUFFICES ASSUME TypeOK, [Next]_storeVars PROVE TypeOK'
    OBVIOUS
  <2>0. /\ now \in Nat \ {0} /\ issued \subseteq Tokens
        /\ SessionsOK(m_sessions) /\ LoginsOK(m_logins)
    BY DEF TypeOK
  <2>1. CASE CreateSession
    <3> PICK t \in Tokens \ issued : /\ m_sessions' = createSession(m_sessions, t)
                                     /\ issued' = issued \cup {t}
                                     /\ UNCHANGED <<m_logins, now>>
      BY <2>1 DEF CreateSession
    <3>1. /\ DOMAIN createSession(m_sessions, t) \subseteq issued \cup {t}
          /\ \A x \in DOMAIN createSession(m_sessions, t) :
               createSession(m_sessions, t)[x] \in 1..now
      BY <2>0, ValidateTyped DEF createSession, Put, SessionsOK
    <3> QED BY <2>0, <3>1 DEF TypeOK
  <2>2. ASSUME NEW t \in Tokens \cup {NoToken}, Validate(t) \/ Drop(t)
        PROVE  TypeOK'
    <3>1. SessionsOK(validate(m_sessions, t)) /\ SessionsOK(drop(m_sessions, t))
      BY <2>0, ValidateTyped
    <3> QED BY <2>0, <2>2, <3>1 DEF TypeOK, Validate, Drop
  <2>3. ASSUME NEW c \in Clients, LoginAllowed(c) \/ LoginFailed(c) \/ LoginSucceeded(c)
        PROVE  TypeOK'
    <3>1. /\ LoginsOK(loginAllowed(m_logins, c)) /\ LoginsOK(loginFailed(m_logins, c))
          /\ LoginsOK(loginSucceeded(m_logins, c))
      BY <2>0, LoginsTyped
    <3> QED BY <2>0, <2>3, <3>1 DEF TypeOK, LoginAllowed, LoginFailed, LoginSucceeded
  <2>4. CASE Tick
    BY <2>0, <2>4, StoreAssumption DEF TypeOK, Tick
  <2>5. CASE UNCHANGED storeVars
    BY <2>5 DEF TypeOK, storeVars
  <2> QED BY <2>1, <2>2, <2>3, <2>4, <2>5 DEF Next
<1> QED BY <1>1, <1>2, PTL DEF Spec

-----------------------------------------------------------------------------
\* A token that is issued and not alive is not made alive by any step.
LEMMA NoStepRevives ==
  ASSUME TypeOK, [Next]_storeVars, NEW t \in issued, ~Live(t)
  PROVE  ~Live(t)'
<1> USE DEF Live, Valid
<1>0. /\ now \in Nat \ {0} /\ Ttl \in Nat /\ t # NoToken
      /\ \A x \in DOMAIN m_sessions : m_sessions[x] \in 1..now
  BY StoreAssumption DEF TypeOK
<1>1. CASE CreateSession
  <2> PICK u \in Tokens \ issued : /\ m_sessions' = createSession(m_sessions, u)
                                   /\ now' = now
    BY <1>1 DEF CreateSession
  <2>1. t # u
    OBVIOUS
  <2>2. t \notin DOMAIN purgeExpired(m_sessions)
    BY <1>0 DEF purgeExpired, Restrict
  <2> QED BY <2>1, <2>2 DEF createSession, Put
<1>2. ASSUME NEW u \in Tokens \cup {NoToken}, Validate(u) \/ Drop(u)
      PROVE  ~Live(t)'
  <2>1. t \notin DOMAIN m_sessions => t \notin DOMAIN m_sessions'
    BY <1>2 DEF Validate, Drop, validate, drop, Without, Restrict
  <2>2. t \in DOMAIN m_sessions' => m_sessions'[t] = m_sessions[t]
    BY <1>0, <1>2 DEF Validate, Drop, validate, drop, Without, Restrict
  <2>3. now' = now
    BY <1>2 DEF Validate, Drop
  <2> QED BY <1>0, <2>1, <2>2, <2>3 DEF Expired
<1>3. ASSUME NEW c \in Clients, LoginAllowed(c) \/ LoginFailed(c) \/ LoginSucceeded(c)
      PROVE  ~Live(t)'
  BY <1>3 DEF LoginAllowed, LoginFailed, LoginSucceeded, Expired
<1>4. CASE Tick
  BY <1>0, <1>4 DEF Tick, Expired
<1>5. CASE UNCHANGED storeVars
  BY <1>5 DEF storeVars, Expired
<1> QED BY <1>1, <1>2, <1>3, <1>4, <1>5 DEF Next

\* Once dead, a token stays dead: no method of the store brings a dropped or
\* expired session back.
THEOREM ExpiryIsFinal == Spec => DeadTokensStayDead
<1>1. TypeOK /\ [Next]_storeVars => [\A t \in issued : ~Live(t) => ~Live(t)']_storeVars
  BY NoStepRevives
<1> QED BY <1>1, StoreTypeCorrect, PTL DEF Spec, DeadTokensStayDead

-----------------------------------------------------------------------------
\* The part of the type invariant the throttle rests on.
ThrottleTypeOK ==
  /\ now \in Nat \ {0}
  /\ LoginsOK(m_logins)
  /\ busy # Idle => busy.c \in Clients
  /\ failTimes \in [Clients -> Seq(Nat)]

ClientGate(c) == Gate(m_logins, c)

\* Failures before the current count are a whole lock away from now, or from
\* the end of the lock that is set; a client whose credentials are being
\* checked has no lock on record.
GateInv(c) ==
  /\ \A i \in DOMAIN failTimes[c] : failTimes[c][i] <= now
  /\ ClientGate(c).lockedUntil = 0 =>
       \A i \in DOMAIN failTimes[c] :
         i <= Len(failTimes[c]) - ClientGate(c).fails => failTimes[c][i] + LockSeconds <= now
  /\ ClientGate(c).lockedUntil # 0 =>
       /\ ClientGate(c).fails = 0
       /\ \A i \in DOMAIN failTimes[c] :
            failTimes[c][i] + LockSeconds <= ClientGate(c).lockedUntil
  /\ busy # Idle /\ busy.op = "login" /\ busy.c = c => ClientGate(c).lockedUntil = 0
  /\ \A i \in 1..(Len(failTimes[c]) - MaxFails) :
       failTimes[c][i + MaxFails] - failTimes[c][i] >= LockSeconds

ThrottleInv == ThrottleTypeOK /\ \A c \in Clients : GateInv(c)

\* What each method does to the gates it is asked about, and to the others.
LEMMA GateFact ==
  ASSUME ThrottleTypeOK, NEW c \in Clients, NEW d \in Clients
  PROVE  /\ c # d => /\ Gate(loginAllowed(m_logins, c), d) = ClientGate(d)
                     /\ Gate(loginFailed(m_logins, c), d) = ClientGate(d)
                     /\ Gate(loginSucceeded(m_logins, c), d) = ClientGate(d)
         /\ Gate(loginSucceeded(m_logins, c), c) = FreshGate
         /\ ~Locked(m_logins, c) =>
              Gate(loginAllowed(m_logins, c), c) =
                IF ClientGate(c).lockedUntil # 0 THEN FreshGate ELSE ClientGate(c)
         /\ ~Locked(m_logins, c) =>
              Gate(loginFailed(m_logins, c), c) =
                IF ClientGate(c).fails + 1 >= MaxFails
                THEN [fails |-> 0, lockedUntil |-> now + LockSeconds]
                ELSE [ClientGate(c) EXCEPT !.fails = ClientGate(c).fails + 1]
<1>1. Gate(loginSucceeded(m_logins, c), c) = FreshGate
      /\ (c # d => Gate(loginSucceeded(m_logins, c), d) = ClientGate(d))
  BY DEF loginSucceeded, Gate, ClientGate, Without, Restrict
<1>2. c # d => Gate(loginAllowed(m_logins, c), d) = ClientGate(d)
  BY DEF loginAllowed, Gate, ClientGate, Without, Restrict
<1>3. c # d => Gate(loginFailed(m_logins, c), d) = ClientGate(d)
  BY DEF loginFailed, Gate, ClientGate, Put
<1>4. ~Locked(m_logins, c) =>
        Gate(loginAllowed(m_logins, c), c) =
          IF ClientGate(c).lockedUntil # 0 THEN FreshGate ELSE ClientGate(c)
  BY DEF loginAllowed, Gate, ClientGate, Without, Restrict, FreshGate
<1>5. ~Locked(m_logins, c) =>
        Gate(loginFailed(m_logins, c), c) =
          IF ClientGate(c).fails + 1 >= MaxFails
          THEN [fails |-> 0, lockedUntil |-> now + LockSeconds]
          ELSE [ClientGate(c) EXCEPT !.fails = ClientGate(c).fails + 1]
  <2> DEFINE e == IF ClientGate(c).fails + 1 >= MaxFails
                  THEN [fails |-> 0, lockedUntil |-> now + LockSeconds]
                  ELSE [ClientGate(c) EXCEPT !.fails = ClientGate(c).fails + 1]
  <2>1. ~Locked(m_logins, c) => loginFailed(m_logins, c) = Put(m_logins, c, e)
    BY DEF loginFailed, ClientGate
  <2> HIDE DEF e
  <2>2. Gate(Put(m_logins, c, e), c) = e
    BY DEF Gate, Put
  <2>3. ~Locked(m_logins, c) => Gate(loginFailed(m_logins, c), c) = e
    BY <2>1, <2>2
  <2> QED BY <2>3 DEF e
<1> QED BY <1>1, <1>2, <1>3, <1>4, <1>5

LEMMA GateTyped ==
  ASSUME ThrottleTypeOK, NEW c \in Clients
  PROVE  ClientGate(c) \in [fails : 0..(MaxFails - 1), lockedUntil : Nat]
  BY StoreAssumption DEF ThrottleTypeOK, LoginsOK, GateValues, ClientGate, Gate, FreshGate

-----------------------------------------------------------------------------
LEMMA ThrottleTypeStep ==
  ASSUME ThrottleTypeOK, [AuthNext]_vars
  PROVE  ThrottleTypeOK'
<1> USE DEF ThrottleTypeOK
<1>1. ASSUME NEW p \in Pages, NEW pw \in Passwords, LoginBegin(p, pw)
      PROVE  ThrottleTypeOK'
  <2>1. Browser[p] \in Clients
    BY AuthAssumption
  <2>2. LoginsOK(loginAllowed(m_logins, Browser[p]))
    BY <2>1, LoginsTyped
  <2> QED BY <1>1, <2>1, <2>2 DEF LoginBegin, LoginsOK, GateValues
<1>2. CASE LoginBad
  <2>1. LoginsOK(loginFailed(m_logins, busy.c)) /\ busy.c \in Clients
    BY <1>2, LoginsTyped DEF LoginBad
  <2>2. Append(failTimes[busy.c], now) \in Seq(Nat)
    BY <2>1
  <2>3. failTimes' \in [Clients -> Seq(Nat)]
    BY <1>2, <2>2 DEF LoginBad
  <2> QED BY <1>2, <2>1, <2>3 DEF LoginBad, LoginsOK, GateValues
<1>3. CASE LoginGood
  <2>1. LoginsOK(loginSucceeded(m_logins, busy.c)) /\ busy.c \in Clients
    BY <1>3, LoginsTyped DEF LoginGood
  <2>2. failTimes' \in [Clients -> Seq(Nat)]
    <3>1. << >> \in Seq(Nat)
      OBVIOUS
    <3> QED BY <1>3, <3>1 DEF LoginGood
  <2> QED BY <1>3, <2>1, <2>2 DEF LoginGood, LoginsOK, GateValues
<1>4. CASE Restart
  <2>1. failTimes' \in [Clients -> Seq(Nat)]
    <3>1. << >> \in Seq(Nat)
      OBVIOUS
    <3> QED BY <1>4, <3>1 DEF Restart
  <2>2. LoginsOK(m_logins)'
    BY <1>4 DEF Restart, LoginsOK, NoEntries
  <2> QED BY <1>4, <2>1, <2>2 DEF Restart
<1>5. CASE AuthTick
  BY <1>5, StoreAssumption DEF AuthTick, Tick, authVars, LoginsOK, GateValues
<1>6. ASSUME NEW p \in Pages, NEW pw \in Passwords, SetupBegin(p, pw)
      PROVE  ThrottleTypeOK'
  BY <1>6, AuthAssumption DEF SetupBegin, storeVars, LoginsOK, GateValues
<1>6a. ASSUME NEW pw \in Passwords, setWebPassword(pw)
      PROVE  ThrottleTypeOK'
  BY <1>6a DEF setWebPassword, storeVars, LoginsOK, GateValues
<1>7. CASE SetupEnd
  BY <1>7 DEF SetupEnd, LoginsOK, GateValues
<1>8. ASSUME NEW p \in Pages, AuthStatus(p) \/ Logout(p) \/ Request(p)
      PROVE  ThrottleTypeOK'
  BY <1>8 DEF AuthStatus, Logout, Request, LoginsOK, GateValues
<1>8a. ASSUME NEW t \in issued, KeptCookie(t)
       PROVE  ThrottleTypeOK'
  BY <1>8a DEF KeptCookie, LoginsOK, GateValues
<1>9. CASE UNCHANGED vars
  BY <1>9 DEF vars, LoginsOK, GateValues
<1> QED BY <1>1, <1>2, <1>3, <1>4, <1>5, <1>6, <1>6a, <1>7, <1>8, <1>8a, <1>9 DEF AuthNext

-----------------------------------------------------------------------------
\* A failed check keeps the invariant of its own client.
LEMMA LoginBadKeeps ==
  ASSUME ThrottleInv, ThrottleTypeOK', LoginBad, NEW c \in Clients, busy.c = c
  PROVE  GateInv(c)'
<1> DEFINE f == failTimes[c]
           g == ClientGate(c)
           n == Len(f)
<1>1. /\ busy # Idle /\ busy.op = "login" /\ busy' = Idle /\ now' = now
      /\ m_logins' = loginFailed(m_logins, c)
      /\ failTimes' = [failTimes EXCEPT ![c] = Append(f, now)]
  BY DEF LoginBad
<1>2. ThrottleTypeOK /\ GateInv(c)
  BY DEF ThrottleInv
<1>3. /\ g.lockedUntil = 0 /\ g.fails \in 0..(MaxFails - 1)
      /\ \A i \in DOMAIN f : f[i] <= now
      /\ \A i \in DOMAIN f : i <= n - g.fails => f[i] + LockSeconds <= now
      /\ \A i \in 1..(n - MaxFails) : f[i + MaxFails] - f[i] >= LockSeconds
  BY <1>1, <1>2, GateTyped DEF GateInv
<1>4. /\ now \in Nat /\ f \in Seq(Nat) /\ n \in Nat /\ DOMAIN f = 1..n
      /\ MaxFails \in Nat \ {0} /\ LockSeconds \in Nat \ {0}
  BY <1>2, StoreAssumption DEF ThrottleTypeOK
<1>5. ~Locked(m_logins, c)
  BY <1>3, <1>4 DEF Locked, ClientGate, Gate
<1>6. ClientGate(c)' = IF g.fails + 1 >= MaxFails
                       THEN [fails |-> 0, lockedUntil |-> now + LockSeconds]
                       ELSE [g EXCEPT !.fails = g.fails + 1]
  BY <1>1, <1>2, <1>5, GateFact DEF ClientGate
<1>7. failTimes'[c] = Append(f, now)
  BY <1>1, <1>2 DEF ThrottleTypeOK
<1> DEFINE f2 == Append(f, now)
<1>8. /\ Len(f2) = n + 1 /\ DOMAIN f2 = 1..(n + 1)
      /\ \A i \in 1..n : f2[i] = f[i]
      /\ f2[n + 1] = now
  BY <1>4
<1>9. \A i \in 1..n : f[i] \in Nat
  BY <1>4, ElementInSet
<1>14. \A i \in 1..(n + 1) : f2[i] \in Nat
  <2> HIDE DEF f2
  <2> QED BY <1>4, <1>8, <1>9
<1> HIDE DEF f2, n, g, f
<1>10. \A i \in DOMAIN f2 : f2[i] <= now
  BY <1>3, <1>4, <1>8
<1>11. \A i \in 1..(n + 1 - MaxFails) : f2[i + MaxFails] - f2[i] >= LockSeconds
  <2> SUFFICES ASSUME NEW i \in 1..(n + 1 - MaxFails)
               PROVE  f2[i + MaxFails] - f2[i] >= LockSeconds
    OBVIOUS
  <2>1. CASE i + MaxFails = n + 1
    <3>1. i \in 1..n /\ i <= n - g.fails
      BY <1>3, <1>4, <2>1
    <3>2. f[i] + LockSeconds <= now
      BY <1>3, <1>4, <3>1
    <3>3. f2[i] = f[i] /\ f2[i] \in Nat /\ f2[i + MaxFails] = now
      BY <1>8, <1>9, <2>1, <3>1
    <3> QED BY <1>4, <3>2, <3>3
  <2>2. CASE i + MaxFails # n + 1
    <3>1. i \in 1..(n - MaxFails) /\ i \in 1..n /\ i + MaxFails \in 1..n
      BY <1>4, <2>2
    <3>2. f[i + MaxFails] - f[i] >= LockSeconds
      BY <1>3, <3>1
    <3> QED BY <1>8, <3>1, <3>2
  <2> QED BY <2>1, <2>2
<1>12. CASE g.fails + 1 >= MaxFails
  <2>1. ClientGate(c)'.fails = 0 /\ ClientGate(c)'.lockedUntil = now + LockSeconds
    BY <1>6, <1>12
  <2>2. \A i \in DOMAIN f2 : f2[i] + LockSeconds <= now + LockSeconds
    BY <1>4, <1>8, <1>10, <1>14
  <2>3. now + LockSeconds # 0
    BY <1>4
  <2>4. failTimes'[c] = f2 /\ busy' = Idle /\ now' = now
    BY <1>1, <1>7 DEF f2
  <2> HIDE DEF ClientGate
  <2> QED BY <1>4, <1>8, <1>10, <1>11, <2>1, <2>2, <2>3, <2>4 DEF GateInv
<1>13. CASE ~(g.fails + 1 >= MaxFails)
  <2>1. ClientGate(c)'.fails = g.fails + 1 /\ ClientGate(c)'.lockedUntil = 0
    <3>1. ClientGate(c)' = [g EXCEPT !.fails = g.fails + 1]
      BY <1>6, <1>13
    <3>2. g \in [fails : 0..(MaxFails - 1), lockedUntil : Nat]
      BY <1>2, GateTyped DEF g
    <3> QED BY <3>1, <1>3, <3>2
  <2>2. \A i \in DOMAIN f2 : i <= (n + 1) - (g.fails + 1) => f2[i] + LockSeconds <= now
    <3> SUFFICES ASSUME NEW i \in DOMAIN f2, i <= (n + 1) - (g.fails + 1)
                 PROVE  f2[i] + LockSeconds <= now
      OBVIOUS
    <3>1. i \in 1..n /\ i <= n - g.fails
      BY <1>3, <1>4, <1>8
    <3> QED BY <1>3, <1>4, <1>8, <3>1
  <2>3. failTimes'[c] = f2 /\ busy' = Idle /\ now' = now
    BY <1>1, <1>7 DEF f2
  <2>4. Len(failTimes'[c]) - ClientGate(c)'.fails = (n + 1) - (g.fails + 1)
    BY <1>8, <2>1, <2>3
  <2>5. \A i \in DOMAIN failTimes'[c] : i <= Len(failTimes'[c]) - ClientGate(c)'.fails
          => failTimes'[c][i] + LockSeconds <= now'
    BY <2>2, <2>3, <2>4
  <2> QED BY <1>4, <1>8, <1>10, <1>11, <2>1, <2>3, <2>5 DEF GateInv
<1> QED BY <1>12, <1>13

\* A login that asks the throttle, and is let in, keeps the invariant of its
\* own client: forgetting an elapsed lock forgets no failure that still counts.
LEMMA LoginBeginKeeps ==
  ASSUME ThrottleInv, ThrottleTypeOK', NEW c \in Clients,
         NEW p \in Pages, NEW pw \in Passwords, LoginBegin(p, pw), Browser[p] = c
  PROVE  GateInv(c)'
<1> DEFINE g == ClientGate(c)
<1>1. /\ ~Locked(m_logins, c) /\ m_logins' = loginAllowed(m_logins, c)
      /\ now' = now /\ failTimes' = failTimes
  BY DEF LoginBegin
<1>2. ThrottleTypeOK /\ GateInv(c)
  BY DEF ThrottleInv
<1>3. ClientGate(c)' = IF g.lockedUntil # 0 THEN FreshGate ELSE g
  BY <1>1, <1>2, GateFact DEF ClientGate
<1>4. g \in [fails : 0..(MaxFails - 1), lockedUntil : Nat]
  BY <1>2, GateTyped
<1>5. /\ now \in Nat /\ failTimes[c] \in Seq(Nat) /\ LockSeconds \in Nat /\ MaxFails \in Nat
      /\ \A i \in DOMAIN failTimes[c] : failTimes[c][i] \in Nat
  BY <1>2, ElementInSet, StoreAssumption DEF ThrottleTypeOK
<1>6. CASE g.lockedUntil = 0
  <2>1. ClientGate(c)' = g
    BY <1>3, <1>6
  <2> QED BY <1>1, <1>2, <1>6, <2>1 DEF GateInv
<1>7. CASE g.lockedUntil # 0
  <2>1. ClientGate(c)'.fails = 0 /\ ClientGate(c)'.lockedUntil = 0
    BY <1>3, <1>7 DEF FreshGate
  <2>2. g.lockedUntil <= now
    BY <1>1, <1>4, <1>5, <1>7 DEF Locked, ClientGate, Gate, FreshGate
  <2>3. \A i \in DOMAIN failTimes[c] : failTimes[c][i] + LockSeconds <= now
    BY <1>2, <1>4, <1>5, <1>7, <2>2 DEF GateInv
  <2> QED BY <1>1, <1>2, <2>1, <2>3 DEF GateInv
<1> QED BY <1>6, <1>7

\* A client whose history is empty and whose gate is fresh.
LEMMA ForgottenClient ==
  ASSUME ThrottleTypeOK', NEW c \in Clients, failTimes'[c] = << >>, ClientGate(c)' = FreshGate
  PROVE  GateInv(c)'
<1>1. /\ ClientGate(c)'.fails = 0 /\ ClientGate(c)'.lockedUntil = 0
      /\ DOMAIN failTimes'[c] = {} /\ Len(failTimes'[c]) = 0
  BY DEF FreshGate
<1>2. 1..(Len(failTimes'[c]) - MaxFails) = {}
  BY <1>1, StoreAssumption
<1> QED BY <1>1, <1>2 DEF GateInv

\* A step that leaves a client's gate and history alone, does not turn back the
\* clock and does not put the client into a credential check.
LEMMA BystanderKeeps ==
  ASSUME ThrottleInv, ThrottleTypeOK', NEW c \in Clients,
         ClientGate(c)' = ClientGate(c), failTimes'[c] = failTimes[c], now <= now',
         busy' # Idle /\ busy'.op = "login" /\ busy'.c = c => busy' = busy
  PROVE  GateInv(c)'
<1>1. ThrottleTypeOK /\ GateInv(c)
  BY DEF ThrottleInv
<1>2. /\ now \in Nat /\ now' \in Nat /\ LockSeconds \in Nat
      /\ \A i \in DOMAIN failTimes[c] : failTimes[c][i] \in Nat
  BY <1>1, ElementInSet, StoreAssumption DEF ThrottleTypeOK
<1>3. \A i \in DOMAIN failTimes[c] : failTimes[c][i] <= now => failTimes[c][i] <= now'
  BY <1>2
<1>4. \A i \in DOMAIN failTimes[c] :
        failTimes[c][i] + LockSeconds <= now => failTimes[c][i] + LockSeconds <= now'
  BY <1>2
<1> QED BY <1>1, <1>3, <1>4 DEF GateInv

LEMMA ThrottleStep ==
  ASSUME ThrottleInv, [AuthNext]_vars
  PROVE  ThrottleInv'
<1>0. ThrottleTypeOK /\ ThrottleTypeOK'
  BY ThrottleTypeStep DEF ThrottleInv
<1> SUFFICES ASSUME NEW c \in Clients PROVE GateInv(c)'
  BY <1>0 DEF ThrottleInv
<1>1. ASSUME NEW p \in Pages, NEW pw \in Passwords, LoginBegin(p, pw)
      PROVE  GateInv(c)'
  <2>0. Browser[p] \in Clients
    BY AuthAssumption
  <2>1. CASE c = Browser[p]
    BY <1>0, <1>1, <2>1, LoginBeginKeeps
  <2>2. CASE c # Browser[p]
    <3>1. /\ ClientGate(c)' = ClientGate(c) /\ failTimes'[c] = failTimes[c] /\ now' = now
          /\ busy' # Idle /\ busy'.op = "login" => busy'.c = Browser[p]
      BY <1>0, <1>1, <2>0, <2>2, GateFact DEF LoginBegin, ClientGate
    <3>2. now <= now'
      BY <1>0, <3>1 DEF ThrottleTypeOK
    <3> QED BY <1>0, <2>2, <3>1, <3>2, BystanderKeeps
  <2> QED BY <2>1, <2>2
<1>2. CASE LoginBad
  <2>1. CASE busy.c = c
    BY <1>0, <1>2, <2>1, LoginBadKeeps
  <2>2. CASE busy.c # c
    <3>0. busy.c \in Clients
      BY <1>0, <1>2 DEF LoginBad, ThrottleTypeOK
    <3>1. /\ ClientGate(c)' = ClientGate(c) /\ failTimes'[c] = failTimes[c] /\ now' = now
          /\ busy' = Idle
      BY <1>0, <1>2, <2>2, <3>0, GateFact DEF LoginBad, ClientGate, ThrottleTypeOK
    <3>2. now <= now'
      BY <1>0, <3>1 DEF ThrottleTypeOK
    <3> QED BY <1>0, <3>1, <3>2, BystanderKeeps
  <2> QED BY <2>1, <2>2
<1>3. CASE LoginGood
  <2>0. busy.c \in Clients
    BY <1>0, <1>3 DEF LoginGood, ThrottleTypeOK
  <2>1. CASE busy.c = c
    <3>1. failTimes'[c] = << >> /\ ClientGate(c)' = FreshGate
      BY <1>0, <1>3, <2>1, GateFact DEF LoginGood, ClientGate, ThrottleTypeOK
    <3> QED BY <1>0, <3>1, ForgottenClient
  <2>2. CASE busy.c # c
    <3>1. /\ ClientGate(c)' = ClientGate(c) /\ failTimes'[c] = failTimes[c] /\ now' = now
          /\ busy' = Idle
      BY <1>0, <1>3, <2>0, <2>2, GateFact DEF LoginGood, ClientGate, ThrottleTypeOK
    <3>2. now <= now'
      BY <1>0, <3>1 DEF ThrottleTypeOK
    <3> QED BY <1>0, <3>1, <3>2, BystanderKeeps
  <2> QED BY <2>1, <2>2
<1>4. CASE Restart
  <2>1. failTimes'[c] = << >> /\ ClientGate(c)' = FreshGate
    BY <1>4 DEF Restart, ClientGate, Gate, NoEntries
  <2> QED BY <1>0, <2>1, ForgottenClient
<1>5. CASE AuthTick
  <2>1. /\ ClientGate(c)' = ClientGate(c) /\ failTimes'[c] = failTimes[c] /\ busy' = busy
        /\ now' = now + 1
    BY <1>5 DEF AuthTick, Tick, authVars, ClientGate
  <2>2. now <= now'
    BY <1>0, <2>1 DEF ThrottleTypeOK
  <2> QED BY <1>0, <2>1, <2>2, BystanderKeeps
<1>6. ASSUME UNCHANGED <<m_logins, failTimes, now>>,
             busy' # Idle /\ busy'.op = "login" /\ busy'.c = c => busy' = busy
      PROVE  GateInv(c)'
  <2>1. /\ ClientGate(c)' = ClientGate(c) /\ failTimes'[c] = failTimes[c] /\ now <= now'
    BY <1>0, <1>6 DEF ClientGate, ThrottleTypeOK
  <2> QED BY <1>0, <1>6, <2>1, BystanderKeeps
<1>7. ASSUME NEW p \in Pages, NEW pw \in Passwords, SetupBegin(p, pw)
      PROVE  GateInv(c)'
  <2>1. UNCHANGED <<m_logins, failTimes, now>> /\ busy'.op = "setup"
    BY <1>7 DEF SetupBegin, storeVars
  <2> QED BY <1>6, <2>1
<1>8. ASSUME NEW pw \in Passwords, setWebPassword(pw)
      PROVE  GateInv(c)'
  BY <1>6, <1>8 DEF setWebPassword, storeVars
<1>9. CASE SetupEnd
  BY <1>6, <1>9 DEF SetupEnd
<1>10. ASSUME NEW p \in Pages, AuthStatus(p) \/ Logout(p) \/ Request(p)
       PROVE  GateInv(c)'
  BY <1>6, <1>10 DEF AuthStatus, Logout, Request
<1>11. ASSUME NEW t \in issued, KeptCookie(t)
       PROVE  GateInv(c)'
  BY <1>6, <1>11 DEF KeptCookie
<1>12. CASE UNCHANGED vars
  BY <1>6, <1>12 DEF vars
<1> QED BY <1>1, <1>2, <1>3, <1>4, <1>5, <1>7, <1>8, <1>9, <1>10, <1>11, <1>12 DEF AuthNext

LEMMA ThrottleInvariant == AuthSpec => []ThrottleInv
<1>1. AuthInit => ThrottleInv
  <2> SUFFICES ASSUME AuthInit PROVE ThrottleInv
    OBVIOUS
  <2>1. ThrottleTypeOK
    <3>1. << >> \in Seq(Nat)
      OBVIOUS
    <3> QED BY <3>1 DEF AuthInit, Init, ThrottleTypeOK, LoginsOK, NoEntries
  <2>2. ASSUME NEW c \in Clients PROVE GateInv(c)
    <3>1. /\ ClientGate(c).fails = 0 /\ ClientGate(c).lockedUntil = 0
          /\ failTimes[c] = << >> /\ busy = Idle
      BY DEF AuthInit, Init, ClientGate, Gate, FreshGate, NoEntries
    <3>2. DOMAIN failTimes[c] = {} /\ 1..(Len(failTimes[c]) - MaxFails) = {}
      BY <3>1, StoreAssumption
    <3> QED BY <3>1, <3>2 DEF GateInv
  <2> QED BY <2>1, <2>2 DEF ThrottleInv
<1> QED BY <1>1, ThrottleStep, PTL DEF AuthSpec

\* The throttle holds for every limit, lock and number of clients: a client
\* that does not succeed in between has at most kMaxFails failed checks in any
\* window of kLockSeconds.
THEOREM ThrottleHolds == AuthSpec => []ThrottleWindow
<1>1. ThrottleInv => ThrottleWindow
  BY DEF ThrottleInv, GateInv, ThrottleWindow
<1> QED BY <1>1, ThrottleInvariant, PTL

\* While a client is locked, no step but a restart touches its gate: the login
\* handler turns it away, and the credential check under way is never its own.
THEOREM LocksHold == AuthSpec => LockHolds
<1>1. ASSUME ThrottleInv, [AuthNext]_vars, ~UNCHANGED vars, ~Restart,
             NEW c \in Clients, Locked(m_logins, c)
      PROVE  c \in DOMAIN m_logins' /\ m_logins'[c] = m_logins[c]
  <2>1. c \in DOMAIN m_logins /\ m_logins[c].lockedUntil > now /\ now \in Nat
    BY <1>1 DEF Locked, ThrottleInv, ThrottleTypeOK
  <2>2. m_logins[c] \in GateValues
    BY <1>1, <2>1 DEF ThrottleInv, ThrottleTypeOK, LoginsOK
  <2>3. ClientGate(c).lockedUntil # 0
    BY <2>1, <2>2 DEF ClientGate, Gate, GateValues
  <2>4. busy # Idle /\ busy.op = "login" => busy.c # c
    BY <1>1, <2>3 DEF ThrottleInv, GateInv
  <2>5. ASSUME NEW p \in Pages, NEW pw \in Passwords, LoginBegin(p, pw)
        PROVE  c \in DOMAIN m_logins' /\ m_logins'[c] = m_logins[c]
    <3>1. Browser[p] # c /\ m_logins' = loginAllowed(m_logins, Browser[p])
      BY <1>1, <2>5 DEF LoginBegin
    <3> QED BY <2>1, <3>1 DEF loginAllowed, Without, Restrict
  <2>6. CASE LoginBad
    <3>1. busy.c # c /\ m_logins' = loginFailed(m_logins, busy.c)
      BY <2>4, <2>6 DEF LoginBad
    <3> QED BY <2>1, <3>1 DEF loginFailed, Put
  <2>7. CASE LoginGood
    <3>1. busy.c # c /\ m_logins' = loginSucceeded(m_logins, busy.c)
      BY <2>4, <2>7 DEF LoginGood
    <3> QED BY <2>1, <3>1 DEF loginSucceeded, Without, Restrict
  <2>8. ASSUME m_logins' = m_logins
        PROVE  c \in DOMAIN m_logins' /\ m_logins'[c] = m_logins[c]
    BY <2>1, <2>8
  <2> QED
    BY <1>1, <2>5, <2>6, <2>7, <2>8 DEF AuthNext, SetupBegin, setWebPassword, storeVars,
       SetupEnd, AuthStatus, Logout, Request, KeptCookie, AuthTick, Tick, authVars, vars
<1>2. ThrottleInv /\ [AuthNext]_vars
        => [\A c \in Clients : Locked(m_logins, c) =>
              \/ c \in DOMAIN m_logins' /\ m_logins'[c] = m_logins[c]
              \/ Restart]_vars
  BY <1>1
<1> QED BY <1>2, ThrottleInvariant, PTL DEF AuthSpec, LockHolds

-----------------------------------------------------------------------------
\* The part of the type invariant that the life of a token rests on: the table
\* holds tokens handed out by this process, none of them seen in the future.
SessionsTyped == now \in Nat \ {0} /\ issued \subseteq Tokens /\ SessionsOK(m_sessions)

\* What a handler can do to the session table while the clock stands still.
SweepOrSlide ==
  /\ now' = now /\ issued' = issued
  /\ \/ m_sessions' = m_sessions
     \/ m_sessions' = NoEntries
     \/ \E t \in Tokens \cup {NoToken} : \/ m_sessions' = validate(m_sessions, t)
                                        \/ m_sessions' = drop(validate(m_sessions, t), t)

NewSession ==
  /\ now' = now
  /\ \E t \in Tokens \ issued : /\ m_sessions' = createSession(m_sessions, t)
                               /\ issued' = issued \cup {t}

Aging == now' = now + 1 /\ UNCHANGED <<m_sessions, issued>>

\* Every step of the routes, the other process and the daemon is one of these.
\* The cookie a browser sends carries a token or none.
LEMMA TableSteps ==
  ASSUME [AuthNext]_vars, jar \in [Clients -> [token : Tokens \cup {NoToken}, expires : Nat]],
         issued \subseteq Tokens, busy # Idle => busy.c \in Clients
  PROVE  SweepOrSlide \/ NewSession \/ Aging
<1>1. ASSUME NEW p \in Pages PROVE sessionToken(Browser[p]) \in Tokens \cup {NoToken}
  BY AuthAssumption DEF sessionToken
<1>2. ASSUME NEW p \in Pages, AuthStatus(p) \/ Logout(p) \/ Request(p)
      PROVE  SweepOrSlide
  <2> DEFINE t == sessionToken(Browser[p])
  <2>1. t \in Tokens \cup {NoToken}
    BY <1>1
  <2>2. m_sessions' = validate(m_sessions, t) \/ m_sessions' = drop(validate(m_sessions, t), t)
    BY <1>2 DEF AuthStatus, Logout, Request
  <2>3. now' = now /\ issued' = issued
    BY <1>2 DEF AuthStatus, Logout, Request
  <2> QED BY <2>1, <2>2, <2>3 DEF SweepOrSlide
<1>3. ASSUME NEW t \in issued, KeptCookie(t)
      PROVE  SweepOrSlide
  BY <1>3 DEF KeptCookie, SweepOrSlide
<1>4. SetupEnd \/ LoginGood => NewSession
  BY DEF SetupEnd, LoginGood, EnterApp, NewSession
<1>5. ASSUME NEW p \in Pages, NEW pw \in Passwords, SetupBegin(p, pw) \/ LoginBegin(p, pw)
      PROVE  SweepOrSlide
  BY <1>5 DEF SetupBegin, LoginBegin, SweepOrSlide, storeVars
<1>6. ASSUME NEW pw \in Passwords, setWebPassword(pw)
      PROVE  SweepOrSlide
  BY <1>6 DEF setWebPassword, SweepOrSlide, storeVars
<1>7. LoginBad \/ Restart \/ UNCHANGED vars => SweepOrSlide
  BY DEF LoginBad, Restart, SweepOrSlide, vars
<1>8. AuthTick => Aging
  BY DEF AuthTick, Tick, Aging
<1> QED BY <1>2, <1>3, <1>4, <1>5, <1>6, <1>7, <1>8 DEF AuthNext

\* A browser's cookie is one the server set, also after any step.
JarTyped == jar \in [Clients -> [token : Tokens \cup {NoToken}, expires : Nat]]

LEMMA JarStep ==
  ASSUME JarTyped, ThrottleTypeOK, [AuthNext]_vars
  PROVE  JarTyped'
<1> USE DEF JarTyped
<1>1. ASSUME NEW c, NEW t \in Tokens \cup {NoToken}, NEW e \in Nat
      PROVE  [jar EXCEPT ![c] = [token |-> t, expires |-> e]]
               \in [Clients -> [token : Tokens \cup {NoToken}, expires : Nat]]
  OBVIOUS
<1>2. CASE SetupEnd \/ LoginGood
  <2>1. PICK t \in Tokens : jar' = [jar EXCEPT ![Browser[busy.page]] = buildSessionCookie(t)]
    BY <1>2 DEF SetupEnd, LoginGood, EnterApp
  <2>2. now + Ttl \in Nat
    BY StoreAssumption DEF ThrottleTypeOK
  <2> QED BY <1>1, <2>1, <2>2 DEF buildSessionCookie
<1>3. ASSUME NEW p \in Pages, Logout(p)
      PROVE  JarTyped'
  BY <1>1, <1>3 DEF Logout, NoCookie
<1> QED
  BY <1>2, <1>3 DEF AuthNext, AuthStatus, Request, KeptCookie, SetupBegin, LoginBegin, LoginBad,
     setWebPassword, Restart, AuthTick, authVars, vars

LEMMA SessionsStep ==
  ASSUME SessionsTyped, SweepOrSlide \/ NewSession \/ Aging
  PROVE  SessionsTyped'
<1> USE DEF SessionsTyped
<1>1. ASSUME NEW t
      PROVE  SessionsOK(validate(m_sessions, t)) /\ SessionsOK(drop(validate(m_sessions, t), t))
  BY ValidateTyped
<1>2. SessionsOK(NoEntries)
  BY DEF SessionsOK, NoEntries
<1>3. CASE SweepOrSlide
  BY <1>1, <1>2, <1>3 DEF SweepOrSlide, SessionsOK
<1>4. CASE NewSession
  <2> PICK t \in Tokens \ issued : /\ m_sessions' = createSession(m_sessions, t)
                                   /\ issued' = issued \cup {t} /\ now' = now
    BY <1>4 DEF NewSession
  <2>1. /\ DOMAIN createSession(m_sessions, t) \subseteq issued \cup {t}
        /\ \A x \in DOMAIN createSession(m_sessions, t) : createSession(m_sessions, t)[x] \in 1..now
    BY ValidateTyped DEF createSession, Put, SessionsOK
  <2> QED BY <2>1 DEF SessionsOK
<1>5. CASE Aging
  BY <1>5 DEF Aging, SessionsOK
<1> QED BY <1>3, <1>4, <1>5

\* None of those steps brings a dead token back.
LEMMA TableRevivesNone ==
  ASSUME SessionsTyped, SweepOrSlide \/ NewSession \/ Aging, NEW t \in issued, ~Live(t)
  PROVE  ~Live(t)'
<1> USE DEF Live, Valid
<1>0. /\ now \in Nat \ {0} /\ Ttl \in Nat /\ t # NoToken
      /\ \A x \in DOMAIN m_sessions : m_sessions[x] \in 1..now
  BY StoreAssumption DEF SessionsTyped, SessionsOK
<1>1. ASSUME NEW s, t \in DOMAIN s => t \in DOMAIN m_sessions /\ s[t] = m_sessions[t],
             m_sessions' = s, now' = now
      PROVE  ~Live(t)'
  BY <1>0, <1>1 DEF Expired
<1>2. CASE SweepOrSlide
  <2>1. ASSUME NEW u
        PROVE  /\ t \in DOMAIN validate(m_sessions, u) =>
                    t \in DOMAIN m_sessions /\ validate(m_sessions, u)[t] = m_sessions[t]
               /\ t \in DOMAIN drop(validate(m_sessions, u), u) =>
                    /\ t \in DOMAIN m_sessions
                    /\ drop(validate(m_sessions, u), u)[t] = m_sessions[t]
    BY <1>0 DEF validate, drop, Without, Restrict
  <2>2. t \in DOMAIN NoEntries => t \in DOMAIN m_sessions /\ NoEntries[t] = m_sessions[t]
    BY DEF NoEntries
  <2> QED BY <1>1, <1>2, <2>1, <2>2 DEF SweepOrSlide
<1>3. CASE NewSession
  <2> PICK u \in Tokens \ issued : m_sessions' = createSession(m_sessions, u) /\ now' = now
    BY <1>3 DEF NewSession
  <2>1. t \notin DOMAIN purgeExpired(m_sessions)
    BY <1>0 DEF purgeExpired, Restrict
  <2> QED BY <2>1 DEF createSession, Put
<1>4. CASE Aging
  BY <1>0, <1>4 DEF Aging, Expired
<1> QED BY <1>2, <1>3, <1>4

\* Through every route, at any moment, with the password tool and restarts: a
\* token that was dropped or has expired opens nothing again.
THEOREM DeadTokensOpenNothing == AuthSpec => DeadTokensStayDead
<1> DEFINE Inv == ThrottleInv /\ JarTyped /\ SessionsTyped
<1>1. AuthInit => JarTyped /\ SessionsTyped
  BY DEF AuthInit, Init, JarTyped, NoCookie, SessionsTyped, SessionsOK, NoEntries
<1>2. Inv /\ [AuthNext]_vars => SweepOrSlide \/ NewSession \/ Aging
  BY TableSteps DEF JarTyped, SessionsTyped, ThrottleInv, ThrottleTypeOK
<1>3. ThrottleInv /\ JarTyped /\ SessionsTyped /\ [AuthNext]_vars => JarTyped' /\ SessionsTyped'
  BY <1>2, JarStep, SessionsStep DEF ThrottleInv
<1>4. Inv /\ [AuthNext]_vars => [\A t \in issued : ~Live(t) => ~Live(t)']_storeVars
  BY <1>2, TableRevivesNone
<1> QED BY <1>1, <1>3, <1>4, ThrottleInvariant, PTL DEF AuthSpec, DeadTokensStayDead

-----------------------------------------------------------------------------
\* The rest of the composed state: what setup and login write, and the page.
RestTyped ==
  /\ stored \in {NoPass} \cup Hashes
  /\ busy \in {Idle} \cup Handlers
  /\ csrf \in [Pages -> Tokens \cup {NoToken}]
  /\ view \in [Pages -> {"login", "setup", "app"}]
  /\ superseded \subseteq Pages

AuthTyped == ThrottleInv /\ JarTyped /\ SessionsTyped /\ RestTyped

\* The page's part of it.
PagesTyped ==
  /\ csrf \in [Pages -> Tokens \cup {NoToken}]
  /\ view \in [Pages -> {"login", "setup", "app"}]
  /\ superseded \subseteq Pages

\* A successful setup or login keeps the pages well typed.
LEMMA EnterTyped ==
  ASSUME RestTyped, NEW p, NEW s, EnterApp(p, s)
  PROVE  PagesTyped'
<1>1. PICK t \in Tokens \ issued :
        /\ csrf' = [csrf EXCEPT ![p] = t]
        /\ view' = [view EXCEPT ![p] = "app"]
        /\ superseded' = (superseded \cup {q \in Pages : Browser[q] = Browser[p]}) \ {p}
  BY DEF EnterApp
<1>2. csrf' \in [Pages -> Tokens \cup {NoToken}] /\ view' \in [Pages -> {"login", "setup", "app"}]
  BY <1>1 DEF RestTyped
<1>3. superseded' \subseteq Pages
  BY <1>1 DEF RestTyped
<1> QED BY <1>2, <1>3 DEF PagesTyped

\* Every step does.
LEMMA RestStep ==
  ASSUME AuthTyped, [AuthNext]_vars
  PROVE  RestTyped'
<1> USE DEF RestTyped, AuthTyped
<1>0. Pages = DOMAIN csrf /\ NoToken \in Tokens \cup {NoToken}
  OBVIOUS
<1>1. ASSUME NEW p \in Pages
      PROVE  /\ csrfFor(m_sessions, sessionToken(Browser[p])) \in Tokens \cup {NoToken}
             /\ OnUnauthorized(p) => PagesTyped'
  <2>1. csrfFor(m_sessions, sessionToken(Browser[p])) \in Tokens \cup {NoToken}
    BY AuthAssumption DEF JarTyped, sessionToken, csrfFor
  <2> QED BY <2>1 DEF OnUnauthorized, PagesTyped
<1>2. ASSUME NEW p \in Pages, AuthStatus(p) \/ Logout(p) \/ Request(p)
      PROVE  RestTyped'
  <2>1. AuthStatus(p) => RestTyped'
    BY <1>1 DEF AuthStatus
  <2>2. Logout(p) => RestTyped'
    BY DEF Logout
  <2>3. Request(p) => RestTyped'
    BY <1>1 DEF Request, PagesTyped, pageVars
  <2> QED BY <1>2, <2>1, <2>2, <2>3
<1>3. ASSUME NEW p \in Pages, NEW pw \in Passwords, SetupBegin(p, pw) \/ LoginBegin(p, pw)
      PROVE  RestTyped'
  <2>1. Browser[p] \in Clients
    BY AuthAssumption
  <2>2. busy' \in {Idle} \cup Handlers
    BY <1>3, <2>1 DEF SetupBegin, LoginBegin, Handlers
  <2> QED BY <1>3, <2>2 DEF SetupBegin, LoginBegin, pageVars
<1>4. CASE SetupEnd \/ LoginGood
  <2>1. EnterApp(busy.page, m_sessions) /\ busy' = Idle
    BY <1>4 DEF SetupEnd, LoginGood
  <2>2. stored' \in {stored, hash(busy.pw)} /\ busy.pw \in Passwords
    BY <1>4 DEF SetupEnd, LoginGood, Handlers
  <2>3. stored' \in {NoPass} \cup Hashes
    <3>1. hash(busy.pw) \in Hashes
      BY <2>2 DEF hash, Hashes
    <3>2. stored \in {NoPass} \cup Hashes
      OBVIOUS
    <3> QED BY <2>2, <3>1, <3>2
  <2>4. PagesTyped'
    BY <2>1, EnterTyped
  <2> QED BY <2>1, <2>3, <2>4 DEF PagesTyped
<1>5. CASE LoginBad
  <2>1. busy.page \in Pages
    BY <1>5 DEF LoginBad, Handlers
  <2> QED BY <1>1, <1>5, <2>1 DEF LoginBad, PagesTyped
<1>6. ASSUME NEW pw \in Passwords, setWebPassword(pw)
      PROVE  RestTyped'
  BY <1>6 DEF setWebPassword, hash, Hashes, pageVars
<1>7. ASSUME UNCHANGED <<stored, pageVars>>, busy' \in {busy, Idle}
      PROVE  RestTyped'
  BY <1>7 DEF pageVars
<1>8. ASSUME NEW t \in issued, KeptCookie(t)
      PROVE  RestTyped'
  BY <1>7, <1>8 DEF KeptCookie
<1>9. Restart \/ AuthTick \/ UNCHANGED vars => RestTyped'
  BY <1>7 DEF Restart, AuthTick, authVars, vars, pageVars
<1> QED BY <1>2, <1>3, <1>4, <1>5, <1>6, <1>8, <1>9 DEF AuthNext

LEMMA AuthTypedInvariant == AuthSpec => []AuthTyped
<1>1. AuthInit => JarTyped /\ SessionsTyped /\ RestTyped
  <2> SUFFICES ASSUME AuthInit
               PROVE  JarTyped /\ SessionsTyped /\ RestTyped
    OBVIOUS
  <2>1. JarTyped /\ SessionsTyped
    BY DEF AuthInit, Init, JarTyped, NoCookie, SessionsTyped, SessionsOK, NoEntries
  <2>2. [pw : Passwords \ ShortPasswords, legacy : {TRUE}] \subseteq Hashes
    BY DEF Hashes
  <2>3. RestTyped
    BY <2>2 DEF AuthInit, RestTyped
  <2> QED BY <2>1, <2>3
<1>2. AuthTyped /\ [AuthNext]_vars => SweepOrSlide \/ NewSession \/ Aging
  BY TableSteps DEF AuthTyped, JarTyped, SessionsTyped, ThrottleInv, ThrottleTypeOK
<1>3. AuthTyped /\ [AuthNext]_vars => JarTyped' /\ SessionsTyped' /\ RestTyped'
  BY <1>2, JarStep, SessionsStep, RestStep DEF AuthTyped, ThrottleInv
<1> QED BY <1>1, <1>3, ThrottleInvariant, PTL DEF AuthSpec, AuthTyped

\* The types of the routes' whole state: in particular a handler that a crash or
\* another process overtakes never leaves a half-written password, cookie or gate.
THEOREM AuthTypeCorrect == AuthSpec => []AuthTypeOK
<1>1. AuthTyped => AuthTypeOK
  BY DEF AuthTyped, AuthTypeOK, TypeOK, ThrottleInv, ThrottleTypeOK, LoginsOK, GateValues, JarTyped,
     SessionsTyped, SessionsOK, RestTyped
<1> QED BY <1>1, AuthTypedInvariant, PTL

-----------------------------------------------------------------------------
\* A cookie is one that was handed out, and a page that shows the app holds the
\* CSRF token of its browser's cookie while that session lives, expired cookie or
\* not, unless another page's login replaced the cookie.
PageInv(p) ==
  /\ jar[Browser[p]].token \in issued \cup {NoToken}
  /\ view[p] = "app" /\ p \notin superseded /\ Live(jar[Browser[p]].token)
       => csrf[p] = jar[Browser[p]].token

\* A step that leaves a page and its browser's cookie alone revives no session
\* for it.
LEMMA OtherPage ==
  ASSUME AuthTyped, [AuthNext]_vars, NEW p \in Pages, PageInv(p),
         jar'[Browser[p]] = jar[Browser[p]],
         view'[p] = "app" => view[p] = "app" /\ csrf'[p] = csrf[p],
         p \in superseded => p \in superseded' \/ view'[p] # "app"
  PROVE  PageInv(p)'
<1> DEFINE tok == jar[Browser[p]].token
<1>1. SweepOrSlide \/ NewSession \/ Aging
  BY TableSteps DEF AuthTyped, JarTyped, SessionsTyped, ThrottleInv, ThrottleTypeOK
<1>2. issued \subseteq issued'
  BY <1>1 DEF SweepOrSlide, NewSession, Aging
<1>3. Live(NoToken)' = FALSE
  BY DEF Live, Valid
<1>4. ASSUME Live(tok)'
      PROVE  Live(tok)
  BY <1>1, <1>3, <1>4, TableRevivesNone DEF AuthTyped, PageInv
<1> QED BY <1>2, <1>4 DEF PageInv, Live

LEMMA PageStep ==
  ASSUME AuthTyped, AuthTyped', [AuthNext]_vars, NEW p \in Pages, PageInv(p)
  PROVE  PageInv(p)'
<1> DEFINE c == Browser[p]
<1>0. /\ view \in [Pages -> {"login", "setup", "app"}] /\ csrf \in [Pages -> Tokens \cup {NoToken}]
      /\ jar \in [Clients -> [token : Tokens \cup {NoToken}, expires : Nat]]
      /\ c \in Clients /\ (\A q \in Pages : Browser[q] \in Clients)
  BY AuthAssumption DEF AuthTyped, RestTyped, JarTyped
<1>1. ASSUME NEW q \in Pages, AuthStatus(q)
      PROVE  PageInv(p)'
  <2>1. CASE p # q
    BY <1>0, <1>1, <2>1, OtherPage DEF AuthStatus
  <2>2. CASE p = q /\ view'[p] = "app"
    <3>1. stored # NoPass /\ isAuthed(c) /\ jar' = jar /\ issued' = issued
      BY <1>0, <1>1, <2>2 DEF AuthStatus
    <3>2. sessionToken(c) = jar[c].token /\ csrf'[p] = csrfFor(m_sessions, sessionToken(c))
      BY <1>0, <1>1, <2>2, <3>1 DEF AuthStatus, isAuthed, Valid, sessionToken
    <3>3. csrf'[p] = jar'[c].token
      BY <3>1, <3>2 DEF isAuthed, Valid, csrfFor
    <3> QED BY <3>1, <3>3 DEF PageInv
  <2>3. CASE p = q /\ view'[p] # "app"
    BY <1>1, <2>3, OtherPage DEF AuthStatus
  <2> QED BY <2>1, <2>2, <2>3
<1>2. CASE SetupEnd \/ LoginGood
  <2> DEFINE q == busy.page
  <2>1. EnterApp(q, m_sessions)
    BY <1>2 DEF SetupEnd, LoginGood
  <2>2. PICK t \in Tokens \ issued :
          /\ issued' = issued \cup {t}
          /\ jar' = [jar EXCEPT ![Browser[q]] = buildSessionCookie(t)]
          /\ csrf' = [csrf EXCEPT ![q] = t]
          /\ view' = [view EXCEPT ![q] = "app"]
          /\ superseded' = (superseded \cup {r \in Pages : Browser[r] = Browser[q]}) \ {q}
    BY <2>1 DEF EnterApp
  <2>3. CASE c = Browser[q]
    <3>1. jar'[c].token = t
      BY <1>0, <2>2, <2>3 DEF buildSessionCookie
    <3>2. p = q => csrf'[p] = t
      BY <1>0, <2>2
    <3>3. p # q => p \in superseded'
      BY <2>2, <2>3
    <3> QED BY <2>2, <3>1, <3>2, <3>3 DEF PageInv
  <2>4. CASE c # Browser[q]
    <3>1. p # q /\ jar'[c] = jar[c] /\ view'[p] = view[p] /\ csrf'[p] = csrf[p]
      BY <1>0, <2>2, <2>4
    <3>2. p \in superseded => p \in superseded'
      BY <2>2, <3>1
    <3> QED BY <3>1, <3>2, OtherPage
  <2> QED BY <2>3, <2>4
<1>3. ASSUME NEW q \in Pages, Logout(q)
      PROVE  PageInv(p)'
  <2>1. CASE jar'[c] = jar[c]
    <3>1. view'[p] = "app" => view[p] = "app" /\ csrf'[p] = csrf[p]
      BY <1>0, <1>3 DEF Logout
    <3> QED BY <1>3, <2>1, <3>1, OtherPage DEF Logout
  <2>2. CASE jar'[c] # jar[c]
    <3>1. jar'[c] = NoCookie /\ issued' = issued
      BY <1>0, <1>3, <2>2 DEF Logout
    <3>2. ~Live(NoToken)'
      BY DEF Live, Valid
    <3> QED BY <3>1, <3>2 DEF PageInv, NoCookie
  <2> QED BY <2>1, <2>2
<1>4. ASSUME NEW q \in Pages, OnUnauthorized(q), jar' = jar
      PROVE  PageInv(p)'
  BY <1>0, <1>4, OtherPage DEF OnUnauthorized
<1>5. ASSUME UNCHANGED <<jar, pageVars>>
      PROVE  PageInv(p)'
  BY <1>5, OtherPage DEF pageVars
<1>6. ASSUME NEW q \in Pages, Request(q)
      PROVE  PageInv(p)'
  BY <1>4, <1>5, <1>6 DEF Request
<1>7. CASE LoginBad
  <2>1. busy.page \in Pages /\ OnUnauthorized(busy.page) /\ jar' = jar
    BY <1>7 DEF LoginBad, AuthTyped, RestTyped, Handlers
  <2> QED BY <1>4, <2>1
<1> QED
  BY <1>1, <1>2, <1>3, <1>5, <1>6, <1>7 DEF AuthNext, SetupBegin, LoginBegin, KeptCookie, setWebPassword,
     Restart, AuthTick, authVars, vars, pageVars

\* For any number of browsers, pages and tokens, through reloads, restarts,
\* logins over an older session, logouts in other pages and the password tool: a
\* page that shows the app and whose session lives is not answered 403, but for
\* one whose cookie another page of the browser has replaced since its load.
THEOREM AppViewWrites == AuthSpec => []AppViewCanWrite
<1> DEFINE AllPages == \A p \in Pages : PageInv(p)
<1>1. AuthInit => AllPages
  BY AuthAssumption DEF AuthInit, Init, PageInv, NoCookie
<1>2. AuthTyped /\ AuthTyped' /\ AllPages /\ [AuthNext]_vars => AllPages'
  BY PageStep
<1>3. AllPages => AppViewCanWrite
  <2> SUFFICES ASSUME AllPages, NEW p \in Pages, view[p] = "app", isAuthed(Browser[p]),
                      p \notin superseded
               PROVE  csrfOk(p)
    BY DEF AppViewCanWrite
  <2>1. sessionToken(Browser[p]) = jar[Browser[p]].token /\ Live(jar[Browser[p]].token)
    BY DEF isAuthed, Valid, sessionToken, Live
  <2>2. csrf[p] = sessionToken(Browser[p])
    BY <2>1 DEF PageInv
  <2> QED BY <2>2 DEF csrfOk, csrfFor, isAuthed, Valid
<1> HIDE DEF AllPages
<1> QED BY <1>1, <1>2, <1>3, AuthTypedInvariant, PTL DEF AuthSpec

=============================================================================
