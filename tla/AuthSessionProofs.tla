-------------------------- MODULE AuthSessionProofs --------------------------
(* Theorems about AuthSession and WireSession, for any threads and accounts. *)
EXTENDS WireSession, TLAPS

\* The token a thread holds at each step.
OpOK(o) ==
  /\ o.at \in {"idle", "refresh", "query", "activate", "load"} => o.tok = Nobody
  /\ o.at \in {"refreshDemo", "queryDemo", "activateDemo"} => o.tok = Demo
  /\ o.at \in {"refreshHttp", "refreshWrite", "queryHttp", "queryWrite",
               "activateHttp", "activateWrite"} => o.tok \in Users

\* Both tokens are always written together.
TokensPaired == auth.refresh = auth.access

\* Without an overlap, a token that is held is the token of the session.
HeldTokensCurrent ==
  ~overlap => \A t \in Threads : op[t].tok # Nobody => /\ auth.authenticated
                                                       /\ op[t].tok = auth.access

AuthInv == /\ TypeOK
           /\ \A t \in Threads : OpOK(op[t])
           /\ TokensPaired
           /\ SessionComplete
           /\ LicenseArmed
           /\ CoherentUnlessOverlap
           /\ HeldTokensCurrent

\* The part of the invariant that speaks of g_auth alone.
AuthOK(a) == /\ a \in Auths
             /\ a.refresh = a.access
             /\ a.authenticated => a.access \in Principals /\ a.tokenDue # "off"
             /\ a.hasLicense # Nobody => a.licenseDue # "off"

LEMMA AuthOKSuffices == AuthOK(auth) => TokensPaired /\ SessionComplete /\ LicenseArmed
BY DEF AuthOK, TokensPaired, SessionComplete, LicenseArmed

LEMMA AuthOKHolds == AuthInv => AuthOK(auth)
BY DEF AuthInv, TypeOK, AuthOK, TokensPaired, SessionComplete, LicenseArmed

\* What a thread goes to.
Place(step, tok, ans, lic) == [at |-> step, tok |-> tok, ans |-> ans, lic |-> lic]

LEMMA GoPlaces ==
  ASSUME AuthInv, NEW t \in Threads, NEW o \in Ops, OpOK(o), op' = [op EXCEPT ![t] = o]
  PROVE  /\ op' \in [Threads -> Ops]
         /\ \A s \in Threads : OpOK(op'[s])
         /\ op'[t] = o
         /\ \A s \in Threads : s # t => op'[s] = op[s]
BY DEF AuthInv, TypeOK

\* A step of thread t that leaves the owner of the session alone: g_auth stays
\* proper and coherent, and t holds no token or the token of the session.
LEMMA SameSession ==
  ASSUME AuthInv, NEW t \in Threads, NEW o \in Ops, OpOK(o), op' = [op EXCEPT ![t] = o],
         AuthOK(auth'), overlap' = overlap,
         server' \in {"up", "down"}, licensed' \in SUBSET Users,
         ~overlap => /\ auth'.authenticated = auth.authenticated
                     /\ auth'.login = auth.login
                     /\ auth'.access = auth.access
                     /\ ~auth.authenticated => auth' = auth
                     /\ auth'.hasLicense \in {Nobody, auth.login}
                     /\ auth'.ticket \in {Nobody, auth'.hasLicense}
                     /\ o.tok # Nobody => auth.authenticated /\ o.tok = auth.access
  PROVE  AuthInv'
<1>1. /\ op' \in [Threads -> Ops] /\ \A s \in Threads : OpOK(op'[s])
      /\ op'[t] = o /\ \A s \in Threads : s # t => op'[s] = op[s]
  BY GoPlaces
<1>2. TypeOK'
  BY <1>1 DEF AuthInv, TypeOK, AuthOK
<1>3. TokensPaired' /\ SessionComplete' /\ LicenseArmed'
  BY DEF AuthOK, TokensPaired, SessionComplete, LicenseArmed
<1>4. CoherentUnlessOverlap'
  BY DEF AuthInv, CoherentUnlessOverlap
<1>5. HeldTokensCurrent'
  BY <1>1 DEF AuthInv, HeldTokensCurrent
<1> QED BY <1>1, <1>2, <1>3, <1>4, <1>5 DEF AuthInv

\* A step of thread t that begins or ends a session, after which t holds no token.
LEMMA NewSession ==
  ASSUME AuthInv, NEW t \in Threads, NEW o \in Ops, OpOK(o), o.tok = Nobody,
         op' = [op EXCEPT ![t] = o],
         NEW a, Boundary(t, a), AuthOK(a),
         ~a.authenticated => a = Cleared,
         a.access = a.login, a.hasLicense = Nobody, a.ticket = Nobody,
         UNCHANGED <<server, licensed>>
  PROVE  AuthInv'
<1>1. /\ op' \in [Threads -> Ops] /\ \A s \in Threads : OpOK(op'[s])
      /\ op'[t] = o /\ \A s \in Threads : s # t => op'[s] = op[s]
  BY GoPlaces
<1>2. auth' = a /\ overlap' = (overlap \/ \E s \in Threads \ {t} : op[s].tok # Nobody)
  BY DEF Boundary
<1>3. TypeOK'
  BY <1>1, <1>2 DEF AuthInv, TypeOK, AuthOK
<1>4. TokensPaired' /\ SessionComplete' /\ LicenseArmed'
  BY <1>2 DEF AuthOK, TokensPaired, SessionComplete, LicenseArmed
<1>5. CoherentUnlessOverlap'
  BY <1>2 DEF CoherentUnlessOverlap
<1>6. ASSUME ~overlap', NEW s \in Threads PROVE op'[s].tok = Nobody
  BY <1>1, <1>2, <1>6
<1>7. HeldTokensCurrent'
  BY <1>6 DEF HeldTokensCurrent
<1> QED BY <1>1, <1>3, <1>4, <1>5, <1>7 DEF AuthInv

LEMMA InitAuthInv == Init => AuthInv
<1> SUFFICES ASSUME Init PROVE AuthInv
  OBVIOUS
<1>1. auth = Cleared /\ AuthOK(auth)
  BY DEF Init, Cleared, AuthOK, Auths, Owners, Deadlines
<1>2. op \in [Threads -> Ops] /\ \A t \in Threads : OpOK(op[t]) /\ op[t].tok = Nobody
  BY DEF Init, Idle, Ops, OpOK, Steps, Owners, Answers
<1>3. TypeOK
  BY <1>1, <1>2 DEF Init, TypeOK, AuthOK
<1>4. CoherentUnlessOverlap
  BY <1>1 DEF CoherentUnlessOverlap, Cleared
<1> QED BY <1>1, <1>2, <1>3, <1>4, AuthOKSuffices DEF AuthInv, HeldTokensCurrent
-----------------------------------------------------------------------------
\* The moves that drop the token, or take a copy of the session's.
LEMMA Moves ==
  /\ Idle \in Ops /\ OpOK(Idle) /\ Idle.tok = Nobody
  /\ \A step \in {"refresh", "query", "activate", "load"}, lic \in BOOLEAN :
       /\ Place(step, Nobody, "none", lic) \in Ops
       /\ OpOK(Place(step, Nobody, "none", lic))
       /\ Place(step, Nobody, "none", lic).tok = Nobody
  /\ \A step \in {"refreshDemo", "queryDemo", "activateDemo"}, lic \in BOOLEAN :
       /\ Place(step, Demo, "none", lic) \in Ops
       /\ OpOK(Place(step, Demo, "none", lic))
       /\ Place(step, Demo, "none", lic).tok = Demo
  /\ \A step \in {"refreshHttp", "refreshWrite", "queryHttp", "queryWrite",
                  "activateHttp", "activateWrite"},
        u \in Users, ans \in Answers, lic \in BOOLEAN :
       /\ Place(step, u, ans, lic) \in Ops
       /\ OpOK(Place(step, u, ans, lic))
       /\ Place(step, u, ans, lic).tok = u
BY AuthAssumption DEF Idle, Place, Ops, OpOK, Steps, Owners, Principals, Answers

\* How QueryLicenseStatus, ActivateLicense and RefreshTokens write g_auth.
LEMMA Writes ==
  ASSUME AuthInv
  PROVE  /\ \A p, w \in Owners, d \in Deadlines :
              (p # Nobody => d # "off") =>
                LET a == WithLicense(p, w, d)
                IN  /\ AuthOK(a) /\ a.hasLicense = p /\ a.ticket = w
                    /\ a.authenticated = auth.authenticated
                    /\ a.login = auth.login /\ a.access = auth.access
         /\ \A p \in Principals :
              LET a == WithTokens(p)
              IN  /\ AuthOK(a) /\ a.hasLicense = auth.hasLicense /\ a.ticket = auth.ticket
                  /\ a.authenticated = auth.authenticated
                  /\ a.login = auth.login /\ a.access = p
<1>1. AuthOK(auth) BY AuthOKHolds
<1>2. auth \in Auths BY <1>1 DEF AuthOK
<1>3. ASSUME NEW p \in Owners, NEW w \in Owners, NEW d \in Deadlines, p # Nobody => d # "off"
      PROVE  LET a == WithLicense(p, w, d)
             IN  /\ AuthOK(a) /\ a.hasLicense = p /\ a.ticket = w
                 /\ a.authenticated = auth.authenticated
                 /\ a.login = auth.login /\ a.access = auth.access
  BY <1>1, <1>2, <1>3 DEF AuthOK, WithLicense, Auths
<1>4. ASSUME NEW p \in Principals
      PROVE  LET a == WithTokens(p)
             IN  /\ AuthOK(a) /\ a.hasLicense = auth.hasLicense /\ a.ticket = auth.ticket
                 /\ a.authenticated = auth.authenticated
                 /\ a.login = auth.login /\ a.access = p
  BY <1>1, <1>2 DEF AuthOK, WithTokens, Auths, Owners, Deadlines
<1> QED BY <1>3, <1>4

\* What the invariant says of a session without an overlap.
LEMMA Coherence ==
  ASSUME AuthInv, ~overlap
  PROVE  /\ ~auth.authenticated => auth = Cleared
         /\ auth.access = auth.login
         /\ auth.hasLicense \in {Nobody, auth.login}
         /\ auth.ticket \in {Nobody, auth.hasLicense}
         /\ \A t \in Threads : op[t].tok # Nobody => auth.authenticated /\ op[t].tok = auth.access
         /\ auth.access # Nobody => auth.authenticated
BY DEF AuthInv, CoherentUnlessOverlap, HeldTokensCurrent, Cleared

LEMMA StepAuthInv == AuthInv /\ [Next]_vars => AuthInv'
<1> SUFFICES ASSUME AuthInv, [Next]_vars PROVE AuthInv'
  OBVIOUS
<1>a. AuthOK(auth) BY AuthOKHolds
<1>b. /\ auth \in Auths /\ op \in [Threads -> Ops]
      /\ server \in {"up", "down"} /\ licensed \in SUBSET Users /\ overlap \in BOOLEAN
      /\ Refresher \in Threads /\ Callers \subseteq Threads
      /\ Demo # Nobody /\ Nobody \notin Users /\ Demo \notin Users
      /\ Nobody \in Owners /\ Demo \in Principals /\ Users \subseteq Principals
      /\ Principals \subseteq Owners
  BY AuthAssumption DEF AuthInv, TypeOK, Threads, Owners, Principals
<1>o. ASSUME NEW t \in Threads
      PROVE  OpOK(op[t]) /\ op[t].lic \in BOOLEAN /\ op[t].ans \in Answers /\ op[t].tok \in Owners
  BY <1>b DEF AuthInv, Ops
<1>c. auth.authenticated \in BOOLEAN /\ auth.hasLicense \in Owners
      /\ auth.access \in Owners /\ auth.refresh = auth.access
  BY <1>a, <1>b DEF Auths, AuthOK
\* A step that leaves g_auth alone and moves t to a place without a token.
<1>n. ASSUME NEW t \in Threads, NEW o \in Ops, OpOK(o), o.tok = Nobody,
             op' = [op EXCEPT ![t] = o], UNCHANGED <<auth, server, licensed, overlap>>
      PROVE  AuthInv'
  BY <1>a, <1>b, <1>n, SameSession, Coherence
\* A step in which t copies the token of the session.
<1>k. ASSUME NEW t \in Threads, NEW o \in Ops, OpOK(o), o.tok = auth.access,
             op' = [op EXCEPT ![t] = o], UNCHANGED <<auth, server, licensed, overlap>>
      PROVE  AuthInv'
  BY <1>a, <1>b, <1>k, SameSession, Coherence
\* A step in which t keeps the token it holds.
<1>h. ASSUME NEW t \in Threads, NEW o \in Ops, OpOK(o), o.tok = op[t].tok,
             op' = [op EXCEPT ![t] = o], UNCHANGED <<auth, server, overlap>>,
             licensed' \in SUBSET Users
      PROVE  AuthInv'
  BY <1>a, <1>b, <1>h, SameSession, Coherence
\* A step in which t, which holds a token, writes the license and drops the token.
<1>w. ASSUME NEW t \in Threads, op[t].tok # Nobody, NEW p \in {Nobody, op[t].tok},
             NEW w \in {Nobody, p}, NEW d \in Deadlines, p # Nobody => d # "off",
             auth' = WithLicense(p, w, d),
             NEW o \in Ops, OpOK(o), o.tok = Nobody,
             op' = [op EXCEPT ![t] = o], UNCHANGED <<server, licensed, overlap>>
      PROVE  AuthInv'
  <2>1. p \in Owners /\ w \in Owners BY <1>o, <1>b
  <2>2. /\ AuthOK(auth') /\ auth'.hasLicense = p /\ auth'.ticket = w
        /\ auth'.authenticated = auth.authenticated
        /\ auth'.login = auth.login /\ auth'.access = auth.access
    BY <1>w, <2>1, Writes
  <2>3. ~overlap => auth.authenticated /\ p \in {Nobody, auth.login}
    BY <1>w, Coherence
  <2> QED BY <1>b, <1>w, <2>2, <2>3, SameSession
\* A step in which t, which holds a token, writes the tokens of its owner.
<1>r. ASSUME NEW t \in Threads, op[t].tok \in Principals,
             auth' = WithTokens(op[t].tok),
             NEW o \in Ops, OpOK(o), o.tok = Nobody,
             op' = [op EXCEPT ![t] = o], UNCHANGED <<server, licensed, overlap>>
      PROVE  AuthInv'
  <2>1. /\ AuthOK(auth') /\ auth'.hasLicense = auth.hasLicense /\ auth'.ticket = auth.ticket
        /\ auth'.authenticated = auth.authenticated
        /\ auth'.login = auth.login /\ auth'.access = op[t].tok
    BY <1>r, Writes
  <2>2. op[t].tok # Nobody
    BY <1>r, AuthAssumption DEF Principals
  <2>3. ~overlap => /\ auth.authenticated /\ op[t].tok = auth.access
                    /\ auth.hasLicense \in {Nobody, auth.login}
                    /\ auth.ticket \in {Nobody, auth.hasLicense}
    BY <2>2, Coherence
  <2> QED BY <1>b, <1>r, <2>1, <2>3, SameSession
<1>i. ASSUME NEW t \in Threads, op[t].at = "idle"
      PROVE  op[t].tok = Nobody
  BY <1>i, <1>o DEF OpOK
<1>s. ASSUME NEW c \in Callers, op[c].at = "idle", NEW a, Boundary(c, a), AuthOK(a),
             ~a.authenticated => a = Cleared, a.access = a.login, a.hasLicense = Nobody, a.ticket = Nobody,
             UNCHANGED <<op, server, licensed>>
      PROVE  AuthInv'
  <2>1. op[c] \in Ops /\ OpOK(op[c]) /\ op[c].tok = Nobody
    BY <1>b, <1>o, <1>i, <1>s
  <2>2. op' = [op EXCEPT ![c] = op[c]]
    BY <1>b, <1>s
  <2> QED BY <1>b, <1>s, <2>1, <2>2, NewSession
<1>d. PICK done \in Ops :
        /\ OpOK(done)
        /\ done.tok = Nobody
        /\ RefreshDone => op' = [op EXCEPT ![Refresher] = done]
  <2>1. CASE op[Refresher].lic
    BY <2>1, Moves DEF RefreshDone, Go, Place
  <2>2. CASE ~op[Refresher].lic
    BY <2>2, Moves DEF RefreshDone, Leave
  <2> QED BY <2>1, <2>2
<1>1. ASSUME NEW c \in Callers, NEW u \in Users, LoginAccepted(c, u) PROVE AuthInv'
  <2>1. AuthOK(SessionOf(u)) /\ SessionOf(u).authenticated
        /\ SessionOf(u).access = SessionOf(u).login
        /\ SessionOf(u).hasLicense = Nobody /\ SessionOf(u).ticket = Nobody
    BY <1>b DEF SessionOf, AuthOK, Auths, Deadlines
  <2> QED BY <1>1, <1>s, <2>1 DEF LoginAccepted
<1>2. ASSUME NEW c \in Callers, LoginDemo(c) PROVE AuthInv'
  <2>1. AuthOK(SessionOf(Demo)) /\ SessionOf(Demo).authenticated
        /\ SessionOf(Demo).access = SessionOf(Demo).login
        /\ SessionOf(Demo).hasLicense = Nobody /\ SessionOf(Demo).ticket = Nobody
    BY <1>b DEF SessionOf, AuthOK, Auths, Deadlines
  <2> QED BY <1>2, <1>s, <2>1 DEF LoginDemo
<1>3. AuthOK(Cleared) /\ ~Cleared.authenticated /\ Cleared.access = Cleared.login
      /\ Cleared.hasLicense = Nobody /\ Cleared.ticket = Nobody
  BY <1>b DEF Cleared, AuthOK, Auths, Deadlines
<1>4. ASSUME NEW c \in Callers, Logout(c) PROVE AuthInv'
  BY <1>3, <1>4, <1>s DEF Logout
<1>5. ASSUME NEW c \in Callers, GetLicenseStatus(c) \/ ActivateProduct(c) PROVE AuthInv'
  <2>1. PICK step \in {"query", "activate"} : op' = [op EXCEPT ![c] = Place(step, Nobody, "none", FALSE)]
    BY <1>5 DEF GetLicenseStatus, ActivateProduct, Go, Place
  <2>2. UNCHANGED <<auth, server, licensed, overlap>>
    BY <1>5 DEF GetLicenseStatus, ActivateProduct
  <2>3. /\ Place(step, Nobody, "none", FALSE) \in Ops
        /\ OpOK(Place(step, Nobody, "none", FALSE))
        /\ Place(step, Nobody, "none", FALSE).tok = Nobody
    BY Moves
  <2> QED BY <1>b, <1>n, <2>1, <2>2, <2>3
<1>6. CASE RefreshTick
  <2> DEFINE tokens == auth.authenticated /\ auth.tokenDue = "due"
             license == auth.authenticated /\ auth.hasLicense # Nobody /\ auth.licenseDue = "due"
             o == Place(IF tokens THEN "refresh" ELSE "query", Nobody, "none", tokens /\ license)
  <2>1. o \in Ops /\ OpOK(o) /\ o.tok = Nobody
    BY Moves
  <2>2. op' = [op EXCEPT ![Refresher] = o] /\ UNCHANGED <<auth, server, licensed, overlap>>
    BY <1>6 DEF RefreshTick, Go, Place
  <2> HIDE DEF o
  <2> QED BY <1>b, <1>n, <2>1, <2>2
<1>7. CASE RefreshCopy
  <2>1. UNCHANGED <<auth, server, licensed, overlap>> BY <1>7 DEF RefreshCopy
  <2>2. CASE auth.refresh = Nobody
    <3>1. RefreshDone BY <1>7, <1>b, <2>2 DEF RefreshCopy
    <3>2. op' = [op EXCEPT ![Refresher] = done] BY <3>1, <1>d
    <3> QED BY <1>b, <1>d, <1>n, <2>1, <3>2
  <2>3. CASE auth.refresh = Demo
    <3>1. op' = [op EXCEPT ![Refresher] = Place("refreshDemo", Demo, "none", op[Refresher].lic)]
      BY <1>7, <1>b, <2>3 DEF RefreshCopy, Go, Place
    <3>2. /\ Place("refreshDemo", Demo, "none", op[Refresher].lic) \in Ops
          /\ OpOK(Place("refreshDemo", Demo, "none", op[Refresher].lic))
          /\ Place("refreshDemo", Demo, "none", op[Refresher].lic).tok = auth.access
      BY <1>b, <1>c, <1>o, <2>3, Moves
    <3> QED BY <1>b, <1>k, <2>1, <3>1, <3>2
  <2>4. CASE auth.refresh # Nobody /\ auth.refresh # Demo
    <3>1. op' = [op EXCEPT ![Refresher] = Place("refreshHttp", auth.refresh, "none", op[Refresher].lic)]
      BY <1>7, <2>4 DEF RefreshCopy, Go, Place
    <3>2. auth.refresh \in Users BY <1>c, <2>4 DEF Owners, Principals
    <3>3. Place("refreshHttp", auth.refresh, "none", op[Refresher].lic) \in Ops
          /\ OpOK(Place("refreshHttp", auth.refresh, "none", op[Refresher].lic))
          /\ Place("refreshHttp", auth.refresh, "none", op[Refresher].lic).tok = auth.access
      BY <1>b, <1>c, <1>o, <3>2, Moves DEF Answers
    <3> QED BY <1>b, <1>k, <2>1, <3>1, <3>3
  <2> QED BY <2>2, <2>3, <2>4
<1>8. CASE RefreshDemoWrite
  <2>1. op[Refresher].tok = Demo BY <1>8, <1>b, <1>o DEF RefreshDemoWrite, OpOK
  <2>2. op' = [op EXCEPT ![Refresher] = done]
    BY <1>8, <1>d DEF RefreshDemoWrite
  <2>3. auth' = WithTokens(op[Refresher].tok) /\ UNCHANGED <<server, licensed, overlap>>
    BY <1>8, <2>1 DEF RefreshDemoWrite
  <2>4. op[Refresher].tok \in Principals BY <1>b, <2>1
  <2> QED BY <1>b, <1>d, <1>r, <2>2, <2>3, <2>4
<1>9. CASE RefreshWrite
  <2>1. op[Refresher].tok \in Users BY <1>9, <1>b, <1>o DEF RefreshWrite, OpOK
  <2>2. CASE op[Refresher].ans = "yes"
    <3>1. op' = [op EXCEPT ![Refresher] = done]
      BY <1>9, <1>d DEF RefreshWrite
    <3>2. auth' = WithTokens(op[Refresher].tok) /\ UNCHANGED <<server, licensed, overlap>>
      BY <1>9, <2>2 DEF RefreshWrite
    <3>3. op[Refresher].tok \in Principals BY <1>b, <2>1
    <3> QED BY <1>b, <1>d, <1>r, <3>1, <3>2, <3>3
  <2>3. CASE op[Refresher].ans = "failed"
    <3>1. op' = [op EXCEPT ![Refresher] = done]
      BY <1>9, <1>d DEF RefreshWrite
    <3>2. Boundary(Refresher, Cleared) /\ UNCHANGED <<server, licensed>>
      BY <1>9, <2>3 DEF RefreshWrite
    <3> QED BY <1>b, <1>d, <1>3, <3>1, <3>2, NewSession
  <2> QED BY <1>9, <2>2, <2>3 DEF RefreshWrite
<1>10. ASSUME NEW t \in Threads, QueryCopy(t) \/ ActivateCopy(t) PROVE AuthInv'
  <2>1. UNCHANGED <<auth, server, licensed, overlap>>
    BY <1>10 DEF QueryCopy, ActivateCopy
  <2>2. CASE auth.access = Nobody
    BY <1>10, <1>n, <1>b, <2>1, <2>2, Moves DEF QueryCopy, ActivateCopy, Leave
  <2>3. CASE auth.access = Demo
    <3>1. PICK step \in {"queryDemo", "activateDemo"} :
             op' = [op EXCEPT ![t] = Place(step, Demo, "none", FALSE)]
      BY <1>10, <1>b, <2>3 DEF QueryCopy, ActivateCopy, Go, Place
    <3>2. /\ Place(step, Demo, "none", FALSE) \in Ops
          /\ OpOK(Place(step, Demo, "none", FALSE))
          /\ Place(step, Demo, "none", FALSE).tok = auth.access
      BY <2>3, Moves
    <3> QED BY <1>b, <1>k, <2>1, <3>1, <3>2
  <2>4. CASE auth.access # Nobody /\ auth.access # Demo
    <3>1. PICK step \in {"queryHttp", "activateHttp"} :
             op' = [op EXCEPT ![t] = Place(step, auth.access, "none", FALSE)]
      BY <1>10, <2>4 DEF QueryCopy, ActivateCopy, Go, Place
    <3>2. auth.access \in Users BY <1>c, <2>4 DEF Owners, Principals
    <3>3. Place(step, auth.access, "none", FALSE) \in Ops
          /\ OpOK(Place(step, auth.access, "none", FALSE))
          /\ Place(step, auth.access, "none", FALSE).tok = auth.access
      <4>1. "none" \in Answers BY DEF Answers
      <4>2. CASE step = "queryHttp" BY <3>2, <4>1, <4>2, Moves
      <4>3. CASE step = "activateHttp" BY <3>2, <4>1, <4>3, Moves
      <4> QED BY <4>2, <4>3
    <3> QED BY <1>b, <1>k, <2>1, <3>1, <3>3
  <2> QED BY <2>2, <2>3, <2>4
<1>11. ASSUME NEW t \in Threads, QueryDemoWrite(t) PROVE AuthInv'
  <2>1. op[t].tok = Demo BY <1>11, <1>o DEF QueryDemoWrite, OpOK
  <2>2. AuthOK(auth') /\ auth'.authenticated = auth.authenticated /\ auth'.login = auth.login
        /\ auth'.access = auth.access /\ auth'.hasLicense = auth.hasLicense
        /\ auth'.ticket = auth.ticket
    BY <1>11, <1>a, <1>b DEF QueryDemoWrite, AuthOK, Auths, Deadlines
  <2>3. ~overlap => /\ auth.authenticated
                    /\ auth.hasLicense \in {Nobody, auth.login}
                    /\ auth.ticket \in {Nobody, auth.hasLicense}
    BY <1>b, <2>1, Coherence
  <2>4. op' = [op EXCEPT ![t] = Idle] /\ UNCHANGED <<server, licensed, overlap>>
    BY <1>11 DEF QueryDemoWrite, Leave
  <2> QED BY <1>b, <2>2, <2>3, <2>4, Moves, SameSession
<1>12. ASSUME NEW t \in Threads, QueryWrite(t) \/ ActivateWrite(t) PROVE AuthInv'
  <2>1. op[t].tok \in Users /\ op[t].tok # Nobody
    BY <1>12, <1>b, <1>o DEF QueryWrite, ActivateWrite, OpOK
  <2>2. UNCHANGED <<server, licensed, overlap>>
    BY <1>12 DEF QueryWrite, ActivateWrite
  <2>3. PICK o \in {Idle, Place("load", Nobody, "none", FALSE), Place("query", Nobody, "none", FALSE)} :
           op' = [op EXCEPT ![t] = o]
    BY <1>12 DEF QueryWrite, ActivateWrite, Go, Leave, Place
  <2>4. o \in Ops /\ OpOK(o) /\ o.tok = Nobody
    BY <2>3, Moves
  <2>5. CASE auth' = auth
    BY <1>b, <1>n, <2>2, <2>3, <2>4, <2>5
  <2>6. CASE auth' = WithLicense(op[t].tok, op[t].tok, "later")
    BY <1>b, <1>w, <2>1, <2>2, <2>3, <2>4, <2>6 DEF Deadlines
  <2>7. CASE \/ auth' = WithLicense(op[t].tok, Nobody, "later")
             \/ auth' = WithLicense(Nobody, Nobody, "later")
    BY <1>b, <1>w, <2>1, <2>2, <2>3, <2>4, <2>7 DEF Deadlines
  <2> QED BY <1>12, <2>5, <2>6, <2>7 DEF QueryWrite, ActivateWrite
<1>13. ASSUME NEW t \in Threads, Load(t) PROVE AuthInv'
  BY <1>13, <1>b, <1>n, Moves DEF Load, Leave
<1>14. ASSUME NEW t \in Threads, NEW code, ActivateDemoWrite(t, code) PROVE AuthInv'
  <2>1. op[t].tok = Demo BY <1>14, <1>o DEF ActivateDemoWrite, OpOK
  <2>2. CASE code = "DEMO-KEY"
    <3>1. auth' = WithLicense(Demo, Demo, "later")
          /\ op' = [op EXCEPT ![t] = Place("load", Nobody, "none", FALSE)]
          /\ UNCHANGED <<server, licensed, overlap>>
      BY <1>14, <2>2 DEF ActivateDemoWrite, Go, Place
    <3> QED BY <1>b, <1>w, <2>1, <3>1, Moves DEF Deadlines
  <2>3. CASE code \in {"EXPIRED-KEY", "BLOCKED-KEY"}
    <3>1. auth' = WithLicense(Nobody, Nobody, "off")
          /\ op' = [op EXCEPT ![t] = Idle]
          /\ UNCHANGED <<server, licensed, overlap>>
      BY <1>14, <2>3 DEF ActivateDemoWrite, Leave
    <3> QED BY <1>b, <1>w, <2>1, <3>1, Moves DEF Deadlines
  <2>4. CASE code = "other"
    BY <1>14, <1>b, <1>n, <2>4, Moves DEF ActivateDemoWrite, Leave
  <2> QED BY <1>14, <2>2, <2>3, <2>4 DEF ActivateDemoWrite
<1>15. ASSUME NEW t \in Threads, NEW ans \in Answers, Answer(t, ans) PROVE AuthInv'
  <2>1. op[t].tok \in Users BY <1>15, <1>o DEF Answer, OpOK
  <2>2. UNCHANGED <<auth, server, overlap>> /\ licensed' \in SUBSET Users
    BY <1>15, <1>b, <2>1 DEF Answer
  <2>3. PICK step \in {"refreshWrite", "queryWrite", "activateWrite"} :
           op' = [op EXCEPT ![t] = Place(step, op[t].tok, ans, op[t].lic)]
    BY <1>15 DEF Answer, Go, Place
  <2>4. Place(step, op[t].tok, ans, op[t].lic) \in Ops
        /\ OpOK(Place(step, op[t].tok, ans, op[t].lic))
        /\ Place(step, op[t].tok, ans, op[t].lic).tok = op[t].tok
    BY <1>o, <2>1, Moves
  <2> QED BY <1>b, <1>h, <2>2, <2>3, <2>4
<1>16. CASE TokenExpires \/ LicenseExpires
  <2>1. /\ AuthOK(auth') /\ auth'.authenticated = auth.authenticated /\ auth'.login = auth.login
        /\ auth'.access = auth.access /\ auth'.hasLicense = auth.hasLicense
        /\ auth'.ticket = auth.ticket
    BY <1>16, <1>a, <1>b DEF TokenExpires, LicenseExpires, AuthOK, Auths, Deadlines
  <2>2. ~overlap => auth.authenticated
    BY <1>16, <1>b, Coherence DEF TokenExpires, LicenseExpires, Cleared
  <2>3. UNCHANGED <<op, server, licensed, overlap>>
    BY <1>16 DEF TokenExpires, LicenseExpires
  <2>4. op' = [op EXCEPT ![Refresher] = op[Refresher]]
    BY <1>b, <2>3
  <2> QED BY <1>b, <1>o, <2>1, <2>2, <2>3, <2>4, Coherence, SameSession
<1>17. CASE ServerChanges \/ \E u \in Users : LicenseEnds(u)
  <2>1. UNCHANGED <<auth, op, overlap>> /\ server' \in {"up", "down"}
        /\ licensed' \in SUBSET Users
    BY <1>17, <1>b DEF ServerChanges, LicenseEnds
  <2> QED BY <1>a, <1>b, <2>1 DEF AuthInv, TypeOK, TokensPaired, SessionComplete, LicenseArmed,
              CoherentUnlessOverlap, HeldTokensCurrent, Cleared
<1>18. CASE UNCHANGED vars
  BY <1>18 DEF vars, AuthInv, TypeOK, TokensPaired, SessionComplete, LicenseArmed,
               CoherentUnlessOverlap, HeldTokensCurrent
<1> QED
  BY <1>1, <1>2, <1>4, <1>5, <1>6, <1>7, <1>8, <1>9, <1>10, <1>11, <1>12, <1>13, <1>14, <1>15,
     <1>16, <1>17, <1>18 DEF Next, Request, Work, Compute, RefreshWork, Environment

\* The variables of the session keep their types.
THEOREM TypeCorrect == Spec => []TypeOK
<1>1. AuthInv => TypeOK BY DEF AuthInv
<1> QED BY <1>1, InitAuthInv, StepAuthInv, PTL DEF Spec

\* An authenticated session is always one the refresh thread will keep alive.
THEOREM SessionAlive == Spec => []SessionComplete
<1>1. AuthInv => SessionComplete BY DEF AuthInv
<1> QED BY <1>1, InitAuthInv, StepAuthInv, PTL DEF Spec

\* A license in force is always one that is asked for again.
THEOREM LicenseStaysArmed == Spec => []LicenseArmed
<1>1. AuthInv => LicenseArmed BY DEF AuthInv
<1> QED BY <1>1, InitAuthInv, StepAuthInv, PTL DEF Spec

\* A session that mixes two accounts, or a license or token left behind by a
\* logout, always has the overlap of a session boundary with a request in flight
\* as its cause, whatever the number of calling threads.
THEOREM CoherentSession == Spec => []CoherentUnlessOverlap
<1>1. AuthInv => CoherentUnlessOverlap BY DEF AuthInv
<1> QED BY <1>1, InitAuthInv, StepAuthInv, PTL DEF Spec
-----------------------------------------------------------------------------
(* The session implements LicenseSession.                                   *)

\* What a login, a logout and other steps are to a client.
LEMMA BoundariesMap ==
  ASSUME AuthInv, NEW t \in Threads
  PROVE  /\ \A p \in Principals : Boundary(t, SessionOf(p)) => Session!Begin(p)
         /\ Boundary(t, Cleared) => Session!End
<1>1. Nobody \notin Principals
  BY AuthAssumption DEF Principals
<1>2. ASSUME NEW p \in Principals, Boundary(t, SessionOf(p)) PROVE Session!Begin(p)
  BY <1>2 DEF Boundary, SessionOf, Session!Begin, AuthInv, TypeOK
<1>3. ASSUME Boundary(t, Cleared) PROVE Session!End
  BY <1>3 DEF Boundary, Cleared, Session!End, AuthInv, TypeOK
<1> QED BY <1>2, <1>3

\* What the answers written by a thread that holds a token are to a client.
LEMMA WritesMap ==
  ASSUME AuthInv, NEW t \in Threads, op[t].tok \in Principals, UNCHANGED overlap
  PROVE  /\ \A p \in {Nobody, op[t].tok}, w \in Owners, d \in Deadlines :
              auth' = WithLicense(p, w, d) => Session!Decide(p)
         /\ auth' = WithTokens(op[t].tok) => Session!Retoken(op[t].tok)
<1>1. auth \in Auths /\ op[t].tok # Nobody
  BY AuthAssumption DEF AuthInv, TypeOK, Principals
<1>2. ~overlap => /\ auth.authenticated
                  /\ op[t].tok = auth.login
  BY <1>1, Coherence
<1>3. ASSUME NEW p \in {Nobody, op[t].tok}, NEW w \in Owners, NEW d \in Deadlines,
             auth' = WithLicense(p, w, d)
      PROVE  Session!Decide(p)
  <2>1. /\ auth'.hasLicense = p
        /\ auth'.authenticated = auth.authenticated
        /\ auth'.login = auth.login
        /\ auth'.access = auth.access
    BY <1>1, <1>3 DEF WithLicense, Auths
  <2> QED BY <1>1, <1>2, <2>1 DEF Session!Decide
<1>4. ASSUME auth' = WithTokens(op[t].tok)
      PROVE  Session!Retoken(op[t].tok)
  <2>1. /\ auth'.access = op[t].tok
        /\ auth'.hasLicense = auth.hasLicense
        /\ auth'.authenticated = auth.authenticated
        /\ auth'.login = auth.login
    BY <1>1, <1>4 DEF WithTokens, Auths
  <2> QED BY <1>1, <1>2, <2>1 DEF Session!Retoken
<1> QED BY <1>3, <1>4

LEMMA StepSession == AuthInv /\ [Next]_vars => [Session!SessionStep]_(Session!session)
<1> SUFFICES ASSUME AuthInv, [Next]_vars PROVE [Session!SessionStep]_(Session!session)
  OBVIOUS
<1>a. auth \in Auths /\ \A t \in Threads : op[t] \in Ops /\ OpOK(op[t])
  BY DEF AuthInv, TypeOK
<1>u. Refresher \in Threads /\ Demo \in Principals /\ Users \subseteq Principals
      /\ Principals \subseteq Owners /\ Nobody \in Owners /\ Callers \subseteq Threads
  BY DEF Threads, Principals, Owners
<1>o. Session!Owners = Owners
  BY DEF Session!Owners, Owners
<1>s. UNCHANGED <<auth, overlap>> => UNCHANGED Session!session
  BY DEF Session!session
\* A step of t that writes what it was told of the license.
<1>w. ASSUME NEW t \in Threads, op[t].tok \in Principals, UNCHANGED overlap,
             NEW p \in {Nobody, op[t].tok}, NEW w \in Owners, NEW d \in Deadlines,
             auth' = WithLicense(p, w, d)
      PROVE  Session!SessionStep
  <2>1. Session!Decide(p)
    BY <1>w, WritesMap
  <2>2. p \in Session!Owners
    BY <1>u, <1>o, <1>w
  <2> QED BY <2>1, <2>2 DEF Session!SessionStep
\* A step of t that writes the tokens it got.
<1>r. ASSUME NEW t \in Threads, op[t].tok \in Principals, UNCHANGED overlap,
             auth' = WithTokens(op[t].tok)
      PROVE  Session!SessionStep
  BY <1>r, WritesMap DEF Session!SessionStep
<1>b. ASSUME NEW t \in Threads, NEW p \in Principals, Boundary(t, SessionOf(p))
      PROVE  Session!SessionStep
  BY <1>b, BoundariesMap DEF Session!SessionStep
<1>c. ASSUME NEW t \in Threads, Boundary(t, Cleared) PROVE Session!SessionStep
  BY <1>c, BoundariesMap DEF Session!SessionStep
<1>1. ASSUME NEW c \in Callers, Request(c) PROVE [Session!SessionStep]_(Session!session)
  <2>1. ASSUME NEW u \in Users, LoginAccepted(c, u) PROVE Session!SessionStep
    BY <1>u, <1>b, <2>1 DEF LoginAccepted
  <2>2. CASE LoginDemo(c)
    BY <1>u, <1>b, <2>2 DEF LoginDemo
  <2>3. CASE Logout(c)
    BY <1>u, <1>c, <2>3 DEF Logout
  <2>4. CASE GetLicenseStatus(c) \/ ActivateProduct(c)
    BY <1>s, <2>4 DEF GetLicenseStatus, ActivateProduct
  <2> QED BY <1>1, <2>1, <2>2, <2>3, <2>4 DEF Request
<1>2. CASE RefreshWork
  <2>1. CASE RefreshTick \/ RefreshCopy
    BY <1>s, <2>1 DEF RefreshTick, RefreshCopy
  <2>2. CASE RefreshDemoWrite
    <3>1. op[Refresher].tok = Demo
      BY <1>a, <1>u, <2>2 DEF RefreshDemoWrite, OpOK
    <3> QED BY <1>r, <1>u, <2>2, <3>1 DEF RefreshDemoWrite
  <2>3. CASE RefreshWrite
    <3>1. op[Refresher].tok \in Principals
      BY <1>a, <1>u, <2>3 DEF RefreshWrite, OpOK
    <3>2. \/ auth' = WithTokens(op[Refresher].tok) /\ UNCHANGED overlap
          \/ Boundary(Refresher, Cleared)
      BY <2>3 DEF RefreshWrite
    <3> QED BY <1>c, <1>r, <1>u, <3>1, <3>2
  <2> QED BY <1>2, <2>1, <2>2, <2>3 DEF RefreshWork
<1>3. ASSUME NEW t \in Threads, Work(t) PROVE [Session!SessionStep]_(Session!session)
  <2>1. CASE QueryCopy(t) \/ ActivateCopy(t) \/ Load(t) \/ \E ans \in Answers : Answer(t, ans)
    BY <1>s, <2>1 DEF QueryCopy, ActivateCopy, Load, Answer
  <2>2. CASE QueryDemoWrite(t)
    <3>1. auth' = [auth EXCEPT !.licenseDue = IF auth.hasLicense # Nobody THEN "later" ELSE "off"]
          /\ UNCHANGED overlap
      BY <2>2 DEF QueryDemoWrite
    <3>2. /\ auth'.hasLicense = auth.hasLicense
          /\ auth'.authenticated = auth.authenticated
          /\ auth'.login = auth.login
          /\ auth'.access = auth.access
      BY <1>a, <3>1 DEF Auths
    <3> QED BY <3>1, <3>2 DEF Session!session
  <2>3. CASE QueryWrite(t) \/ ActivateWrite(t)
    <3>1. op[t].tok \in Principals /\ op[t].tok \in Owners
      BY <1>a, <1>u, <2>3 DEF QueryWrite, ActivateWrite, OpOK
    <3>2. UNCHANGED overlap /\ "later" \in Deadlines
      BY <2>3 DEF QueryWrite, ActivateWrite, Deadlines
    <3>3. CASE auth' = auth
      BY <1>s, <3>2, <3>3
    <3>4. CASE auth' = WithLicense(op[t].tok, op[t].tok, "later")
      BY <1>w, <3>1, <3>2, <3>4
    <3>5. CASE auth' = WithLicense(op[t].tok, Nobody, "later")
      BY <1>u, <1>w, <3>1, <3>2, <3>5
    <3>6. CASE auth' = WithLicense(Nobody, Nobody, "later")
      BY <1>u, <1>w, <3>1, <3>2, <3>6
    <3> QED BY <2>3, <3>3, <3>4, <3>5, <3>6 DEF QueryWrite, ActivateWrite
  <2>4. ASSUME NEW code \in {"DEMO-KEY", "EXPIRED-KEY", "BLOCKED-KEY", "other"},
               ActivateDemoWrite(t, code)
        PROVE  [Session!SessionStep]_(Session!session)
    <3>1. op[t].tok = Demo
      BY <1>a, <2>4 DEF ActivateDemoWrite, OpOK
    <3>2. UNCHANGED overlap /\ "later" \in Deadlines /\ "off" \in Deadlines
      BY <2>4 DEF ActivateDemoWrite, Deadlines
    <3>3. CASE auth' = auth
      BY <1>s, <3>2, <3>3
    <3>4. CASE auth' = WithLicense(Demo, Demo, "later")
      BY <1>u, <1>w, <3>1, <3>2, <3>4
    <3>5. CASE auth' = WithLicense(Nobody, Nobody, "off")
      BY <1>u, <1>w, <3>1, <3>2, <3>5
    <3> QED BY <2>4, <3>3, <3>4, <3>5 DEF ActivateDemoWrite
  <2> QED BY <1>3, <2>1, <2>2, <2>3, <2>4 DEF Work, Compute
<1>4. CASE TokenExpires \/ LicenseExpires
  <2>1. /\ auth'.hasLicense = auth.hasLicense
        /\ auth'.authenticated = auth.authenticated
        /\ auth'.login = auth.login
        /\ auth'.access = auth.access
        /\ UNCHANGED overlap
    BY <1>a, <1>4 DEF TokenExpires, LicenseExpires, Auths
  <2> QED BY <2>1 DEF Session!session
<1>5. CASE ServerChanges \/ \E u \in Users : LicenseEnds(u)
  BY <1>s, <1>5 DEF ServerChanges, LicenseEnds
<1>6. CASE UNCHANGED vars
  BY <1>s, <1>6 DEF vars
<1> QED BY <1>1, <1>2, <1>3, <1>4, <1>5, <1>6 DEF Next, Environment

\* Whatever calls overlap, every step of the service's threads on g_auth is, to a
\* client, the begin or the end of a session, a decision on the license or a refresh
\* of the tokens that leaves the user alone, or nothing; unless calls overlap a
\* boundary of the session, the license and the tokens are those of its user.
THEOREM AuthImplementsLicenseSession == Spec => ImplementsLicenseSession
<1>1. Init => Session!SessionInit
  BY DEF Init, Cleared, Session!SessionInit
<1> QED BY <1>1, InitAuthInv, StepAuthInv, StepSession, PTL
       DEF Spec, ImplementsLicenseSession, Session!SessionSpec
-----------------------------------------------------------------------------
(* Reading a reply                                                          *)

\* What makes a text unambiguous to search: no two members have the same key, and
\* no value but its own reads like a key.
Clear(object) ==
  /\ Len(object) \in Nat /\ DOMAIN object = 1..Len(object)
  /\ \A i \in DOMAIN object : object[i][2].kind \in {"quoted", "number"}
  /\ \A i, j \in DOMAIN object : object[i][1] = object[j][1] => i = j
  /\ \A i, j \in DOMAIN object : object[i][2] = Quoted(object[j][1]) => i = j

\* A value is never a colon, nor is a key.
LEMMA TokensDiffer ==
  /\ \A s, r : Quoted(s) = Quoted(r) => s = r
  /\ \A s : Quoted(s) # Colon /\ Quoted(s).kind = "quoted"
  /\ Colon.kind = "colon"
<1>1. \A s, r : Quoted(s) = Quoted(r) => s = r
  <2> SUFFICES ASSUME NEW s, NEW r, Quoted(s) = Quoted(r) PROVE s = r
    OBVIOUS
  <2>1. Quoted(s).text = s /\ Quoted(r).text = r
    BY DEF Quoted
  <2> QED BY <2>1
<1>2. Colon.kind = "colon"
  BY DEF Colon
<1>3. \A s : Quoted(s).kind = "quoted"
  BY DEF Quoted
<1> QED BY <1>1, <1>2, <1>3

\* The tokens of the text, by the member they come from.
LEMMA TextTokens ==
  ASSUME NEW object, Clear(object), NEW k \in DOMAIN object
  PROVE  /\ 3*k - 2 \in DOMAIN Text(object) /\ Text(object)[3*k - 2] = Quoted(object[k][1])
         /\ 3*k - 1 \in DOMAIN Text(object) /\ Text(object)[3*k - 1] = Colon
         /\ 3*k \in DOMAIN Text(object) /\ Text(object)[3*k] = object[k][2]
<1> DEFINE n == Len(object)
<1>1. n \in Nat /\ DOMAIN object = 1..n /\ k \in 1..n
  BY DEF Clear
<1>2. Text(object) = [i \in 1..3 * n |->
     LET member == object[(i + 2) \div 3]
     IN  CASE i % 3 = 1 -> Quoted(member[1])
           [] i % 3 = 2 -> Colon
           [] i % 3 = 0 -> member[2]]
  BY DEF Text
<1> HIDE DEF n
<1>3. 3*k - 2 \in 1..3*n /\ 3*k - 1 \in 1..3*n /\ 3*k \in 1..3*n
  BY <1>1
<1>4. ((3*k - 2) + 2) \div 3 = k /\ (3*k - 2) % 3 = 1
  BY <1>1
<1>5. ((3*k - 1) + 2) \div 3 = k /\ (3*k - 1) % 3 = 2
  BY <1>1
<1>6. (3*k + 2) \div 3 = k /\ (3*k) % 3 = 0
  BY <1>1
<1>7. Text(object)[3*k - 2] = Quoted(object[k][1])
  BY <1>2, <1>3, <1>4
<1>8. Text(object)[3*k - 1] = Colon
  BY <1>2, <1>3, <1>5
<1>9. Text(object)[3*k] = object[k][2]
  BY <1>2, <1>3, <1>6
<1> QED BY <1>2, <1>3, <1>7, <1>8, <1>9

LEMMA TextSplit ==
  ASSUME NEW object, Clear(object), NEW i \in DOMAIN Text(object)
  PROVE  \E k \in DOMAIN object : i \in {3*k - 2, 3*k - 1, 3*k}
<1> DEFINE n == Len(object)
<1>1. n \in Nat /\ DOMAIN object = 1..n
  BY DEF Clear
<1>2. i \in 1..3 * n
  BY DEF Text
<1> HIDE DEF n
<1>3. (i + 2) \div 3 \in 1..n /\ i \in {3*((i + 2) \div 3) - 2, 3*((i + 2) \div 3) - 1, 3*((i + 2) \div 3)}
  BY <1>1, <1>2
<1> QED BY <1>1, <1>3

LEMMA TextMembers ==
  ASSUME NEW object, Clear(object)
  PROVE  \A i \in DOMAIN Text(object) : \E j \in DOMAIN object :
           \/ i = 3*j - 2 /\ Text(object)[i] = Quoted(object[j][1])
           \/ i = 3*j - 1 /\ Text(object)[i] = Colon
           \/ i = 3*j /\ Text(object)[i] = object[j][2]
<1> DEFINE T == Text(object)
<1> SUFFICES ASSUME NEW i \in DOMAIN T
             PROVE  \E j \in DOMAIN object :
                      \/ i = 3*j - 2 /\ T[i] = Quoted(object[j][1])
                      \/ i = 3*j - 1 /\ T[i] = Colon
                      \/ i = 3*j /\ T[i] = object[j][2]
  OBVIOUS
<1>1. PICK j \in DOMAIN object : i \in {3*j - 2, 3*j - 1, 3*j}
  BY TextSplit
<1>2. /\ T[3*j - 2] = Quoted(object[j][1])
      /\ T[3*j - 1] = Colon
      /\ T[3*j] = object[j][2]
  BY TextTokens
<1> HIDE DEF T
<1>3. \/ i = 3*j - 2 /\ T[i] = Quoted(object[j][1])
      \/ i = 3*j - 1 /\ T[i] = Colon
      \/ i = 3*j /\ T[i] = object[j][2]
  BY <1>1, <1>2
<1> QED BY <1>3

\* The length of a text: what ExtractJsonLong may look at after a colon.
LEMMA TextLength ==
  ASSUME NEW object, Clear(object)
  PROVE  /\ Len(object) \in Nat /\ DOMAIN object = 1..Len(object)
         /\ DOMAIN Text(object) = 1..3 * Len(object)
         /\ Len(Text(object)) = 3 * Len(object)
<1> DEFINE n == Len(object)
<1>1. n \in Nat /\ DOMAIN object = 1..n
  BY DEF Clear
<1>2. DOMAIN Text(object) = 1..3 * n
  BY DEF Text
<1> HIDE DEF n
<1>3. 3 * n \in Nat
  BY <1>1
<1>4. Len(Text(object)) = 3 * n
  BY <1>2, <1>3
<1> QED BY <1>1, <1>2, <1>4 DEF n

\* json.find of a character stops at the first one.
LEMMA FindFirst ==
  ASSUME NEW positions \in SUBSET Nat, NEW from \in Nat \ {0}, NEW p \in positions,
         p >= from, \A q \in positions : q >= from => p <= q
  PROVE  Find(positions, from) = p
<1> DEFINE hits == {i \in positions : i >= from}
<1>1. p \in hits /\ \A q \in hits : q \in Nat /\ p <= q
  OBVIOUS
<1>2. \A q \in hits : (\A j \in hits : q <= j) => q = p
  BY <1>1
<1>3. (CHOOSE i \in hits : \A j \in hits : i <= j) = p
  BY <1>1, <1>2
<1> QED BY <1>1, <1>3 DEF Find

\* In a clear text the search for a key finds its own member, wherever it stands.
LEMMA KeyFound ==
  ASSUME NEW object, Clear(object), NEW k \in DOMAIN object
  PROVE  /\ ColonAfter(Text(object), object[k][1]) = 3*k - 1
         /\ Find(Quotes(Text(object)), 3*k - 1) = 3*k \/ object[k][2].kind = "number"
<1> DEFINE T == Text(object)
           key == object[k][1]
<1>1. k \in Nat \ {0} /\ DOMAIN object \subseteq Nat \ {0} /\ DOMAIN T \subseteq Nat
  BY TextLength
<1>2. /\ 3*k - 2 \in DOMAIN T /\ T[3*k - 2] = Quoted(key)
      /\ 3*k - 1 \in DOMAIN T /\ T[3*k - 1] = Colon
      /\ 3*k \in DOMAIN T /\ T[3*k] = object[k][2]
  BY TextTokens
<1>3. \A i \in DOMAIN T : \E j \in DOMAIN object :
        \/ i = 3*j - 2 /\ T[i] = Quoted(object[j][1])
        \/ i = 3*j - 1 /\ T[i] = Colon
        \/ i = 3*j /\ T[i] = object[j][2]
  BY TextMembers
<1>4. \A j \in DOMAIN object : /\ object[j][2].kind \in {"quoted", "number"}
                               /\ object[j][1] = key => j = k
                               /\ object[j][2] = Quoted(key) => j = k
  BY DEF Clear
<1> HIDE DEF T, key
<1>5. Find(Keys(T, key), 1) = 3*k - 2
  <2>1. \A i \in Keys(T, key) : i >= 3*k - 2
    <3> SUFFICES ASSUME NEW i \in Keys(T, key) PROVE i >= 3*k - 2
      OBVIOUS
    <3>1. i \in DOMAIN T /\ T[i] = Quoted(key)
      BY DEF Keys
    <3>2. PICK j \in DOMAIN object :
            \/ i = 3*j - 2 /\ T[i] = Quoted(object[j][1])
            \/ i = 3*j - 1 /\ T[i] = Colon
            \/ i = 3*j /\ T[i] = object[j][2]
      BY <1>3, <3>1
    <3>3. j = k
      <4>1. CASE T[i] = Quoted(object[j][1])
        BY <1>4, <3>1, <4>1, TokensDiffer
      <4>2. CASE T[i] = Colon
        BY <3>1, <4>2, TokensDiffer
      <4>3. CASE T[i] = object[j][2]
        BY <1>4, <3>1, <4>3
      <4> QED BY <3>2, <4>1, <4>2, <4>3
    <3> QED BY <1>1, <3>2, <3>3
  <2>2. 3*k - 2 \in Keys(T, key) /\ Keys(T, key) \in SUBSET Nat /\ 3*k - 2 >= 1
    BY <1>1, <1>2 DEF Keys
  <2> QED BY <1>1, <2>1, <2>2, FindFirst
<1>6. Find(Colons(T), 3*k - 2) = 3*k - 1
  <2>1. 3*k - 1 \in Colons(T) /\ 3*k - 2 \notin Colons(T) /\ Colons(T) \in SUBSET Nat
    BY <1>1, <1>2, TokensDiffer DEF Colons
  <2>2. 3*k - 2 \in Nat \ {0} /\ 3*k - 1 >= 3*k - 2
    BY <1>1
  <2>3. \A q \in Colons(T) : q >= 3*k - 2 => 3*k - 1 <= q
    BY <1>1, <2>1
  <2> QED BY <2>1, <2>2, <2>3, FindFirst
<1>7. Find(Quotes(T), 3*k - 1) = 3*k \/ object[k][2].kind = "number"
  <2> SUFFICES ASSUME object[k][2].kind # "number" PROVE Find(Quotes(T), 3*k - 1) = 3*k
    OBVIOUS
  <2>1. object[k][2].kind = "quoted"
    BY <1>4
  <2>2. 3*k \in Quotes(T) /\ 3*k - 1 \notin Quotes(T) /\ Quotes(T) \in SUBSET Nat
    BY <1>1, <1>2, <2>1, TokensDiffer DEF Quotes
  <2>3. 3*k - 1 \in Nat \ {0} /\ 3*k >= 3*k - 1
    BY <1>1
  <2>4. \A q \in Quotes(T) : q >= 3*k - 1 => 3*k <= q
    BY <1>1, <2>2
  <2> QED BY <2>2, <2>3, <2>4, FindFirst
<1> QED BY <1>5, <1>6, <1>7 DEF ColonAfter, T, key

\* What is extracted for the key of a member is the member's value.
LEMMA MemberRead ==
  ASSUME NEW object, Clear(object), NEW k \in DOMAIN object, NEW fallback
  PROVE  /\ object[k][2].kind = "quoted" =>
              ExtractJsonString(Text(object), object[k][1]) = object[k][2].text
         /\ object[k][2].kind = "number" =>
              ExtractJsonLong(Text(object), object[k][1], fallback) = object[k][2].value
<1> DEFINE T == Text(object)
           key == object[k][1]
<1>1. k \in Nat \ {0} /\ k <= Len(object) /\ Len(object) \in Nat /\ Len(T) = 3 * Len(object)
  BY TextLength
<1>2. T[3*k] = object[k][2]
  BY TextTokens
<1>3. /\ ColonAfter(T, key) = 3*k - 1
      /\ Find(Quotes(T), 3*k - 1) = 3*k \/ object[k][2].kind = "number"
  BY KeyFound
<1>4. 3*k # 0 /\ 3*k - 1 \in 1..(Len(T) - 1) /\ 3*k - 1 + 1 = 3*k
  BY <1>1
<1> HIDE DEF T, key
<1>5. object[k][2].kind = "quoted" => ExtractJsonString(T, key) = object[k][2].text
  BY <1>2, <1>3, <1>4 DEF ExtractJsonString
<1>6. object[k][2].kind = "number" => ExtractJsonLong(T, key, fallback) = object[k][2].value
  BY <1>2, <1>3, <1>4 DEF ExtractJsonLong
<1> QED BY <1>5, <1>6 DEF T, key

\* For a key that nothing in the text reads like, nothing is extracted.
LEMMA AbsentRead ==
  ASSUME NEW object, Clear(object), NEW key, NEW fallback,
         \A k \in DOMAIN object : object[k][1] # key /\ object[k][2] # Quoted(key)
  PROVE  /\ ExtractJsonString(Text(object), key) = Empty
         /\ ExtractJsonLong(Text(object), key, fallback) = fallback
<1> DEFINE T == Text(object)
<1>1. Keys(T, key) = {}
  <2> SUFFICES ASSUME NEW i \in DOMAIN T, T[i] = Quoted(key) PROVE FALSE
    BY DEF Keys
  <2>1. PICK j \in DOMAIN object :
          \/ i = 3*j - 2 /\ T[i] = Quoted(object[j][1])
          \/ i = 3*j - 1 /\ T[i] = Colon
          \/ i = 3*j /\ T[i] = object[j][2]
    BY TextMembers
  <2> QED BY <2>1, TokensDiffer
<1> HIDE DEF T
<1>2. ColonAfter(T, key) = 0
  BY <1>1 DEF ColonAfter, Find
<1> QED BY <1>2 DEF ExtractJsonString, ExtractJsonLong, Find, T

-----------------------------------------------------------------------------
(* Replies in any order                                                     *)

LEMMA OrdersKeep ==
  ASSUME NEW base, Clear(base), Len(base) \in 3..5, NEW object \in Orders(base)
  PROVE  /\ Clear(object)
         /\ \A k \in DOMAIN base : \E i \in DOMAIN object : object[i] = base[k]
         /\ \A i \in DOMAIN object : \E k \in DOMAIN base : object[i] = base[k]
<1> DEFINE n == Len(base)
<1>1. n \in Nat /\ DOMAIN base = 1..n
  BY DEF Clear
<1>2. PICK p \in Arrangements[n] : object = [i \in 1..n |-> base[p[i]]]
  BY <1>1 DEF Orders
<1>3. /\ p \in [1..n -> 1..n]
      /\ \A i, j \in 1..n : p[i] = p[j] => i = j
      /\ \A k \in 1..n : \E i \in 1..n : p[i] = k
  <2>1. p \in Bijection(1..n, 1..n)
    BY <1>2, ArrangementsAssumption
  <2>2. p \in [1..n -> 1..n] /\ IsInjective(p) /\ \A k \in 1..n : \E i \in 1..n : p[i] = k
    BY <2>1 DEF Bijection, Injection, Surjection
  <2> QED BY <2>2 DEF IsInjective
<1>4. \A i \in 1..n : base[i][2].kind \in {"quoted", "number"}
  BY <1>1 DEF Clear
<1>5. /\ \A i, j \in 1..n : base[i][1] = base[j][1] => i = j
      /\ \A i, j \in 1..n : base[i][2] = Quoted(base[j][1]) => i = j
  BY <1>1 DEF Clear
<1> HIDE DEF n
<1>6. DOMAIN object = 1..n /\ \A i \in 1..n : p[i] \in 1..n /\ object[i] = base[p[i]]
  BY <1>2, <1>3
<1>7. /\ Len(object) = n /\ DOMAIN object = 1..n
      /\ \A i \in DOMAIN object : object[i][2].kind \in {"quoted", "number"}
  <2>1. Len(object) = n
    BY <1>1, <1>6
  <2>2. \A i \in DOMAIN object : object[i][2].kind \in {"quoted", "number"}
    BY <1>4, <1>6
  <2> QED BY <1>6, <2>1, <2>2
<1>8. ASSUME NEW i \in DOMAIN object, NEW j \in DOMAIN object
      PROVE  /\ object[i][1] = object[j][1] => i = j
             /\ object[i][2] = Quoted(object[j][1]) => i = j
  <2>1. p[i] \in 1..n /\ p[j] \in 1..n /\ object[i] = base[p[i]] /\ object[j] = base[p[j]]
    BY <1>6
  <2>2. /\ base[p[i]][1] = base[p[j]][1] => p[i] = p[j]
        /\ base[p[i]][2] = Quoted(base[p[j]][1]) => p[i] = p[j]
    BY <1>5, <2>1
  <2>3. p[i] = p[j] => i = j
    BY <1>3, <1>6
  <2> QED BY <2>1, <2>2, <2>3
<1>10. \A k \in DOMAIN base : \E i \in DOMAIN object : object[i] = base[k]
  BY <1>1, <1>3, <1>6 DEF n
<1>11. \A i \in DOMAIN object : \E k \in DOMAIN base : object[i] = base[k]
  BY <1>1, <1>6 DEF n
<1>9. Clear(object)
  BY <1>1, <1>7, <1>8 DEF Clear
<1> QED BY <1>9, <1>10, <1>11

\* What is extracted does not depend on the order.
LEMMA ReadInAnyOrder ==
  ASSUME NEW base, Clear(base), Len(base) \in 3..5, NEW object \in Orders(base),
         NEW k \in DOMAIN base, NEW fallback
  PROVE  /\ base[k][2].kind = "quoted" =>
              ExtractJsonString(Text(object), base[k][1]) = base[k][2].text
         /\ base[k][2].kind = "number" =>
              ExtractJsonLong(Text(object), base[k][1], fallback) = base[k][2].value
<1>1. Clear(object) /\ \E i \in DOMAIN object : object[i] = base[k]
  BY OrdersKeep
<1>2. PICK i \in DOMAIN object : object[i] = base[k]
  BY <1>1
<1>3. /\ object[i][2].kind = "quoted" =>
           ExtractJsonString(Text(object), object[i][1]) = object[i][2].text
      /\ object[i][2].kind = "number" =>
           ExtractJsonLong(Text(object), object[i][1], fallback) = object[i][2].value
  BY <1>1, MemberRead
<1> QED BY <1>2, <1>3

LEMMA AbsentInAnyOrder ==
  ASSUME NEW base, Clear(base), Len(base) \in 3..5, NEW object \in Orders(base), NEW key,
         \A k \in DOMAIN base : base[k][1] # key /\ base[k][2] # Quoted(key)
  PROVE  ExtractJsonString(Text(object), key) = Empty
<1>1. Clear(object) /\ \A i \in DOMAIN object : \E k \in DOMAIN base : object[i] = base[k]
  BY OrdersKeep
<1>2. \A i \in DOMAIN object : object[i][1] # key /\ object[i][2] # Quoted(key)
  BY <1>1
<1> QED BY <1>1, <1>2, AbsentRead


-----------------------------------------------------------------------------
(* The replies of the server                                                *)

LEMMA ValuesAre ==
  /\ \A s : Quoted(s).kind = "quoted" /\ Quoted(s).text = s
  /\ \A n : Number(n).kind = "number" /\ Number(n).value = n
  /\ \A n, s : Number(n) # Quoted(s)
<1>1. \A s : Quoted(s).kind = "quoted" /\ Quoted(s).text = s
  BY DEF Quoted
<1>2. \A n : Number(n).kind = "number" /\ Number(n).value = n
  BY DEF Number
<1> QED BY <1>1, <1>2

\* The empty text reads like no key and no value.
LEMMA EmptyDiffers ==
  /\ Empty # "accessToken" /\ Empty # "refreshToken" /\ Empty # "accessExpiresIn"
  /\ Empty # "hasLicense" /\ Empty # "ticket" /\ Empty # "expiresAt"
  /\ Empty # "licenseExpiresIn" /\ Empty # "signature" /\ Empty # "token" /\ Empty # "date"
BY Zenon DEF Empty

\* The members of a reply to a refresh.
RefreshMembers(access, life) ==
  << <<"accessToken", Quoted(access)>>, <<"refreshToken", Quoted("token")>>,
     <<"accessExpiresIn", Number(life)>> >>

LEMMA RefreshClear ==
  ASSUME NEW access \in {"token", Empty}, NEW life
  PROVE  /\ Clear(RefreshMembers(access, life))
         /\ Len(RefreshMembers(access, life)) = 3
<1> DEFINE base == RefreshMembers(access, life)
<1>1. /\ Len(base) = 3 /\ DOMAIN base = 1..3
      /\ base[1] = <<"accessToken", Quoted(access)>>
      /\ base[2] = <<"refreshToken", Quoted("token")>>
      /\ base[3] = <<"accessExpiresIn", Number(life)>>
  BY DEF RefreshMembers
<1> HIDE DEF base
<1>2. /\ base[1][1] = "accessToken" /\ base[1][2] = Quoted(access)
      /\ base[2][1] = "refreshToken" /\ base[2][2] = Quoted("token")
      /\ base[3][1] = "accessExpiresIn" /\ base[3][2] = Number(life)
  BY <1>1
<1>3. \A i \in DOMAIN base : base[i][2].kind \in {"quoted", "number"}
  BY <1>1, <1>2, ValuesAre
<1>4. \A i, j \in DOMAIN base : base[i][1] = base[j][1] => i = j
  BY <1>1, <1>2
<1>5. \A i, j \in DOMAIN base : base[i][2] # Quoted(base[j][1])
  <2>1. \A j \in DOMAIN base : base[j][1] \notin {access, "token"}
    BY <1>1, <1>2, EmptyDiffers
  <2>2. \A i \in DOMAIN base : \/ \E s \in {access, "token"} : base[i][2] = Quoted(s)
                               \/ base[i][2] = Number(life)
    BY <1>1, <1>2
  <2> QED BY <2>1, <2>2, TokensDiffer, ValuesAre
<1> QED BY <1>1, <1>3, <1>4, <1>5 DEF Clear, base

\* A refresh is understood to have failed if the access token is missing in the
\* reply, and only then, in whatever order the reply is written.
THEOREM RefreshUnderstood ==
  \A access \in {"token", Empty}, life \in Lives :
    \A object \in Orders(RefreshMembers(access, life)) :
      Understood("refreshHttp", object) = IF access = Empty THEN "failed" ELSE "yes"
<1> SUFFICES ASSUME NEW access \in {"token", Empty}, NEW life \in Lives,
                    NEW object \in Orders(RefreshMembers(access, life))
             PROVE  Understood("refreshHttp", object) = IF access = Empty THEN "failed" ELSE "yes"
  OBVIOUS
<1> DEFINE base == RefreshMembers(access, life)
<1>1. Clear(base) /\ Len(base) \in 3..5
  BY RefreshClear, LivesAssumption
<1>2. /\ 1 \in DOMAIN base /\ base[1][1] = "accessToken" /\ base[1][2] = Quoted(access)
      /\ 2 \in DOMAIN base /\ base[2][1] = "refreshToken" /\ base[2][2] = Quoted("token")
  BY DEF RefreshMembers
<1> HIDE DEF base
<1>3. object \in Orders(base)
  BY DEF base
<1>4. /\ base[1][2].kind = "quoted" /\ base[1][2].text = access
      /\ base[2][2].kind = "quoted" /\ base[2][2].text = "token"
  BY <1>2, ValuesAre
<1>5. ExtractJsonString(Text(object), "accessToken") = access
  BY <1>1, <1>2, <1>3, <1>4, ReadInAnyOrder
<1>6. ExtractJsonString(Text(object), "refreshToken") = "token"
  BY <1>1, <1>2, <1>3, <1>4, ReadInAnyOrder
<1> QED BY <1>5, <1>6 DEF Understood


\* The members of a status with and without the ticket.
Has(active) == <<"hasLicense", Number(IF active THEN 1 ELSE 0)>>
Ticket(active) == <<"ticket", Quoted(IF active THEN "ticket" ELSE Empty)>>
Expires(active) == <<"expiresAt", Quoted(IF active THEN "date" ELSE Empty)>>
Life(active) == <<"licenseExpiresIn", Number(IF active THEN 120 ELSE 60)>>

LEMMA StatusRepliesAre ==
  \A active \in BOOLEAN :
    StatusReplies(active) = Orders(<<Has(active), Ticket(active), Expires(active), Life(active)>>)
                            \cup Orders(<<Has(active), Expires(active), Life(active)>>)
BY DEF StatusReplies, Has, Ticket, Expires, Life

LEMMA StatusMember ==
  ASSUME NEW active \in BOOLEAN
  PROVE  /\ Has(active)[1] = "hasLicense"
         /\ Has(active)[2] = Number(IF active THEN 1 ELSE 0)
         /\ Ticket(active)[1] = "ticket"
         /\ Ticket(active)[2] = Quoted(IF active THEN "ticket" ELSE Empty)
         /\ Expires(active)[1] = "expiresAt"
         /\ \E s \in {"date", Empty} : Expires(active)[2] = Quoted(s)
         /\ Life(active)[1] = "licenseExpiresIn"
         /\ Life(active)[2] = Number(IF active THEN 120 ELSE 60)
BY DEF Has, Ticket, Expires, Life

\* A text is clear if no quoted value reads like the key of another member.
LEMMA ClearMembers ==
  ASSUME NEW base, Len(base) \in Nat, DOMAIN base = 1..Len(base),
         \A i, j \in DOMAIN base : base[i][1] = base[j][1] => i = j,
         \A i \in DOMAIN base :
           \/ \E n : base[i][2] = Number(n)
           \/ \E s : /\ base[i][2] = Quoted(s)
                     /\ \A j \in DOMAIN base : base[j][1] = s => i = j
  PROVE  Clear(base)
<1>1. \A i \in DOMAIN base : base[i][2].kind \in {"quoted", "number"}
  BY ValuesAre
<1>2. \A i, j \in DOMAIN base : base[i][2] = Quoted(base[j][1]) => i = j
  <2> SUFFICES ASSUME NEW i \in DOMAIN base, NEW j \in DOMAIN base,
                      base[i][2] = Quoted(base[j][1])
               PROVE  i = j
    OBVIOUS
  <2>1. ~ \E n : base[i][2] = Number(n)
    BY ValuesAre
  <2>2. PICK s : base[i][2] = Quoted(s) /\ \A k \in DOMAIN base : base[k][1] = s => i = k
    BY <2>1
  <2>3. s = base[j][1]
    BY <2>2, TokensDiffer
  <2> QED BY <2>2, <2>3
<1> QED BY <1>1, <1>2 DEF Clear

LEMMA StatusClear ==
  ASSUME NEW active \in BOOLEAN
  PROVE  /\ Clear(<<Has(active), Ticket(active), Expires(active), Life(active)>>)
         /\ Clear(<<Has(active), Expires(active), Life(active)>>)
<1>1. Clear(<<Has(active), Ticket(active), Expires(active), Life(active)>>)
  <2> DEFINE base == <<Has(active), Ticket(active), Expires(active), Life(active)>>
  <2>1. /\ Len(base) = 4 /\ DOMAIN base = 1..4
        /\ base[1] = Has(active) /\ base[2] = Ticket(active)
        /\ base[3] = Expires(active) /\ base[4] = Life(active)
    OBVIOUS
  <2> HIDE DEF base
  <2>2. \A i, j \in DOMAIN base : base[i][1] = base[j][1] => i = j
    BY <2>1, StatusMember
  <2>3. ASSUME NEW i \in DOMAIN base
        PROVE  \/ \E n : base[i][2] = Number(n)
               \/ \E s : /\ base[i][2] = Quoted(s)
                         /\ \A j \in DOMAIN base : base[j][1] = s => i = j
    <3>1. CASE i \in {1, 4}
      BY <2>1, <3>1, StatusMember
    <3>2. CASE i = 2
      <4>1. \A j \in DOMAIN base : base[j][1] = (IF active THEN "ticket" ELSE Empty) => j = 2
        BY <2>1, StatusMember, EmptyDiffers
      <4> QED BY <2>1, <3>2, <4>1, StatusMember
    <3>3. CASE i = 3
      <4>1. PICK s \in {"date", Empty} : base[i][2] = Quoted(s)
        BY <2>1, <3>3, StatusMember
      <4>2. \A j \in DOMAIN base : base[j][1] # s
        BY <2>1, <4>1, StatusMember, EmptyDiffers
      <4> QED BY <4>1, <4>2
    <3> QED BY <2>1, <3>1, <3>2, <3>3
  <2>4. Len(base) \in Nat /\ DOMAIN base = 1..Len(base)
    BY <2>1
  <2>5. Clear(base)
    BY <2>2, <2>3, <2>4, ClearMembers
  <2> QED BY <2>5 DEF base
<1>2. Clear(<<Has(active), Expires(active), Life(active)>>)
  <2> DEFINE base == <<Has(active), Expires(active), Life(active)>>
  <2>1. /\ Len(base) = 3 /\ DOMAIN base = 1..3
        /\ base[1] = Has(active) /\ base[2] = Expires(active) /\ base[3] = Life(active)
    OBVIOUS
  <2> HIDE DEF base
  <2>2. \A i, j \in DOMAIN base : base[i][1] = base[j][1] => i = j
    BY <2>1, StatusMember
  <2>3. ASSUME NEW i \in DOMAIN base
        PROVE  \/ \E n : base[i][2] = Number(n)
               \/ \E s : /\ base[i][2] = Quoted(s)
                         /\ \A j \in DOMAIN base : base[j][1] = s => i = j
    <3>1. CASE i \in {1, 3}
      BY <2>1, <3>1, StatusMember
    <3>2. CASE i = 2
      <4>1. PICK s \in {"date", Empty} : base[i][2] = Quoted(s)
        BY <2>1, <3>2, StatusMember
      <4>2. \A j \in DOMAIN base : base[j][1] # s
        BY <2>1, <4>1, StatusMember, EmptyDiffers
      <4> QED BY <4>1, <4>2
    <3> QED BY <2>1, <3>1, <3>2
  <2>4. Len(base) \in Nat /\ DOMAIN base = 1..Len(base)
    BY <2>1
  <2>5. Clear(base)
    BY <2>2, <2>3, <2>4, ClearMembers
  <2> QED BY <2>5 DEF base
<1> QED BY <1>1, <1>2

\* A status is understood as a license exactly when the server says that there is
\* one, with or without the ticket and in whatever order the reply is written.
THEOREM StatusUnderstood ==
  /\ \A object \in StatusReplies(TRUE) : Understood("queryHttp", object) \in {"yes", "flag"}
  /\ \A object \in StatusReplies(FALSE) : Understood("queryHttp", object) = "no"
<1>1. ASSUME NEW active \in BOOLEAN,
             NEW object \in Orders(<<Has(active), Ticket(active), Expires(active), Life(active)>>)
      PROVE  Understood("queryHttp", object) = IF active THEN "yes" ELSE "no"
  <2> DEFINE base == <<Has(active), Ticket(active), Expires(active), Life(active)>>
  <2>c. Clear(base)
    BY StatusClear
  <2>d. Len(base) = 4 /\ DOMAIN base = 1..4
    OBVIOUS
  <2>1. Clear(base) /\ Len(base) \in 3..5 /\ 1 \in DOMAIN base /\ 2 \in DOMAIN base
    BY <2>c, <2>d
  <2>2. base[1] = Has(active) /\ base[2] = Ticket(active) /\ object \in Orders(base)
    OBVIOUS
  <2> HIDE DEF base
  <2>3. /\ base[1][1] = "hasLicense" /\ base[1][2].kind = "number"
        /\ base[1][2].value = IF active THEN 1 ELSE 0
        /\ base[2][1] = "ticket" /\ base[2][2].kind = "quoted"
        /\ base[2][2].text = IF active THEN "ticket" ELSE Empty
    BY <2>2, StatusMember, ValuesAre
  <2>4. ExtractJsonString(Text(object), "ticket") = IF active THEN "ticket" ELSE Empty
    BY <2>1, <2>2, <2>3, ReadInAnyOrder
  <2>5. ExtractJsonLong(Text(object), "hasLicense", 0) = IF active THEN 1 ELSE 0
    BY <2>1, <2>2, <2>3, ReadInAnyOrder
  <2> QED BY <2>4, <2>5, EmptyDiffers DEF Understood
<1>2. ASSUME NEW active \in BOOLEAN,
             NEW object \in Orders(<<Has(active), Expires(active), Life(active)>>)
      PROVE  Understood("queryHttp", object) = IF active THEN "flag" ELSE "no"
  <2> DEFINE base == <<Has(active), Expires(active), Life(active)>>
  <2>c. Clear(base)
    BY StatusClear
  <2>d. Len(base) = 3 /\ DOMAIN base = 1..3
    OBVIOUS
  <2>1. Clear(base) /\ Len(base) \in 3..5 /\ DOMAIN base = 1..3
    BY <2>c, <2>d
  <2>2. /\ base[1] = Has(active) /\ base[2] = Expires(active) /\ base[3] = Life(active)
        /\ object \in Orders(base)
    OBVIOUS
  <2> HIDE DEF base
  <2>3. /\ base[1][1] = "hasLicense" /\ base[1][2].kind = "number"
        /\ base[1][2].value = IF active THEN 1 ELSE 0
    BY <2>2, StatusMember, ValuesAre
  <2>4. \A k \in DOMAIN base : base[k][1] # "ticket" /\ base[k][2] # Quoted("ticket")
    <3>1. base[1][1] # "ticket" /\ base[2][1] # "ticket" /\ base[3][1] # "ticket"
      BY <2>2, StatusMember
    <3>2. base[1][2] # Quoted("ticket") /\ base[3][2] # Quoted("ticket")
      BY <2>2, StatusMember, ValuesAre
    <3>3. PICK s \in {"date", Empty} : base[2][2] = Quoted(s)
      BY <2>2, StatusMember
    <3>4. base[2][2] # Quoted("ticket")
      BY <3>3, TokensDiffer, EmptyDiffers
    <3> QED BY <2>1, <3>1, <3>2, <3>4
  <2>5. ExtractJsonString(Text(object), "ticket") = Empty
    BY <2>1, <2>2, <2>4, AbsentInAnyOrder
  <2>6. ExtractJsonLong(Text(object), "hasLicense", 0) = IF active THEN 1 ELSE 0
    BY <2>1, <2>2, <2>3, ReadInAnyOrder
  <2> QED BY <2>5, <2>6 DEF Understood
<1> QED BY <1>1, <1>2, StatusRepliesAre


\* The members of an answer to an activation with and without the ticket.
Granted == <<"hasLicense", Number(1)>>
GrantedTicket == <<"ticket", Quoted("ticket")>>
GrantedUntil == <<"expiresAt", Quoted("date")>>
GrantedLife == <<"licenseExpiresIn", Number(120)>>
Signature == <<"signature", Quoted("signature")>>

LEMMA ActivateRepliesAre ==
  /\ ActivateReplies(TRUE)
       = Orders(<<Granted, GrantedTicket, GrantedUntil, GrantedLife, Signature>>)
  /\ ActivateReplies(FALSE) = Orders(<<Granted, GrantedUntil, GrantedLife, Signature>>)
BY DEF ActivateReplies, Granted, GrantedTicket, GrantedUntil, GrantedLife, Signature

LEMMA ActivateMember ==
  /\ Granted[1] = "hasLicense" /\ Granted[2] = Number(1)
  /\ GrantedTicket[1] = "ticket" /\ GrantedTicket[2] = Quoted("ticket")
  /\ GrantedUntil[1] = "expiresAt" /\ GrantedUntil[2] = Quoted("date")
  /\ GrantedLife[1] = "licenseExpiresIn" /\ GrantedLife[2] = Number(120)
  /\ Signature[1] = "signature" /\ Signature[2] = Quoted("signature")
BY DEF Granted, GrantedTicket, GrantedUntil, GrantedLife, Signature

LEMMA ActivateClear ==
  /\ Clear(<<Granted, GrantedTicket, GrantedUntil, GrantedLife, Signature>>)
  /\ Clear(<<Granted, GrantedUntil, GrantedLife, Signature>>)
<1>1. Clear(<<Granted, GrantedTicket, GrantedUntil, GrantedLife, Signature>>)
  <2> DEFINE base == <<Granted, GrantedTicket, GrantedUntil, GrantedLife, Signature>>
  <2>1. /\ Len(base) = 5 /\ DOMAIN base = 1..5
        /\ base[1] = Granted /\ base[2] = GrantedTicket /\ base[3] = GrantedUntil
        /\ base[4] = GrantedLife /\ base[5] = Signature
    OBVIOUS
  <2> HIDE DEF base
  <2>2. \A i, j \in DOMAIN base : base[i][1] = base[j][1] => i = j
    BY <2>1, ActivateMember
  <2>3. ASSUME NEW i \in DOMAIN base
        PROVE  \/ \E n : base[i][2] = Number(n)
               \/ \E s : /\ base[i][2] = Quoted(s)
                         /\ \A j \in DOMAIN base : base[j][1] = s => i = j
    <3>1. CASE i \in {1, 4}
      BY <2>1, <3>1, ActivateMember
    <3>2. CASE i = 2
      <4>1. \A j \in DOMAIN base : base[j][1] = "ticket" => j = 2
        BY <2>1, ActivateMember
      <4> QED BY <2>1, <3>2, <4>1, ActivateMember
    <3>3. CASE i = 3
      <4>1. \A j \in DOMAIN base : base[j][1] # "date"
        BY <2>1, ActivateMember
      <4> QED BY <2>1, <3>3, <4>1, ActivateMember
    <3>4. CASE i = 5
      <4>1. \A j \in DOMAIN base : base[j][1] = "signature" => j = 5
        BY <2>1, ActivateMember
      <4> QED BY <2>1, <3>4, <4>1, ActivateMember
    <3> QED BY <2>1, <3>1, <3>2, <3>3, <3>4
  <2>4. Len(base) \in Nat /\ DOMAIN base = 1..Len(base)
    BY <2>1
  <2>5. Clear(base)
    BY <2>2, <2>3, <2>4, ClearMembers
  <2> QED BY <2>5 DEF base
<1>2. Clear(<<Granted, GrantedUntil, GrantedLife, Signature>>)
  <2> DEFINE base == <<Granted, GrantedUntil, GrantedLife, Signature>>
  <2>1. /\ Len(base) = 4 /\ DOMAIN base = 1..4
        /\ base[1] = Granted /\ base[2] = GrantedUntil
        /\ base[3] = GrantedLife /\ base[4] = Signature
    OBVIOUS
  <2> HIDE DEF base
  <2>2. \A i, j \in DOMAIN base : base[i][1] = base[j][1] => i = j
    BY <2>1, ActivateMember
  <2>3. ASSUME NEW i \in DOMAIN base
        PROVE  \/ \E n : base[i][2] = Number(n)
               \/ \E s : /\ base[i][2] = Quoted(s)
                         /\ \A j \in DOMAIN base : base[j][1] = s => i = j
    <3>1. CASE i \in {1, 3}
      BY <2>1, <3>1, ActivateMember
    <3>2. CASE i = 2
      <4>1. \A j \in DOMAIN base : base[j][1] # "date"
        BY <2>1, ActivateMember
      <4> QED BY <2>1, <3>2, <4>1, ActivateMember
    <3>3. CASE i = 4
      <4>1. \A j \in DOMAIN base : base[j][1] = "signature" => j = 4
        BY <2>1, ActivateMember
      <4> QED BY <2>1, <3>3, <4>1, ActivateMember
    <3> QED BY <2>1, <3>1, <3>2, <3>3
  <2>4. Len(base) \in Nat /\ DOMAIN base = 1..Len(base)
    BY <2>1
  <2>5. Clear(base)
    BY <2>2, <2>3, <2>4, ClearMembers
  <2> QED BY <2>5 DEF base
<1> QED BY <1>1, <1>2

\* An activation is understood to bring the license exactly when the ticket is in
\* the answer, in whatever order it is written.
THEOREM ActivationUnderstood ==
  /\ \A object \in ActivateReplies(TRUE) : Understood("activateHttp", object) = "yes"
  /\ \A object \in ActivateReplies(FALSE) : Understood("activateHttp", object) = "no"
<1>1. ASSUME NEW object \in Orders(<<Granted, GrantedTicket, GrantedUntil, GrantedLife, Signature>>)
      PROVE  Understood("activateHttp", object) = "yes"
  <2> DEFINE base == <<Granted, GrantedTicket, GrantedUntil, GrantedLife, Signature>>
  <2>1. Clear(base)
    BY ActivateClear
  <2>2. Len(base) = 5 /\ DOMAIN base = 1..5 /\ base[2] = GrantedTicket /\ object \in Orders(base)
    OBVIOUS
  <2> HIDE DEF base
  <2>3. Len(base) \in 3..5 /\ 2 \in DOMAIN base
    BY <2>2
  <2>4. base[2][1] = "ticket" /\ base[2][2].kind = "quoted" /\ base[2][2].text = "ticket"
    BY <2>2, ActivateMember, ValuesAre
  <2>5. ExtractJsonString(Text(object), "ticket") = "ticket"
    BY <2>1, <2>2, <2>3, <2>4, ReadInAnyOrder
  <2> QED BY <2>5, EmptyDiffers DEF Understood
<1>2. ASSUME NEW object \in Orders(<<Granted, GrantedUntil, GrantedLife, Signature>>)
      PROVE  Understood("activateHttp", object) = "no"
  <2> DEFINE base == <<Granted, GrantedUntil, GrantedLife, Signature>>
  <2>1. Clear(base)
    BY ActivateClear
  <2>2. /\ Len(base) = 4 /\ DOMAIN base = 1..4 /\ object \in Orders(base)
        /\ base[1] = Granted /\ base[2] = GrantedUntil
        /\ base[3] = GrantedLife /\ base[4] = Signature
    OBVIOUS
  <2> HIDE DEF base
  <2>3. Len(base) \in 3..5
    BY <2>2
  <2>4. \A k \in DOMAIN base : base[k][1] # "ticket" /\ base[k][2] # Quoted("ticket")
    BY <2>2, ActivateMember, ValuesAre, TokensDiffer
  <2>5. ExtractJsonString(Text(object), "ticket") = Empty
    BY <2>1, <2>2, <2>3, <2>4, AbsentInAnyOrder
  <2> QED BY <2>5 DEF Understood
<1> QED BY <1>1, <1>2, ActivateRepliesAre


-----------------------------------------------------------------------------
(* WireSession implements AuthSession                                       *)

LEMMA RefreshRepliesAre ==
  RefreshReplies = UNION {Orders(RefreshMembers(access, life)) : access \in {"token", Empty},
                                                                 life \in Lives}
BY DEF RefreshReplies, RefreshMembers

\* A reply that is received is an answer AuthSession lets the server give.
LEMMA ReceiveAnswers ==
  ASSUME NEW t \in Threads, Receive(t)
  PROVE  \E ans \in Answers : Answer(t, ans)
<1>1. PICK object \in Replies(t) :
        /\ Go(t, WriteStep(op[t].at), op[t].tok, Understood(op[t].at, object), op[t].lic)
        /\ \/ op[t].at = "activateHttp" /\ licensed' = licensed \cup {op[t].tok}
           \/ /\ op[t].at = "activateHttp" => object \in ActivateReplies(FALSE)
              /\ UNCHANGED licensed
  BY DEF Receive
<1>2. server = "up" /\ UNCHANGED <<auth, server, overlap>>
  BY DEF Receive
<1>3. CASE op[t].at = "refreshHttp"
  <2>1. object \in RefreshReplies /\ WriteStep(op[t].at) = "refreshWrite"
    BY <1>3 DEF Replies, WriteStep
  <2>2. Understood(op[t].at, object) \in {"failed", "yes"}
    BY <1>3, <2>1, RefreshRepliesAre, RefreshUnderstood
  <2>3. UNCHANGED licensed
    BY <1>1, <1>3
  <2> QED BY <1>1, <1>2, <1>3, <2>1, <2>2, <2>3 DEF Answer, Answers
<1>4. CASE op[t].at = "queryHttp"
  <2>1. object \in StatusReplies(op[t].tok \in licensed) /\ WriteStep(op[t].at) = "queryWrite"
    BY <1>4 DEF Replies, WriteStep
  <2>2. Understood(op[t].at, object) \in
          IF op[t].tok \in licensed THEN {"yes", "flag"} ELSE {"no"}
    <3>1. CASE op[t].tok \in licensed
      BY <1>4, <2>1, <3>1, StatusUnderstood
    <3>2. CASE op[t].tok \notin licensed
      <4>1. (op[t].tok \in licensed) = FALSE
        BY <3>2
      <4>2. object \in StatusReplies(FALSE)
        BY <2>1, <4>1
      <4> QED BY <1>4, <3>2, <4>2, StatusUnderstood
    <3> QED BY <3>1, <3>2
  <2>3. UNCHANGED licensed
    BY <1>1, <1>4
  <2> QED BY <1>1, <1>2, <1>4, <2>1, <2>2, <2>3 DEF Answer, Answers
<1>5. CASE op[t].at = "activateHttp"
  <2>1. /\ object \in ActivateReplies(TRUE) \cup ActivateReplies(FALSE)
        /\ WriteStep(op[t].at) = "activateWrite"
    BY <1>5 DEF Replies, WriteStep
  <2>2. /\ Understood(op[t].at, object) \in {"yes", "no"}
        /\ object \in ActivateReplies(FALSE) => Understood(op[t].at, object) = "no"
    BY <1>5, <2>1, ActivationUnderstood
  <2>3. \/ licensed' = licensed \cup {op[t].tok}
        \/ Understood(op[t].at, object) # "yes" /\ UNCHANGED licensed
    BY <1>1, <1>5, <2>2
  <2> QED BY <1>1, <1>2, <1>5, <2>1, <2>2, <2>3 DEF Answer, Answers
<1> QED BY <1>3, <1>4, <1>5 DEF Receive

LEMMA WireStep == [WireNext]_wire => [Next]_vars
<1> SUFFICES ASSUME [WireNext]_wire PROVE [Next]_vars
  OBVIOUS
<1>1. ASSUME NEW t \in Threads, Receive(t) \/ Answer(t, "failed") \/ Compute(t)
      PROVE  Next
  BY <1>1, ReceiveAnswers DEF Next, Work, Answers
<1>2. CASE RefreshWork \/ (\E c \in Callers : Request(c)) \/ Environment
  BY <1>2 DEF Next
<1>3. CASE UNCHANGED wire
  BY <1>3 DEF wire, vars
<1> QED BY <1>1, <1>2, <1>3 DEF WireNext

\* Whatever replies the server writes, in any order of their members and with or
\* without a ticket, what the service makes of their texts is a behaviour of
\* AuthSession: no license is taken that was not granted, and none is missed.
THEOREM WireRefinesSession == WireSpec => WireImplementsSession
<1>1. WireInit => Init
  BY DEF WireInit
<1> QED BY <1>1, WireStep, PTL DEF WireSpec, WireImplementsSession

\* What holds of g_auth for any server holds for the one on the wire.
THEOREM WireSessionSafe ==
  WireSpec => [](SessionComplete /\ LicenseArmed /\ CoherentUnlessOverlap)
BY WireRefinesSession, SessionAlive, LicenseStaysArmed, CoherentSession, PTL
   DEF WireImplementsSession, Spec

-----------------------------------------------------------------------------
(* The deadlines                                                            *)

\* A reply from which the lives can be read.
Readable(object) ==
  /\ Clear(object)
  /\ \A i \in DOMAIN object :
       object[i][1] \in {"accessExpiresIn", "licenseExpiresIn"} =>
         \E n \in Nat : object[i][2] = Number(n)

ReadableReplies == /\ DOMAIN reply = Threads
                   /\ \A t \in Threads : reply[t] = None \/ Readable(reply[t])

LEMMA ReadableInAnyOrder ==
  ASSUME NEW base, Readable(base), Len(base) \in 3..5, NEW object \in Orders(base)
  PROVE  Readable(object)
<1>1. Clear(object) /\ \A i \in DOMAIN object : \E k \in DOMAIN base : object[i] = base[k]
  BY OrdersKeep DEF Readable
<1>2. \A i \in DOMAIN object :
        object[i][1] \in {"accessExpiresIn", "licenseExpiresIn"} =>
          \E n \in Nat : object[i][2] = Number(n)
  BY <1>1 DEF Readable
<1> QED BY <1>1, <1>2 DEF Readable

LEMMA RepliesReadable ==
  /\ \A object \in RefreshReplies : Readable(object)
  /\ \A active \in BOOLEAN : \A object \in StatusReplies(active) : Readable(object)
  /\ \A withTicket \in BOOLEAN : \A object \in ActivateReplies(withTicket) : Readable(object)
<1>1. ASSUME NEW access \in {"token", Empty}, NEW life \in Lives
      PROVE  Readable(RefreshMembers(access, life)) /\ Len(RefreshMembers(access, life)) \in 3..5
  <2>1. Clear(RefreshMembers(access, life)) /\ Len(RefreshMembers(access, life)) = 3
    BY RefreshClear
  <2>2. \A i \in DOMAIN RefreshMembers(access, life) :
          RefreshMembers(access, life)[i][1] \in {"accessExpiresIn", "licenseExpiresIn"} =>
            \E n \in Nat : RefreshMembers(access, life)[i][2] = Number(n)
    BY LivesAssumption DEF RefreshMembers
  <2> QED BY <2>1, <2>2 DEF Readable
<1>2. ASSUME NEW active \in BOOLEAN
      PROVE  /\ Readable(<<Has(active), Ticket(active), Expires(active), Life(active)>>)
             /\ Readable(<<Has(active), Expires(active), Life(active)>>)
  BY StatusClear, StatusMember DEF Readable
<1>3. /\ Readable(<<Granted, GrantedTicket, GrantedUntil, GrantedLife, Signature>>)
      /\ Readable(<<Granted, GrantedUntil, GrantedLife, Signature>>)
  BY ActivateClear, ActivateMember DEF Readable
<1>4. \A object \in RefreshReplies : Readable(object)
  BY <1>1, RefreshRepliesAre, ReadableInAnyOrder
<1>5. ASSUME NEW active \in BOOLEAN, NEW object \in StatusReplies(active)
      PROVE  Readable(object)
  <2>1. /\ Len(<<Has(active), Ticket(active), Expires(active), Life(active)>>) \in 3..5
        /\ Len(<<Has(active), Expires(active), Life(active)>>) \in 3..5
    OBVIOUS
  <2> QED BY <1>2, <1>5, <2>1, StatusRepliesAre, ReadableInAnyOrder
<1>6. ASSUME NEW withTicket \in BOOLEAN, NEW object \in ActivateReplies(withTicket)
      PROVE  Readable(object)
  <2>1. /\ Len(<<Granted, GrantedTicket, GrantedUntil, GrantedLife, Signature>>) \in 3..5
        /\ Len(<<Granted, GrantedUntil, GrantedLife, Signature>>) \in 3..5
    OBVIOUS
  <2> QED BY <1>3, <1>6, <2>1, ActivateRepliesAre, ReadableInAnyOrder
<1> QED BY <1>4, <1>5, <1>6

LEMMA DropKeeps == ReadableReplies /\ (Drop \/ UNCHANGED reply) => ReadableReplies'
BY DEF ReadableReplies, Drop

LEMMA ReceiveKeeps ==
  ASSUME ReadableReplies, NEW t \in Threads, Receive(t)
  PROVE  ReadableReplies'
<1>1. PICK object \in Replies(t) : reply' = [reply EXCEPT ![t] = object]
  BY DEF Receive
<1>2. Readable(object)
  <2>1. CASE op[t].at = "refreshHttp"
    BY <2>1, RepliesReadable DEF Replies
  <2>2. CASE op[t].at = "queryHttp"
    <3>1. object \in StatusReplies(op[t].tok \in licensed)
      BY <2>2 DEF Replies
    <3>2. (op[t].tok \in licensed) \in BOOLEAN
      OBVIOUS
    <3> QED BY <3>1, <3>2, RepliesReadable
  <2>3. CASE op[t].at = "activateHttp"
    <3>1. object \in ActivateReplies(TRUE) \/ object \in ActivateReplies(FALSE)
      BY <2>3 DEF Replies
    <3> QED BY <3>1, RepliesReadable
  <2> QED BY <2>1, <2>2, <2>3 DEF Receive
<1> QED BY <1>1, <1>2 DEF ReadableReplies

\* In a readable reply a life longer than the margin is read, and the deadline set
\* for it lies before its end.
LEMMA ReadableInTime == ReadableReplies => AskedAgainInTime
<1> SUFFICES ASSUME ReadableReplies, NEW t \in Threads,
                    NEW m \in {<<"accessExpiresIn", 600>>, <<"licenseExpiresIn", 300>>},
                    NEW life \in Member(reply[t], m[1]), life > 30
             PROVE  DelayFromSeconds(ExtractJsonLong(Text(reply[t]), m[1], m[2]), m[2]) < life
  BY DEF AskedAgainInTime
<1> DEFINE object == reply[t]
<1>1. PICK j \in DOMAIN object : object[j][1] = m[1] /\ life = object[j][2].value
  BY DEF Member
<1>2. Readable(object)
  BY <1>1 DEF ReadableReplies, None
<1> HIDE DEF object
<1>3. m[1] \in {"accessExpiresIn", "licenseExpiresIn"}
  OBVIOUS
<1>4. PICK n \in Nat : object[j][2] = Number(n)
  BY <1>1, <1>2, <1>3 DEF Readable
<1>5. object[j][2].kind = "number" /\ life = n
  BY <1>1, <1>4, ValuesAre
<1>6. ExtractJsonLong(Text(object), m[1], m[2]) = n
  BY <1>1, <1>2, <1>5, MemberRead DEF Readable
<1>7. n > 30 /\ n - 30 < n
  BY <1>5
<1> QED BY <1>5, <1>6, <1>7 DEF DelayFromSeconds, object

\* The deadline for a token or a license is set before the end of a life longer than
\* the margin, for any lives the server chooses and in any order it writes them.
THEOREM DeadlinesInTime == WireSpec => []AskedAgainInTime
<1>1. WireInit => ReadableReplies
  BY DEF WireInit, ReadableReplies
<1>2. ReadableReplies /\ [WireNext]_wire => ReadableReplies'
  <2> SUFFICES ASSUME ReadableReplies, [WireNext]_wire PROVE ReadableReplies'
    OBVIOUS
  <2>1. CASE \E t \in Threads : Receive(t)
    BY <2>1, ReceiveKeeps
  <2>2. CASE Drop \/ UNCHANGED wire
    BY <2>2, DropKeeps DEF wire
  <2> QED BY <2>1, <2>2 DEF WireNext
<1> QED BY <1>1, <1>2, ReadableInTime, PTL DEF WireSpec
=============================================================================
