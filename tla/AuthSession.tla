----------------------------- MODULE AuthSession -----------------------------
(***************************************************************************)
(* The session and license state of the service, g_auth in service.cpp,     *)
(* shared by every RPC call (Login, Logout, GetLicenseStatus,               *)
(* ActivateProduct) and by RefreshThreadProc.  g_auth_lock is held while     *)
(* g_auth is read or written, but never across an HTTP request: each        *)
(* operation copies a token, unlocks, asks the server, and locks again to   *)
(* write what the server said.                                              *)
(*                                                                         *)
(* A token, a login or a ticket is abstracted to the principal it belongs   *)
(* to, the flag hasLicense to the principal whose license it says is in     *)
(* force; a deadline (a tick count) to whether it is set and has passed.    *)
(***************************************************************************)
EXTENDS Naturals

CONSTANTS Callers,    \* threads that serve RPC calls
          Refresher,  \* RefreshThreadProc
          Users,      \* accounts of the HTTP server
          Demo,       \* the built-in demo account
          Nobody      \* the owner of an empty string

ASSUME AuthAssumption ==
  /\ Refresher \notin Callers
  /\ Demo \notin Users
  /\ Nobody \notin Users
  /\ Demo # Nobody

Threads == Callers \cup {Refresher}
Principals == Users \cup {Demo}
Owners == Principals \cup {Nobody}
Deadlines == {"off", "later", "due"}

Auths == [authenticated : BOOLEAN, login : Owners, access : Owners, refresh : Owners,
          tokenDue : Deadlines,
          hasLicense : Owners, ticket : Owners, licenseDue : Deadlines]

Steps == {"idle",
          "refresh", "refreshDemo", "refreshHttp", "refreshWrite",     \* RefreshTokens
          "query", "queryDemo", "queryHttp", "queryWrite",             \* QueryLicenseStatus
          "activate", "activateDemo", "activateHttp", "activateWrite", \* ActivateLicense
          "load"}                                                      \* LoadAvDatabaseIfNeeded

\* What the server said: no usable answer, a refusal, a ticket (or new tokens),
\* or the flag hasLicense without a ticket.
Answers == {"none", "failed", "no", "yes", "flag"}

Ops == [at : Steps, tok : Owners, ans : Answers, lic : BOOLEAN]

VARIABLES auth,      \* g_auth
          op,        \* op[t]: the step t is at, the token it copied, the answer it
                     \* got, and the refreshLicense flag of the refresh thread
          server,    \* whether the HTTP server answers
          licensed,  \* the users the server has an active license for
          overlap    \* history: a session began or ended while another thread
                     \* was between copying a token and writing the answer

vars == <<auth, op, server, licensed, overlap>>
-----------------------------------------------------------------------------
\* AuthState{}
Cleared == [authenticated |-> FALSE, login |-> Nobody, access |-> Nobody, refresh |-> Nobody,
            tokenDue |-> "off",
            hasLicense |-> Nobody, ticket |-> Nobody, licenseDue |-> "off"]

\* The fields written by a successful login.
SessionOf(p) == [authenticated |-> TRUE, login |-> p, access |-> p, refresh |-> p,
                 tokenDue |-> "later",
                 hasLicense |-> Nobody, ticket |-> Nobody, licenseDue |-> "off"]

Idle == [at |-> "idle", tok |-> Nobody, ans |-> "none", lic |-> FALSE]

Init == /\ auth = Cleared
        /\ op = [t \in Threads |-> Idle]
        /\ server \in {"up", "down"}
        /\ licensed \in SUBSET Users
        /\ overlap = FALSE

\* Types: every variable stays in its range.
TypeOK == /\ auth \in Auths
          /\ op \in [Threads -> Ops]
          /\ server \in {"up", "down"}
          /\ licensed \in SUBSET Users
          /\ overlap \in BOOLEAN

\* Thread t goes to another step, keeping nothing but the token and answer given.
Go(t, step, tok, ans, lic) ==
  op' = [op EXCEPT ![t] = [at |-> step, tok |-> tok, ans |-> ans, lic |-> lic]]

Leave(t) == op' = [op EXCEPT ![t] = Idle]

\* g_auth changes owner: t logs somebody in, or clears the state.
Boundary(t, a) == /\ auth' = a
                  /\ overlap' = (overlap \/ \E s \in Threads \ {t} : op[s].tok # Nobody)

\* The fields QueryLicenseStatus and ActivateLicense write.
WithLicense(holder, ticket, licenseDue) ==
  [auth EXCEPT !.hasLicense = holder, !.ticket = ticket, !.licenseDue = licenseDue]

\* Mutant: the new refresh token is not kept.
WithTokens_AccessOnly(p) == [auth EXCEPT !.access = p, !.tokenDue = "later"]

WithTokens(p) == [auth EXCEPT !.access = p, !.refresh = p, !.tokenDue = "later"]
-----------------------------------------------------------------------------
(* AuthenticateUser.  It reads nothing of g_auth before it writes, so the   *)
(* request and the write are one step.                                      *)

\* Mutant: the license in force is not reset by the login.
LoginAccepted_KeepsLicense(c, u) ==
  /\ op[c].at = "idle"
  /\ server = "up"
  /\ Boundary(c, [SessionOf(u) EXCEPT !.hasLicense = auth.hasLicense,
                                     !.licenseDue = auth.licenseDue])
  /\ UNCHANGED <<op, server, licensed>>

LoginAccepted(c, u) ==
  /\ op[c].at = "idle"
  /\ server = "up"
  /\ Boundary(c, SessionOf(u))
  /\ UNCHANGED <<op, server, licensed>>

\* Any failed request, and any status but 2xx from a server that answers, falls
\* back on the built-in demo account when its login and password were given.
LoginDemo(c) ==
  /\ op[c].at = "idle"
  /\ Boundary(c, SessionOf(Demo))
  /\ UNCHANGED <<op, server, licensed>>

\* Mutant: the ticket survives the logout.
Logout_KeepsTicket(c) ==
  /\ op[c].at = "idle"
  /\ Boundary(c, [Cleared EXCEPT !.ticket = auth.ticket])
  /\ UNCHANGED <<op, server, licensed>>

Logout(c) ==
  /\ op[c].at = "idle"
  /\ Boundary(c, Cleared)
  /\ UNCHANGED <<op, server, licensed>>
-----------------------------------------------------------------------------
(* RefreshThreadProc and RefreshTokens                                      *)

\* Both decisions are taken in one critical section and acted on later.
RefreshTick ==
  LET tokens == auth.authenticated /\ auth.tokenDue = "due"
      license == auth.authenticated /\ auth.hasLicense # Nobody /\ auth.licenseDue = "due"
  IN  /\ op[Refresher].at = "idle"
      /\ tokens \/ license
      /\ Go(Refresher, IF tokens THEN "refresh" ELSE "query", Nobody, "none", tokens /\ license)
      /\ UNCHANGED <<auth, server, licensed, overlap>>

\* RefreshTokens has returned.
RefreshDone == IF op[Refresher].lic THEN Go(Refresher, "query", Nobody, "none", FALSE)
               ELSE Leave(Refresher)

RefreshCopy ==
  /\ op[Refresher].at = "refresh"
  /\ CASE auth.refresh = Nobody -> RefreshDone
       [] auth.refresh = Demo -> Go(Refresher, "refreshDemo", Demo, "none", op[Refresher].lic)
       [] OTHER -> Go(Refresher, "refreshHttp", auth.refresh, "none", op[Refresher].lic)
  /\ UNCHANGED <<auth, server, licensed, overlap>>

RefreshDemoWrite ==
  /\ op[Refresher].at = "refreshDemo"
  /\ auth' = WithTokens(Demo)
  /\ RefreshDone
  /\ UNCHANGED <<server, licensed, overlap>>

\* The server's side of any request.  "failed" is no connection, a status but 2xx,
\* or an answer to a refresh that lacks a token.  An activation may take effect
\* although the answer lacks the ticket, or is lost.
Answer(t, ans) ==
  /\ ans # "failed" => server = "up"
  /\ \/ /\ op[t].at = "refreshHttp"
        /\ ans \in {"failed", "yes"}
        /\ Go(t, "refreshWrite", op[t].tok, ans, op[t].lic)
        /\ UNCHANGED licensed
     \/ /\ op[t].at = "queryHttp"
        /\ ans \in (IF op[t].tok \in licensed THEN {"yes", "flag"} ELSE {"no"}) \cup {"failed"}
        /\ Go(t, "queryWrite", op[t].tok, ans, op[t].lic)
        /\ UNCHANGED licensed
     \/ /\ op[t].at = "activateHttp"
        /\ ans \in {"failed", "yes", "no"}
        /\ \/ licensed' = licensed \cup {op[t].tok}
           \/ ans # "yes" /\ UNCHANGED licensed
        /\ Go(t, "activateWrite", op[t].tok, ans, op[t].lic)
  /\ UNCHANGED <<auth, server, overlap>>

\* Mutant: a refresh that fails leaves the session as it was.
RefreshWrite_KeepsSession ==
  /\ op[Refresher].at = "refreshWrite"
  /\ auth' = IF op[Refresher].ans = "yes" THEN WithTokens(op[Refresher].tok) ELSE auth
  /\ RefreshDone
  /\ UNCHANGED <<server, licensed, overlap>>

\* Tokens are written into g_auth as it is now; a failure clears it as it is now.
RefreshWrite ==
  /\ op[Refresher].at = "refreshWrite"
  /\ \/ /\ op[Refresher].ans = "yes"
        /\ auth' = WithTokens(op[Refresher].tok)
        /\ UNCHANGED overlap
     \/ /\ op[Refresher].ans = "failed"
        /\ Boundary(Refresher, Cleared)
  /\ RefreshDone
  /\ UNCHANGED <<server, licensed>>
-----------------------------------------------------------------------------
(* QueryLicenseStatus, called by GetLicenseStatus, by the refresh thread and *)
(* by ActivateLicense when the server's answer has no ticket.                *)

GetLicenseStatus(c) ==
  /\ op[c].at = "idle"
  /\ Go(c, "query", Nobody, "none", FALSE)
  /\ UNCHANGED <<auth, server, licensed, overlap>>

QueryCopy(t) ==
  /\ op[t].at = "query"
  /\ CASE auth.access = Nobody -> Leave(t)
       [] auth.access = Demo -> Go(t, "queryDemo", Demo, "none", FALSE)
       [] OTHER -> Go(t, "queryHttp", auth.access, "none", FALSE)
  /\ UNCHANGED <<auth, server, licensed, overlap>>

\* Mutant: the demo answer disarms the deadline.
QueryDemoWrite_Disarms(t) ==
  /\ op[t].at = "queryDemo"
  /\ auth' = [auth EXCEPT !.licenseDue = "off"]
  /\ Leave(t)
  /\ UNCHANGED <<server, licensed, overlap>>

QueryDemoWrite(t) ==
  /\ op[t].at = "queryDemo"
  /\ auth' = [auth EXCEPT !.licenseDue = IF auth.hasLicense # Nobody THEN "later" ELSE "off"]
  /\ Leave(t)
  /\ UNCHANGED <<server, licensed, overlap>>

\* Mutant: the answer that there is no license is ignored.
QueryWrite_IgnoresNo(t) ==
  /\ op[t].at = "queryWrite"
  /\ IF op[t].ans \in {"failed", "no"} THEN Leave(t) /\ UNCHANGED auth
     ELSE /\ auth' = WithLicense(op[t].tok, IF op[t].ans = "yes" THEN op[t].tok ELSE Nobody, "later")
          /\ Go(t, "load", Nobody, "none", FALSE)
  /\ UNCHANGED <<server, licensed, overlap>>

\* A request that fails leaves the license as it was.
QueryWrite(t) ==
  /\ op[t].at = "queryWrite"
  /\ \/ /\ op[t].ans = "failed"
        /\ Leave(t)
        /\ UNCHANGED auth
     \/ /\ op[t].ans = "yes"
        /\ auth' = WithLicense(op[t].tok, op[t].tok, "later")
        /\ Go(t, "load", Nobody, "none", FALSE)
     \/ /\ op[t].ans = "flag"
        /\ auth' = WithLicense(op[t].tok, Nobody, "later")
        /\ Go(t, "load", Nobody, "none", FALSE)
     \/ /\ op[t].ans = "no"
        /\ auth' = WithLicense(Nobody, Nobody, "later")
        /\ Leave(t)
  /\ UNCHANGED <<server, licensed, overlap>>

\* LoadAvDatabaseIfNeeded, after the license was written; see AvStorage.
Load(t) ==
  /\ op[t].at = "load"
  /\ Leave(t)
  /\ UNCHANGED <<auth, server, licensed, overlap>>
-----------------------------------------------------------------------------
(* ActivateLicense                                                          *)

ActivateProduct(c) ==
  /\ op[c].at = "idle"
  /\ Go(c, "activate", Nobody, "none", FALSE)
  /\ UNCHANGED <<auth, server, licensed, overlap>>

\* Mutant: an activation is sent without a token.
ActivateCopy_NoToken(t) ==
  /\ op[t].at = "activate"
  /\ Go(t, IF auth.access = Demo THEN "activateDemo" ELSE "activateHttp", auth.access, "none", FALSE)
  /\ UNCHANGED <<auth, server, licensed, overlap>>

ActivateCopy(t) ==
  /\ op[t].at = "activate"
  /\ CASE auth.access = Nobody -> Leave(t)
       [] auth.access = Demo -> Go(t, "activateDemo", Demo, "none", FALSE)
       [] OTHER -> Go(t, "activateHttp", auth.access, "none", FALSE)
  /\ UNCHANGED <<auth, server, licensed, overlap>>

\* The demo keys: the good one, the expired and blocked ones, any other code.
ActivateDemoWrite(t, code) ==
  /\ op[t].at = "activateDemo"
  /\ \/ /\ code = "DEMO-KEY"
        /\ auth' = WithLicense(Demo, Demo, "later")
        /\ Go(t, "load", Nobody, "none", FALSE)
     \/ /\ code \in {"EXPIRED-KEY", "BLOCKED-KEY"}
        /\ auth' = WithLicense(Nobody, Nobody, "off")
        /\ Leave(t)
     \/ /\ code = "other"
        /\ Leave(t)
        /\ UNCHANGED auth
  /\ UNCHANGED <<server, licensed, overlap>>

ActivateWrite(t) ==
  /\ op[t].at = "activateWrite"
  /\ \/ /\ op[t].ans = "failed"
        /\ Leave(t)
        /\ UNCHANGED auth
     \/ /\ op[t].ans = "yes"
        /\ auth' = WithLicense(op[t].tok, op[t].tok, "later")
        /\ Go(t, "load", Nobody, "none", FALSE)
     \/ /\ op[t].ans = "no"
        /\ Go(t, "query", Nobody, "none", FALSE)
        /\ UNCHANGED auth
  /\ UNCHANGED <<server, licensed, overlap>>
-----------------------------------------------------------------------------
(* The environment                                                          *)

\* GetTickCount64() passes a deadline.
TokenExpires == /\ auth.tokenDue = "later"
                /\ auth' = [auth EXCEPT !.tokenDue = "due"]
                /\ UNCHANGED <<op, server, licensed, overlap>>

LicenseExpires == /\ auth.licenseDue = "later"
                  /\ auth' = [auth EXCEPT !.licenseDue = "due"]
                  /\ UNCHANGED <<op, server, licensed, overlap>>

ServerChanges == /\ server' \in {"up", "down"} \ {server}
                 /\ UNCHANGED <<auth, op, licensed, overlap>>

LicenseEnds(u) == /\ u \in licensed
                  /\ licensed' = licensed \ {u}
                  /\ UNCHANGED <<auth, op, server, overlap>>
-----------------------------------------------------------------------------
\* A call or a tick that has begun goes on.
Compute(t) == \/ QueryCopy(t) \/ QueryDemoWrite(t) \/ QueryWrite(t) \/ Load(t)
              \/ ActivateCopy(t) \/ ActivateWrite(t)
              \/ \E code \in {"DEMO-KEY", "EXPIRED-KEY", "BLOCKED-KEY", "other"} :
                   ActivateDemoWrite(t, code)

Work(t) == Compute(t) \/ \E ans \in Answers : Answer(t, ans)

RefreshWork == \/ RefreshTick \/ RefreshCopy \/ RefreshDemoWrite \/ RefreshWrite

Request(c) == \/ \E u \in Users : LoginAccepted(c, u)
              \/ LoginDemo(c) \/ Logout(c)
              \/ GetLicenseStatus(c) \/ ActivateProduct(c)

Environment == \/ TokenExpires \/ LicenseExpires \/ ServerChanges
               \/ \E u \in Users : LicenseEnds(u)

Next == \/ \E c \in Callers : Request(c)
        \/ \E t \in Threads : Work(t)
        \/ RefreshWork
        \/ Environment

Spec == Init /\ [][Next]_vars

\* The server tells the refresh thread the state of the license.
LicenseAnswered == /\ op[Refresher].at = "queryHttp"
                   /\ \E ans \in Answers \ {"failed"} : Answer(Refresher, ans)

\* Threads that can run do, HTTP requests are answered or time out, and the
\* clock passes the deadlines; a server that is reachable again and again does
\* not fail the status request for ever.  Nobody has to call.
Fairness == /\ \A t \in Threads : WF_vars(Work(t))
            /\ WF_vars(RefreshWork)
            /\ WF_vars(TokenExpires)
            /\ WF_vars(LicenseExpires)
            /\ SF_vars(LicenseAnswered)

FairSpec == Spec /\ Fairness
-----------------------------------------------------------------------------
(* Properties                                                               *)

\* Whatever requests overlap, an authenticated session has both tokens, of one
\* owner, and a deadline for their refresh: RefreshThreadProc never skips it.
SessionComplete ==
  auth.authenticated => /\ auth.access \in Principals
                        /\ auth.refresh = auth.access
                        /\ auth.tokenDue # "off"

\* Whatever requests overlap, a license in force has a deadline, without which
\* RefreshThreadProc would never ask for it again, although demo and server answers
\* write its fields apart.
LicenseArmed == auth.hasLicense # Nobody => auth.licenseDue # "off"

\* Unless a session began or ended between a thread's copy of the token and its
\* write, g_auth is one account's state: the tokens, the license and the ticket are
\* those of the login, and nothing at all is left when nobody is logged in.
CoherentUnlessOverlap ==
  ~overlap => /\ ~auth.authenticated => auth = Cleared
              /\ auth.access = auth.login
              /\ auth.hasLicense \in {Nobody, auth.login}
              /\ auth.ticket \in {Nobody, auth.hasLicense}

\* What the application relies on: whatever threads write, at any time, a session
\* begins with its own token and without a license and ends without either, no
\* answer on a license changes whose session it is, and only after an overlap is a
\* token or a license that of another account than the one logged in.
Session == INSTANCE LicenseSession WITH
             user <- IF auth.authenticated THEN auth.login ELSE Nobody,
             token <- auth.access,
             license <- auth.hasLicense

ImplementsLicenseSession == Session!SessionSpec

\* A token that has come due is refreshed, or its session ends.
DueTokenHandled == (auth.authenticated /\ auth.tokenDue = "due") ~> (auth.tokenDue # "due")

\* A license that the server no longer grants does not stay in force in the
\* session of its user, once the server can be asked.
LossOfLicenseNoticed ==
  \A u \in Users :
    <>[](u \notin licensed /\ server = "up") =>
      []<>~(auth.authenticated /\ auth.access = u /\ auth.hasLicense # Nobody)

\* main.cpp: without an authenticated user the license is unavailable and the
\* antivirus functions are blocked; the service grants them on hasLicense alone.
LoggedOutMeansLocked == ~auth.authenticated => auth.hasLicense = Nobody
=============================================================================
