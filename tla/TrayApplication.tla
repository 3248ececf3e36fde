--------------------------- MODULE TrayApplication ---------------------------
(***************************************************************************)
(* The tray application (main.cpp, rpc_client.cpp), composed with what the   *)
(* service promises of its session (LicenseSession) and with the end and     *)
(* restart of the service.  A window keeps a copy of the session's state,    *)
(* renewed every second by GetCurrentUser and then GetLicenseStatus, which   *)
(* are not atomic together; the RPC binding is kept from one call to the    *)
(* next.  The window has one thread, which waits for each call to return.   *)
(***************************************************************************)
EXTENDS LicenseSession

CONSTANT Trays  \* the applications, one per Windows session

VARIABLES service,  \* the service's process
          window,   \* window[c]: the step its thread is at, what it has been
                    \* answered, and what it shows
          binding,  \* hAVAA_ControlBinding; "stale": to a process that has ended
          moved     \* history, moved[c]: the session got another user since c was
                    \* last answered by GetCurrentUser

vars == <<session, service, window, binding, moved>>

Places == {"closed", "loop",                                   \* the message loop
           "user", "license", "asking", "reply", "database",   \* RefreshApplicationState
           "activating", "redeeming",                         \* HandleActivation
           "scanning"}                                        \* HandleScanFile and others

\* asked, ok: the locals login and licenseResult == 0, or the account whose
\* token an activation carries; user, licensed: g_authenticated with the login
\* on display, and g_has_license; database: the label shows a release.
Windows == [at : Places, asked : Owners, ok : BOOLEAN,
            user : Owners, licensed : BOOLEAN, database : BOOLEAN]

Closed == [at |-> "closed", asked |-> Nobody, ok |-> FALSE,
           user |-> Nobody, licensed |-> FALSE, database |-> FALSE]

\* WM_CREATE refreshes the window before it is shown.
Opened == [Closed EXCEPT !.at = "user"]

Init == /\ SessionInit
        /\ service = "running"
        /\ window = [c \in Trays |-> Opened]
        /\ binding = [c \in Trays |-> "none"]
        /\ moved = [c \in Trays |-> TRUE]

\* Types: every variable stays in its range; a window that is unlocked shows a
\* user, and keeps an account in mind only during a refresh or an activation.
TypeOK == /\ user \in Owners
          /\ token \in Owners
          /\ license \in Owners
          /\ overlap \in BOOLEAN
          /\ service \in {"running", "stopping", "stopped"}
          /\ window \in [Trays -> Windows]
          /\ binding \in [Trays -> {"none", "good", "stale"}]
          /\ moved \in [Trays -> BOOLEAN]
          /\ \A c \in Trays :
               /\ window[c].licensed => window[c].user # Nobody
               /\ window[c].asked # Nobody <=>
                    window[c].at \in {"license", "asking", "reply", "redeeming"}

\* After a step of the session: the windows it has left behind.
NoteMove == moved' = [c \in Trays |-> moved[c] \/ user' # user]

Show(c, fields) == window' = [window EXCEPT ![c] = fields]
Goto(c, place) == window' = [window EXCEPT ![c].at = place]
-----------------------------------------------------------------------------
(* EnsureBinding, the call, and DropBinding in its exception handler.  A     *)
(* call raises an exception when the service does not listen; on a binding   *)
(* to a former process the runtime may reconnect or raise.                   *)

Served(c) == /\ service # "stopped"
             /\ binding' = [binding EXCEPT ![c] = "good"]

\* Mutant: the binding is kept after an exception.
Raises_KeepsBinding(c) == /\ service # "running" \/ binding[c] = "stale"
                          /\ UNCHANGED binding

Raises(c) == /\ service # "running" \/ binding[c] = "stale"
             /\ binding' = [binding EXCEPT ![c] = "none"]
-----------------------------------------------------------------------------
(* RefreshApplicationState                                                  *)

\* Mutant: g_has_license survives the end of the session.
LoggedOut_KeepsLicense(c) == [window[c] EXCEPT !.at = "loop", !.user = Nobody]

LoggedOut(c) == [window[c] EXCEPT !.at = "loop", !.user = Nobody, !.licensed = FALSE]

LoggedIn(c, unlocked) ==
  [window[c] EXCEPT !.at = IF unlocked THEN "database" ELSE "loop",
                    !.asked = Nobody, !.ok = FALSE,
                    !.user = window[c].asked, !.licensed = unlocked]

\* RpcGetCurrentUser: the login, or the end of the refresh.
AskUser(c) ==
  /\ window[c].at = "user"
  /\ \/ /\ Served(c)
        /\ Show(c, IF user = Nobody THEN LoggedOut(c)
                   ELSE [window[c] EXCEPT !.at = "license", !.asked = user])
        /\ moved' = [moved EXCEPT ![c] = FALSE]
     \/ /\ Raises(c)
        /\ Show(c, LoggedOut(c))
        /\ UNCHANGED moved
  /\ UNCHANGED <<session, service>>

\* RpcGetLicenseStatus
AskLicense(c) ==
  /\ window[c].at = "license"
  /\ \/ Served(c) /\ Goto(c, "asking")
     \/ Raises(c) /\ Show(c, LoggedIn(c, FALSE))
  /\ UNCHANGED <<session, service, moved>>

\* Mutant: the user on display is set at login only.
ReadLicense_KeepsUser(c) ==
  /\ window[c].at = "reply"
  /\ Show(c, [LoggedIn(c, license # Nobody /\ window[c].ok) EXCEPT
                !.user = IF window[c].user = Nobody THEN @ ELSE window[c].user])
  /\ UNCHANGED <<session, service, binding, moved>>

\* The second critical section of GetLicenseStatus reads g_auth as it is after
\* the query; the window unlocks when the query succeeded as well.
ReadLicense(c) ==
  /\ window[c].at = "reply"
  /\ Show(c, LoggedIn(c, license # Nobody /\ window[c].ok))
  /\ UNCHANGED <<session, service, binding, moved>>

\* RpcGetAvDatabaseInfo: EnsureAvReady wants a license and loads the database.
AskDatabase(c) ==
  /\ window[c].at = "database"
  /\ \/ Served(c) /\ Show(c, [window[c] EXCEPT !.at = "loop", !.database = license # Nobody])
     \/ Raises(c) /\ Show(c, [window[c] EXCEPT !.at = "loop", !.database = FALSE])
  /\ UNCHANGED <<session, service, moved>>

\* WM_TIMER, once a second.
TimerTick(c) == /\ window[c].at = "loop"
                /\ Goto(c, "user")
                /\ UNCHANGED <<session, service, binding, moved>>
-----------------------------------------------------------------------------
(* The buttons.  Those that do not apply to what is on display are hidden.   *)

HandleLogin(c) ==
  /\ window[c].at = "loop"
  /\ window[c].user = Nobody
  /\ \/ /\ Served(c)
        /\ \E p \in Principals : Begin(p)
        /\ Goto(c, "user")
     \/ /\ Served(c) \/ Raises(c)
        /\ UNCHANGED <<session, window>>
  /\ NoteMove
  /\ UNCHANGED service

\* The result of RpcLogout is not looked at.
HandleLogout(c) ==
  /\ window[c].at = "loop"
  /\ window[c].user # Nobody
  /\ \/ Served(c) /\ End
     \/ Raises(c) /\ UNCHANGED session
  /\ Show(c, [LoggedOut(c) EXCEPT !.at = "user"])
  /\ NoteMove
  /\ UNCHANGED service

HandleActivation(c) ==
  /\ window[c].at = "loop"
  /\ window[c].user # Nobody
  /\ ~window[c].licensed
  /\ \/ Served(c) /\ Goto(c, "activating")
     \/ Raises(c) /\ UNCHANGED window
  /\ UNCHANGED <<session, service, moved>>

\* HandleScanFile, HandleScanFolder and HandleScanDrives wait for the whole scan.
HandleScan(c) ==
  /\ window[c].at = "loop"
  /\ window[c].licensed
  /\ \/ Served(c) /\ Goto(c, "scanning")
     \/ Raises(c) /\ UNCHANGED window
  /\ UNCHANGED <<session, service, moved>>

\* HandleScheduleScan, HandleMonitorFolder and HandleAvPing: calls that return at
\* once.  What they configure is in ScanSchedule and DirectoryMonitor.
HandleScheduleScan(c) ==
  /\ window[c].at = "loop"
  /\ window[c].licensed
  /\ Served(c) \/ Raises(c)
  /\ UNCHANGED <<session, service, window, moved>>

\* SendStopServiceRequest, whose result is ignored; it drops the binding anyway.
ExitApplication(c) ==
  /\ window[c].at = "loop"
  /\ \/ /\ service # "stopped"
        /\ service' = "stopping"
     \/ /\ service # "running" \/ binding[c] = "stale"
        /\ UNCHANGED service
  /\ Show(c, Closed)
  /\ binding' = [binding EXCEPT ![c] = "none"]
  /\ UNCHANGED <<session, moved>>

\* wWinMain; the mutex lets one application run in a session.
OpenApplication(c) == /\ window[c].at = "closed"
                      /\ Show(c, Opened)
                      /\ UNCHANGED <<session, service, binding, moved>>
-----------------------------------------------------------------------------
(* The service.  The calls run on threads of its own, see AuthSession.       *)

Alive == service # "stopped"

\* QueryLicenseStatus for c writes an answer or fails.
QueryLicense(c) ==
  /\ Alive
  /\ window[c].at = "asking"
  /\ \/ /\ \E p \in Owners : Decide(p)
        /\ Show(c, [window[c] EXCEPT !.at = "reply", !.ok = TRUE])
     \/ /\ UNCHANGED session
        /\ Show(c, [window[c] EXCEPT !.at = "reply", !.ok = FALSE])
  /\ UNCHANGED <<service, binding, moved>>

\* ActivateLicense copies the access token there is, whoever is logged in,
CopyToken(c) ==
  /\ Alive
  /\ window[c].at = "activating"
  /\ Show(c, IF token = Nobody THEN [window[c] EXCEPT !.at = "loop"]
             ELSE [window[c] EXCEPT !.at = "redeeming", !.asked = token])
  /\ UNCHANGED <<session, service, binding, moved>>

\* and writes what becomes of the code.
ActivateLicense(c) ==
  /\ Alive
  /\ window[c].at = "redeeming"
  /\ UNCHANGED session \/ \E p \in Owners : Decide(p)
  /\ \E place \in {"user", "loop"} :
       Show(c, [window[c] EXCEPT !.at = place, !.asked = Nobody])
  /\ UNCHANGED <<service, binding, moved>>

\* A scan ends, with a report or for want of a license.
Scan(c) == /\ Alive
           /\ window[c].at = "scanning"
           /\ Goto(c, "loop")
           /\ UNCHANGED <<session, service, binding, moved>>

\* The refresh thread, or another client of the service.
OtherStep == /\ Alive
             /\ SessionStep
             /\ NoteMove
             /\ UNCHANGED <<service, window, binding>>

\* The process ends, whatever calls are in progress (see ServiceLifecycle): those
\* raise an exception.  Applications it launched are terminated, others survive.
InCall(c) == window[c].at \in {"asking", "reply", "activating", "redeeming", "scanning"}

\* Mutant: the exception of a call in progress is not caught.
Broken_Uncaught(c) == window[c]

Broken(c) == CASE window[c].at \in {"asking", "reply"} -> LoggedIn(c, FALSE)
               [] window[c].at \in {"activating", "redeeming", "scanning"} ->
                    [window[c] EXCEPT !.at = "loop", !.asked = Nobody]
               [] OTHER -> window[c]

ServiceExits ==
  /\ service = "stopping"
  /\ service' = "stopped"
  /\ Restart
  /\ \E killed \in SUBSET Trays :
       /\ window' = [c \in Trays |-> IF c \in killed THEN Closed ELSE Broken(c)]
       /\ binding' = [c \in Trays |->
            IF c \in killed \/ InCall(c) \/ binding[c] = "none" THEN "none" ELSE "stale"]
  /\ NoteMove

StartService == /\ service = "stopped"
                /\ service' = "running"
                /\ UNCHANGED <<session, window, binding, moved>>
-----------------------------------------------------------------------------
Refresh(c) == \/ AskUser(c) \/ AskLicense(c) \/ ReadLicense(c) \/ AskDatabase(c)

Call(c) == QueryLicense(c) \/ CopyToken(c) \/ ActivateLicense(c) \/ Scan(c)

Button(c) == \/ HandleLogin(c) \/ HandleLogout(c) \/ HandleActivation(c) \/ HandleScan(c)
             \/ HandleScheduleScan(c) \/ ExitApplication(c) \/ OpenApplication(c)

Next == \/ \E c \in Trays : Refresh(c) \/ TimerTick(c) \/ Button(c) \/ Call(c)
        \/ OtherStep
        \/ ServiceExits
        \/ StartService

Spec == Init /\ [][Next]_vars

QuerySucceeds(c) == QueryLicense(c) /\ window'[c].ok /\ UNCHANGED license

\* Threads that can run do.  Windows posts WM_TIMER whenever the queue of the
\* window is empty, which no user keeps from happening again.  A service that
\* was asked to stop does (ServiceLifecycle); license queries do not fail for
\* ever.  Users, other clients and a restart owe nothing.
Fairness == /\ \A c \in Trays : /\ WF_vars(Refresh(c))
                                /\ WF_vars(Call(c))
                                /\ SF_vars(TimerTick(c))
                                /\ SF_vars(QuerySucceeds(c))
            /\ WF_vars(ServiceExits)

FairSpec == Spec /\ Fairness
-----------------------------------------------------------------------------
(* Properties                                                               *)

\* main.cpp:143 takes two calls.  What the window does and shows is the user's it
\* shows: an activation goes out with the token of the account on display, and the
\* window unlocks only on a license in force that was granted to that account.
\* Two things excuse it, neither of which it can know: the session got another user
\* since the window last asked who it is, or the service wrote the answer to a
\* request of one session into another one (see AuthSession).
ActsForShownUser ==
  [][\A c \in Trays : ~moved[c] /\ ~overlap =>
       /\ CopyToken(c) => window'[c].asked = window[c].user
       /\ ~window[c].licensed /\ window'[c].licensed
            => window'[c].user = user /\ license = user]_vars

Steady(c, p) == service = "running" /\ window[c].at # "closed" /\ user = p

\* A window that stays open shows the state of a session that stays, after
\* restarts of the service too: who is logged in, that there is no license, and
\* again and again that there is one.
WindowCatchesUp ==
  \A c \in Trays : \A p \in Owners :
    /\ <>[]Steady(c, p) => <>[](window[c].user = p)
    /\ <>[](Steady(c, p) /\ license = Nobody) => <>[]~window[c].licensed
    /\ <>[](Steady(c, p) /\ license # Nobody /\ p # Nobody) => []<>(window[c].licensed /\ window[c].database)

\* Whatever becomes of the service, a call made by a window returns or raises:
\* the window takes input again.
WindowResponds ==
  \A c \in Trays : window[c].at # "loop" ~> window[c].at \in {"loop", "closed"}
=============================================================================
