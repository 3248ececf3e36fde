------------------------ MODULE TrayApplicationProofs ------------------------
(* Theorems about TrayApplication, for any applications and accounts.       *)
EXTENDS TrayApplication, TLAPS

\* One window: its type, and what TypeOK says of it.
WindowOK(w) == /\ w \in Windows
               /\ w.licensed => w.user # Nobody
               /\ w.asked # Nobody <=> w.at \in {"license", "asking", "reply", "redeeming"}

\* A window that the session of p has not left behind: during a refresh it keeps p
\* in mind, else it shows p or nobody, and it activates for p only.
Shows(w, p) == IF w.at \in {"license", "asking", "reply"} THEN w.asked = p
               ELSE /\ w.user \in {p, Nobody}
                    /\ w.at = "activating" => w.user = p

TrayInv == /\ TypeOK
           /\ \A c \in Trays : ~moved[c] => Shows(window[c], user)

SessionOK == user \in Owners /\ token \in Owners /\ license \in Owners /\ overlap \in BOOLEAN

\* The variables other than the windows.
RestOK == /\ SessionOK
          /\ service \in {"running", "stopping", "stopped"}
          /\ binding \in [Trays -> {"none", "good", "stale"}]
          /\ moved \in [Trays -> BOOLEAN]

LEMMA InvParts ==
  TypeOK <=> RestOK /\ window \in [Trays -> Windows] /\ \A c \in Trays : WindowOK(window[c])
BY DEF TypeOK, RestOK, SessionOK, WindowOK

\* A step of window c, which the session may follow by leaving windows behind.
LEMMA OneWindow ==
  ASSUME TrayInv, NEW c \in Trays, NEW w, WindowOK(w), window' = [window EXCEPT ![c] = w],
         RestOK', ~moved'[c] => Shows(w, user'),
         \A d \in Trays : d # c /\ ~moved'[d] => ~moved[d] /\ user' = user
  PROVE  TrayInv'
<1>1. /\ window' \in [Trays -> Windows]
      /\ window'[c] = w
      /\ \A d \in Trays : d # c => window'[d] = window[d]
  BY DEF TrayInv, TypeOK, WindowOK
<1>2. \A d \in Trays : WindowOK(window'[d])
  BY <1>1, InvParts DEF TrayInv
<1>3. TypeOK'
  BY <1>1, <1>2, InvParts DEF TypeOK, RestOK, SessionOK, WindowOK
<1>4. ASSUME NEW d \in Trays, ~moved'[d] PROVE Shows(window'[d], user')
  <2>1. CASE d = c
    BY <1>1, <1>4, <2>1
  <2>2. CASE d # c
    BY <1>1, <1>4, <2>2 DEF TrayInv
  <2> QED BY <2>1, <2>2
<1> QED BY <1>3, <1>4 DEF TrayInv

LEMMA Bindings ==
  ASSUME TrayInv, NEW c \in Trays, Served(c) \/ Raises(c)
  PROVE  binding' \in [Trays -> {"none", "good", "stale"}]
BY DEF TrayInv, TypeOK, Served, Raises

\* NoteMove leaves behind exactly the windows that it should.
LEMMA Moves ==
  ASSUME TrayInv, NoteMove
  PROVE  /\ moved' \in [Trays -> BOOLEAN]
         /\ \A d \in Trays : ~moved'[d] => ~moved[d] /\ user' = user
BY DEF TrayInv, TypeOK, NoteMove

LEMMA SessionSteps ==
  ASSUME SessionOK, SessionStep \/ UNCHANGED session
  PROVE  SessionOK'
BY DEF SessionOK, SessionStep, Begin, End, Decide, Retoken, session, Owners

\* What the window becomes when a refresh finds nobody, or somebody, logged in.
LEMMA Refreshed ==
  ASSUME TrayInv, NEW c \in Trays
  PROVE  /\ window[c].at = "user" \/ window[c].at = "loop" => WindowOK(LoggedOut(c))
         /\ LoggedOut(c).user = Nobody /\ LoggedOut(c).at = "loop"
         /\ window[c].at \in {"license", "asking", "reply"} =>
              \A b \in BOOLEAN : /\ WindowOK(LoggedIn(c, b))
                                 /\ LoggedIn(c, b).user = window[c].asked
                                 /\ LoggedIn(c, b).licensed = b
                                 /\ LoggedIn(c, b).at \in {"database", "loop"}
<1>1. WindowOK(window[c])
  BY InvParts DEF TrayInv
<1> QED BY <1>1 DEF WindowOK, Windows, Places, Owners, LoggedOut, LoggedIn
-----------------------------------------------------------------------------
\* The steps of a refresh.
LEMMA RefreshStep ==
  ASSUME TrayInv, NEW c \in Trays, Refresh(c) \/ TimerTick(c)
  PROVE  TrayInv'
<1>1. WindowOK(window[c]) /\ RestOK /\ (~moved[c] => Shows(window[c], user))
  BY InvParts DEF TrayInv
<1>2. CASE AskUser(c)
  <2>1. UNCHANGED <<session, service>>
    BY <1>2 DEF AskUser
  <2>2. CASE Served(c) /\ moved' = [moved EXCEPT ![c] = FALSE] /\ user = Nobody
                       /\ Show(c, LoggedOut(c))
    BY <1>1, <1>2, <2>1, <2>2, OneWindow, Bindings, Refreshed
       DEF AskUser, RestOK, SessionOK, session, Show, Shows
  <2>3. CASE Served(c) /\ moved' = [moved EXCEPT ![c] = FALSE] /\ user # Nobody
                       /\ Show(c, [window[c] EXCEPT !.at = "license", !.asked = user])
    <3>1. WindowOK([window[c] EXCEPT !.at = "license", !.asked = user])
      BY <1>1, <1>2, <2>3 DEF WindowOK, Windows, Places, RestOK, SessionOK, AskUser
    <3>2. Shows([window[c] EXCEPT !.at = "license", !.asked = user], user)
      BY <1>1 DEF Shows, WindowOK, Windows
    <3> QED BY <1>1, <2>1, <2>3, <3>1, <3>2, OneWindow, Bindings DEF RestOK, SessionOK, session, Show
  <2>4. CASE Raises(c) /\ Show(c, LoggedOut(c)) /\ UNCHANGED moved
    BY <1>1, <1>2, <2>1, <2>4, OneWindow, Bindings, Refreshed
       DEF AskUser, RestOK, SessionOK, session, Show, Shows
  <2> QED BY <1>2, <2>2, <2>3, <2>4 DEF AskUser
<1>3. CASE AskLicense(c)
  <2>1. UNCHANGED <<session, service, moved>> /\ window[c].at = "license"
    BY <1>3 DEF AskLicense
  <2>2. CASE Served(c) /\ Goto(c, "asking")
    <3>1. WindowOK([window[c] EXCEPT !.at = "asking"])
      BY <1>1, <2>1 DEF WindowOK, Windows, Places
    <3>2. ~moved[c] => Shows([window[c] EXCEPT !.at = "asking"], user)
      BY <1>1, <2>1 DEF Shows, WindowOK, Windows
    <3> QED BY <1>1, <2>1, <2>2, <3>1, <3>2, OneWindow, Bindings DEF RestOK, SessionOK, session, Goto
  <2>3. CASE Raises(c) /\ Show(c, LoggedIn(c, FALSE))
    BY <1>1, <2>1, <2>3, OneWindow, Bindings, Refreshed DEF RestOK, SessionOK, session, Show, Shows
  <2> QED BY <1>3, <2>2, <2>3 DEF AskLicense
<1>4. CASE ReadLicense(c)
  <2> DEFINE b == license # Nobody /\ window[c].ok
  <2>1. b \in BOOLEAN
    BY <1>1 DEF RestOK, SessionOK, WindowOK, Windows
  <2>2. /\ UNCHANGED <<session, service, moved, binding>>
        /\ window[c].at = "reply"
        /\ window' = [window EXCEPT ![c] = LoggedIn(c, b)]
    BY <1>4 DEF ReadLicense, Show
  <2> HIDE DEF b
  <2> QED BY <1>1, <2>1, <2>2, OneWindow, Refreshed DEF RestOK, SessionOK, session, Shows
<1>5. CASE AskDatabase(c)
  <2>1. PICK b \in BOOLEAN :
          window' = [window EXCEPT ![c] = [window[c] EXCEPT !.at = "loop", !.database = b]]
    BY <1>1, <1>5 DEF AskDatabase, Show, RestOK, SessionOK
  <2>2. WindowOK([window[c] EXCEPT !.at = "loop", !.database = b])
    BY <1>1, <1>5 DEF WindowOK, Windows, Places, AskDatabase
  <2>3. ~moved[c] => Shows([window[c] EXCEPT !.at = "loop", !.database = b], user)
    BY <1>1, <1>5 DEF Shows, WindowOK, Windows, AskDatabase
  <2>4. UNCHANGED <<session, service, moved>> /\ (Served(c) \/ Raises(c))
    BY <1>5 DEF AskDatabase
  <2> QED BY <1>1, <2>1, <2>2, <2>3, <2>4, OneWindow, Bindings DEF RestOK, SessionOK, session
<1>6. CASE TimerTick(c)
  <2>1. WindowOK([window[c] EXCEPT !.at = "user"])
    BY <1>1, <1>6 DEF WindowOK, Windows, Places, TimerTick
  <2>2. ~moved[c] => Shows([window[c] EXCEPT !.at = "user"], user)
    BY <1>1, <1>6 DEF Shows, WindowOK, Windows, TimerTick
  <2> QED BY <1>1, <1>6, <2>1, <2>2, OneWindow DEF RestOK, SessionOK, session, TimerTick, Goto
<1> QED BY <1>2, <1>3, <1>4, <1>5, <1>6 DEF Refresh
-----------------------------------------------------------------------------
\* A window that goes on to another place and keeps all that it shows.
LEMMA Going ==
  ASSUME TrayInv, NEW c \in Trays, NEW place \in Places,
         window[c].at \notin {"license", "asking", "reply", "redeeming"},
         place \notin {"license", "asking", "reply", "redeeming"},
         place = "activating" => window[c].user # Nobody
  PROVE  LET w == [window[c] EXCEPT !.at = place] IN
         /\ WindowOK(w)
         /\ ~moved[c] => Shows(w, user)
         /\ place # "activating" => \A p \in Owners : window[c].user = Nobody => Shows(w, p)
<1>1. WindowOK(window[c]) /\ (~moved[c] => Shows(window[c], user))
  BY InvParts DEF TrayInv
<1> QED BY <1>1 DEF WindowOK, Windows, Shows

\* A call that fails or that changes nothing in the window.
LEMMA WindowStays ==
  ASSUME TrayInv, UNCHANGED window, RestOK',
         \A d \in Trays : ~moved'[d] => ~moved[d] /\ user' = user
  PROVE  TrayInv'
<1>1. TypeOK'
  BY InvParts DEF TrayInv, TypeOK, RestOK, SessionOK
<1> QED BY <1>1 DEF TrayInv

LEMMA ButtonStep ==
  ASSUME TrayInv, NEW c \in Trays, Button(c)
  PROVE  TrayInv'
<1>1. WindowOK(window[c]) /\ RestOK /\ (~moved[c] => Shows(window[c], user))
  BY InvParts DEF TrayInv
<1>2. CASE HandleLogin(c)
  <2>1. /\ Served(c) \/ Raises(c)
        /\ NoteMove
        /\ UNCHANGED service
        /\ window[c].at = "loop"
        /\ window[c].user = Nobody
    BY <1>2 DEF HandleLogin
  <2>2. SessionOK'
    BY <1>1, <1>2, SessionSteps DEF HandleLogin, SessionStep, RestOK, SessionOK
  <2>3. RestOK'
    BY <1>1, <2>1, <2>2, Bindings, Moves DEF RestOK, SessionOK
  <2>4. CASE Goto(c, "user")
    BY <2>1, <2>2, <2>3, <2>4, Going, OneWindow, Moves DEF Goto, Places
  <2>5. CASE UNCHANGED window
    BY <2>1, <2>3, <2>5, WindowStays, Moves
  <2> QED BY <1>2, <2>4, <2>5 DEF HandleLogin
<1>3. CASE HandleLogout(c)
  <2> DEFINE w == [LoggedOut(c) EXCEPT !.at = "user"]
  <2>1. /\ Served(c) \/ Raises(c)
        /\ NoteMove
        /\ UNCHANGED service
        /\ window[c].at = "loop"
        /\ window' = [window EXCEPT ![c] = w]
    BY <1>3 DEF HandleLogout, Show
  <2>2. SessionOK'
    BY <1>1, <1>3, SessionSteps DEF HandleLogout, SessionStep, RestOK, SessionOK
  <2>3. RestOK'
    BY <1>1, <2>1, <2>2, Bindings, Moves DEF RestOK, SessionOK
  <2>4. WindowOK(LoggedOut(c)) /\ LoggedOut(c).user = Nobody /\ LoggedOut(c).at = "loop"
    BY <2>1, Refreshed
  <2>5. WindowOK(w) /\ w.user = Nobody /\ w.at = "user"
    BY <2>4 DEF WindowOK, Windows, Places
  <2>6. Shows(w, user')
    BY <2>5 DEF Shows
  <2> HIDE DEF w
  <2> QED BY <2>1, <2>3, <2>5, <2>6, OneWindow, Moves
<1>4. CASE HandleActivation(c) \/ HandleScan(c) \/ HandleScheduleScan(c)
  <2>1. /\ Served(c) \/ Raises(c)
        /\ UNCHANGED <<session, service, moved>>
        /\ window[c].at = "loop"
        /\ window[c].user # Nobody
    BY <1>1, <1>4 DEF HandleActivation, HandleScan, HandleScheduleScan, WindowOK
  <2>2. RestOK'
    BY <1>1, <2>1, Bindings DEF RestOK, SessionOK, session
  <2>3. CASE Goto(c, "activating")
    BY <2>1, <2>2, <2>3, Going, OneWindow DEF Goto, Places, session
  <2>4. CASE Goto(c, "scanning")
    BY <2>1, <2>2, <2>4, Going, OneWindow DEF Goto, Places, session
  <2>5. CASE UNCHANGED window
    BY <2>1, <2>2, <2>5, WindowStays DEF session
  <2> QED BY <1>4, <2>3, <2>4, <2>5 DEF HandleActivation, HandleScan, HandleScheduleScan
<1>5. CASE ExitApplication(c)
  <2>1. WindowOK(Closed) /\ Shows(Closed, user)
    BY DEF WindowOK, Windows, Places, Owners, Closed, Shows
  <2>2. RestOK' /\ UNCHANGED <<session, moved>> /\ window' = [window EXCEPT ![c] = Closed]
    BY <1>1, <1>5 DEF RestOK, SessionOK, ExitApplication, Show, session
  <2> QED BY <2>1, <2>2, OneWindow DEF session
<1>6. CASE OpenApplication(c)
  <2>1. WindowOK(Opened) /\ Shows(Opened, user)
    BY DEF WindowOK, Windows, Places, Owners, Opened, Closed, Shows
  <2>2. RestOK' /\ UNCHANGED <<session, moved>> /\ window' = [window EXCEPT ![c] = Opened]
    BY <1>1, <1>6 DEF RestOK, SessionOK, OpenApplication, Show, session
  <2> QED BY <2>1, <2>2, OneWindow DEF session
<1> QED BY <1>2, <1>3, <1>4, <1>5, <1>6 DEF Button
-----------------------------------------------------------------------------
\* Calls of c in the service.
LEMMA CallStep ==
  ASSUME TrayInv, NEW c \in Trays, Call(c)
  PROVE  TrayInv'
<1>1. WindowOK(window[c]) /\ RestOK /\ (~moved[c] => Shows(window[c], user))
  BY InvParts DEF TrayInv
<1>2. CASE QueryLicense(c)
  <2>1. PICK b \in BOOLEAN :
          window' = [window EXCEPT ![c] = [window[c] EXCEPT !.at = "reply", !.ok = b]]
    BY <1>2 DEF QueryLicense, Show
  <2>2. /\ RestOK'
        /\ user' = user
        /\ moved' = moved
    BY <1>1, <1>2 DEF RestOK, SessionOK, QueryLicense, Decide, session
  <2>3. WindowOK([window[c] EXCEPT !.at = "reply", !.ok = b])
    BY <1>1, <1>2 DEF WindowOK, Windows, Places, QueryLicense
  <2>4. ~moved[c] => Shows([window[c] EXCEPT !.at = "reply", !.ok = b], user)
    BY <1>1, <1>2 DEF Shows, WindowOK, Windows, QueryLicense
  <2> QED BY <2>1, <2>2, <2>3, <2>4, OneWindow
<1>3. CASE CopyToken(c)
  <2>1. /\ RestOK'
        /\ UNCHANGED <<session, moved>>
        /\ window[c].at = "activating"
    BY <1>1, <1>3 DEF RestOK, SessionOK, CopyToken, session
  <2>2. CASE window' = [window EXCEPT ![c] = [window[c] EXCEPT !.at = "loop"]]
    BY <2>1, <2>2, Going, OneWindow DEF Places, session
  <2>3. CASE token # Nobody /\ window' = [window EXCEPT ![c] =
                                          [window[c] EXCEPT !.at = "redeeming", !.asked = token]]
    <3>1. WindowOK([window[c] EXCEPT !.at = "redeeming", !.asked = token])
      BY <1>1, <2>3 DEF WindowOK, Windows, Places, RestOK, SessionOK
    <3>2. ~moved[c] => Shows([window[c] EXCEPT !.at = "redeeming", !.asked = token], user)
      BY <1>1, <2>1 DEF Shows, WindowOK, Windows
    <3> QED BY <2>1, <2>3, <3>1, <3>2, OneWindow DEF session
  <2> QED BY <1>3, <2>2, <2>3 DEF CopyToken, Show
<1>4. CASE ActivateLicense(c)
  <2>1. PICK place \in {"user", "loop"} :
          window' = [window EXCEPT ![c] = [window[c] EXCEPT !.at = place, !.asked = Nobody]]
    BY <1>4 DEF ActivateLicense, Show
  <2>2. /\ RestOK'
        /\ user' = user
        /\ moved' = moved
    BY <1>1, <1>4 DEF RestOK, SessionOK, ActivateLicense, Decide, session
  <2>3. WindowOK([window[c] EXCEPT !.at = place, !.asked = Nobody])
    BY <1>1, <1>4 DEF WindowOK, Windows, Places, Owners
  <2>4. ~moved[c] => Shows([window[c] EXCEPT !.at = place, !.asked = Nobody], user)
    BY <1>1, <1>4 DEF Shows, WindowOK, Windows, ActivateLicense
  <2> QED BY <2>1, <2>2, <2>3, <2>4, OneWindow
<1>5. CASE Scan(c)
  BY <1>1, <1>5, Going, OneWindow DEF Scan, Goto, Places, RestOK, SessionOK, session
<1> QED BY <1>2, <1>3, <1>4, <1>5 DEF Call
-----------------------------------------------------------------------------
\* The service and its other clients.
LEMMA BrokenCall ==
  ASSUME TrayInv, NEW c \in Trays
  PROVE  /\ WindowOK(Broken(c))
         /\ Broken(c).licensed => window[c].licensed
         /\ ~moved[c] /\ user = Nobody => Shows(Broken(c), Nobody)
<1>1. WindowOK(window[c]) /\ (~moved[c] => Shows(window[c], user))
  BY InvParts DEF TrayInv
<1>2. CASE window[c].at \in {"asking", "reply"}
  <2>1. Broken(c) = LoggedIn(c, FALSE)
    BY <1>2 DEF Broken
  <2>2. ~(~moved[c] /\ user = Nobody)
    BY <1>1, <1>2 DEF Shows, WindowOK
  <2> QED BY <1>2, <2>1, <2>2, Refreshed
<1>3. CASE window[c].at \in {"activating", "redeeming", "scanning"}
  <2>1. Broken(c) = [window[c] EXCEPT !.at = "loop", !.asked = Nobody]
    BY <1>3 DEF Broken
  <2> QED BY <1>1, <1>3, <2>1 DEF WindowOK, Windows, Places, Owners, Shows
<1>4. CASE window[c].at \notin {"asking", "reply", "activating", "redeeming", "scanning"}
  <2>1. Broken(c) = window[c]
    BY <1>4 DEF Broken
  <2> QED BY <1>1, <2>1
<1> QED BY <1>2, <1>3, <1>4

LEMMA EnvironmentStep ==
  ASSUME TrayInv, OtherStep \/ ServiceExits \/ StartService
  PROVE  TrayInv'
<1>1. RestOK /\ window \in [Trays -> Windows]
  BY InvParts DEF TrayInv
<1>2. CASE OtherStep
  <2>1. RestOK'
    BY <1>1, <1>2, SessionSteps, Moves DEF OtherStep, RestOK, SessionOK
  <2> QED BY <1>2, <2>1, WindowStays, Moves DEF OtherStep
<1>3. CASE ServiceExits
  <2>1. PICK killed \in SUBSET Trays :
          /\ window' = [c \in Trays |-> IF c \in killed THEN Closed ELSE Broken(c)]
          /\ binding' = [c \in Trays |->
               IF c \in killed \/ InCall(c) \/ binding[c] = "none" THEN "none" ELSE "stale"]
    BY <1>3 DEF ServiceExits
  <2>2. /\ user' = Nobody
        /\ token' = Nobody
        /\ license' = Nobody
        /\ overlap' = FALSE
        /\ service' = "stopped"
        /\ NoteMove
    BY <1>3 DEF ServiceExits, Restart
  <2>3. RestOK'
    BY <2>1, <2>2, Moves DEF RestOK, SessionOK, Owners
  <2>4. WindowOK(Closed) /\ Shows(Closed, Nobody)
    BY DEF WindowOK, Windows, Places, Owners, Closed, Shows
  <2>5. ASSUME NEW c \in Trays
        PROVE  WindowOK(window'[c]) /\ (~moved'[c] => Shows(window'[c], user'))
    <3>1. window'[c] = IF c \in killed THEN Closed ELSE Broken(c)
      BY <2>1
    <3>2. ~moved'[c] => ~moved[c] /\ user = Nobody
      BY <2>2, Moves
    <3> QED BY <2>2, <2>4, <3>1, <3>2, BrokenCall
  <2>6. window' \in [Trays -> Windows]
    <3>1. \A c \in Trays : (IF c \in killed THEN Closed ELSE Broken(c)) \in Windows
      BY <2>4, BrokenCall DEF WindowOK
    <3> QED BY <2>1, <3>1
  <2>7. TypeOK'
    BY <2>3, <2>5, <2>6 DEF TypeOK, RestOK, SessionOK, WindowOK
  <2> QED BY <2>5, <2>7 DEF TrayInv
<1>4. CASE StartService
  <2>1. RestOK' /\ UNCHANGED <<session, window, moved>>
    BY <1>1, <1>4 DEF StartService, RestOK, SessionOK, session
  <2> QED BY <2>1, WindowStays DEF session
<1> QED BY <1>2, <1>3, <1>4

LEMMA TrayInvHolds == Spec => []TrayInv
<1>1. Init => TrayInv
  <2> SUFFICES ASSUME Init PROVE TrayInv
    OBVIOUS
  <2>1. WindowOK(Opened)
    BY DEF WindowOK, Windows, Places, Owners, Opened, Closed
  <2>2. TypeOK
    BY <2>1 DEF Init, SessionInit, TypeOK, WindowOK, Owners
  <2> QED BY <2>2 DEF Init, TrayInv
<1>2. TrayInv /\ [Next]_vars => TrayInv'
  <2> SUFFICES ASSUME TrayInv, [Next]_vars PROVE TrayInv'
    OBVIOUS
  <2>1. CASE Next
    BY <2>1, RefreshStep, ButtonStep, CallStep, EnvironmentStep DEF Next
  <2>2. CASE UNCHANGED vars
    <3>1. UNCHANGED window /\ RestOK' /\ UNCHANGED <<user, moved>>
      BY <2>2, InvParts DEF vars, session, TrayInv, RestOK, SessionOK
    <3> QED BY <3>1, WindowStays
  <2> QED BY <2>1, <2>2
<1> QED BY <1>1, <1>2, PTL DEF Spec
-----------------------------------------------------------------------------
(* The account of the token and of the license, for which the service answers. *)

Owned == ~overlap => token = user /\ license \in {Nobody, user}

\* All that the steps of the composition do to the session.
LEMMA SessionMoves == [Next]_vars => SessionStep \/ Restart \/ UNCHANGED session
<1> SUFFICES ASSUME [Next]_vars PROVE SessionStep \/ Restart \/ UNCHANGED session
  OBVIOUS
<1>1. ASSUME NEW c \in Trays, Refresh(c) \/ TimerTick(c) PROVE UNCHANGED session
  BY <1>1 DEF Refresh, AskUser, AskLicense, ReadLicense, AskDatabase, TimerTick
<1>2. ASSUME NEW c \in Trays, Button(c) PROVE SessionStep \/ UNCHANGED session
  BY <1>2 DEF Button, HandleLogin, HandleLogout, HandleActivation, HandleScan,
              HandleScheduleScan, ExitApplication, OpenApplication, SessionStep
<1>3. ASSUME NEW c \in Trays, Call(c) PROVE SessionStep \/ UNCHANGED session
  BY <1>3 DEF Call, QueryLicense, CopyToken, ActivateLicense, Scan, SessionStep
<1>4. CASE OtherStep \/ ServiceExits \/ StartService \/ UNCHANGED vars
  BY <1>4 DEF OtherStep, ServiceExits, StartService, vars
<1> QED BY <1>1, <1>2, <1>3, <1>4 DEF Next

LEMMA OwnedHolds == Spec => []Owned
<1>1. Init => Owned
  BY DEF Init, SessionInit, Owned
<1>2. Owned /\ [Next]_vars => Owned'
  <2> SUFFICES ASSUME Owned, [Next]_vars PROVE Owned'
    OBVIOUS
  <2>1. CASE SessionStep
    <3>1. CASE (\E p \in Principals : Begin(p)) \/ End
      <4>1. token' = user' /\ license' = Nobody
        BY <3>1 DEF Begin, End
      <4> QED BY <4>1 DEF Owned
    <3>2. ASSUME NEW p \in Owners, Decide(p) PROVE Owned'
      BY <3>2 DEF Decide, Owned
    <3>3. ASSUME NEW p \in Principals, Retoken(p) PROVE Owned'
      BY <3>3 DEF Retoken, Owned
    <3> QED BY <2>1, <3>1, <3>2, <3>3 DEF SessionStep
  <2>2. CASE Restart \/ UNCHANGED session
    BY <2>2 DEF Restart, session, Owned
  <2> QED BY <2>1, <2>2, SessionMoves
<1> QED BY <1>1, <1>2, PTL DEF Spec
-----------------------------------------------------------------------------
(* Theorems                                                                 *)

\* TypeOK holds of RefreshApplicationState and the buttons for any number of
\* applications and accounts: an unlocked window always shows a user.
THEOREM TypeCorrect == Spec => []TypeOK
BY TrayInvHolds, PTL DEF TrayInv

\* A step that does not unlock the window that takes it.
Locks(d) == window'[d].licensed => window[d].licensed

Others(d) == \A e \in Trays : e # d => window'[e] = window[e]

\* Only the end of a refresh unlocks a window.
LEMMA Unlocking ==
  ASSUME TrayInv, [Next]_vars, NEW c \in Trays,
         ~window[c].licensed, window'[c].licensed
  PROVE  ReadLicense(c)
<1>1. window \in [Trays -> Windows] /\ \A d \in Trays : WindowOK(window[d])
  BY InvParts DEF TrayInv
<1>2. ASSUME NEW d \in Trays, Refresh(d) \/ TimerTick(d), ~ReadLicense(d)
      PROVE  Locks(d) /\ Others(d)
  <2>1. LoggedOut(d).licensed = FALSE
    BY <1>1 DEF LoggedOut, Windows
  <2>2. window[d].at = "license" => LoggedIn(d, FALSE).licensed = FALSE
    BY Refreshed
  <2> QED BY <1>1, <1>2, <2>1, <2>2
          DEF Refresh, AskUser, AskLicense, AskDatabase, TimerTick, Show, Goto, Locks, Others,
              Windows
<1>3. ASSUME NEW d \in Trays, Button(d)
      PROVE  Locks(d) /\ Others(d)
  <2>1. [LoggedOut(d) EXCEPT !.at = "user"].licensed = FALSE
    BY <1>1 DEF LoggedOut, Windows
  <2>2. Closed.licensed = FALSE /\ Opened.licensed = FALSE
    BY DEF Closed, Opened
  <2> QED BY <1>1, <1>3, <2>1, <2>2
          DEF Button, HandleLogin, HandleLogout, HandleActivation, HandleScan, HandleScheduleScan,
              ExitApplication, OpenApplication, Show, Goto, Locks, Others, Windows
<1>4. ASSUME NEW d \in Trays, Call(d)
      PROVE  Locks(d) /\ Others(d)
  BY <1>1, <1>4 DEF Call, QueryLicense, CopyToken, ActivateLicense, Scan, Show, Goto,
                    Locks, Others, Windows
<1>5. CASE \E d \in Trays : Refresh(d) \/ TimerTick(d) \/ Button(d) \/ Call(d)
  <2>1. PICK d \in Trays : Refresh(d) \/ TimerTick(d) \/ Button(d) \/ Call(d)
    BY <1>5
  <2>2. CASE ReadLicense(d)
    BY <1>1, <2>2 DEF ReadLicense, Show
  <2>3. CASE ~ReadLicense(d)
    BY <1>2, <1>3, <1>4, <2>1, <2>3 DEF Locks, Others
  <2> QED BY <2>2, <2>3
<1>6. CASE OtherStep \/ StartService \/ UNCHANGED vars
  BY <1>6 DEF OtherStep, StartService, vars
<1>7. CASE ServiceExits
  BY <1>7, BrokenCall DEF ServiceExits, Closed
<1> QED BY <1>5, <1>6, <1>7 DEF Next

\* Unless the session got another user since a window last asked who it is, or an
\* answer crossed a boundary of the session inside the service, the window redeems a
\* code with the token of the account it shows and unlocks on the license of the
\* account it will show, however many windows and other clients there are.
THEOREM ActionsMatchDisplay == Spec => ActsForShownUser
<1> DEFINE Acts(c) == /\ CopyToken(c) => window'[c].asked = window[c].user
                      /\ ~window[c].licensed /\ window'[c].licensed
                           => window'[c].user = user /\ license = user
<1>1. ASSUME TrayInv, Owned, [Next]_vars, NEW c \in Trays, ~moved[c] /\ ~overlap PROVE Acts(c)
  <2>1. /\ window \in [Trays -> Windows]
        /\ WindowOK(window[c])
        /\ Shows(window[c], user)
        /\ token = user
        /\ license \in {Nobody, user}
    BY <1>1, InvParts DEF TrayInv, Owned
  <2>2. ASSUME CopyToken(c) PROVE window'[c].asked = window[c].user
    <3>1. window[c].user = token /\ window[c].asked = Nobody
      BY <2>1, <2>2 DEF CopyToken, Shows, WindowOK
    <3>2. CASE token = Nobody
      BY <2>1, <2>2, <3>1, <3>2 DEF CopyToken, Show, Windows
    <3>3. CASE token # Nobody
      BY <2>1, <2>2, <3>1, <3>3 DEF CopyToken, Show, Windows
    <3> QED BY <3>2, <3>3
  <2>3. ASSUME ~window[c].licensed, window'[c].licensed
        PROVE  window'[c].user = user /\ license = user
    <3> DEFINE b == license # Nobody /\ window[c].ok
    <3>1. ReadLicense(c)
      BY <1>1, <2>3, Unlocking
    <3>2. window[c].at = "reply" /\ window'[c] = LoggedIn(c, b) /\ window[c].asked = user
      BY <2>1, <3>1 DEF ReadLicense, Show, Shows
    <3>3. b \in BOOLEAN
      BY <1>1, <2>1 DEF TrayInv, TypeOK, Windows
    <3> HIDE DEF b
    <3>4. window'[c].user = user /\ b
      BY <1>1, <2>3, <3>2, <3>3, Refreshed
    <3> QED BY <2>1, <3>4 DEF b
  <2> QED BY <2>2, <2>3
<1>2. TrayInv /\ Owned /\ [Next]_vars => [\A c \in Trays : ~moved[c] /\ ~overlap => Acts(c)]_vars
  BY <1>1
<1> QED BY <1>2, TrayInvHolds, OwnedHolds, PTL DEF Spec, ActsForShownUser
=============================================================================
