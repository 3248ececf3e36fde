----------------------- MODULE ServiceLifecycleProofs -----------------------
(* Theorems about ServiceLifecycle, for any sessions and any bound on mishaps. *)
EXTENDS ServiceLifecycle, TLAPS

\* The status that ServiceMain has reported at each step.
StatusOf(step) == CASE step \in {"threads", "load", "running"} -> "start_pending"
                    [] step \in {"launch", "wait"} -> "running"
                    [] step = "exited" -> "stopped"
                    [] OTHER -> "stop_pending"

\* ServiceMain launches during the wait only, and nobody before the service runs
\* or after the process has ended.
MainInv == /\ status = StatusOf(at)
           /\ at # "wait" => launcher["main"].at = "idle"
           /\ at = "exited" => launcher["handler"].at = "idle"
           /\ status = "start_pending" => /\ ~pending
                                          /\ launcher["handler"].at = "idle"
                                          /\ running = {}

Joined(w) == worker[w] = "ended" \/ w \in overdue

\* The threads that have been waited for at each step.
JoinInv ==
  /\ at \in {"stopListening", "joinRefresh", "joinUpdate", "signal", "joinSchedule", "joinMonitor"}
       => "stop" \in signals
  /\ at \in {"joinSchedule", "joinMonitor"} => "monitor" \in signals
  /\ at \in {"joinUpdate", "signal", "joinSchedule", "joinMonitor", "terminate", "free", "done"}
       => Joined(Refresh)
  /\ at \in {"signal", "joinSchedule", "joinMonitor", "terminate", "free", "done"}
       => Joined(Update)
  /\ at \in {"joinMonitor", "terminate", "free", "done"} => Joined(Schedule)
  /\ at \in {"terminate", "free", "done"} => Joined(Monitor)

\* The application a launcher has started and not yet remembered.
Fresh(l) == IF l.at = "remember" THEN l.session ELSE {}

\* Every application that runs is remembered or about to be, by one launcher.
TrayInv ==
  LET main == Fresh(launcher["main"])
      handler == Fresh(launcher["handler"])
  IN  /\ known \cup main \cup handler \subseteq running
      /\ at # "exited" => running = known \cup main \cup handler
      /\ known \cap main = {} /\ known \cap handler = {} /\ main \cap handler = {}
      /\ \A l \in Launchers : launcher[l].at = "create" => \E s \in Sessions : launcher[l].session = {s}
      /\ at \in {"free", "done", "exited"} /\ ~crossed => /\ running = {}
                                                          /\ launcher["handler"].at = "idle"

LifeInv == TypeOK /\ MainInv /\ JoinInv /\ TrayInv

LEMMA InitLife == Init => LifeInv
<1> SUFFICES ASSUME Init PROVE LifeInv
  OBVIOUS
<1>1. \A l \in Launchers : launcher[l] = NoLaunch
  BY DEF Init
<1>2. TypeOK
  <2>1. launcher \in [Launchers -> [at : {"idle", "check", "create", "remember"},
                                    todo : SUBSET Sessions, session : SUBSET Sessions]]
    BY DEF Init, NoLaunch
  <2>2. mishaps \in 0..Launches
    BY LifecycleAssumption DEF Init
  <2> QED BY <2>1, <2>2 DEF Init, TypeOK, MainSteps
<1>3. MainInv /\ TrayInv
  BY <1>1 DEF Init, MainInv, TrayInv, Fresh, StatusOf, NoLaunch, Launchers
<1>4. JoinInv
  BY DEF Init, JoinInv
<1> QED BY <1>2, <1>3, <1>4 DEF LifeInv
-----------------------------------------------------------------------------
\* ServiceMain's own steps.
LEMMA StartSteps ==
  ASSUME LifeInv, CreateThreads \/ StartFails \/ LoadDatabase \/ ReportRunning \/ LaunchTrays
  PROVE  LifeInv'
<1> USE LifecycleAssumption DEF LifeInv, threads, trays, CreateThreads, StartFails, LoadDatabase,
                                ReportRunning, LaunchTrays
<1>1. TypeOK'
  <2>1. launcher' \in [Launchers -> [at : {"idle", "check", "create", "remember"},
                                     todo : SUBSET Sessions, session : SUBSET Sessions]]
    BY DEF TypeOK, BeginLaunch
  <2>2. worker' \in [Workers -> {"none", "waiting", "busy", "ended"}]
    BY DEF TypeOK
  <2>3. excused' \subseteq Sessions /\ mishaps' \in 0..Launches
    BY DEF TypeOK, BeginLaunch
  <2> QED BY <2>1, <2>2, <2>3 DEF TypeOK, MainSteps
<1>2. MainInv'
  BY DEF MainInv, StatusOf, BeginLaunch, Launchers, TypeOK
<1>3. JoinInv'
  BY DEF JoinInv, Joined, MainInv
<1>4. TrayInv'
  BY DEF TrayInv, Fresh, MainInv, StatusOf, BeginLaunch, Launchers, TypeOK
<1> QED BY <1>1, <1>2, <1>3, <1>4

LEMMA StopSteps ==
  ASSUME LifeInv, StopPending \/ StopListening \/ JoinWorker \/ SignalMonitor \/ Free
  PROVE  LifeInv'
<1> USE LifecycleAssumption DEF LifeInv, threads, trays, StopPending, StopListening, JoinWorker, Join,
                                SignalMonitor, Free
<1>1. TypeOK'
  BY DEF TypeOK, MainSteps, Workers
<1>2. MainInv'
  BY DEF MainInv, StatusOf
<1>3. JoinInv'
  BY DEF JoinInv, Joined, MainInv, Awaits, TypeOK, Workers
<1>4. TrayInv'
  BY DEF TrayInv, Fresh
<1> QED BY <1>1, <1>2, <1>3, <1>4

LEMMA EndSteps ==
  ASSUME LifeInv, TerminateTrayProcesses \/ ReportStopped
  PROVE  LifeInv'
<1> USE DEF LifeInv, threads, trays, TerminateTrayProcesses, ReportStopped
<1>1. TypeOK'
  <2>1. launcher' \in [Launchers -> [at : {"idle", "check", "create", "remember"},
                                     todo : SUBSET Sessions, session : SUBSET Sessions]]
    BY DEF TypeOK, NoLaunch
  <2> QED BY <2>1 DEF TypeOK, MainSteps
<1>2. MainInv'
  BY DEF MainInv, StatusOf, NoLaunch, Launchers
<1>3. JoinInv'
  BY DEF JoinInv, Joined
<1>4. CASE TerminateTrayProcesses
  <2>1. launcher["main"].at = "idle"
    BY <1>4 DEF MainInv
  <2>2. running' = Fresh(launcher["handler"]) /\ known' = {}
    BY <1>4, <2>1 DEF TrayInv, Fresh
  <2> QED BY <1>1, <1>2, <1>3, <1>4, <2>1, <2>2 DEF TrayInv, Fresh
<1>5. CASE ReportStopped
  <2>1. \A l \in Launchers : launcher'[l] = NoLaunch
    BY <1>5
  <2> QED BY <1>1, <1>2, <1>3, <1>5, <2>1 DEF TrayInv, Fresh, NoLaunch, Launchers
<1> QED BY <1>4, <1>5
-----------------------------------------------------------------------------
\* A step that leaves ServiceMain and the threads where they are.
LEMMA Elsewhere ==
  ASSUME LifeInv, UNCHANGED <<at, status, worker, overdue, locks, call>>, signals \subseteq signals',
         TypeOK', TrayInv',
         launcher'["main"].at # "idle" => launcher["main"].at # "idle",
         launcher'["handler"].at # "idle" =>
           status = "running" \/ status = "stop_pending" \/ launcher["handler"].at # "idle",
         status = "start_pending" => pending' = pending /\ running' \subseteq running
  PROVE  LifeInv'
<1>1. MainInv'
  BY DEF LifeInv, MainInv, StatusOf
<1>2. JoinInv'
  BY DEF LifeInv, JoinInv, Joined
<1> QED BY <1>1, <1>2 DEF LifeInv

LEMMA LaunchSteps ==
  ASSUME LifeInv, NEW l \in Launchers, LaunchStep(l)
  PROVE  LifeInv'
<1>1. /\ at # "exited"
      /\ launcher[l].at # "idle"
      /\ status # "start_pending"
      /\ TypeOK
      /\ MainInv
      /\ TrayInv
  <2>1. TypeOK /\ MainInv /\ TrayInv
    BY DEF LifeInv
  <2>2. at # "exited" /\ launcher[l].at # "idle"
    BY DEF LaunchStep, CheckSession, NothingLeft, CreateTray, RememberTray
  <2>3. status # "start_pending"
    BY <2>1, <2>2 DEF MainInv, StatusOf, Launchers
  <2> QED BY <2>1, <2>2, <2>3
<1>2. /\ UNCHANGED <<at, status, threads, active, pending, crossed>>
      /\ \A m \in Launchers : m # l => launcher'[m] = launcher[m]
  BY DEF LaunchStep, CheckSession, NothingLeft, CreateTray, RememberTray, TypeOK, LifeInv
<1>3. TypeOK'
  <2>1. launcher' \in [Launchers -> [at : {"idle", "check", "create", "remember"},
                                     todo : SUBSET Sessions, session : SUBSET Sessions]]
    BY <1>1 DEF TypeOK, LaunchStep, CheckSession, NothingLeft, CreateTray, RememberTray, NoLaunch
  <2>2. running' \subseteq Sessions /\ excused' \subseteq Sessions /\ mishaps' \in 0..Launches
    BY <1>1, LifecycleAssumption
       DEF TypeOK, LaunchStep, CheckSession, NothingLeft, CreateTray, RememberTray
  <2>3. known' \subseteq running'
    BY <1>1 DEF TypeOK, TrayInv, Fresh, Launchers, LaunchStep, CheckSession, NothingLeft, CreateTray,
                RememberTray
  <2> QED BY <1>1, <1>2, <2>1, <2>2, <2>3 DEF TypeOK, threads
<1>4. TrayInv'
  <2>1. CASE CheckSession(l)
    BY <1>1, <1>2, <2>1 DEF CheckSession, TypeOK, TrayInv, Fresh, Launchers
  <2>2. CASE NothingLeft(l)
    BY <1>1, <1>2, <2>2 DEF NothingLeft, TypeOK, TrayInv, Fresh, Launchers, NoLaunch
  <2>3. CASE CreateTray(l)
    <3>1. PICK s \in Sessions : launcher[l].session = {s}
      BY <1>1, <2>3 DEF CreateTray, TrayInv
    <3>2. CASE /\ running' = running \cup {s}
               /\ launcher'[l].at = "remember"
               /\ launcher'[l].session = {s} \ running
      <4>1. Fresh(launcher[l]) = {} /\ Fresh(launcher'[l]) = {s} \ running
        BY <2>3, <3>2 DEF CreateTray, Fresh
      <4>2. \A m \in Launchers : m # l => Fresh(launcher'[m]) = Fresh(launcher[m])
        BY <1>2 DEF Fresh
      <4>3. UNCHANGED <<at, known, crossed>>
        BY <1>2, <2>3 DEF CreateTray
      <4>4. at \in {"free", "done", "exited"} => crossed
        BY <1>1, <2>3 DEF CreateTray, TrayInv, MainInv, Launchers
      <4> QED BY <1>1, <1>2, <3>2, <4>1, <4>2, <4>3, <4>4 DEF TrayInv, Launchers
    <3>3. CASE UNCHANGED running /\ launcher'[l].at = "check"
      <4>1. Fresh(launcher[l]) = {} /\ Fresh(launcher'[l]) = {}
        BY <2>3, <3>3 DEF CreateTray, Fresh
      <4>2. \A m \in Launchers : m # l => Fresh(launcher'[m]) = Fresh(launcher[m])
        BY <1>2 DEF Fresh
      <4>3. UNCHANGED <<at, known, crossed>>
        BY <1>2, <2>3 DEF CreateTray
      <4>4. at \in {"free", "done", "exited"} => crossed
        BY <1>1, <2>3 DEF CreateTray, TrayInv, MainInv, Launchers
      <4> QED BY <1>1, <1>2, <3>3, <4>1, <4>2, <4>3, <4>4 DEF TrayInv, Launchers
    <3> QED BY <1>1, <2>3, <3>1, <3>2, <3>3 DEF CreateTray, TypeOK
  <2>4. CASE RememberTray(l)
    BY <1>1, <1>2, <2>4 DEF RememberTray, TypeOK, TrayInv, Fresh, Launchers
  <2> QED BY <2>1, <2>2, <2>3, <2>4 DEF LaunchStep
<1> QED BY <1>1, <1>2, <1>3, <1>4, Elsewhere DEF threads, Launchers, MainInv, StatusOf

LEMMA HandlerStep ==
  ASSUME LifeInv, HandleSessionChange
  PROVE  LifeInv'
<1>1. /\ TypeOK
      /\ MainInv
      /\ TrayInv
      /\ status # "start_pending"
      /\ at # "exited"
      /\ launcher["handler"].at = "idle"
  BY DEF LifeInv, HandleSessionChange, MainInv
<1>2. /\ UNCHANGED <<at, status, threads, active, running, known>>
      /\ pending' = FALSE
      /\ crossed' = (crossed \/ Terminated)
      /\ BeginLaunch("handler")
  BY DEF HandleSessionChange
<1>3. /\ launcher' \in [Launchers -> [at : {"idle", "check", "create", "remember"},
                                      todo : SUBSET Sessions, session : SUBSET Sessions]]
      /\ launcher'["main"] = launcher["main"]
      /\ launcher'["handler"].at \in {"idle", "check"}
      /\ excused' \subseteq Sessions /\ mishaps' \in 0..Launches
  BY <1>1, <1>2, LifecycleAssumption DEF BeginLaunch, TypeOK, Launchers
<1>4. TypeOK'
  BY <1>1, <1>2, <1>3 DEF TypeOK, threads
<1>5. TrayInv'
  <2>1. Fresh(launcher'["handler"]) = {} /\ Fresh(launcher["handler"]) = {}
    BY <1>1, <1>3 DEF Fresh
  <2>2. Fresh(launcher'["main"]) = Fresh(launcher["main"])
    BY <1>3
  <2>3. \A l \in Launchers : launcher'[l].at = "create" => launcher'[l] = launcher[l]
    BY <1>3 DEF Launchers
  <2>4. at \in {"free", "done", "exited"} => crossed'
    BY <1>1, <1>2 DEF Terminated
  <2> QED BY <1>1, <1>2, <2>1, <2>2, <2>3, <2>4 DEF TrayInv
<1> QED BY <1>1, <1>2, <1>3, <1>4, <1>5, Elsewhere DEF threads, MainInv, StatusOf

LEMMA ThreadSteps ==
  ASSUME LifeInv,
         \/ \E w \in Workers : BeginWork(w) \/ EndWork(w) \/ EndThread(w)
         \/ StopService \/ BeginCall \/ EndCall
  PROVE  LifeInv'
<1> USE DEF LifeInv, trays, BeginWork, EndWork, EndThread, StopService, BeginCall, EndCall
<1>1. TypeOK'
  BY DEF TypeOK
<1>2. MainInv'
  BY DEF MainInv, StatusOf, Listening
<1>3. JoinInv'
  BY DEF JoinInv, Joined, TypeOK, Workers
<1>4. TrayInv'
  BY DEF TrayInv, Fresh
<1> QED BY <1>1, <1>2, <1>3, <1>4

LEMMA SessionSteps ==
  ASSUME LifeInv, NEW s \in Sessions, LogOn(s) \/ LogOff(s) \/ AppEnds(s)
  PROVE  LifeInv'
<1>1. TypeOK /\ MainInv /\ TrayInv /\ UNCHANGED <<at, status, threads, crossed>>
  BY DEF LifeInv, LogOn, LogOff, AppEnds
<1>2. CASE LogOn(s)
  <2>1. TypeOK'
    BY <1>1, <1>2 DEF LogOn, TypeOK, threads
  <2>2. TrayInv'
    BY <1>1, <1>2 DEF LogOn, TrayInv, Fresh
  <2>3. UNCHANGED <<launcher, running, signals, worker, overdue, locks, call>>
    BY <1>1, <1>2 DEF LogOn, threads
  <2>4. status = "start_pending" => pending' = pending
    BY <1>1, <1>2 DEF LogOn, TypeOK
  <2> QED BY <1>1, <2>1, <2>2, <2>3, <2>4, Elsewhere
<1>3. CASE LogOff(s) \/ AppEnds(s)
  <2>1. Ended(s) /\ UNCHANGED pending
    BY <1>3 DEF LogOff, AppEnds
  <2>2. \A l \in Launchers : /\ launcher'[l].at = launcher[l].at
                             /\ launcher'[l].at # "remember" => launcher'[l] = launcher[l]
                             /\ Fresh(launcher'[l]) = Fresh(launcher[l]) \ {s}
    BY <1>1, <2>1 DEF Ended, TypeOK, Fresh
  <2>3. launcher' \in [Launchers -> [at : {"idle", "check", "create", "remember"},
                                     todo : SUBSET Sessions, session : SUBSET Sessions]]
    BY <1>1, <2>1 DEF Ended, TypeOK
  <2>4. active' \subseteq Sessions /\ excused' \subseteq Sessions /\ mishaps' \in 0..Launches
    BY <1>1, <1>3, LifecycleAssumption DEF LogOff, AppEnds, TypeOK
  <2>5. TypeOK'
    BY <1>1, <2>1, <2>3, <2>4 DEF Ended, TypeOK, threads
  <2>6. running' = running \ {s} /\ known' = known \ {s}
    BY <2>1 DEF Ended
  <2>7. TrayInv'
    BY <1>1, <2>2, <2>6 DEF TrayInv, Launchers
  <2> QED BY <1>1, <2>1, <2>2, <2>5, <2>6, <2>7, Elsewhere DEF threads, Launchers
<1> QED BY <1>2, <1>3

LEMMA LifeInvHolds == Spec => []LifeInv
<1>1. LifeInv /\ [Next]_vars => LifeInv'
  <2> SUFFICES ASSUME LifeInv, [Next]_vars PROVE LifeInv'
    OBVIOUS
  <2>1. CASE MainStep
    BY <2>1, StartSteps, StopSteps, EndSteps, LaunchSteps DEF MainStep, Launchers
  <2>2. CASE HandleSessionChange \/ LaunchStep("handler")
    BY <2>2, HandlerStep, LaunchSteps DEF Launchers
  <2>3. CASE \/ \E w \in Workers : BeginWork(w) \/ EndWork(w) \/ EndThread(w)
             \/ StopService \/ BeginCall \/ EndCall
    BY <2>3, ThreadSteps
  <2>4. CASE \E s \in Sessions : LogOn(s) \/ LogOff(s) \/ AppEnds(s)
    BY <2>4, SessionSteps
  <2>5. CASE UNCHANGED vars
    BY <2>5 DEF vars, LifeInv, TypeOK, MainInv, JoinInv, Joined, TrayInv, Fresh
  <2> QED BY <2>1, <2>2, <2>3, <2>4, <2>5 DEF Next
<1> QED BY <1>1, InitLife, PTL DEF Spec
-----------------------------------------------------------------------------
(* Theorems                                                                 *)

\* Types of ServiceMain's state, for any number of sessions and mishaps; what is
\* remembered runs.
THEOREM TypeCorrect == Spec => []TypeOK
BY LifeInvHolds, PTL DEF LifeInv

\* Events and locks are freed under no thread but those that were busy for the
\* whole of their three seconds, whatever the workers and the clients do.
THEOREM WorkersJoined == Spec => []JoinedUnlessBusy
<1>1. LifeInv => JoinedUnlessBusy
  BY DEF LifeInv, MainInv, JoinInv, Joined, JoinedUnlessBusy, Workers
<1> QED BY <1>1, LifeInvHolds, PTL

\* However ServiceMain and the control handler interleave their checks, launches
\* and remembering, an application left behind by a stop was launched by a handler
\* that ran at or after the termination.
THEOREM TraysTerminated == Spec => []NoTrayLeft
<1>1. LifeInv => NoTrayLeft
  BY DEF LifeInv, TypeOK, MainInv, TrayInv, StatusOf, NoTrayLeft, MainSteps
<1> QED BY <1>1, LifeInvHolds, PTL
=============================================================================
