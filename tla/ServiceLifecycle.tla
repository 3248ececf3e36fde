-------------------------- MODULE ServiceLifecycle --------------------------
(***************************************************************************)
(* Start and stop of the service in service.cpp: ServiceMain and the        *)
(* threads it creates, the control handler, and the tray applications both  *)
(* of them launch in the user sessions.  ServiceMain waits at most three    *)
(* seconds for each thread and for no RPC call, then closes the events and  *)
(* deletes the locks.  The handler runs on the dispatcher's thread, which   *)
(* nobody waits for.                                                        *)
(***************************************************************************)
EXTENDS Naturals

CONSTANTS Sessions,
          Refresh, Update, Schedule, Monitor,  \* the worker threads
          Launches                             \* bound on failed launches and ended trays

Workers == {Refresh, Update, Schedule, Monitor}
Launchers == {"main", "handler"}

ASSUME LifecycleAssumption ==
  /\ Refresh \notin {Update, Schedule, Monitor}
  /\ Update \notin {Schedule, Monitor}
  /\ Schedule # Monitor
  /\ Launches \in Nat

VARIABLES at,        \* the step ServiceMain is at
          status,    \* g_status.dwCurrentState
          signals,   \* the events that are set: "stop", "monitor"
          worker,    \* worker[w]: a thread, and whether it waits or works
          locks,     \* the critical sections
          call,      \* an RPC call that takes locks is in progress
          launcher,  \* launcher[l]: sessions left to visit, and the step
          active,    \* sessions that are logged on
          pending,   \* a session-change control is on its way
          running,   \* sessions with an application launched by the service
          known,     \* those of them whose process is in g_tray_processes
          crossed,   \* the handler was launching at or after TerminateTrayProcesses
          overdue,   \* workers still busy when ServiceMain gave up waiting
          excused,   \* sessions not listed, whose launch failed or whose application ended
          mishaps

vars == <<at, status, signals, worker, locks, call, launcher, active, pending, running,
          known, crossed, overdue, excused, mishaps>>
threads == <<signals, worker, locks, call, overdue>>
trays == <<launcher, active, pending, running, known, crossed, excused, mishaps>>

MainSteps == {"threads", "load", "running", "launch", "wait", "stopListening",
              "joinRefresh", "joinUpdate", "signal", "joinSchedule", "joinMonitor", "terminate",
              "free", "done", "exited"}
NoLaunch == [at |-> "idle", todo |-> {}, session |-> {}]

Init == /\ at = "threads"
        /\ status = "start_pending"
        /\ signals = {}
        /\ worker = [w \in Workers |-> "none"]
        /\ locks = "valid"
        /\ call = FALSE
        /\ launcher = [l \in Launchers |-> NoLaunch]
        /\ active \in SUBSET Sessions
        /\ pending = FALSE
        /\ running = {}
        /\ known = {}
        /\ crossed = FALSE
        /\ overdue = {}
        /\ excused = {}
        /\ mishaps = 0

\* Types: every variable stays in its range.
TypeOK == /\ at \in MainSteps
          /\ status \in {"start_pending", "running", "stop_pending", "stopped"}
          /\ signals \subseteq {"stop", "monitor"}
          /\ worker \in [Workers -> {"none", "waiting", "busy", "ended"}]
          /\ locks \in {"valid", "deleted"}
          /\ call \in BOOLEAN
          /\ launcher \in [Launchers -> [at : {"idle", "check", "create", "remember"},
                                         todo : SUBSET Sessions, session : SUBSET Sessions]]
          /\ active \subseteq Sessions
          /\ pending \in BOOLEAN
          /\ running \subseteq Sessions
          /\ known \subseteq running
          /\ crossed \in BOOLEAN
          /\ overdue \subseteq Workers
          /\ excused \subseteq Sessions
          /\ mishaps \in 0..Launches
-----------------------------------------------------------------------------
(* ServiceMain: start                                                       *)

\* The RPC server, then the refresh, schedule and monitor threads.
CreateThreads ==
  /\ at = "threads"
  /\ worker' = [w \in Workers |-> IF w = Update THEN "none" ELSE "waiting"]
  /\ at' = "load"
  /\ UNCHANGED <<status, signals, locks, call, overdue, trays>>

\* An event or the RPC thread cannot be created.
StartFails == /\ at = "threads"
              /\ status' = "stopped"
              /\ locks' = "deleted"
              /\ at' = "exited"
              /\ UNCHANGED <<signals, worker, call, overdue, trays>>

\* LoadAvDatabaseIfNeeded returns (AvStorage), and the update thread is created.
LoadDatabase == /\ at = "load"
                /\ worker' = [worker EXCEPT ![Update] = "waiting"]
                /\ at' = "running"
                /\ UNCHANGED <<status, signals, locks, call, overdue, trays>>

\* Mutant: the sessions that are logged on already are left to the control handler.
ReportRunning_NoLaunch == /\ at = "running"
                          /\ status' = "running"
                          /\ at' = "wait"
                          /\ UNCHANGED <<threads, trays>>

\* From here on the control manager sends session changes.
ReportRunning == /\ at = "running"
                 /\ status' = "running"
                 /\ at' = "launch"
                 /\ UNCHANGED <<threads, trays>>

\* LaunchTrayForLoggedOnSessions: enumerate the sessions, or launch nothing when
\* WTSEnumerateSessionsW fails.  (The entries of ended processes it cleans up are
\* not in `known' any more.)
BeginLaunch(l) ==
  \/ /\ launcher' = [launcher EXCEPT ![l] = [at |-> "check", todo |-> active, session |-> {}]]
     /\ UNCHANGED <<excused, mishaps>>
  \/ /\ mishaps < Launches
     /\ mishaps' = mishaps + 1
     /\ excused' = excused \cup (active \ running)
     /\ UNCHANGED launcher

LaunchTrays == /\ at = "launch"
               /\ launcher["main"].at = "idle"
               /\ BeginLaunch("main")
               /\ at' = "wait"
               /\ UNCHANGED <<status, threads, active, pending, running, known, crossed>>
-----------------------------------------------------------------------------
(* LaunchTrayForSession, on ServiceMain's thread or the handler's           *)

\* HasTrayProcessInSession, under g_process_lock.
CheckSession(l) ==
  /\ launcher[l].at = "check"
  /\ \E s \in launcher[l].todo :
       LET todo == launcher[l].todo \ {s} IN
       launcher' = [launcher EXCEPT ![l] =
         IF s \in known THEN [@ EXCEPT !.todo = todo]
         ELSE [at |-> "create", todo |-> todo, session |-> {s}]]
  /\ UNCHANGED <<at, status, threads, active, pending, running, known, crossed, excused, mishaps>>

NothingLeft(l) ==
  /\ launcher[l].at = "check"
  /\ launcher[l].todo = {}
  /\ launcher' = [launcher EXCEPT ![l] = NoLaunch]
  /\ UNCHANGED <<at, status, threads, active, pending, running, known, crossed, excused, mishaps>>

\* CreateProcessAsUserW.  A second instance in the session finds the mutex of
\* the first and ends at once; its entry in g_tray_processes is one of an ended
\* process.
CreateTray(l) ==
  /\ launcher[l].at = "create"
  /\ \E s \in launcher[l].session :
       \/ /\ s \in active
          /\ running' = running \cup {s}
          /\ launcher' = [launcher EXCEPT ![l].at = "remember",
                                          ![l].session = @ \ running]
          /\ UNCHANGED <<excused, mishaps>>
       \/ /\ s \in active => mishaps < Launches
          /\ mishaps' = IF s \in active THEN mishaps + 1 ELSE mishaps
          /\ excused' = excused \cup {s}
          /\ launcher' = [launcher EXCEPT ![l].at = "check", ![l].session = {}]
          /\ UNCHANGED running
  /\ UNCHANGED <<at, status, threads, active, pending, known, crossed>>

\* Mutant: a launched process is not remembered.
RememberTray_Forgets(l) ==
  /\ launcher[l].at = "remember"
  /\ launcher' = [launcher EXCEPT ![l].at = "check", ![l].session = {}]
  /\ UNCHANGED <<at, status, threads, active, pending, running, known, crossed, excused, mishaps>>

RememberTray(l) ==
  /\ launcher[l].at = "remember"
  /\ known' = known \cup launcher[l].session
  /\ launcher' = [launcher EXCEPT ![l].at = "check", ![l].session = {}]
  /\ UNCHANGED <<at, status, threads, active, pending, running, crossed, excused, mishaps>>

LaunchStep(l) == at # "exited" /\ (CheckSession(l) \/ NothingLeft(l) \/ CreateTray(l) \/ RememberTray(l))

Terminated == at \in {"free", "done"}

\* ServiceControlHandlerEx on SERVICE_CONTROL_SESSIONCHANGE.
HandleSessionChange ==
  /\ pending
  /\ at # "exited"
  /\ launcher["handler"].at = "idle"
  /\ BeginLaunch("handler")
  /\ pending' = FALSE
  /\ crossed' = (crossed \/ Terminated)
  /\ UNCHANGED <<at, status, threads, active, running, known>>
-----------------------------------------------------------------------------
(* ServiceMain: stop                                                        *)

\* The wait on g_stop_event, once its own launch has returned.
StopPending == /\ at = "wait"
               /\ launcher["main"].at = "idle"
               /\ "stop" \in signals
               /\ status' = "stop_pending"
               /\ at' = "stopListening"
               /\ UNCHANGED <<threads, trays>>

\* RpcMgmtStopServerListening; the thread that set the server up has ended, and
\* neither its wait nor RpcServerUnregisterIf waits for a call in progress.
StopListening == /\ at = "stopListening"
                 /\ at' = "joinRefresh"
                 /\ UNCHANGED <<status, threads, trays>>

Awaits(w) == IF w = Monitor THEN "monitor" ELSE "stop"

\* Mutant: the wait has no timeout.
Join_Infinite(w, step, next) ==
  /\ at = step
  /\ worker[w] = "ended"
  /\ at' = next
  /\ UNCHANGED <<status, signals, worker, locks, call, overdue, trays>>

\* WaitForSingleObject(thread, 3000).  Only a thread that is busy, or whose
\* event is not set, outlasts the three seconds.
Join(w, step, next) ==
  /\ at = step
  /\ worker[w] \in {"ended", "busy"} \/ Awaits(w) \notin signals
  /\ overdue' = IF worker[w] = "busy" THEN overdue \cup {w} ELSE overdue
  /\ at' = next
  /\ UNCHANGED <<status, signals, worker, locks, call, trays>>

JoinWorker == \/ Join(Refresh, "joinRefresh", "joinUpdate")
              \/ Join(Update, "joinUpdate", "signal")
              \/ Join(Schedule, "joinSchedule", "joinMonitor")
              \/ Join(Monitor, "joinMonitor", "terminate")

\* Mutant: the monitor's own event is never set.
SignalMonitor_Forgets == /\ at = "signal"
                         /\ at' = "joinSchedule"
                         /\ UNCHANGED <<status, signals, worker, locks, call, overdue, trays>>

SignalMonitor == /\ at = "signal"
                 /\ signals' = signals \cup {"monitor"}
                 /\ at' = "joinSchedule"
                 /\ UNCHANGED <<status, worker, locks, call, overdue, trays>>

\* Mutant: the list is not cleared.
TerminateTrayProcesses_KeepsList ==
  /\ at = "terminate"
  /\ running' = running \ known
  /\ crossed' = (launcher["handler"].at # "idle")
  /\ at' = "free"
  /\ UNCHANGED <<status, threads, launcher, active, pending, known, excused, mishaps>>

TerminateTrayProcesses ==
  /\ at = "terminate"
  /\ running' = running \ known
  /\ known' = {}
  /\ crossed' = (launcher["handler"].at # "idle")
  /\ at' = "free"
  /\ UNCHANGED <<status, threads, launcher, active, pending, excused, mishaps>>

\* CloseHandle on the events, DeleteCriticalSection on the locks.
Free == /\ at = "free"
        /\ locks' = "deleted"
        /\ at' = "done"
        /\ UNCHANGED <<status, signals, worker, call, overdue, trays>>

\* SERVICE_STOPPED: the dispatcher returns and the process ends with its threads.
ReportStopped == /\ at = "done"
                 /\ status' = "stopped"
                 /\ at' = "exited"
                 /\ worker' = [w \in Workers |-> "none"]
                 /\ call' = FALSE
                 /\ launcher' = [l \in Launchers |-> NoLaunch]
                 /\ UNCHANGED <<signals, locks, overdue, active, pending, running, known,
                                crossed, excused, mishaps>>

MainStep == \/ CreateThreads \/ StartFails \/ LoadDatabase \/ ReportRunning \/ LaunchTrays
            \/ LaunchStep("main") \/ StopPending \/ StopListening \/ JoinWorker
            \/ SignalMonitor \/ TerminateTrayProcesses \/ Free \/ ReportStopped
-----------------------------------------------------------------------------
(* The workers and the request to stop                                      *)

\* The timed wait of the loop ends without the event: work that takes a lock.
BeginWork(w) == /\ worker[w] = "waiting"
                /\ Awaits(w) \notin signals
                /\ worker' = [worker EXCEPT ![w] = "busy"]
                /\ UNCHANGED <<at, status, signals, locks, call, overdue, trays>>

EndWork(w) == /\ worker[w] = "busy"
              /\ worker' = [worker EXCEPT ![w] = "waiting"]
              /\ UNCHANGED <<at, status, signals, locks, call, overdue, trays>>

EndThread(w) == /\ worker[w] = "waiting"
                /\ Awaits(w) \in signals
                /\ worker' = [worker EXCEPT ![w] = "ended"]
                /\ UNCHANGED <<at, status, signals, locks, call, overdue, trays>>

\* Until RpcMgmtStopServerListening.
Listening == at \in {"load", "running", "launch", "wait", "stopListening"}

\* The StopService call, or RpcThreadProc failing to set up the server.
StopService == /\ Listening
               /\ signals' = signals \cup {"stop"}
               /\ UNCHANGED <<at, status, worker, locks, call, overdue, trays>>

\* Any other call, also one that comes when SERVICE_STOP_PENDING is reported already.
BeginCall == /\ Listening
             /\ ~call
             /\ call' = TRUE
             /\ UNCHANGED <<at, status, signals, worker, locks, overdue, trays>>

EndCall == /\ call
           /\ call' = FALSE
           /\ UNCHANGED <<at, status, signals, worker, locks, overdue, trays>>
-----------------------------------------------------------------------------
(* Sessions                                                                 *)

\* Controls are accepted only while the status is SERVICE_RUNNING.
LogOn(s) == /\ s \notin active
            /\ active' = active \cup {s}
            /\ pending' = (pending \/ status = "running")
            /\ excused' = excused \ {s}
            /\ UNCHANGED <<at, status, threads, launcher, running, known, crossed, mishaps>>

\* A process that ended is remembered to no effect.
Ended(s) == /\ running' = running \ {s}
            /\ known' = known \ {s}
            /\ launcher' = [l \in Launchers |->
                 IF launcher[l].at = "remember"
                 THEN [launcher[l] EXCEPT !.session = @ \ {s}] ELSE launcher[l]]

LogOff(s) == /\ s \in active
             /\ active' = active \ {s}
             /\ Ended(s)
             /\ UNCHANGED <<at, status, threads, pending, crossed, excused, mishaps>>

\* The application ends by itself without asking for the service to stop.
AppEnds(s) == /\ s \in running
              /\ mishaps < Launches
              /\ mishaps' = mishaps + 1
              /\ Ended(s)
              /\ excused' = excused \cup {s}
              /\ UNCHANGED <<at, status, threads, active, pending, crossed>>

Next == \/ MainStep
        \/ HandleSessionChange
        \/ LaunchStep("handler")
        \/ \E w \in Workers : BeginWork(w) \/ EndWork(w) \/ EndThread(w)
        \/ StopService \/ BeginCall \/ EndCall
        \/ \E s \in Sessions : LogOn(s) \/ LogOff(s) \/ AppEnds(s)

Spec == Init /\ [][Next]_vars

\* Threads are scheduled and controls delivered; work and calls may last for
\* ever, and nobody has to log on or stop the service.
FairSpec == /\ Spec
            /\ WF_vars(MainStep)
            /\ WF_vars(HandleSessionChange)
            /\ WF_vars(LaunchStep("handler"))
            /\ \A w \in Workers : WF_vars(EndThread(w))
-----------------------------------------------------------------------------
(* Properties                                                               *)

\* A requested stop completes, whatever the workers and the calls in progress are
\* doing: no wait of ServiceMain is unbounded once g_stop_event is set.
StopCompletes == ("stop" \in signals) ~> (status = "stopped")

\* Events and locks are gone only when each worker has ended or had been busy
\* for the whole of its three seconds: no thread still in its wait is left with
\* closed handles.
JoinedUnlessBusy ==
  locks = "deleted" /\ at = "done" =>
    \A w \in Workers : worker[w] # "ended" => w \in overdue

\* README.md:15: the service launches the application in every user session.
\* A session that is logged on while the service runs gets it, whether the
\* logon came before, during or after the service's start.
EverySessionServed ==
  \A s \in Sessions :
    (s \in active /\ status = "running")
      ~> (s \in running \/ s \notin active \/ s \in excused \/ "stop" \in signals)

\* Once the service has stopped no application it launched is left in any
\* session, unless the handler was launching one while ServiceMain terminated
\* them (the check, the launch and the remembering are separate steps).
NoTrayLeft == (status = "stopped" /\ ~crossed) => running = {}
=============================================================================
