-------------------------- MODULE DirectoryMonitor --------------------------
(***************************************************************************)
(* Directory monitoring in service.cpp: g_monitor_path and                  *)
(* g_monitor_last_result (under g_schedule_lock), MonitorThreadProc, which  *)
(* watches one folder with a single ReadDirectoryChangesW per handle, and   *)
(* the RPCs that configure it.  The lock is taken once per action; between  *)
(* actions clients reconfigure, files change and the license comes and goes.*)
(***************************************************************************)
EXTENDS DirectoryScan

CONSTANTS Nowhere,   \* the empty g_monitor_path
          MaxFaults  \* bound on failing opens, arms and lost notifications

ASSUME MonitorAssumption == Nowhere \notin Paths /\ MaxFaults \in Nat /\ Paths # {}

VARIABLES target,    \* g_monitor_path
          result,    \* g_monitor_last_result
          thread,    \* [at, path, scan] of MonitorThreadProc
          event,     \* what ReadDirectoryChangesW delivered for the open handle
          disk,      \* what a scan of each file would find now
          licensed,  \* HasLicenseTicket()
          stopping,  \* g_monitor_stop_event
          late,      \* the report on show was stored after its folder was replaced
          faults

vars == <<target, result, thread, event, disk, licensed, stopping, late, faults>>

Steps == {"poll", "open", "arm", "armed", "check", "scan", "store", "ended"}

Anywhere == CHOOSE p \in Paths : TRUE
NoScan == [Begin(Anywhere) EXCEPT !.todo = {}]

Init == /\ target = Nowhere
        /\ result = Say("empty", Anywhere)
        /\ thread = [at |-> "poll", path |-> Anywhere, scan |-> NoScan]
        /\ event = "none"
        /\ disk \in [Files -> {"clean"}]
        /\ licensed \in BOOLEAN
        /\ stopping = FALSE
        /\ late = FALSE
        /\ faults = 0

\* Types: every variable stays in its range.
TypeOK == /\ target \in Paths \cup {Nowhere}
          /\ result \in Results
          /\ thread \in [at : Steps, path : Paths, scan : Scans]
          /\ event \in {"none", "change", "lost"}
          /\ disk \in [Files -> Contents]
          /\ licensed \in BOOLEAN
          /\ stopping \in BOOLEAN
          /\ late \in BOOLEAN
          /\ faults \in 0..MaxFaults

Goto(step) == thread' = [thread EXCEPT !.at = step]
Fault == faults < MaxFaults /\ faults' = faults + 1
-----------------------------------------------------------------------------
(* MonitorThreadProc                                                        *)

\* WaitForSingleObject timed out, then the path is copied under the lock.
Poll == /\ thread.at = "poll"
        /\ ~stopping
        /\ target # Nowhere
        /\ thread' = [thread EXCEPT !.at = "open", !.path = target]
        /\ UNCHANGED <<target, result, event, disk, licensed, stopping, late, faults>>

\* CreateFileW, then CreateEventW and ReadDirectoryChangesW; any failure goes
\* back to the loop.  Changes before the second call are not delivered.
Open == /\ thread.at = "open"
        /\ \/ Goto("arm") /\ UNCHANGED faults
           \/ Fault /\ Goto("poll")
        /\ UNCHANGED <<target, result, event, disk, licensed, stopping, late>>

Arm == /\ thread.at = "arm"
       /\ \/ Goto("armed") /\ UNCHANGED faults
          \/ Fault /\ Goto("poll")
       /\ event' = "none"
       /\ UNCHANGED <<target, result, disk, licensed, stopping, late>>

\* WaitForMultipleObjects(INFINITE); the stop event is first in the array, so
\* it wins when both are signalled.  A completion without bytes is dropped.
Wake == /\ thread.at = "armed"
        /\ ~stopping
        /\ event # "none"
        /\ Goto(IF event = "change" THEN "check" ELSE "poll")
        /\ event' = "none"
        /\ UNCHANGED <<target, result, disk, licensed, stopping, late, faults>>

\* ScanPathDirectory: EnsureAvReady, then the walk over the copied path.
CheckReady == /\ thread.at = "check"
              /\ thread' = IF licensed
                           THEN [thread EXCEPT !.at = "scan", !.scan = Begin(thread.path)]
                           ELSE [thread EXCEPT !.at = "store", !.scan = NoScan]
              /\ UNCHANGED <<target, result, event, disk, licensed, stopping, late, faults>>

VisitFile == /\ thread.at = "scan"
             /\ \E f \in thread.scan.todo :
                  LET scan == Visit(thread.scan, f, licensed, disk[f]) IN
                  thread' = [thread EXCEPT !.scan = scan]
             /\ UNCHANGED <<target, result, event, disk, licensed, stopping, late, faults>>

\* A folder of the walk cannot be listed, or its listing breaks off.
ListingFails ==
  /\ thread.at = "scan"
  /\ \E files \in (SUBSET thread.scan.todo) \ {{}} :
       thread' = [thread EXCEPT !.scan = Skip(thread.scan, files)]
  /\ UNCHANGED <<target, result, event, disk, licensed, stopping, late, faults>>

\* Mutant: after a report the same folder is watched again.
Store_Rearms(said) ==
  /\ result' = said
  /\ late' = (target # thread.path)
  /\ thread' = [thread EXCEPT !.at = "arm", !.scan = NoScan]
  /\ UNCHANGED <<target, event, disk, licensed, stopping, faults>>

\* The report is stored whatever g_monitor_path has become meanwhile.
Store(said) == /\ result' = said
               /\ late' = (target # thread.path)
               /\ thread' = [thread EXCEPT !.at = "poll", !.scan = NoScan]
               /\ UNCHANGED <<target, event, disk, licensed, stopping, faults>>

StoreReport == /\ thread.at = "scan"
               /\ thread.scan.todo = {}
               /\ Store(Report(thread.scan))

StoreFailure == /\ thread.at = "store"
                /\ Store(Say("failed", thread.path))

\* Mutant: the infinite wait is only for the change.
End_NotInWait == /\ thread.at = "poll"
                 /\ stopping
                 /\ Goto("ended")
                 /\ UNCHANGED <<target, result, event, disk, licensed, stopping, late, faults>>

\* The loop condition, or the stop event during the wait.
End == /\ thread.at \in {"poll", "armed"}
       /\ stopping
       /\ Goto("ended")
       /\ UNCHANGED <<target, result, event, disk, licensed, stopping, late, faults>>
-----------------------------------------------------------------------------
(* Clients and environment                                                  *)

\* Mutant: the last report stays on show.
ConfigureDirectoryMonitoring_KeepsResult(p) ==
  /\ target' = p
  /\ late' = FALSE
  /\ UNCHANGED <<thread, result, event, disk, licensed, stopping, faults>>

ConfigureDirectoryMonitoring(p) ==
  /\ target' = p
  /\ result' = Say("configured", p)
  /\ late' = FALSE
  /\ UNCHANGED <<thread, event, disk, licensed, stopping, faults>>

\* The notification of a change below the watched folder completes the
\* pending call; when the buffer overflows it completes without bytes.
Watched(f) == thread.at = "armed" /\ f \in Holds[thread.path] /\ event = "none"

Outdated(files) ==
  IF thread.at = "scan" THEN thread' = [thread EXCEPT !.scan = Outdate(thread.scan, files)]
  ELSE UNCHANGED thread

FileChanges(f) ==
  /\ disk' = [disk EXCEPT ![f] = IF @ = "bad" THEN "clean" ELSE "bad"]
  /\ IF Watched(f)
     THEN \/ event' = "change" /\ UNCHANGED faults
          \/ event' = "lost" /\ Fault
     ELSE UNCHANGED <<event, faults>>
  /\ Outdated({f})
  /\ UNCHANGED <<target, result, licensed, stopping, late>>

\* Another process takes or gives up a handle without sharing: no notification.
FileLocked(f) ==
  /\ \E c \in IF disk[f] = "locked" THEN {"clean", "bad"} ELSE {"locked"} :
       disk' = [disk EXCEPT ![f] = c]
  /\ Outdated({f})
  /\ UNCHANGED <<target, result, event, licensed, stopping, late, faults>>

\* An update or a rollback of the database, which may come between two bytes
\* of the file that is being read.
DatabaseReplaced(files) ==
  /\ disk' = Rejudge(disk, files)
  /\ \/ Outdated(files)
     \/ /\ thread.at = "scan"
        /\ \E f \in thread.scan.todo, verdict \in {"clean", "bad"} :
             thread' = [thread EXCEPT !.scan = Outdate(Torn(@, f, verdict), files)]
  /\ UNCHANGED <<target, result, event, licensed, stopping, late, faults>>

LicenseChanges ==
  /\ licensed' = ~licensed
  /\ UNCHANGED <<target, result, thread, event, disk, stopping, late, faults>>

StopService ==
  /\ ~stopping
  /\ stopping' = TRUE
  /\ UNCHANGED <<target, result, thread, event, disk, licensed, late, faults>>

ThreadStep == \/ Poll \/ Open \/ Arm \/ Wake \/ CheckReady \/ VisitFile \/ ListingFails
              \/ StoreReport \/ StoreFailure \/ End

Next == \/ ThreadStep
        \/ \E p \in Paths : ConfigureDirectoryMonitoring(p)
        \/ \E f \in Files : FileChanges(f) \/ FileLocked(f)
        \/ \E files \in SUBSET Files : DatabaseReplaced(files)
        \/ LicenseChanges
        \/ StopService

Spec == Init /\ [][Next]_vars

\* The thread is scheduled by the operating system, its waits have timeouts,
\* and files and clients owe it nothing.
FairSpec == Spec /\ WF_vars(ThreadStep)
-----------------------------------------------------------------------------
(* Properties                                                               *)

\* A report on another folder than the configured one is shown only after a
\* folder was replaced between the thread's copy of the path and
\* the store of the report: Configure and the store both write under the lock.
ReportBelongs ==
  (target # Nowhere /\ result.of # target) => late

\* A report is exact for every file of the folder that was not passed over,
\* did not change after its visit and was not being read when the database was
\* replaced: all of these that are infected are named, all that can be read are
\* counted, whatever happened to the others.
ReportExactUnlessDoubtful ==
  [][StoreReport => Exact(result', thread.scan.doubtful, disk)]_vars

\* Stop: once the stop event is set the thread ends, wherever it is, even in
\* the infinite wait or in the middle of a scan (ServiceMain waits only 3 s).
MonitorStops == stopping ~> (thread.at = "ended")

Scanning(p) == thread.at = "check" /\ thread.path = p

\* A delivered change makes the thread take up the configured folder, if it
\* watched a replaced one, at its next turn; and as long as no other folder was
\* ever configured, a folder that keeps changing keeps being scanned, although
\* single changes may be lost.
ChangesTakenUp ==
  \A p \in Paths :
    /\ (event = "change" /\ target = p) ~> (thread.path = p \/ target # p \/ stopping)
    /\ (/\ [](target \in {p, Nowhere})
        /\ [](~stopping)
        /\ <>(target = p)
        /\ []<><<\E f \in Holds[p] : FileChanges(f)>>_vars)
       => []<>Scanning(p)

\* PRACTICE4_TESTING.md:72: the chosen folder is monitored, and the service
\* scans it when its files are created or changed.  A folder that stays
\* configured and keeps changing would have to be scanned again and again.
MonitoredFolderScanned ==
  \A p \in Paths :
    (/\ <>[](target = p)
     /\ [](~stopping)
     /\ []<><<\E f \in Holds[p] : FileChanges(f)>>_vars)
    => []<>Scanning(p)
=============================================================================
