---------------------------- MODULE ScanSchedule ----------------------------
(***************************************************************************)
(* Scheduled scanning in service.cpp: g_schedule (under g_schedule_lock),   *)
(* ScheduleThreadProc, which looks at it once a second, and the RPCs that   *)
(* configure and read it.  The decision, the scan and the store of its      *)
(* report are separate steps; the lock is not held during the scan.         *)
(***************************************************************************)
EXTENDS DirectoryScan

CONSTANTS Folders,     \* the paths that name a folder, the others name a file
          MaxInterval  \* bound on interval_minutes

ASSUME ScheduleAssumption ==
  /\ Paths # {}
  /\ Folders \subseteq Paths
  /\ \A p \in Paths \ Folders : \E f \in Files : Holds[p] = {f}
  /\ MaxInterval \in Nat \ {0}

VARIABLES schedule,  \* g_schedule; left: minutes until next_scan_tick
          thread,    \* [at, scan] of ScheduleThreadProc
          disk,      \* what a scan of each file would find now
          licensed,  \* HasLicenseTicket()
          stopping,  \* g_stop_event
          late,      \* the report on show was stored after its path was replaced
          since      \* minutes since the last scan started or the schedule was configured

vars == <<schedule, thread, disk, licensed, stopping, late, since>>

Intervals == 1..MaxInterval
Schedules == [enabled : BOOLEAN, interval : 0..MaxInterval, path : Paths,
              left : 0..MaxInterval, last : Results]
Steps == {"poll", "classify", "check", "scan", "failed", "ended"}

Anywhere == CHOOSE p \in Paths : TRUE
NoScan(p) == [Begin(p) EXCEPT !.todo = {}]

Init == /\ schedule = [enabled |-> FALSE, interval |-> 0, path |-> Anywhere,
                       left |-> 0, last |-> Say("empty", Anywhere)]
        /\ thread = [at |-> "poll", scan |-> NoScan(Anywhere)]
        /\ disk \in [Files -> {"clean"}]
        /\ licensed \in BOOLEAN
        /\ stopping = FALSE
        /\ late = FALSE
        /\ since = MaxInterval

\* Types: every variable stays in its range.
TypeOK == /\ schedule \in Schedules
          /\ thread \in [at : Steps, scan : Scans]
          /\ disk \in [Files -> Contents]
          /\ licensed \in BOOLEAN
          /\ stopping \in BOOLEAN
          /\ late \in BOOLEAN
          /\ since \in 0..MaxInterval

Goto(step) == thread' = [thread EXCEPT !.at = step]
-----------------------------------------------------------------------------
(* ScheduleThreadProc                                                       *)

Due == schedule.enabled /\ schedule.left = 0

\* Mutants: the tick is not moved, or the scan is put off without a license.
StartScan_LeavesTick ==
  /\ thread.at = "poll" /\ ~stopping /\ Due
  /\ thread' = [at |-> "classify", scan |-> NoScan(schedule.path)]
  /\ since' = 0
  /\ UNCHANGED <<schedule, disk, licensed, stopping, late>>
StartScan_PutOff ==
  /\ thread.at = "poll" /\ ~stopping /\ Due /\ licensed
  /\ thread' = [at |-> "classify", scan |-> NoScan(schedule.path)]
  /\ schedule' = [schedule EXCEPT !.left = schedule.interval]
  /\ since' = 0
  /\ UNCHANGED <<disk, licensed, stopping, late>>

\* One turn under the lock: copy the path and move the tick.
StartScan == /\ thread.at = "poll"
             /\ ~stopping
             /\ Due
             /\ thread' = [at |-> "classify", scan |-> NoScan(schedule.path)]
             /\ schedule' = [schedule EXCEPT !.left = schedule.interval]
             /\ since' = 0
             /\ UNCHANGED <<disk, licensed, stopping, late>>

\* GetFileAttributesW: a folder is walked, a file is scanned; a path that does
\* not exist at this moment fails.
Classify == /\ thread.at = "classify"
            /\ Goto("check") \/ Goto("failed")
            /\ UNCHANGED <<schedule, disk, licensed, stopping, late, since>>

\* EnsureAvReady of ScanPathDirectory or ScanSingleFile.
CheckReady == /\ thread.at = "check"
              /\ thread' = IF licensed THEN [at |-> "scan", scan |-> Begin(thread.scan.path)]
                           ELSE [thread EXCEPT !.at = "failed"]
              /\ UNCHANGED <<schedule, disk, licensed, stopping, late, since>>

\* One file of a folder: passed over when it cannot be read or has become
\* unlicensed.  The file of a single-file schedule makes the scan fail when it
\* cannot be read; the license was looked at once, by CheckReady.
VisitFile ==
  /\ thread.at = "scan"
  /\ \E f \in thread.scan.todo :
       IF thread.scan.path \in Folders
       THEN thread' = [thread EXCEPT !.scan = Visit(thread.scan, f, licensed, disk[f])]
       ELSE IF disk[f] = "locked" THEN Goto("failed")
       ELSE thread' = [thread EXCEPT !.scan = Visit(thread.scan, f, TRUE, disk[f])]
  /\ UNCHANGED <<schedule, disk, licensed, stopping, late, since>>

\* A folder of the walk cannot be listed, or its listing breaks off.
ListingFails ==
  /\ thread.at = "scan"
  /\ thread.scan.path \in Folders
  /\ \E files \in (SUBSET thread.scan.todo) \ {{}} :
       thread' = [thread EXCEPT !.scan = Skip(thread.scan, files)]
  /\ UNCHANGED <<schedule, disk, licensed, stopping, late, since>>

\* The second critical section, whatever g_schedule has become meanwhile.
Store(said) == /\ schedule' = [schedule EXCEPT !.last = said]
               /\ late' = (schedule.path # thread.scan.path)
               /\ thread' = [at |-> "poll", scan |-> NoScan(Anywhere)]
               /\ UNCHANGED <<disk, licensed, stopping, since>>

StoreReport == /\ thread.at = "scan"
               /\ thread.scan.todo = {}
               /\ Store(Report(thread.scan))

\* Mutant: a failed scan leaves the last report on show.
StoreFailure_Silent == /\ thread.at = "failed"
                       /\ thread' = [at |-> "poll", scan |-> NoScan(Anywhere)]
                       /\ UNCHANGED <<schedule, disk, licensed, stopping, late, since>>

StoreFailure == /\ thread.at = "failed"
                /\ Store(Say("failed", thread.scan.path))

End == /\ thread.at = "poll"
       /\ stopping
       /\ Goto("ended")
       /\ UNCHANGED <<schedule, disk, licensed, stopping, late, since>>
-----------------------------------------------------------------------------
(* Clients and environment                                                  *)

\* Mutant: last_result is not cleared.
ConfigureScheduleScan_KeepsLast(minutes, p) ==
  /\ minutes > 0
  /\ schedule' = [enabled |-> TRUE, interval |-> minutes, path |-> p,
                  left |-> minutes, last |-> schedule.last]
  /\ late' = FALSE
  /\ since' = 0
  /\ UNCHANGED <<thread, disk, licensed, stopping>>

\* An interval that is not positive is refused before the lock is taken.
ConfigureScheduleScan(minutes, p) ==
  /\ minutes > 0
  /\ schedule' = [enabled |-> TRUE, interval |-> minutes, path |-> p,
                  left |-> minutes, last |-> Say("empty", p)]
  /\ late' = FALSE
  /\ since' = 0
  /\ UNCHANGED <<thread, disk, licensed, stopping>>

\* GetTickCount64 advances by a minute; the thread may be anywhere.
MinutePasses == /\ schedule.enabled
                /\ schedule' = [schedule EXCEPT !.left = IF @ = 0 THEN 0 ELSE @ - 1]
                /\ since' = IF since = MaxInterval THEN since ELSE since + 1
                /\ UNCHANGED <<thread, disk, licensed, stopping, late>>

Outdated(files) ==
  IF thread.at = "scan" THEN thread' = [thread EXCEPT !.scan = Outdate(thread.scan, files)]
  ELSE UNCHANGED thread

FileChanges(f) == /\ \E c \in Contents \ {disk[f]} : disk' = [disk EXCEPT ![f] = c]
                  /\ Outdated({f})
                  /\ UNCHANGED <<schedule, licensed, stopping, late, since>>

\* An update or a rollback of the database, which may come between two bytes
\* of the file that is being read.
DatabaseReplaced(files) ==
  /\ disk' = Rejudge(disk, files)
  /\ \/ Outdated(files)
     \/ /\ thread.at = "scan"
        /\ \E f \in thread.scan.todo, verdict \in {"clean", "bad"} :
             thread' = [thread EXCEPT !.scan = Outdate(Torn(@, f, verdict), files)]
  /\ UNCHANGED <<schedule, licensed, stopping, late, since>>

LicenseChanges == /\ licensed' = ~licensed
                  /\ UNCHANGED <<schedule, thread, disk, stopping, late, since>>

StopService == /\ ~stopping
               /\ stopping' = TRUE
               /\ UNCHANGED <<schedule, thread, disk, licensed, late, since>>

ThreadStep == \/ StartScan \/ Classify \/ CheckReady \/ VisitFile \/ ListingFails
              \/ StoreReport \/ StoreFailure \/ End

Next == \/ ThreadStep
        \/ \E minutes \in 0..MaxInterval, p \in Paths : ConfigureScheduleScan(minutes, p)
        \/ MinutePasses
        \/ \E f \in Files : FileChanges(f)
        \/ \E files \in SUBSET Files : DatabaseReplaced(files)
        \/ LicenseChanges
        \/ StopService

Spec == Init /\ [][Next]_vars

\* The thread runs and time passes; clients, files and the license owe nothing.
FairSpec == Spec /\ WF_vars(ThreadStep) /\ WF_vars(MinutePasses)
-----------------------------------------------------------------------------
(* Properties                                                               *)

\* A report on another path than the configured one is on show only when the
\* path was replaced while that scan ran.
ReportBelongs ==
  (schedule.enabled /\ schedule.last.of # schedule.path) => late

\* A report is exact for every file that was not passed over, did not change
\* after its visit and was not being read when the database was replaced,
\* whatever happened to the others: a file that changes before its visit, or a
\* license lost for a part of the walk, spoils no other entry.
ReportExactUnlessDoubtful ==
  [][StoreReport => Exact(schedule'.last, thread.scan.doubtful, disk)]_vars

\* Two scans of one schedule start at least interval_minutes apart, however
\* long the first of them ran, and the first one starts no earlier than that
\* after the schedule was configured, also in the middle of another scan.
ScansApart ==
  [][StartScan => since >= schedule.interval]_vars

\* A schedule that is left alone runs again and again, and the report on show
\* becomes the report on its own path, even when it first shows a late report
\* on the path it replaced.
LateReportReplaced ==
  \A p \in Paths :
    <>[](schedule.enabled /\ schedule.path = p /\ ~stopping)
      => <>[](schedule.last.of = p)

\* The thread never stays in a scan: a due scan is started, or its tick moved by a
\* client, or the service stops; and once the service is being stopped the thread
\* ends.
DueScansStartUntilStop ==
  /\ Due ~> (thread.at = "classify" \/ ~Due \/ stopping)
  /\ stopping ~> (thread.at = "ended")
=============================================================================
