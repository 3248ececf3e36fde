----------------------- MODULE DirectoryMonitorProofs -----------------------
(* Theorems about DirectoryMonitor, for any folders, files and faults.      *)
EXTENDS DirectoryMonitor, DirectoryScanProofs

\* The scan is one of the watched folder, and it agrees with the disk so far,
\* except for the files in doubt.
WalkInv == thread.at = "scan" =>
             thread.scan.path = thread.path /\ Faithful(thread.scan, disk)

MonitorInv == /\ TypeOK
              /\ Bounded(thread.scan)
              /\ ReportBelongs
              /\ WalkInv

Threads == [at : Steps, path : Paths, scan : Scans]

LEMMA Idle == Anywhere \in Paths /\ NoScan \in Scans /\ Bounded(NoScan)
<1>1. Anywhere \in Paths
  BY MonitorAssumption DEF Anywhere
<1> QED BY <1>1, NoWalk DEF NoScan

LEMMA InitMonitor == Init => MonitorInv
<1> SUFFICES ASSUME Init PROVE MonitorInv
  OBVIOUS
<1>1. thread \in Threads /\ Bounded(thread.scan) /\ result \in Results
  BY Idle, Said DEF Init, Threads, Steps
<1>2. disk \in [Files -> Contents] /\ faults \in 0..MaxFaults
  BY MonitorAssumption DEF Init, Contents
<1>3. licensed \in BOOLEAN /\ stopping \in BOOLEAN /\ late \in BOOLEAN
  BY DEF Init
<1>4. TypeOK
  BY <1>1, <1>2, <1>3 DEF Init, TypeOK, Threads
<1> QED BY <1>1, <1>4 DEF Init, MonitorInv, ReportBelongs, WalkInv
-----------------------------------------------------------------------------
\* The thread goes on; what clients see and the disk stay as they are.
LEMMA MoveStep ==
  ASSUME MonitorInv, UNCHANGED <<target, result, disk, licensed, stopping, late>>,
         event' \in {"none", "change", "lost"}, faults' \in 0..MaxFaults,
         thread' \in Threads, Bounded(thread'.scan), WalkInv'
  PROVE  MonitorInv'
BY DEF MonitorInv, TypeOK, ReportBelongs, Threads

LEMMA GotoStep ==
  ASSUME MonitorInv, NEW step \in Steps \ {"scan"}, Goto(step),
         UNCHANGED <<target, result, disk, licensed, stopping, late>>,
         event' = event \/ event' = "none", UNCHANGED faults \/ Fault
  PROVE  MonitorInv'
<1>1. thread' \in Threads /\ thread'.scan = thread.scan /\ thread'.at = step
  BY DEF MonitorInv, TypeOK, Goto, Threads
<1>2. Bounded(thread'.scan) /\ WalkInv'
  BY <1>1 DEF MonitorInv, WalkInv
<1>3. event' \in {"none", "change", "lost"}
  BY DEF MonitorInv, TypeOK
<1>4. faults' \in 0..MaxFaults
  BY MonitorAssumption DEF MonitorInv, TypeOK, Fault
<1> QED BY <1>1, <1>2, <1>3, <1>4, MoveStep

LEMMA PollStep == ASSUME MonitorInv, Poll PROVE MonitorInv'
<1>1. thread' = [thread EXCEPT !.at = "open", !.path = target] /\ thread \in Threads
      /\ target \in Paths
  BY DEF Poll, MonitorInv, TypeOK, Threads
<1>2. thread' \in Threads /\ thread'.scan = thread.scan /\ thread'.at = "open"
  BY <1>1 DEF Threads, Steps
<1>3. Bounded(thread'.scan) /\ WalkInv'
  BY <1>2 DEF MonitorInv, WalkInv
<1> QED BY <1>2, <1>3, MoveStep DEF Poll, MonitorInv, TypeOK

LEMMA CheckReadyStep == ASSUME MonitorInv, CheckReady PROVE MonitorInv'
<1>1. thread \in Threads /\ thread.path \in Paths /\ licensed \in BOOLEAN
  BY DEF MonitorInv, TypeOK, Threads
<1>2. UNCHANGED <<target, result, event, disk, licensed, stopping, late, faults>>
  BY DEF CheckReady
<1>3. CASE licensed
  <2>1. /\ Begin(thread.path) \in Scans
        /\ Bounded(Begin(thread.path))
        /\ Faithful(Begin(thread.path), disk)
        /\ Begin(thread.path).path = thread.path
    BY <1>1, BeginWalk DEF Begin
  <2>2. thread' = [thread EXCEPT !.at = "scan", !.scan = Begin(thread.path)]
    BY <1>3 DEF CheckReady
  <2>3. thread' \in Threads /\ thread'.scan = Begin(thread.path) /\ thread'.path = thread.path
    BY <1>1, <2>1, <2>2 DEF Threads, Steps
  <2>4. Bounded(thread'.scan) /\ WalkInv'
    BY <1>1, <1>2, <1>3, <2>1, <2>3 DEF WalkInv
  <2> QED BY <1>2, <2>3, <2>4, MoveStep DEF MonitorInv, TypeOK
<1>4. CASE ~licensed
  <2>1. thread' = [thread EXCEPT !.at = "store", !.scan = NoScan]
    BY <1>4 DEF CheckReady
  <2>2. thread' \in Threads /\ thread'.at = "store" /\ thread'.scan = NoScan
    BY <1>1, <2>1, Idle DEF Threads, Steps
  <2>3. Bounded(thread'.scan) /\ WalkInv'
    BY <2>2, Idle DEF WalkInv
  <2> QED BY <1>2, <2>2, <2>3, MoveStep DEF MonitorInv, TypeOK
<1> QED BY <1>3, <1>4

LEMMA WalkStep ==
  ASSUME MonitorInv, thread.at = "scan", NEW scan \in Scans, Bounded(scan), Faithful(scan, disk),
         scan.path = thread.scan.path, thread' = [thread EXCEPT !.scan = scan],
         UNCHANGED <<target, result, event, disk, licensed, stopping, late, faults>>
  PROVE  MonitorInv'
<1>1. thread' \in Threads /\ thread'.scan = scan /\ thread'.path = thread.path
  BY DEF MonitorInv, TypeOK, Threads
<1>2. Bounded(thread'.scan) /\ WalkInv'
  BY <1>1 DEF MonitorInv, WalkInv
<1> QED BY <1>1, <1>2, MoveStep DEF MonitorInv, TypeOK

LEMMA VisitFileStep == ASSUME MonitorInv, VisitFile PROVE MonitorInv'
<1>1. UNCHANGED <<target, result, event, disk, licensed, stopping, late, faults>>
      /\ thread.at = "scan"
  BY DEF VisitFile
<1>2. thread.scan \in Scans /\ Bounded(thread.scan) /\ Faithful(thread.scan, disk)
      /\ licensed \in BOOLEAN
  BY <1>1 DEF MonitorInv, TypeOK, WalkInv
<1>3. PICK f \in thread.scan.todo :
        thread' = [thread EXCEPT !.scan = Visit(thread.scan, f, licensed, disk[f])]
  BY DEF VisitFile
<1> DEFINE next == Visit(thread.scan, f, licensed, disk[f])
<1>4. next \in Scans /\ Bounded(next) /\ Faithful(next, disk)
  BY <1>2, VisitTyped, VisitFaithful
<1>5. next.path = thread.scan.path
  BY <1>2 DEF Visit, Scans
<1> HIDE DEF next
<1> QED BY <1>1, <1>3, <1>4, <1>5, WalkStep DEF next

LEMMA ListingFailsStep == ASSUME MonitorInv, ListingFails PROVE MonitorInv'
<1>1. UNCHANGED <<target, result, event, disk, licensed, stopping, late, faults>>
      /\ thread.at = "scan"
  BY DEF ListingFails
<1>2. thread.scan \in Scans /\ Bounded(thread.scan) /\ Faithful(thread.scan, disk)
  BY <1>1 DEF MonitorInv, TypeOK, WalkInv
<1>3. PICK files \in SUBSET thread.scan.todo :
        thread' = [thread EXCEPT !.scan = Skip(thread.scan, files)]
  BY DEF ListingFails
<1> DEFINE next == Skip(thread.scan, files)
<1>4. next \in Scans /\ Bounded(next) /\ Faithful(next, disk)
  BY <1>2, SkipTyped, SkipFaithful
<1>5. next.path = thread.scan.path
  BY <1>2 DEF Skip, Scans
<1> HIDE DEF next
<1> QED BY <1>1, <1>3, <1>4, <1>5, WalkStep DEF next

LEMMA StoreStep ==
  ASSUME MonitorInv, NEW said \in Results, said.of = thread.path, Store(said)
  PROVE  MonitorInv'
<1> USE DEF MonitorInv, Store
<1>1. thread' = [thread EXCEPT !.at = "poll", !.scan = NoScan] /\ thread \in Threads
  BY DEF TypeOK, Threads
<1>2. thread' \in Threads /\ thread'.at = "poll" /\ thread'.scan = NoScan
  BY <1>1, Idle DEF Threads, Steps
<1>3. ReportBelongs' /\ Bounded(thread'.scan) /\ WalkInv'
  BY <1>2, Idle DEF ReportBelongs, WalkInv
<1> QED BY <1>2, <1>3 DEF TypeOK, Threads

LEMMA ThreadSteps == ASSUME MonitorInv, ThreadStep PROVE MonitorInv'
<1>1. thread.scan \in Scans /\ thread.path \in Paths
  BY DEF MonitorInv, TypeOK
<1>2. CASE Open
  BY <1>2, GotoStep DEF Open, Steps
<1>3. CASE Arm
  BY <1>3, GotoStep DEF Arm, Steps
<1>4. CASE Wake
  <2>1. CASE event = "change"
    BY <1>4, <2>1, GotoStep DEF Wake, Steps
  <2>2. CASE event # "change"
    BY <1>4, <2>2, GotoStep DEF Wake, Steps
  <2> QED BY <2>1, <2>2
<1>5. CASE StoreReport
  <2>1. Report(thread.scan).of = thread.path
    BY <1>5 DEF StoreReport, Report, MonitorInv, WalkInv
  <2> QED BY <1>1, <1>5, <2>1, WalkReported, StoreStep DEF StoreReport
<1>6. CASE StoreFailure
  BY <1>1, <1>6, Said, StoreStep DEF StoreFailure, Say
<1>7. CASE End
  BY <1>7, GotoStep DEF End, Steps
<1> QED BY <1>2, <1>3, <1>4, <1>5, <1>6, <1>7, PollStep, CheckReadyStep,
       VisitFileStep, ListingFailsStep DEF ThreadStep
-----------------------------------------------------------------------------
\* Clients, files and the license.
LEMMA ConfigureStep ==
  ASSUME MonitorInv, NEW p \in Paths, ConfigureDirectoryMonitoring(p)
  PROVE  MonitorInv'
<1> USE DEF MonitorInv, ConfigureDirectoryMonitoring
<1>1. result' \in Results /\ result'.of = target'
  BY Said DEF Say
<1>2. Bounded(thread'.scan) /\ WalkInv'
  BY DEF WalkInv
<1> QED BY <1>1, <1>2 DEF TypeOK, ReportBelongs

\* What a scan would find changes in `files', with or without a notification, and
\* the walk, which may just have read one of them, puts those visited in doubt.
LEMMA DiskStep ==
  ASSUME MonitorInv, NEW files,
         disk' \in [Files -> Contents], \A f \in Files \ files : disk'[f] = disk[f],
         NEW scan \in Scans, Bounded(scan), scan.path = thread.scan.path,
         thread.at = "scan" => Faithful(scan, disk),
         IF thread.at = "scan" THEN thread' = [thread EXCEPT !.scan = Outdate(scan, files)]
         ELSE UNCHANGED thread,
         UNCHANGED <<target, result, licensed, stopping, late>>,
         event' \in {"none", "change", "lost"}, UNCHANGED faults \/ Fault
  PROVE  MonitorInv'
<1>1. faults' \in 0..MaxFaults
  BY MonitorAssumption DEF MonitorInv, TypeOK, Fault
<1>2. CASE thread.at = "scan"
  <2> DEFINE next == Outdate(scan, files)
  <2>1. next \in Scans /\ Bounded(next) /\ Faithful(next, disk') /\ next.path = thread.scan.path
    BY <1>2, OutdateTyped, OutdateFaithful
  <2> HIDE DEF next
  <2>2. thread' = [thread EXCEPT !.scan = next] /\ thread \in Threads
    BY <1>2 DEF next, MonitorInv, TypeOK, Threads
  <2>3. thread' \in Threads /\ thread'.scan = next /\ thread'.path = thread.path
    BY <2>1, <2>2 DEF Threads
  <2>4. Bounded(thread'.scan) /\ WalkInv'
    BY <1>2, <2>1, <2>3 DEF MonitorInv, WalkInv
  <2> QED BY <1>1, <2>3, <2>4 DEF MonitorInv, TypeOK, ReportBelongs, Threads
<1>3. CASE thread.at # "scan"
  BY <1>1, <1>3 DEF MonitorInv, TypeOK, ReportBelongs, WalkInv
<1> QED BY <1>2, <1>3

LEMMA FileSteps ==
  ASSUME MonitorInv, NEW f \in Files, FileChanges(f) \/ FileLocked(f)
  PROVE  MonitorInv'
<1>1. /\ UNCHANGED <<target, result, licensed, stopping, late>>
      /\ thread.scan \in Scans /\ Bounded(thread.scan)
      /\ thread.at = "scan" => Faithful(thread.scan, disk)
  BY DEF FileChanges, FileLocked, MonitorInv, TypeOK, WalkInv
<1>2. IF thread.at = "scan" THEN thread' = [thread EXCEPT !.scan = Outdate(thread.scan, {f})]
      ELSE UNCHANGED thread
  BY DEF FileChanges, FileLocked, Outdated
<1>3. PICK c \in Contents : disk' = [disk EXCEPT ![f] = c]
  <2>1. CASE FileChanges(f)
    BY <2>1 DEF FileChanges, Contents
  <2>2. CASE FileLocked(f)
    BY <2>2 DEF FileLocked, Contents
  <2> QED BY <2>1, <2>2
<1>4. disk' \in [Files -> Contents] /\ \A g \in Files \ {f} : disk'[g] = disk[g]
  BY <1>3 DEF MonitorInv, TypeOK
<1>5. event' \in {"none", "change", "lost"} /\ (UNCHANGED faults \/ Fault)
  BY DEF FileChanges, FileLocked, MonitorInv, TypeOK
<1> QED BY <1>1, <1>2, <1>4, <1>5, DiskStep

LEMMA DatabaseStep ==
  ASSUME MonitorInv, NEW files, DatabaseReplaced(files)
  PROVE  MonitorInv'
<1>1. /\ UNCHANGED <<target, result, licensed, stopping, late, faults>>
      /\ event' \in {"none", "change", "lost"}
      /\ thread.scan \in Scans /\ Bounded(thread.scan)
      /\ thread.at = "scan" => Faithful(thread.scan, disk)
  BY DEF DatabaseReplaced, MonitorInv, TypeOK, WalkInv
<1>2. disk' \in [Files -> Contents] /\ \A g \in Files \ files : disk'[g] = disk[g]
  BY Rejudged DEF DatabaseReplaced, MonitorInv, TypeOK
<1>3. CASE Outdated(files)
  <2>1. IF thread.at = "scan" THEN thread' = [thread EXCEPT !.scan = Outdate(thread.scan, files)]
        ELSE UNCHANGED thread
    BY <1>3 DEF Outdated
  <2> QED BY <1>1, <1>2, <2>1, DiskStep
<1>4. ASSUME thread.at = "scan", NEW f \in thread.scan.todo, NEW verdict \in {"clean", "bad"},
             thread' = [thread EXCEPT !.scan = Outdate(Torn(@, f, verdict), files)]
      PROVE  MonitorInv'
  <2> DEFINE scan == Torn(thread.scan, f, verdict)
  <2>1. scan \in Scans /\ Bounded(scan) /\ Faithful(scan, disk)
    BY <1>1, <1>4, TornTyped, TornFaithful
  <2>2. scan.path = thread.scan.path
    BY <1>1 DEF Torn, Visit, Scans
  <2>3. thread' = [thread EXCEPT !.scan = Outdate(scan, files)]
    BY <1>4
  <2> HIDE DEF scan
  <2> QED BY <1>1, <1>2, <1>4, <2>1, <2>2, <2>3, DiskStep
<1> QED BY <1>3, <1>4 DEF DatabaseReplaced

LEMMA MonitorInvHolds == Spec => []MonitorInv
<1>1. MonitorInv /\ [Next]_vars => MonitorInv'
  <2> SUFFICES ASSUME MonitorInv, [Next]_vars PROVE MonitorInv'
    OBVIOUS
  <2>1. CASE StopService
    BY <2>1 DEF StopService, MonitorInv, TypeOK, ReportBelongs, WalkInv
  <2>2. CASE LicenseChanges
    BY <2>2 DEF LicenseChanges, MonitorInv, TypeOK, ReportBelongs, WalkInv
  <2>3. CASE UNCHANGED vars
    BY <2>3 DEF vars, MonitorInv, TypeOK, ReportBelongs, WalkInv
  <2> QED BY <2>1, <2>2, <2>3, ThreadSteps, ConfigureStep, FileSteps, DatabaseStep DEF Next
<1> QED BY <1>1, InitMonitor, PTL DEF Spec
-----------------------------------------------------------------------------
(* Theorems                                                                 *)

\* Types of the monitor and its thread; the report counts no more files than there
\* are.
THEOREM TypeCorrect == Spec => []TypeOK
BY MonitorInvHolds, PTL DEF MonitorInv

\* However clients replace the folder while the thread watches or scans one, a
\* report on another folder is on show only when the scanned one was replaced.
THEOREM ReportOfOwnFolder == Spec => []ReportBelongs
BY MonitorInvHolds, PTL DEF MonitorInv

\* For every folder and disk, every order of the visits and every failing listing:
\* a report is exact for the files that were not passed over, did not change after
\* their visit and were not being read when the database was replaced.
THEOREM ReportsExact == Spec => ReportExactUnlessDoubtful
<1>1. MonitorInv => [StoreReport => Exact(result', thread.scan.doubtful, disk)]_vars
  <2> SUFFICES ASSUME MonitorInv, StoreReport
               PROVE  Exact(result', thread.scan.doubtful, disk)
    OBVIOUS
  <2>1. thread.scan \in Scans /\ Faithful(thread.scan, disk) /\ thread.scan.todo = {}
    BY DEF MonitorInv, TypeOK, WalkInv, StoreReport
  <2>2. result' = Report(thread.scan)
    BY DEF StoreReport, Store
  <2> QED BY <2>1, <2>2, WalkReported
<1> QED BY <1>1, MonitorInvHolds, PTL DEF ReportExactUnlessDoubtful
=============================================================================
