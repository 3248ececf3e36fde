------------------------- MODULE ScanScheduleProofs -------------------------
(* Theorems about ScanSchedule, for any folders, files and interval.        *)
EXTENDS ScanSchedule, DirectoryScanProofs

\* The minutes behind and the minutes ahead make up the interval.
TickInv == schedule.enabled => since + schedule.left >= schedule.interval

\* The scan agrees with the disk so far, except for the files in doubt.
WalkInv == thread.at = "scan" => Faithful(thread.scan, disk)

ScheduleInv == /\ TypeOK
               /\ Bounded(thread.scan)
               /\ TickInv
               /\ ReportBelongs
               /\ WalkInv

LEMMA Bounds == MaxInterval \in Nat /\ MaxInterval >= 1 /\ Anywhere \in Paths
BY ScheduleAssumption DEF Anywhere

LEMMA Idle == ASSUME NEW p \in Paths PROVE NoScan(p) \in Scans /\ Bounded(NoScan(p))
BY NoWalk DEF NoScan

LEMMA InitSchedule == Init => ScheduleInv
<1> SUFFICES ASSUME Init PROVE ScheduleInv
  OBVIOUS
<1>1. schedule \in Schedules /\ thread \in [at : Steps, scan : Scans] /\ Bounded(thread.scan)
  BY Bounds, Idle, Said DEF Init, Schedules, Steps
<1>2. TypeOK
  <2>1. disk \in [Files -> Contents]
    BY DEF Init, Contents
  <2>2. since \in 0..MaxInterval
    BY Bounds DEF Init
  <2>3. licensed \in BOOLEAN /\ stopping \in BOOLEAN /\ late \in BOOLEAN
    BY DEF Init
  <2> QED BY <1>1, <2>1, <2>2, <2>3 DEF TypeOK
<1> QED BY <1>1, <1>2 DEF Init, ScheduleInv, TickInv, ReportBelongs, WalkInv
-----------------------------------------------------------------------------
\* The thread moves to another step outside a scan, or goes on with its scan.
LEMMA StartScanStep == ASSUME ScheduleInv, StartScan PROVE ScheduleInv'
<1> USE DEF ScheduleInv, StartScan
<1>1. /\ thread' = [at |-> "classify", scan |-> NoScan(schedule.path)]
      /\ thread' \in [at : Steps, scan : Scans]
      /\ Bounded(thread'.scan)
  BY Idle DEF TypeOK, Schedules, Steps
<1>2. schedule' \in Schedules /\ since' \in 0..MaxInterval
  BY Bounds DEF TypeOK, Schedules
<1>3. TickInv' /\ ReportBelongs'
  BY Bounds DEF TypeOK, Schedules, TickInv, ReportBelongs
<1> QED BY <1>1, <1>2, <1>3 DEF TypeOK, WalkInv

LEMMA MoveStep ==
  ASSUME ScheduleInv, UNCHANGED <<schedule, disk, licensed, stopping, late, since>>,
         thread' \in [at : Steps, scan : Scans], Bounded(thread'.scan), WalkInv'
  PROVE  ScheduleInv'
BY DEF ScheduleInv, TypeOK, TickInv, ReportBelongs

LEMMA GotoStep ==
  ASSUME ScheduleInv, NEW step \in Steps \ {"scan"}, Goto(step),
         UNCHANGED <<schedule, disk, licensed, stopping, late, since>>
  PROVE  ScheduleInv'
<1>1. thread' \in [at : Steps, scan : Scans] /\ thread'.scan = thread.scan /\ thread'.at = step
  BY DEF ScheduleInv, TypeOK, Goto
<1>2. Bounded(thread'.scan) /\ WalkInv'
  BY <1>1 DEF ScheduleInv, WalkInv
<1> QED BY <1>1, <1>2, MoveStep

LEMMA CheckReadyStep == ASSUME ScheduleInv, CheckReady PROVE ScheduleInv'
<1>1. CASE licensed
  <2>1. thread' = [at |-> "scan", scan |-> Begin(thread.scan.path)] /\ thread.scan.path \in Paths
    BY <1>1 DEF CheckReady, ScheduleInv, TypeOK, Scans
  <2>2. /\ Begin(thread.scan.path) \in Scans
        /\ Bounded(Begin(thread.scan.path))
        /\ Faithful(Begin(thread.scan.path), disk)
    BY <2>1, BeginWalk
  <2>3. UNCHANGED <<schedule, disk, licensed, stopping, late, since>> /\ licensed = TRUE
    BY <1>1 DEF CheckReady, ScheduleInv, TypeOK
  <2>4. thread' \in [at : Steps, scan : Scans] /\ Bounded(thread'.scan) /\ WalkInv'
    BY <2>1, <2>2, <2>3 DEF Steps, WalkInv
  <2> QED BY <2>3, <2>4, MoveStep
<1>2. CASE ~licensed
  BY <1>2, GotoStep DEF CheckReady, Goto, Steps
<1> QED BY <1>1, <1>2

LEMMA WalkStep ==
  ASSUME ScheduleInv, NEW scan \in Scans, Bounded(scan), Faithful(scan, disk),
         thread' = [thread EXCEPT !.scan = scan],
         UNCHANGED <<schedule, disk, licensed, stopping, late, since>>
  PROVE  ScheduleInv'
<1>1. thread' \in [at : Steps, scan : Scans] /\ thread'.scan = scan
  BY DEF ScheduleInv, TypeOK
<1>2. Bounded(thread'.scan) /\ WalkInv'
  BY <1>1 DEF WalkInv
<1> QED BY <1>1, <1>2, MoveStep

LEMMA VisitFileStep == ASSUME ScheduleInv, VisitFile PROVE ScheduleInv'
<1>1. UNCHANGED <<schedule, disk, licensed, stopping, late, since>> /\ thread.at = "scan"
  BY DEF VisitFile
<1>2. thread.scan \in Scans /\ Bounded(thread.scan) /\ licensed \in BOOLEAN
      /\ thread \in [at : Steps, scan : Scans]
  BY DEF ScheduleInv, TypeOK
<1>3. PICK f \in thread.scan.todo :
         IF thread.scan.path \in Folders
         THEN thread' = [thread EXCEPT !.scan = Visit(thread.scan, f, licensed, disk[f])]
         ELSE IF disk[f] = "locked" THEN Goto("failed")
         ELSE thread' = [thread EXCEPT !.scan = Visit(thread.scan, f, TRUE, disk[f])]
  BY DEF VisitFile
<1>4. ASSUME NEW ok \in BOOLEAN,
             thread' = [thread EXCEPT !.scan = Visit(thread.scan, f, ok, disk[f])]
      PROVE  ScheduleInv'
  <2>1. Visit(thread.scan, f, ok, disk[f]) \in Scans /\ Bounded(Visit(thread.scan, f, ok, disk[f]))
    BY <1>2, VisitTyped
  <2>2. Faithful(Visit(thread.scan, f, ok, disk[f]), disk)
    BY <1>1, <1>2, VisitFaithful DEF ScheduleInv, WalkInv
  <2> QED BY <1>1, <1>2, <1>4, <2>1, <2>2, WalkStep
<1>5. CASE thread.scan.path \in Folders
  BY <1>2, <1>3, <1>4, <1>5
<1>6. CASE thread.scan.path \notin Folders /\ disk[f] # "locked"
  BY <1>3, <1>4, <1>6
<1>7. CASE thread.scan.path \notin Folders /\ disk[f] = "locked"
  BY <1>1, <1>3, <1>7, GotoStep DEF Steps
<1> QED BY <1>5, <1>6, <1>7

LEMMA ListingFailsStep == ASSUME ScheduleInv, ListingFails PROVE ScheduleInv'
<1>1. UNCHANGED <<schedule, disk, licensed, stopping, late, since>> /\ thread.at = "scan"
  BY DEF ListingFails
<1>2. thread.scan \in Scans /\ Bounded(thread.scan) /\ Faithful(thread.scan, disk)
  BY <1>1 DEF ScheduleInv, TypeOK, WalkInv
<1>3. PICK files \in SUBSET thread.scan.todo :
        thread' = [thread EXCEPT !.scan = Skip(thread.scan, files)]
  BY DEF ListingFails
<1>4. Skip(thread.scan, files) \in Scans /\ Bounded(Skip(thread.scan, files))
      /\ Faithful(Skip(thread.scan, files), disk)
  BY <1>2, SkipTyped, SkipFaithful
<1> QED BY <1>1, <1>3, <1>4, WalkStep

LEMMA StoreStep ==
  ASSUME ScheduleInv, NEW said \in Results, said.of = thread.scan.path, Store(said)
  PROVE  ScheduleInv'
<1> USE DEF ScheduleInv, Store
<1>1. thread' \in [at : Steps, scan : Scans] /\ Bounded(thread'.scan) /\ thread'.at = "poll"
  BY Idle, Bounds DEF Steps
<1>2. schedule' \in Schedules
  BY DEF TypeOK, Schedules
<1>3. TickInv' /\ ReportBelongs'
  BY DEF TypeOK, Schedules, TickInv, ReportBelongs
<1> QED BY <1>1, <1>2, <1>3 DEF TypeOK, WalkInv

LEMMA ThreadSteps == ASSUME ScheduleInv, ThreadStep PROVE ScheduleInv'
<1>1. thread.scan \in Scans /\ thread.scan.path \in Paths
  BY DEF ScheduleInv, TypeOK, Scans
<1>2. CASE Classify
  BY <1>2, GotoStep DEF Classify, Steps
<1>3. CASE StoreReport
  BY <1>1, <1>3, WalkReported, StoreStep DEF StoreReport, Report
<1>4. CASE StoreFailure
  BY <1>1, <1>4, Said, StoreStep DEF StoreFailure, Say
<1>5. CASE End
  BY <1>5, GotoStep DEF End, Steps
<1> QED BY <1>2, <1>3, <1>4, <1>5, StartScanStep, CheckReadyStep, VisitFileStep,
       ListingFailsStep DEF ThreadStep
-----------------------------------------------------------------------------
\* Clients, time, files and the license.
LEMMA ConfigureStep ==
  ASSUME ScheduleInv, NEW minutes \in 0..MaxInterval, NEW p \in Paths,
         ConfigureScheduleScan(minutes, p)
  PROVE  ScheduleInv'
<1> USE DEF ScheduleInv, ConfigureScheduleScan
<1>1. schedule' \in Schedules /\ since' \in 0..MaxInterval
  BY Bounds, Said DEF Schedules
<1>2. TickInv' /\ ReportBelongs'
  BY DEF TickInv, ReportBelongs, Say
<1>3. Bounded(thread'.scan) /\ WalkInv'
  BY DEF WalkInv
<1> QED BY <1>1, <1>2, <1>3 DEF TypeOK

LEMMA MinuteStep == ASSUME ScheduleInv, MinutePasses PROVE ScheduleInv'
<1> USE DEF ScheduleInv, MinutePasses
<1>1. schedule' \in Schedules /\ since' \in 0..MaxInterval
  BY Bounds DEF TypeOK, Schedules
<1>2. TickInv' /\ ReportBelongs'
  BY Bounds DEF TypeOK, Schedules, TickInv, ReportBelongs
<1>3. Bounded(thread'.scan) /\ WalkInv'
  BY DEF WalkInv
<1> QED BY <1>1, <1>2, <1>3 DEF TypeOK

\* What a scan would find changes in `files', and the walk, which may just have
\* read one of them, puts those visited already in doubt.
LEMMA DiskStep ==
  ASSUME ScheduleInv, NEW files,
         disk' \in [Files -> Contents], \A f \in Files \ files : disk'[f] = disk[f],
         NEW scan \in Scans, Bounded(scan), thread.at = "scan" => Faithful(scan, disk),
         IF thread.at = "scan" THEN thread' = [thread EXCEPT !.scan = Outdate(scan, files)]
         ELSE UNCHANGED thread,
         UNCHANGED <<schedule, licensed, stopping, late, since>>
  PROVE  ScheduleInv'
<1>1. CASE thread.at = "scan"
  <2> DEFINE next == Outdate(scan, files)
  <2>1. next \in Scans /\ Bounded(next) /\ Faithful(next, disk')
    BY <1>1, OutdateTyped, OutdateFaithful
  <2> HIDE DEF next
  <2>2. thread' = [thread EXCEPT !.scan = next] /\ thread \in [at : Steps, scan : Scans]
    BY <1>1 DEF next, ScheduleInv, TypeOK
  <2>3. thread' \in [at : Steps, scan : Scans] /\ thread'.scan = next
    BY <2>1, <2>2
  <2>4. Bounded(thread'.scan) /\ WalkInv'
    BY <2>1, <2>3 DEF WalkInv
  <2> QED BY <2>3, <2>4 DEF ScheduleInv, TypeOK, TickInv, ReportBelongs
<1>2. CASE thread.at # "scan"
  BY <1>2 DEF ScheduleInv, TypeOK, TickInv, ReportBelongs, WalkInv
<1> QED BY <1>1, <1>2

LEMMA FileStep == ASSUME ScheduleInv, NEW f \in Files, FileChanges(f) PROVE ScheduleInv'
<1>1. UNCHANGED <<schedule, licensed, stopping, late, since>>
      /\ thread.scan \in Scans /\ Bounded(thread.scan)
      /\ (thread.at = "scan" => Faithful(thread.scan, disk))
  BY DEF FileChanges, ScheduleInv, TypeOK, WalkInv
<1>2. disk' \in [Files -> Contents] /\ \A g \in Files \ {f} : disk'[g] = disk[g]
  BY DEF FileChanges, ScheduleInv, TypeOK
<1>3. IF thread.at = "scan" THEN thread' = [thread EXCEPT !.scan = Outdate(thread.scan, {f})]
      ELSE UNCHANGED thread
  BY DEF FileChanges, Outdated
<1> QED BY <1>1, <1>2, <1>3, DiskStep

LEMMA DatabaseStep ==
  ASSUME ScheduleInv, NEW files, DatabaseReplaced(files)
  PROVE  ScheduleInv'
<1>1. UNCHANGED <<schedule, licensed, stopping, late, since>>
      /\ thread.scan \in Scans /\ Bounded(thread.scan)
      /\ (thread.at = "scan" => Faithful(thread.scan, disk))
  BY DEF DatabaseReplaced, ScheduleInv, TypeOK, WalkInv
<1>2. disk' \in [Files -> Contents] /\ \A g \in Files \ files : disk'[g] = disk[g]
  BY Rejudged DEF DatabaseReplaced, ScheduleInv, TypeOK
<1>3. CASE Outdated(files)
  <2>1. IF thread.at = "scan" THEN thread' = [thread EXCEPT !.scan = Outdate(thread.scan, files)]
        ELSE UNCHANGED thread
    BY <1>3 DEF Outdated
  <2> QED BY <1>1, <1>2, <2>1, DiskStep
<1>4. ASSUME thread.at = "scan", NEW f \in thread.scan.todo, NEW verdict \in {"clean", "bad"},
             thread' = [thread EXCEPT !.scan = Outdate(Torn(@, f, verdict), files)]
      PROVE  ScheduleInv'
  <2> DEFINE scan == Torn(thread.scan, f, verdict)
  <2>1. scan \in Scans /\ Bounded(scan) /\ Faithful(scan, disk)
    BY <1>1, <1>4, TornTyped, TornFaithful
  <2>2. thread' = [thread EXCEPT !.scan = Outdate(scan, files)]
    BY <1>4
  <2> HIDE DEF scan
  <2> QED BY <1>1, <1>2, <1>4, <2>1, <2>2, DiskStep
<1> QED BY <1>3, <1>4 DEF DatabaseReplaced

LEMMA ScheduleInvHolds == Spec => []ScheduleInv
<1>1. ScheduleInv /\ [Next]_vars => ScheduleInv'
  <2> SUFFICES ASSUME ScheduleInv, [Next]_vars PROVE ScheduleInv'
    OBVIOUS
  <2>1. CASE StopService
    BY <2>1 DEF StopService, ScheduleInv, TypeOK, TickInv, ReportBelongs, WalkInv
  <2>2. CASE LicenseChanges
    BY <2>2 DEF LicenseChanges, ScheduleInv, TypeOK, TickInv, ReportBelongs, WalkInv
  <2>3. CASE UNCHANGED vars
    BY <2>3 DEF vars, ScheduleInv, TypeOK, TickInv, ReportBelongs, WalkInv
  <2> QED BY <2>1, <2>2, <2>3, ThreadSteps, ConfigureStep, MinuteStep, FileStep, DatabaseStep
    DEF Next
<1> QED BY <1>1, InitSchedule, PTL DEF Spec
-----------------------------------------------------------------------------
(* Theorems                                                                 *)

\* Types of the schedule and its thread; the report counts no more files than
\* there are.
THEOREM TypeCorrect == Spec => []TypeOK
BY ScheduleInvHolds, PTL DEF ScheduleInv

\* However clients replace the schedule while the thread scans, a report on another
\* path than the configured one is on show only when its path was replaced.
THEOREM ReportOfOwnPath == Spec => []ReportBelongs
BY ScheduleInvHolds, PTL DEF ScheduleInv

\* For every interval: starts of scans are that many minutes apart, however long
\* a scan runs and whenever the schedule is configured.
THEOREM ScansAtInterval == Spec => ScansApart
<1>1. ScheduleInv => [StartScan => since >= schedule.interval]_vars
  BY DEF ScheduleInv, TypeOK, Schedules, TickInv, StartScan, Due
<1> QED BY <1>1, ScheduleInvHolds, PTL DEF ScansApart

\* For every folder and disk, every order of the visits and every failing listing:
\* a report is exact for the files that were not passed over, did not change after
\* their visit and were not being read when the database was replaced.
THEOREM ReportsExact == Spec => ReportExactUnlessDoubtful
<1>1. ScheduleInv => [StoreReport => Exact(schedule'.last, thread.scan.doubtful, disk)]_vars
  <2> SUFFICES ASSUME ScheduleInv, StoreReport
               PROVE  Exact(schedule'.last, thread.scan.doubtful, disk)
    OBVIOUS
  <2>1. thread.scan \in Scans /\ Faithful(thread.scan, disk) /\ thread.scan.todo = {}
    BY DEF ScheduleInv, TypeOK, WalkInv, StoreReport
  <2>2. schedule'.last = Report(thread.scan)
    BY DEF StoreReport, Store, ScheduleInv, TypeOK, Schedules
  <2> QED BY <2>1, <2>2, WalkReported
<1> QED BY <1>1, ScheduleInvHolds, PTL DEF ReportExactUnlessDoubtful
=============================================================================
