------------------------------ MODULE AvStorage ------------------------------
(***************************************************************************)
(* The storage of the signature database in service.cpp: the file           *)
(* AVAA_avdb.bin, its backup AVAA_avdb.bak and the database in memory.      *)
(*                                                                         *)
(* Threads: Main (ServiceMain, which calls LoadAvDatabaseIfNeeded once      *)
(* before the service reports RUNNING), Updater (DatabaseUpdateThreadProc,  *)
(* created after that) and Callers (RPC, schedule and monitor threads that  *)
(* reach LoadAvDatabaseIfNeeded through EnsureAvReady, or from the license  *)
(* code).  g_av_lock protects the database in memory; nothing protects the  *)
(* files, so the threads interleave at every file operation.                *)
(***************************************************************************)
EXTENDS Naturals, FiniteSets

CONSTANTS Main, Updater, Callers,
          Disks,      \* the <<bin, bak>> pairs the process may find when first started
          MaxFaults,  \* bound on I/O operations that fail
          MaxCrashes  \* bound on ends of the process (kill, service stop)

Threads == {Main, Updater} \cup Callers

Releases == {"default", "updated"}
\* "cut": unreadable or truncated content (invalid header or record);
\* "forged": a content that parses but whose manifest signature is wrong.
Contents == Releases \cup {"absent", "cut", "forged"}

Steps == {"down", "idle", "check", "ensure", "open", "flush", "read", "apply",
          "test", "copy", "fill", "ready"}

\* Which part of loading or updating a step belongs to; it fixes what follows.
Stages == {"none",
           "primary",  \* LoadAvDatabaseFromDiskWithRecovery on the .bin file
           "backup",   \* BackupCurrentAvDatabase
           "new",      \* DownloadUpdatedAvDatabase and the load of what it wrote
           "rollback", \* RestoreAvDatabaseFromBackup inside a failed update
           "restore",  \* RestoreAvDatabaseFromBackup of the recovery
           "default"}  \* LoadDefaultAvDatabase

Jobs == [at : Steps, stage : Stages, buf : Contents]

ASSUME StorageAssumption ==
  /\ Main # Updater
  /\ Main \notin Callers
  /\ Updater \notin Callers
  /\ Disks \subseteq Contents \X Contents
  /\ Disks # {}
  /\ MaxFaults \in Nat
  /\ MaxCrashes \in Nat

VARIABLES bin, bak,  \* contents of the two files
          memory,    \* release of g_av_database, "none" before loaded = true
          job,       \* job[t]: the step thread t is at
          faults, crashes

vars == <<bin, bak, memory, job, faults, crashes>>
-----------------------------------------------------------------------------
At(step, stage, buf) == [at |-> step, stage |-> stage, buf |-> buf]
Idle == At("idle", "none", "absent")

Starting == [t \in Threads |->
               IF t = Main THEN At("check", "none", "absent")
               ELSE IF t = Updater THEN At("down", "none", "absent") ELSE Idle]

Init == /\ \E d \in Disks : bin = d[1] /\ bak = d[2]
        /\ memory = "none"
        /\ job = Starting
        /\ faults = 0
        /\ crashes = 0

\* Types: every variable stays in its range.
TypeOK == /\ bin \in Contents
          /\ bak \in Contents
          /\ memory \in Releases \cup {"none"}
          /\ job \in [Threads -> Jobs]
          /\ faults \in 0..MaxFaults
          /\ crashes \in 0..MaxCrashes

Go(t, j) == job' = [job EXCEPT ![t] = j]
Fault == faults < MaxFaults /\ faults' = faults + 1
NoFault == UNCHANGED faults
-----------------------------------------------------------------------------
(* What follows a step that ended well or badly.                            *)

\* The return of the whole operation: the update thread goes back to its
\* timed wait, anyone else has its database.
Finished(t) == IF t = Updater THEN Idle ELSE At("ready", "none", "absent")

StartUpdate == At("test", "backup", "absent")

\* LoadDefaultAvDatabase, when the backup cannot be restored.
LastResort == At("apply", "default", "default")

\* Mutant: a failed forced update ends the recovery.
UpdateFailed_Returns(t) == Finished(t)

\* UpdateAvDatabaseFromServer returned FALSE: the recovery goes on with the backup.
UpdateFailed(t) == IF t = Updater THEN Idle ELSE At("copy", "restore", "absent")

\* Mutants: a backup that cannot be restored ends the load, or is tried again.
LoadFailed_NoDefault(t, stage, c) ==
  CASE stage = "primary" -> IF c = "forged" THEN StartUpdate ELSE At("copy", "restore", "absent")
    [] stage = "new" -> At("copy", "rollback", "absent")
    [] stage = "rollback" -> UpdateFailed(t)
    [] OTHER -> Finished(t)
LoadFailed_Retries(t, stage, c) ==
  CASE stage = "primary" -> IF c = "forged" THEN StartUpdate ELSE At("copy", "restore", "absent")
    [] stage = "new" -> At("copy", "rollback", "absent")
    [] stage = "rollback" -> UpdateFailed(t)
    [] OTHER -> At("copy", "restore", "absent")

\* LoadAvDatabaseFile or RestoreAvDatabaseFromBackup returned FALSE having
\* met content c.
LoadFailed(t, stage, c) ==
  CASE stage = "primary" -> IF c = "forged" THEN StartUpdate ELSE At("copy", "restore", "absent")
    [] stage = "new" -> At("copy", "rollback", "absent")
    [] stage = "rollback" -> UpdateFailed(t)
    [] OTHER -> LastResort

Loaded(t, stage) ==
  CASE stage = "rollback" -> UpdateFailed(t)
    [] stage = "default" -> At("open", "default", "absent")
    [] OTHER -> Finished(t)

\* Mutant: what was downloaded is not loaded.
Written_NoLoad(t, stage, ok) ==
  CASE stage = "primary" -> At("read", "primary", "absent")
    [] stage = "backup" -> At("copy", "backup", "absent")
    [] stage = "new" -> IF ok THEN Finished(t) ELSE LoadFailed(t, "new", "absent")
    [] OTHER -> Finished(t)

\* WriteAllBytes returned; only the download looks at its result.
Written(t, stage, ok) ==
  CASE stage = "primary" -> At("read", "primary", "absent")
    [] stage = "backup" -> At("copy", "backup", "absent")
    [] stage = "new" -> IF ok THEN At("read", "new", "absent") ELSE LoadFailed(t, "new", "absent")
    [] OTHER -> Finished(t)

\* CopyFileW returned; the result of the backup is not looked at.
Copied(t, stage, ok) ==
  IF stage = "backup" THEN At("open", "new", "absent")
  ELSE IF ok THEN At("read", stage, "absent") ELSE LoadFailed(t, stage, "absent")
-----------------------------------------------------------------------------
(* LoadAvDatabaseIfNeeded                                                   *)

Call(t) == /\ t \in Callers
           /\ job[t].at = "idle"
           /\ Go(t, At("check", "none", "absent"))
           /\ UNCHANGED <<bin, bak, memory, faults, crashes>>

\* The flag is read in a critical section of its own; the load that follows
\* is decided on what it was.
CheckLoaded(t) ==
  /\ job[t].at = "check"
  /\ Go(t, IF memory # "none" THEN At("ready", "none", "absent")
           ELSE At("ensure", "primary", "absent"))
  /\ UNCHANGED <<bin, bak, memory, faults, crashes>>

Return(t) == /\ t \in Callers
             /\ job[t].at = "ready"
             /\ Go(t, Idle)
             /\ UNCHANGED <<bin, bak, memory, faults, crashes>>

\* EnsureAvDatabaseFileExists; the caller ignores what it returns.
EnsureFile(t) ==
  /\ job[t].at = "ensure"
  /\ Go(t, IF bin = "absent" THEN At("open", "primary", "absent")
           ELSE At("read", "primary", "absent"))
  /\ UNCHANGED <<bin, bak, memory, faults, crashes>>
-----------------------------------------------------------------------------
(* Files                                                                    *)

\* What WriteAllBytes is writing: the downloaded database, or the default one.
Payload(stage) == IF stage = "new" THEN "updated" ELSE "default"

\* Opening with ios::trunc empties the file before anything is written.
OpenFile(t) ==
  /\ job[t].at = "open"
  /\ \/ /\ bin' = "cut"
        /\ Go(t, At("flush", job[t].stage, "absent"))
        /\ NoFault
     \/ /\ Fault
        /\ Go(t, Written(t, job[t].stage, FALSE))
        /\ UNCHANGED bin
  /\ UNCHANGED <<bak, memory, crashes>>

\* The bytes reach the disk when the stream is closed, after good() has been
\* read: a write that fails may still be reported as a success.
FlushFile(t) ==
  /\ job[t].at = "flush"
  /\ \/ /\ bin' = Payload(job[t].stage)
        /\ Go(t, Written(t, job[t].stage, TRUE))
        /\ NoFault
     \/ /\ Fault
        /\ bin' \in {bin, "cut"}
        /\ \E good \in BOOLEAN : Go(t, Written(t, job[t].stage, good))
  /\ UNCHANGED <<bak, memory, crashes>>

Source(stage) == IF stage = "backup" THEN bin ELSE bak

WriteTarget(stage, c) == IF stage = "backup" THEN bak' = c /\ UNCHANGED bin
                         ELSE bin' = c /\ UNCHANGED bak

\* CopyFileW, overwriting its target: it fails and leaves the target alone,
\* or empties the target ...
CopyBegin(t) ==
  /\ job[t].at = "copy"
  /\ \/ /\ Source(job[t].stage) # "absent"
        /\ WriteTarget(job[t].stage, "cut")
        /\ Go(t, At("fill", job[t].stage, Source(job[t].stage)))
        /\ NoFault
     \/ /\ \/ Source(job[t].stage) = "absent" /\ NoFault
           \/ Fault
        /\ Go(t, Copied(t, job[t].stage, FALSE))
        /\ UNCHANGED <<bin, bak>>
  /\ UNCHANGED <<memory, crashes>>

\* ... and then fills it, or fails half way.
CopyEnd(t) ==
  /\ job[t].at = "fill"
  /\ \/ /\ WriteTarget(job[t].stage, job[t].buf)
        /\ Go(t, Copied(t, job[t].stage, TRUE))
        /\ NoFault
     \/ /\ Fault
        /\ \E rest \in {"absent", "cut"} : WriteTarget(job[t].stage, rest)
        /\ Go(t, Copied(t, job[t].stage, FALSE))
  /\ UNCHANGED <<memory, crashes>>

\* Mutant: truncated and unsigned contents are applied.
ReadFile_Unchecked(t) ==
  /\ job[t].at = "read"
  /\ Go(t, IF bin # "absent" THEN At("apply", job[t].stage, bin)
           ELSE LoadFailed(t, job[t].stage, bin))
  /\ UNCHANGED <<bin, bak, memory, faults, crashes>>

\* ReadAllBytes and LoadAvDatabaseFromBytes: the file is closed before the
\* records are applied.
ReadFile(t) ==
  /\ job[t].at = "read"
  /\ \/ /\ Go(t, IF bin \in Releases THEN At("apply", job[t].stage, bin)
                 ELSE LoadFailed(t, job[t].stage, bin))
        /\ NoFault
     \/ /\ Fault
        /\ Go(t, LoadFailed(t, job[t].stage, "absent"))
  /\ UNCHANGED <<bin, bak, memory, crashes>>

\* ApplyAvRecordsUnlocked under g_av_lock: records, automaton and the flag.
Apply(t) ==
  /\ job[t].at = "apply"
  /\ memory' = job[t].buf
  /\ Go(t, Loaded(t, job[t].stage))
  /\ UNCHANGED <<bin, bak, faults, crashes>>
-----------------------------------------------------------------------------
(* Updates                                                                  *)

\* ServiceMain creates the update thread once its own load has returned.
StartUpdater == /\ job[Main].at = "ready"
                /\ job[Updater].at = "down"
                /\ Go(Updater, Idle)
                /\ UNCHANGED <<bin, bak, memory, faults, crashes>>

\* The 60 second wait of DatabaseUpdateThreadProc timed out.
UpdateDue == /\ job[Updater].at = "idle"
             /\ Go(Updater, StartUpdate)
             /\ UNCHANGED <<bin, bak, memory, faults, crashes>>

\* Mutant: the update overwrites the file without a backup.
TestBackup_Skips(t) ==
  /\ job[t].at = "test"
  /\ Go(t, At("open", "new", "absent"))
  /\ UNCHANGED <<bin, bak, memory, faults, crashes>>

\* BackupCurrentAvDatabase: writes the default database first if there is none.
TestBackup(t) ==
  /\ job[t].at = "test"
  /\ Go(t, IF bin = "absent" THEN At("open", "backup", "absent")
           ELSE At("copy", "backup", "absent"))
  /\ UNCHANGED <<bin, bak, memory, faults, crashes>>

\* The process ends at any moment and is started again on the files it left.
\* Windows goes on: what was written is there for the next process.
Crash == /\ crashes < MaxCrashes
         /\ crashes' = crashes + 1
         /\ memory' = "none"
         /\ job' = Starting
         /\ UNCHANGED <<bin, bak, faults>>
-----------------------------------------------------------------------------
\* The steps a thread takes by itself once it has begun.
Work(t) == \/ CheckLoaded(t) \/ EnsureFile(t) \/ TestBackup(t)
           \/ OpenFile(t) \/ FlushFile(t)
           \/ CopyBegin(t) \/ CopyEnd(t)
           \/ ReadFile(t) \/ Apply(t)

Next == \/ \E t \in Threads : Call(t) \/ Return(t) \/ Work(t)
        \/ StartUpdater
        \/ UpdateDue
        \/ Crash

Spec == Init /\ [][Next]_vars

\* Windows schedules every thread that is not waiting.
Fairness == /\ \A t \in Threads : WF_vars(Work(t))
            /\ WF_vars(StartUpdater)

FairSpec == Spec /\ Fairness
-----------------------------------------------------------------------------
(* Properties                                                               *)

\* EnsureAvReady relies on it: when LoadAvDatabaseIfNeeded returns, on
\* whichever of the recovery paths and whatever the other threads and the disk
\* did meanwhile, a database is in memory.
ReadyMeansLoaded == \A t \in Threads : job[t].at = "ready" => memory # "none"

\* As long as no I/O fails, a kill of the process between any two file
\* operations of a load or of an update leaves a good copy in one of the files
\* (BackupCurrentAvDatabase comes before DownloadUpdatedAvDatabase).
GoodCopySurvives == bin \in Releases \/ bak \in Releases

\* Every load comes to an end, also when the primary file, the update, the
\* rollback and the backup all fail one after the other: the call returns, or
\* the process that served it has ended.  And an update that was begun is not
\* abandoned half way: the update thread comes back to its timed wait (or is gone
\* with its process), so that the next update can be due.
LoadsAndUpdatesEnd ==
  /\ \A t \in Threads \ {Updater} :
       (job[t].at = "check") ~> (job[t].at \in {"ready", "idle"})
  /\ (job[Updater].stage # "none") ~> (job[Updater].stage = "none")

\* Alone and without I/O failures, an update sticks: from the moment the
\* update thread waits again after it, the file holds what the memory holds,
\* and a restart loads the same release.
MemoryMatchesFile ==
  (job[Main].at = "ready" /\ job[Updater].at = "idle") => bin = memory

\* PRACTICE5_TESTING.md: the default database is created when the backup is
\* absent or damaged too; so a process that starts with a good backup does not
\* come to it.
BackupPreventsDefault ==
  (\A d \in Disks : d[2] \in Releases) => \A t \in Threads : job[t].stage # "default"

\* The calls of LoadAvDatabaseIfNeeded as the callers see them.
Phase(j) == CASE j.at \in {"down", "idle"} -> "out"
              [] j.at = "ready" -> "answered"
              [] OTHER -> "waiting"

Contract == INSTANCE DbContract WITH
  Askers <- Callers,
  Releases <- Releases,
  memory <- memory,
  call <- [c \in Callers |-> Phase(job[c])]

\* The storage implements the contract of DbContract.
ImplementsContract == Contract!Spec
=============================================================================
