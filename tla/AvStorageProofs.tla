--------------------------- MODULE AvStorageProofs ---------------------------
(* Theorems about AvStorage, for any set of callers, any disk and any bound *)
(* on faults and crashes.                                                   *)
EXTENDS AvStorage, TLAPS

\* What must hold of the job of a thread when the memory is m.
JobOK(j, m) ==
  /\ j.at = "ready" => m # "none"
  /\ j.at = "apply" => j.buf \in Releases
  /\ (j.stage = "default" /\ j.at # "apply") => m # "none"
  /\ j.at \in {"copy", "fill", "read"} => j.stage # "default"
  /\ j.at \in {"open", "flush"} => j.stage \in {"primary", "backup", "new", "default"}

JobsOK == \A t \in Threads : JobOK(job[t], memory)

LoadInv == TypeOK /\ JobsOK

\* Where a thread that has been to a step goes next is again a proper job,
\* whatever the outcome of the step.
LEMMA NextJobs ==
  ASSUME NEW t \in Threads, NEW stage \in Stages, NEW c \in Contents, NEW ok \in BOOLEAN,
         NEW m \in Releases \cup {"none"}
  PROVE  /\ LoadFailed(t, stage, c) \in Jobs /\ JobOK(LoadFailed(t, stage, c), m)
         /\ m # "none" => Loaded(t, stage) \in Jobs /\ JobOK(Loaded(t, stage), m)
         /\ stage # "default" => Copied(t, stage, ok) \in Jobs /\ JobOK(Copied(t, stage, ok), m)
         /\ (stage \in {"primary", "backup", "new"} \/ (stage = "default" /\ m # "none"))
              => Written(t, stage, ok) \in Jobs /\ JobOK(Written(t, stage, ok), m)
<1>1. LoadFailed(t, stage, c) \in Jobs /\ JobOK(LoadFailed(t, stage, c), m)
  BY DEF LoadFailed, JobOK, Jobs, At, StartUpdate, LastResort, UpdateFailed, Idle,
         Stages, Steps, Contents, Releases
<1>2. m # "none" => Loaded(t, stage) \in Jobs /\ JobOK(Loaded(t, stage), m)
  BY DEF Loaded, Finished, JobOK, Jobs, At, UpdateFailed, Idle,
         Stages, Steps, Contents, Releases
<1>3. LoadFailed(t, stage, "absent") \in Jobs /\ JobOK(LoadFailed(t, stage, "absent"), m)
  BY DEF LoadFailed, JobOK, Jobs, At, StartUpdate, LastResort, UpdateFailed, Idle,
         Stages, Steps, Contents, Releases
<1>4. stage # "default" => Copied(t, stage, ok) \in Jobs /\ JobOK(Copied(t, stage, ok), m)
  BY <1>3 DEF Copied, JobOK, Jobs, At, Stages, Steps, Contents, Releases
<1>5. ASSUME stage \in {"primary", "backup", "new"} \/ (stage = "default" /\ m # "none")
      PROVE  Written(t, stage, ok) \in Jobs /\ JobOK(Written(t, stage, ok), m)
  BY <1>3, <1>5 DEF Written, Finished, JobOK, Jobs, At, Idle, LoadFailed,
                    Stages, Steps, Contents, Releases
<1> QED BY <1>1, <1>2, <1>4, <1>5

\* A thread that goes to a proper job leaves the others proper, if the memory
\* is not emptied.
LEMMA GoKeepsJobs ==
  ASSUME LoadInv, NEW t \in Threads, NEW j \in Jobs, Go(t, j),
         memory' \in Releases \cup {"none"},
         memory # "none" => memory' # "none",
         JobOK(j, memory')
  PROVE  job' \in [Threads -> Jobs] /\ JobsOK'
<1>1. job' \in [Threads -> Jobs]
  BY DEF LoadInv, TypeOK, Go
<1>2. ASSUME NEW u \in Threads PROVE JobOK(job'[u], memory')
  <2>1. CASE u = t BY <2>1 DEF LoadInv, TypeOK, Go
  <2>2. CASE u # t
    <3>1. job'[u] = job[u] BY <2>2 DEF LoadInv, TypeOK, Go
    <3>2. JobOK(job[u], memory) BY DEF LoadInv, JobsOK
    <3> QED BY <3>1, <3>2 DEF JobOK
  <2> QED BY <2>1, <2>2
<1> QED BY <1>1, <1>2 DEF JobsOK

LEMMA InitLoadInv == Init => LoadInv
<1> SUFFICES ASSUME Init PROVE LoadInv
  OBVIOUS
<1>1. bin \in Contents /\ bak \in Contents
  BY StorageAssumption DEF Init
<1>2. Main \in Threads /\ Updater \in Threads /\ Main # Updater
  BY StorageAssumption DEF Threads
<1>3. job \in [Threads -> Jobs]
  BY DEF Init, Starting, At, Idle, Jobs, Steps, Stages, Contents, Releases
<1>4. JobsOK
  BY DEF Init, Starting, At, Idle, JobsOK, JobOK
<1> QED BY <1>1, <1>3, <1>4, StorageAssumption DEF LoadInv, TypeOK, Init

LEMMA StepLoadInv == LoadInv /\ [Next]_vars => LoadInv'
<1> SUFFICES ASSUME LoadInv, [Next]_vars PROVE LoadInv'
  OBVIOUS
<1> USE DEF Fault, NoFault
<1>0. /\ bin \in Contents /\ bak \in Contents
      /\ memory \in Releases \cup {"none"}
      /\ job \in [Threads -> Jobs]
      /\ faults \in 0..MaxFaults /\ crashes \in 0..MaxCrashes
      /\ MaxFaults \in Nat /\ MaxCrashes \in Nat
      /\ Main \in Threads /\ Updater \in Threads /\ Callers \subseteq Threads
  BY StorageAssumption DEF LoadInv, TypeOK, Threads
<1>j. ASSUME NEW t \in Threads
      PROVE  /\ job[t].at \in Steps /\ job[t].stage \in Stages /\ job[t].buf \in Contents
             /\ JobOK(job[t], memory)
  BY <1>0 DEF Jobs, LoadInv, JobsOK
<1>f. ASSUME NoFault \/ Fault PROVE faults' \in 0..MaxFaults
  BY <1>0, <1>f
<1>1. ASSUME NEW t \in Threads, Call(t) PROVE LoadInv'
  <2>1. At("check", "none", "absent") \in Jobs /\ JobOK(At("check", "none", "absent"), memory)
    BY DEF At, Jobs, JobOK, Steps, Stages, Contents
  <2> QED BY <1>0, <1>1, <2>1, GoKeepsJobs DEF Call, LoadInv, TypeOK
<1>2. ASSUME NEW t \in Threads, Return(t) PROVE LoadInv'
  <2>1. Idle \in Jobs /\ JobOK(Idle, memory)
    BY DEF Idle, At, Jobs, JobOK, Steps, Stages, Contents
  <2> QED BY <1>0, <1>2, <2>1, GoKeepsJobs DEF Return, LoadInv, TypeOK
<1>3. ASSUME NEW t \in Threads, CheckLoaded(t) PROVE LoadInv'
  <2> DEFINE j == IF memory # "none" THEN At("ready", "none", "absent")
                  ELSE At("ensure", "primary", "absent")
  <2>1. j \in Jobs /\ JobOK(j, memory)
    BY DEF At, Jobs, JobOK, Steps, Stages, Contents
  <2>2. Go(t, j) /\ UNCHANGED <<bin, bak, memory, faults, crashes>>
    BY <1>3 DEF CheckLoaded
  <2> HIDE DEF j
  <2> QED BY <1>0, <2>1, <2>2, GoKeepsJobs DEF LoadInv, TypeOK
<1>4. ASSUME NEW t \in Threads, EnsureFile(t) PROVE LoadInv'
  <2> DEFINE j == IF bin = "absent" THEN At("open", "primary", "absent")
                  ELSE At("read", "primary", "absent")
  <2>1. j \in Jobs /\ JobOK(j, memory)
    BY DEF At, Jobs, JobOK, Steps, Stages, Contents
  <2>2. Go(t, j) /\ UNCHANGED <<bin, bak, memory, faults, crashes>>
    BY <1>4 DEF EnsureFile
  <2> HIDE DEF j
  <2> QED BY <1>0, <2>1, <2>2, GoKeepsJobs DEF LoadInv, TypeOK
<1>5. ASSUME NEW t \in Threads, TestBackup(t) PROVE LoadInv'
  <2> DEFINE j == IF bin = "absent" THEN At("open", "backup", "absent")
                  ELSE At("copy", "backup", "absent")
  <2>1. j \in Jobs /\ JobOK(j, memory)
    BY DEF At, Jobs, JobOK, Steps, Stages, Contents
  <2>2. Go(t, j) /\ UNCHANGED <<bin, bak, memory, faults, crashes>>
    BY <1>5 DEF TestBackup
  <2> HIDE DEF j
  <2> QED BY <1>0, <2>1, <2>2, GoKeepsJobs DEF LoadInv, TypeOK
<1>6. ASSUME NEW t \in Threads, OpenFile(t) PROVE LoadInv'
  <2> DEFINE s == job[t].stage
  <2>1. s \in Stages /\ (s \in {"primary", "backup", "new"} \/ (s = "default" /\ memory # "none"))
    BY <1>6, <1>j DEF OpenFile, JobOK
  <2>2. CASE bin' = "cut" /\ Go(t, At("flush", s, "absent")) /\ NoFault
    <3>1. At("flush", s, "absent") \in Jobs /\ JobOK(At("flush", s, "absent"), memory)
      BY <2>1 DEF At, Jobs, JobOK, Steps, Contents
    <3>2. UNCHANGED <<bak, memory, crashes>>
      BY <1>6 DEF OpenFile
    <3>3. job' \in [Threads -> Jobs] /\ JobsOK'
      BY <1>0, <2>2, <3>1, <3>2, GoKeepsJobs
    <3>4. bin' \in Contents BY <2>2 DEF Contents
    <3> QED BY <1>0, <1>f, <2>2, <3>2, <3>3, <3>4 DEF LoadInv, TypeOK
  <2>3. CASE Fault /\ Go(t, Written(t, s, FALSE)) /\ UNCHANGED bin
    <3>1. Written(t, s, FALSE) \in Jobs /\ JobOK(Written(t, s, FALSE), memory)
      BY <1>0, <2>1, NextJobs
    <3>2. UNCHANGED <<bak, memory, crashes>>
      BY <1>6 DEF OpenFile
    <3>3. job' \in [Threads -> Jobs] /\ JobsOK'
      BY <1>0, <2>3, <3>1, <3>2, GoKeepsJobs
    <3> QED BY <1>0, <1>f, <2>3, <3>2, <3>3 DEF LoadInv, TypeOK
  <2> QED BY <1>6, <2>2, <2>3 DEF OpenFile
<1>7. ASSUME NEW t \in Threads, FlushFile(t) PROVE LoadInv'
  <2> DEFINE s == job[t].stage
  <2>1. s \in Stages /\ (s \in {"primary", "backup", "new"} \/ (s = "default" /\ memory # "none"))
    BY <1>7, <1>j DEF FlushFile, JobOK
  <2>2. PICK good \in BOOLEAN : Go(t, Written(t, s, good))
    BY <1>7 DEF FlushFile
  <2>3. Written(t, s, good) \in Jobs /\ JobOK(Written(t, s, good), memory)
    BY <1>0, <2>1, NextJobs
  <2>4. UNCHANGED <<bak, memory, crashes>> /\ bin' \in Contents /\ (NoFault \/ Fault)
    BY <1>0, <1>7 DEF FlushFile, Payload, Contents, Releases
  <2>5. job' \in [Threads -> Jobs] /\ JobsOK'
    BY <1>0, <2>2, <2>3, <2>4, GoKeepsJobs
  <2> QED BY <1>0, <1>f, <2>4, <2>5 DEF LoadInv, TypeOK
<1>8. ASSUME NEW t \in Threads, CopyBegin(t) PROVE LoadInv'
  <2> DEFINE s == job[t].stage
  <2>1. s \in Stages /\ s # "default" /\ Source(s) \in Contents
    BY <1>0, <1>j, <1>8 DEF CopyBegin, JobOK, Source
  <2>2. UNCHANGED <<memory, crashes>> /\ bin' \in Contents /\ bak' \in Contents
        /\ (NoFault \/ Fault)
    BY <1>0, <1>8 DEF CopyBegin, WriteTarget, Contents
  <2>3. PICK j \in {At("fill", s, Source(s)), Copied(t, s, FALSE)} : Go(t, j)
    BY <1>8 DEF CopyBegin
  <2>4. At("fill", s, Source(s)) \in Jobs /\ JobOK(At("fill", s, Source(s)), memory)
    BY <2>1 DEF At, Jobs, JobOK, Steps
  <2>5. Copied(t, s, FALSE) \in Jobs /\ JobOK(Copied(t, s, FALSE), memory)
    BY <1>0, <2>1, NextJobs
  <2>6. job' \in [Threads -> Jobs] /\ JobsOK'
    BY <1>0, <2>2, <2>3, <2>4, <2>5, GoKeepsJobs
  <2> QED BY <1>0, <1>f, <2>2, <2>6 DEF LoadInv, TypeOK
<1>9. ASSUME NEW t \in Threads, CopyEnd(t) PROVE LoadInv'
  <2> DEFINE s == job[t].stage
  <2>1. s \in Stages /\ s # "default" /\ job[t].buf \in Contents
    BY <1>j, <1>9 DEF CopyEnd, JobOK
  <2>2. UNCHANGED <<memory, crashes>> /\ bin' \in Contents /\ bak' \in Contents
        /\ (NoFault \/ Fault)
    BY <1>0, <1>9, <2>1 DEF CopyEnd, WriteTarget, Contents
  <2>3. PICK ok \in BOOLEAN : Go(t, Copied(t, s, ok))
    BY <1>9 DEF CopyEnd
  <2>4. Copied(t, s, ok) \in Jobs /\ JobOK(Copied(t, s, ok), memory)
    BY <1>0, <2>1, NextJobs
  <2>5. job' \in [Threads -> Jobs] /\ JobsOK'
    BY <1>0, <2>2, <2>3, <2>4, GoKeepsJobs
  <2> QED BY <1>0, <1>f, <2>2, <2>5 DEF LoadInv, TypeOK
<1>10. ASSUME NEW t \in Threads, ReadFile(t) PROVE LoadInv'
  <2> DEFINE s == job[t].stage
  <2>1. s \in Stages /\ "absent" \in Contents
    BY <1>j DEF Contents
  <2>2. UNCHANGED <<bin, bak, memory, crashes>> /\ (NoFault \/ Fault)
    BY <1>10 DEF ReadFile
  <2>3. \/ bin \in Releases /\ Go(t, At("apply", s, bin))
        \/ \E c \in Contents : Go(t, LoadFailed(t, s, c))
    BY <1>0, <1>10, <2>1 DEF ReadFile
  <2>4. CASE bin \in Releases /\ Go(t, At("apply", s, bin))
    <3>1. At("apply", s, bin) \in Jobs /\ JobOK(At("apply", s, bin), memory)
      BY <2>1, <2>4 DEF At, Jobs, JobOK, Steps, Contents
    <3>2. job' \in [Threads -> Jobs] /\ JobsOK'
      BY <1>0, <2>2, <2>4, <3>1, GoKeepsJobs
    <3> QED BY <1>0, <1>f, <2>2, <3>2 DEF LoadInv, TypeOK
  <2>5. ASSUME NEW c \in Contents, Go(t, LoadFailed(t, s, c)) PROVE LoadInv'
    <3>1. LoadFailed(t, s, c) \in Jobs /\ JobOK(LoadFailed(t, s, c), memory)
      BY <1>0, <2>1, NextJobs
    <3>2. job' \in [Threads -> Jobs] /\ JobsOK'
      BY <1>0, <2>2, <2>5, <3>1, GoKeepsJobs
    <3> QED BY <1>0, <1>f, <2>2, <3>2 DEF LoadInv, TypeOK
  <2> QED BY <2>3, <2>4, <2>5
<1>11. ASSUME NEW t \in Threads, Apply(t) PROVE LoadInv'
  <2> DEFINE s == job[t].stage
  <2>1. s \in Stages /\ memory' \in Releases /\ memory' # "none"
    BY <1>11, <1>j DEF Apply, JobOK, Releases
  <2>2. Loaded(t, s) \in Jobs /\ JobOK(Loaded(t, s), memory')
    BY <1>0, <2>1, NextJobs
  <2>3. Go(t, Loaded(t, s)) /\ UNCHANGED <<bin, bak, faults, crashes>>
    BY <1>11 DEF Apply
  <2> QED BY <1>0, <2>1, <2>2, <2>3, GoKeepsJobs DEF LoadInv, TypeOK
<1>12. CASE StartUpdater
  <2>1. Idle \in Jobs /\ JobOK(Idle, memory)
    BY DEF Idle, At, Jobs, JobOK, Steps, Stages, Contents
  <2> QED BY <1>0, <1>12, <2>1, GoKeepsJobs DEF StartUpdater, LoadInv, TypeOK
<1>13. CASE UpdateDue
  <2>1. StartUpdate \in Jobs /\ JobOK(StartUpdate, memory)
    BY DEF StartUpdate, At, Jobs, JobOK, Steps, Stages, Contents
  <2> QED BY <1>0, <1>13, <2>1, GoKeepsJobs DEF UpdateDue, LoadInv, TypeOK
<1>14. CASE Crash
  <2>1. job' \in [Threads -> Jobs]
    BY <1>14 DEF Crash, Starting, At, Idle, Jobs, Steps, Stages, Contents
  <2>2. JobsOK'
    BY <1>14 DEF Crash, Starting, At, Idle, JobsOK, JobOK
  <2> QED BY <1>0, <1>14, <2>1, <2>2 DEF Crash, LoadInv, TypeOK
<1>15. CASE UNCHANGED vars
  BY <1>15 DEF vars, LoadInv, TypeOK, JobsOK, JobOK
<1> QED
  BY <1>1, <1>2, <1>3, <1>4, <1>5, <1>6, <1>7, <1>8, <1>9, <1>10, <1>11, <1>12,
     <1>13, <1>14, <1>15 DEF Next, Work

\* The variables keep their types (all of service.cpp's storage code).
THEOREM TypeCorrect == Spec => []TypeOK
<1>1. LoadInv => TypeOK BY DEF LoadInv
<1> QED BY <1>1, InitLoadInv, StepLoadInv, PTL DEF Spec

\* LoadAvDatabaseIfNeeded never returns without a database in memory, for any
\* number of threads at work on the files, any fault and any crash.
THEOREM LoadCorrect == Spec => []ReadyMeansLoaded
<1>1. LoadInv => ReadyMeansLoaded BY DEF LoadInv, JobsOK, JobOK, ReadyMeansLoaded
<1> QED BY <1>1, InitLoadInv, StepLoadInv, PTL DEF Spec
-----------------------------------------------------------------------------
(* The storage implements DbContract.                                       *)

\* The state of the calls in the contract.
Calls == [c \in Callers |-> Phase(job[c])]

\* No step of work ends a call without an answer.
LEMMA NextPhase ==
  ASSUME NEW t \in Threads, t # Updater,
         NEW stage \in Stages, NEW c \in Contents, NEW ok \in BOOLEAN
  PROVE  {Phase(LoadFailed(t, stage, c)), Phase(Loaded(t, stage)),
          Phase(Copied(t, stage, ok)), Phase(Written(t, stage, ok))}
           \subseteq {"waiting", "answered"}
<1>1. Phase(LoadFailed(t, stage, c)) \in {"waiting", "answered"}
  BY DEF LoadFailed, Phase, At, StartUpdate, LastResort, UpdateFailed
<1>2. Phase(LoadFailed(t, stage, "absent")) \in {"waiting", "answered"}
  BY DEF LoadFailed, Phase, At, StartUpdate, LastResort, UpdateFailed
<1>3. Phase(Loaded(t, stage)) \in {"waiting", "answered"}
  BY DEF Loaded, Finished, Phase, At, UpdateFailed
<1>4. Phase(Copied(t, stage, ok)) \in {"waiting", "answered"}
  BY <1>2 DEF Copied, Phase, At
<1>5. Phase(Written(t, stage, ok)) \in {"waiting", "answered"}
  BY <1>2 DEF Written, Finished, Phase, At, LoadFailed
<1> QED BY <1>1, <1>3, <1>4, <1>5

\* A step of work moves one thread, which was inside a call, and either leaves
\* the memory alone or puts a release in it.
LEMMA WorkPhase ==
  ASSUME LoadInv, NEW t \in Threads, Work(t)
  PROVE  /\ Phase(job[t]) = "waiting"
         /\ \E j : Go(t, j) /\ (t # Updater => Phase(j) \in {"waiting", "answered"})
         /\ memory' = memory \/ memory' \in Releases
<1>0. /\ job[t].stage \in Stages /\ bin \in Contents /\ "absent" \in Contents
      /\ JobOK(job[t], memory)
  BY DEF LoadInv, TypeOK, JobsOK, Jobs, Contents
<1> DEFINE Goal == /\ Phase(job[t]) = "waiting"
                   /\ \E j : Go(t, j) /\ (t # Updater => Phase(j) \in {"waiting", "answered"})
                   /\ memory' = memory \/ memory' \in Releases
<1>1. CASE CheckLoaded(t) BY <1>1 DEF CheckLoaded, Phase, At
<1>2. CASE EnsureFile(t) BY <1>2 DEF EnsureFile, Phase, At
<1>3. CASE TestBackup(t) BY <1>3 DEF TestBackup, Phase, At
<1>4. CASE OpenFile(t)
  <2>1. Phase(job[t]) = "waiting" /\ memory' = memory
    BY <1>4 DEF OpenFile, Phase
  <2>2. Phase(At("flush", job[t].stage, "absent")) = "waiting"
    BY DEF Phase, At
  <2>3. t # Updater => Phase(Written(t, job[t].stage, FALSE)) \in {"waiting", "answered"}
    BY <1>0, NextPhase
  <2> QED BY <1>4, <2>1, <2>2, <2>3 DEF OpenFile
<1>5. CASE FlushFile(t)
  <2>1. Phase(job[t]) = "waiting" /\ memory' = memory
    BY <1>5 DEF FlushFile, Phase
  <2>2. PICK ok \in BOOLEAN : Go(t, Written(t, job[t].stage, ok))
    BY <1>5 DEF FlushFile
  <2>3. t # Updater => Phase(Written(t, job[t].stage, ok)) \in {"waiting", "answered"}
    BY <1>0, NextPhase
  <2> QED BY <2>1, <2>2, <2>3
<1>6. CASE CopyBegin(t)
  <2>1. Phase(job[t]) = "waiting" /\ memory' = memory
    BY <1>6 DEF CopyBegin, Phase
  <2>2. Phase(At("fill", job[t].stage, Source(job[t].stage))) = "waiting"
    BY DEF Phase, At
  <2>3. t # Updater => Phase(Copied(t, job[t].stage, FALSE)) \in {"waiting", "answered"}
    BY <1>0, NextPhase
  <2> QED BY <1>6, <2>1, <2>2, <2>3 DEF CopyBegin
<1>7. CASE CopyEnd(t)
  <2>1. Phase(job[t]) = "waiting" /\ memory' = memory
    BY <1>7 DEF CopyEnd, Phase
  <2>2. PICK ok \in BOOLEAN : Go(t, Copied(t, job[t].stage, ok))
    BY <1>7 DEF CopyEnd
  <2>3. t # Updater => Phase(Copied(t, job[t].stage, ok)) \in {"waiting", "answered"}
    BY <1>0, NextPhase
  <2> QED BY <2>1, <2>2, <2>3
<1>8. CASE ReadFile(t)
  <2>1. Phase(job[t]) = "waiting" /\ memory' = memory
    BY <1>8 DEF ReadFile, Phase
  <2>2. Phase(At("apply", job[t].stage, bin)) = "waiting"
    BY DEF Phase, At
  <2>3. t # Updater => /\ Phase(LoadFailed(t, job[t].stage, bin)) \in {"waiting", "answered"}
                       /\ Phase(LoadFailed(t, job[t].stage, "absent")) \in {"waiting", "answered"}
    BY <1>0, NextPhase
  <2> QED BY <1>8, <2>1, <2>2, <2>3 DEF ReadFile
<1>9. CASE Apply(t)
  <2>1. Phase(job[t]) = "waiting" /\ memory' \in Releases
    BY <1>0, <1>9 DEF Apply, Phase, JobOK
  <2>2. t # Updater => Phase(Loaded(t, job[t].stage)) \in {"waiting", "answered"}
    BY <1>0, NextPhase
  <2> QED BY <1>9, <2>1, <2>2 DEF Apply
<1> QED BY <1>1, <1>2, <1>3, <1>4, <1>5, <1>6, <1>7, <1>8, <1>9 DEF Work

\* What a move of one thread does to the calls.
LEMMA GoCalls ==
  ASSUME LoadInv, NEW t \in Threads, NEW j, Go(t, j)
  PROVE  /\ job'[t] = j
         /\ t \in Callers => Calls' = [Calls EXCEPT ![t] = Phase(j)]
         /\ t \notin Callers => Calls' = Calls
<1>1. job' = [job EXCEPT ![t] = j] /\ DOMAIN job = Threads /\ Callers \subseteq Threads
  BY DEF Go, LoadInv, TypeOK, Threads
<1>2. ASSUME NEW c \in Callers, c # t PROVE job'[c] = job[c]
  BY <1>1, <1>2
<1> QED BY <1>1, <1>2 DEF Calls

LEMMA StepContract ==
  LoadInv /\ LoadInv' /\ [Next]_vars => [Contract!Next]_(Contract!vars)
<1> SUFFICES ASSUME LoadInv, LoadInv', [Next]_vars
             PROVE  [Contract!Next]_(Contract!vars)
  OBVIOUS
<1>0. Updater \notin Callers /\ Main \notin Callers /\ Callers \subseteq Threads
  BY StorageAssumption DEF Threads
<1>v. (memory' = memory /\ Calls' = Calls) => UNCHANGED Contract!vars
  BY DEF Contract!vars, Calls
<1>p. (memory' \in Releases /\ Calls' = Calls) => Contract!Publish
  BY DEF Contract!Publish, Calls
<1>1. ASSUME NEW t \in Threads, Call(t) PROVE [Contract!Next]_(Contract!vars)
  <2>1. t \in Callers /\ Calls[t] = "out" /\ memory' = memory
    BY <1>1 DEF Call, Calls, Phase
  <2>2. Calls' = [Calls EXCEPT ![t] = "waiting"]
    BY <1>1, <2>1, GoCalls DEF Call, Phase, At
  <2>3. Contract!Ask(t)
    BY <2>1, <2>2 DEF Contract!Ask, Calls
  <2> QED BY <2>1, <2>3 DEF Contract!Next
<1>2. ASSUME NEW t \in Threads, Return(t) PROVE [Contract!Next]_(Contract!vars)
  <2>1. t \in Callers /\ Calls[t] = "answered" /\ memory' = memory
    BY <1>2 DEF Return, Calls, Phase
  <2>2. Calls' = [Calls EXCEPT ![t] = "out"]
    BY <1>2, <2>1, GoCalls DEF Return, Phase, At, Idle
  <2>3. Contract!Leave(t)
    BY <2>1, <2>2 DEF Contract!Leave, Calls
  <2> QED BY <2>1, <2>3 DEF Contract!Next
<1>3. ASSUME NEW t \in Threads, Work(t) PROVE [Contract!Next]_(Contract!vars)
  <2>1. PICK j : Go(t, j) /\ (t # Updater => Phase(j) \in {"waiting", "answered"})
    BY <1>3, WorkPhase
  <2>2. Phase(job[t]) = "waiting" /\ (memory' = memory \/ memory' \in Releases)
    BY <1>3, WorkPhase
  <2>3. CASE t \notin Callers
    <3>1. Calls' = Calls BY <2>1, <2>3, GoCalls
    <3> QED BY <1>v, <1>p, <2>2, <3>1 DEF Contract!Next
  <2>4. CASE t \in Callers /\ Phase(j) = "waiting"
    <3>1. Calls' = [Calls EXCEPT ![t] = "waiting"] /\ Calls[t] = "waiting"
      BY <2>1, <2>2, <2>4, GoCalls DEF Calls
    <3>2. Calls' = Calls BY <3>1 DEF Calls
    <3> QED BY <1>v, <1>p, <2>2, <3>2 DEF Contract!Next
  <2>5. CASE t \in Callers /\ Phase(j) = "answered"
    <3>1. Calls' = [Calls EXCEPT ![t] = "answered"] /\ Calls[t] = "waiting" /\ job'[t] = j
      BY <2>1, <2>2, <2>5, GoCalls DEF Calls
    <3>2. job'[t].at = "ready"
      BY <2>5, <3>1 DEF Phase
    <3>3. memory' # "none"
      BY <3>2 DEF LoadInv, JobsOK, JobOK
    <3>4. CASE memory' = memory
      <4>1. Contract!Answer(t)
        BY <3>1, <3>3, <3>4 DEF Contract!Answer, Calls
      <4> QED BY <2>5, <4>1 DEF Contract!Next
    <3>5. CASE memory' \in Releases
      <4>1. Contract!PublishAndAnswer(t)
        BY <3>1, <3>5 DEF Contract!PublishAndAnswer, Calls
      <4> QED BY <2>5, <4>1 DEF Contract!Next
    <3> QED BY <2>2, <3>4, <3>5
  <2> QED BY <1>0, <2>1, <2>3, <2>4, <2>5
<1>4. CASE StartUpdater
  <2>1. Calls' = Calls /\ memory' = memory
    BY <1>0, <1>4, GoCalls DEF StartUpdater, Threads
  <2> QED BY <1>v, <2>1
<1>5. CASE UpdateDue
  <2>1. Calls' = Calls /\ memory' = memory
    BY <1>0, <1>5, GoCalls DEF UpdateDue, Threads
  <2> QED BY <1>v, <2>1
<1>6. CASE Crash
  <2>1. memory' = "none" /\ Calls' = [c \in Callers |-> "out"]
    BY <1>0, <1>6 DEF Crash, Calls, Starting, Phase, Idle, At
  <2>2. Contract!Restart BY <2>1 DEF Contract!Restart, Calls
  <2> QED BY <2>2 DEF Contract!Next
<1>7. CASE UNCHANGED vars
  BY <1>v, <1>7 DEF vars, Calls
<1> QED BY <1>1, <1>2, <1>3, <1>4, <1>5, <1>6, <1>7 DEF Next

\* The storage code, with its recoveries, updates, races on the files, faults
\* and crashes, implements the contract its callers rely on.
THEOREM StorageImplementsContract == Spec => ImplementsContract
<1>1. Init => Contract!Init
  <2> SUFFICES ASSUME Init PROVE Contract!Init
    OBVIOUS
  <2>1. Main \notin Callers /\ Updater \notin Callers /\ Callers \subseteq Threads
    BY StorageAssumption DEF Threads
  <2>2. [c \in Callers |-> Phase(job[c])] = [c \in Callers |-> "out"]
    BY <2>1 DEF Init, Starting, Phase, Idle, At
  <2> QED BY <2>2 DEF Init, Contract!Init
<1> QED BY <1>1, InitLoadInv, StepLoadInv, StepContract, PTL
       DEF Spec, ImplementsContract, Contract!Spec
-----------------------------------------------------------------------------
(* One process without I/O failures, killed at any moment.                  *)

\* The instance the theorem is about: no caller races with ServiceMain's load,
\* no I/O fails, and the first start finds a good copy and nothing forged.
QuietDisk ==
  /\ Callers = {}
  /\ MaxFaults = 0
  /\ \A d \in Disks : /\ d[1] # "forged" /\ d[2] # "forged"
                      /\ d[1] \in Releases \/ d[2] \in Releases

\* ServiceMain's load: the primary file, or else the backup, which is good.
MainSafe(j) ==
  \/ j.stage = "none" /\ j.at \in {"check", "ready"}
  \/ j.stage = "primary" /\ j.at = "ensure"
  \/ j.stage = "primary" /\ j.at = "read"
  \/ j.stage = "primary" /\ j.at \in {"open", "flush"} /\ bak \in Releases
  \/ j.stage = "primary" /\ j.at = "apply" /\ bin \in Releases /\ j.buf = bin
  \/ j.stage = "restore" /\ j.at = "copy" /\ bak \in Releases
  \/ j.stage = "restore" /\ j.at = "fill" /\ bak \in Releases /\ j.buf = bak
  \/ j.stage = "restore" /\ j.at = "read" /\ bin \in Releases
  \/ j.stage = "restore" /\ j.at = "apply" /\ bin \in Releases /\ j.buf = bin

\* An update: the primary file is good until the backup is.
UpdaterSafe(j) ==
  \/ j.stage = "none" /\ j.at \in {"down", "idle"} /\ bin = memory
  \/ j.stage = "backup" /\ j.at \in {"test", "copy"} /\ bin \in Releases
  \/ j.stage = "backup" /\ j.at = "fill" /\ bin \in Releases /\ j.buf = bin
  \/ j.stage = "new" /\ j.at \in {"open", "flush"} /\ bak \in Releases
  \/ j.stage = "new" /\ j.at = "read" /\ bin \in Releases
  \/ j.stage = "new" /\ j.at = "apply" /\ bin \in Releases /\ j.buf = bin

\* The update thread starts only after ServiceMain's load, so one of them at a
\* time is at work on the files.
QuietInv ==
  /\ TypeOK
  /\ bin # "forged" /\ bak # "forged"
  /\ GoodCopySurvives
  /\ MainSafe(job[Main])
  /\ \/ /\ job[Main].at # "ready"
        /\ memory = "none"
        /\ job[Updater].at = "down"
        /\ job[Updater].stage = "none"
     \/ /\ job[Main].at = "ready"
        /\ memory \in Releases
        /\ UpdaterSafe(job[Updater])

\* Where a step that does well goes next.
LEMMA Outcomes ==
  ASSUME NEW t
  PROVE  /\ Written(t, "primary", TRUE) = At("read", "primary", "absent")
         /\ Written(t, "new", TRUE) = At("read", "new", "absent")
         /\ Copied(t, "backup", TRUE) = At("open", "new", "absent")
         /\ Copied(t, "restore", TRUE) = At("read", "restore", "absent")
         /\ Loaded(t, "primary") = Finished(t)
         /\ Loaded(t, "restore") = Finished(t)
         /\ Loaded(t, "new") = Finished(t)
         /\ \A c : c # "forged" => LoadFailed(t, "primary", c) = At("copy", "restore", "absent")
  BY DEF Written, Copied, Loaded, LoadFailed

LEMMA InitQuietInv == QuietDisk /\ Init => QuietInv
<1> SUFFICES ASSUME QuietDisk, Init PROVE QuietInv
  OBVIOUS
<1>1. TypeOK BY InitLoadInv DEF LoadInv
<1>2. Main \in Threads /\ Updater \in Threads /\ Main # Updater
  BY StorageAssumption DEF Threads
<1>3. job[Main] = At("check", "none", "absent") /\ job[Updater] = At("down", "none", "absent")
  BY <1>2 DEF Init, Starting
<1> QED BY <1>1, <1>3 DEF Init, QuietDisk, QuietInv, MainSafe, GoodCopySurvives, At

LEMMA StepQuietInv == QuietDisk /\ QuietInv /\ [Next]_vars => QuietInv'
<1> SUFFICES ASSUME QuietDisk, QuietInv, [Next]_vars PROVE QuietInv'
  OBVIOUS
<1>0. /\ Main # Updater /\ Threads = {Main, Updater}
      /\ DOMAIN job = Threads
      /\ bin \in Contents /\ bak \in Contents
      /\ ~Fault
  <2>1. MaxFaults = 0 /\ faults \in 0..MaxFaults
    BY DEF QuietDisk, QuietInv, TypeOK
  <2> QED BY <2>1, StorageAssumption DEF QuietDisk, QuietInv, TypeOK, Threads, Fault
<1>t. TypeOK'
  <2>1. CASE LoadInv BY <2>1, StepLoadInv DEF LoadInv
  <2>2. LoadInv
    <3>1. ASSUME NEW t \in Threads PROVE JobOK(job[t], memory)
      <4>1. CASE t = Main
        BY <4>1 DEF QuietInv, MainSafe, JobOK, Releases
      <4>2. CASE t = Updater
        BY <4>2 DEF QuietInv, UpdaterSafe, JobOK, Releases
      <4> QED BY <1>0, <4>1, <4>2
    <3> QED BY <3>1 DEF LoadInv, JobsOK, QuietInv
  <2> QED BY <2>1, <2>2
<1>m. ASSUME NEW j, Go(Main, j) PROVE job'[Main] = j /\ job'[Updater] = job[Updater]
  BY <1>0, <1>m DEF Go
<1>u. ASSUME NEW j, Go(Updater, j) PROVE job'[Updater] = j /\ job'[Main] = job[Main]
  BY <1>0, <1>u DEF Go
<1> DEFINE MainWorks == job[Main].at # "ready" /\ memory = "none"
                        /\ job[Updater].at = "down" /\ job[Updater].stage = "none"
           UpdaterWorks == job[Main].at = "ready" /\ job[Main].stage = "none"
                           /\ memory \in Releases
           Rest(t) == LET u == IF t = Main THEN Updater ELSE Main
                      IN  job'[u] = job[u] /\ memory' = memory
<1>i. /\ bin # "forged" /\ bak # "forged" /\ GoodCopySurvives
      /\ MainSafe(job[Main])
      /\ MainWorks \/ UpdaterWorks
      /\ UpdaterWorks => UpdaterSafe(job[Updater])
  BY DEF QuietInv, MainSafe
<1>q. ASSUME bin' # "forged", bak' # "forged", GoodCopySurvives', MainSafe(job[Main])',
             MainWorks' \/ (UpdaterWorks' /\ UpdaterSafe(job[Updater])')
      PROVE  QuietInv'
  BY <1>t, <1>q DEF QuietInv
<1> HIDE DEF QuietInv
<1>1. CASE CheckLoaded(Main)
  <2>1. MainWorks /\ MainSafe(job[Main])
    BY <1>i, <1>1 DEF CheckLoaded, MainSafe, UpdaterSafe
  <2>2. job'[Main] = At("ensure", "primary", "absent") /\ Rest(Main) /\ UNCHANGED <<bin, bak>>
    BY <1>0, <1>i, <1>m, <1>1, <2>1 DEF CheckLoaded
  <2> QED BY <1>i, <1>q, <2>1, <2>2 DEF At, Idle, MainSafe, UpdaterSafe, GoodCopySurvives, Releases
<1>2. CASE EnsureFile(Main)
  <2>1. MainWorks /\ job[Main].stage = "primary"
    BY <1>i, <1>2 DEF EnsureFile, MainSafe, UpdaterSafe
  <2>2. /\ \/ job'[Main] = At("open", "primary", "absent") /\ bak \in Releases
           \/ job'[Main] = At("read", "primary", "absent")
        /\ Rest(Main) /\ UNCHANGED <<bin, bak>>
    BY <1>0, <1>i, <1>m, <1>2, <2>1 DEF EnsureFile, GoodCopySurvives, Releases
  <2> QED BY <1>i, <1>q, <2>1, <2>2 DEF At, Idle, MainSafe, UpdaterSafe, GoodCopySurvives, Releases
<1>3. CASE OpenFile(Main)
  <2>1. MainWorks /\ job[Main].stage = "primary" /\ bak \in Releases
    BY <1>i, <1>3 DEF OpenFile, MainSafe, UpdaterSafe
  <2>2. /\ job'[Main] = At("flush", "primary", "absent")
        /\ bin' = "cut" /\ bak' = bak /\ Rest(Main)
    BY <1>0, <1>i, <1>m, <1>3, <2>1 DEF OpenFile
  <2> QED BY <1>i, <1>q, <2>1, <2>2 DEF At, Idle, MainSafe, UpdaterSafe, GoodCopySurvives, Releases
<1>4. CASE FlushFile(Main)
  <2>1. MainWorks /\ job[Main].stage = "primary" /\ bak \in Releases
    BY <1>i, <1>4 DEF FlushFile, MainSafe, UpdaterSafe
  <2>2. /\ job'[Main] = At("read", "primary", "absent")
        /\ bin' = "default" /\ bak' = bak /\ Rest(Main)
    BY <1>0, <1>i, <1>m, <1>4, <2>1, Outcomes DEF FlushFile, Payload
  <2> QED BY <1>i, <1>q, <2>1, <2>2 DEF At, Idle, MainSafe, UpdaterSafe, GoodCopySurvives, Releases
<1>5. CASE CopyBegin(Main)
  <2>1. MainWorks /\ job[Main].stage = "restore" /\ bak \in Releases
    BY <1>i, <1>5 DEF CopyBegin, MainSafe, UpdaterSafe
  <2>2. /\ job'[Main] = At("fill", "restore", bak)
        /\ bin' = "cut" /\ bak' = bak /\ Rest(Main)
    BY <1>0, <1>i, <1>m, <1>5, <2>1 DEF CopyBegin, Source, WriteTarget, Releases
  <2> QED BY <1>i, <1>q, <2>1, <2>2 DEF At, Idle, MainSafe, UpdaterSafe, GoodCopySurvives, Releases
<1>6. CASE CopyEnd(Main)
  <2>1. MainWorks /\ job[Main].stage = "restore" /\ bak \in Releases /\ job[Main].buf = bak
    BY <1>i, <1>6 DEF CopyEnd, MainSafe, UpdaterSafe
  <2>2. /\ job'[Main] = At("read", "restore", "absent")
        /\ bin' = bak /\ bak' = bak /\ Rest(Main)
    BY <1>0, <1>i, <1>m, <1>6, <2>1, Outcomes DEF CopyEnd, WriteTarget
  <2> QED BY <1>i, <1>q, <2>1, <2>2 DEF At, Idle, MainSafe, UpdaterSafe, GoodCopySurvives, Releases
<1>7. CASE ReadFile(Main)
  <2>1. MainWorks /\ (job[Main].stage = "primary" \/ (job[Main].stage = "restore" /\ bin \in Releases))
    BY <1>i, <1>7 DEF ReadFile, MainSafe, UpdaterSafe
  <2>2. /\ \/ bin \in Releases /\ job'[Main].at = "apply" /\ job'[Main].buf = bin
              /\ job'[Main].stage \in {"primary", "restore"}
           \/ bak \in Releases /\ job'[Main] = At("copy", "restore", "absent")
        /\ Rest(Main) /\ UNCHANGED <<bin, bak>>
    <3>1. CASE bin \in Releases
      <4>1. Go(Main, At("apply", job[Main].stage, bin)) /\ UNCHANGED <<bin, bak, memory>>
        BY <1>0, <1>7, <3>1 DEF ReadFile
      <4>2. job'[Main] = At("apply", job[Main].stage, bin) /\ Rest(Main)
        BY <1>0, <1>m, <4>1
      <4> QED BY <2>1, <3>1, <4>1, <4>2 DEF At
    <3>2. CASE bin \notin Releases
      <4>1. job[Main].stage = "primary" /\ bak \in Releases
        BY <1>i, <2>1, <3>2 DEF GoodCopySurvives
      <4>2. LoadFailed(Main, "primary", bin) = At("copy", "restore", "absent")
        BY <1>i, Outcomes
      <4>3. Go(Main, At("copy", "restore", "absent")) /\ UNCHANGED <<bin, bak, memory>>
        BY <1>0, <1>7, <3>2, <4>1, <4>2 DEF ReadFile
      <4> QED BY <1>0, <1>m, <4>1, <4>3
    <3> QED BY <3>1, <3>2
  <2> QED BY <1>i, <1>q, <2>1, <2>2 DEF At, Idle, MainSafe, UpdaterSafe, GoodCopySurvives, Releases
<1>8. CASE Apply(Main)
  <2>1. MainWorks /\ job[Main].stage \in {"primary", "restore"} /\ bin \in Releases
        /\ job[Main].buf = bin
    BY <1>i, <1>8 DEF Apply, MainSafe, UpdaterSafe
  <2>2. /\ job'[Main] = At("ready", "none", "absent") /\ job'[Updater] = job[Updater]
        /\ memory' = bin /\ UNCHANGED <<bin, bak>>
    BY <1>0, <1>i, <1>m, <1>8, <2>1, Outcomes DEF Apply, Finished
  <2> QED BY <1>i, <1>q, <2>1, <2>2 DEF At, Idle, MainSafe, UpdaterSafe, GoodCopySurvives, Releases
<1>9. CASE TestBackup(Updater)
  <2>1. UpdaterWorks /\ job[Updater].stage = "backup" /\ bin \in Releases
    BY <1>i, <1>9 DEF TestBackup, MainSafe, UpdaterSafe
  <2>2. job'[Updater] = At("copy", "backup", "absent") /\ Rest(Updater) /\ UNCHANGED <<bin, bak>>
    BY <1>0, <1>i, <1>u, <1>9, <2>1 DEF TestBackup, Releases
  <2> QED BY <1>i, <1>q, <2>1, <2>2 DEF At, Idle, MainSafe, UpdaterSafe, GoodCopySurvives, Releases
<1>10. CASE CopyBegin(Updater)
  <2>1. UpdaterWorks /\ job[Updater].stage = "backup" /\ bin \in Releases
    BY <1>i, <1>10 DEF CopyBegin, MainSafe, UpdaterSafe
  <2>2. /\ job'[Updater] = At("fill", "backup", bin)
        /\ bak' = "cut" /\ bin' = bin /\ Rest(Updater)
    BY <1>0, <1>i, <1>u, <1>10, <2>1 DEF CopyBegin, Source, WriteTarget, Releases
  <2> QED BY <1>i, <1>q, <2>1, <2>2 DEF At, Idle, MainSafe, UpdaterSafe, GoodCopySurvives, Releases
<1>11. CASE CopyEnd(Updater)
  <2>1. UpdaterWorks /\ job[Updater].stage = "backup" /\ bin \in Releases
        /\ job[Updater].buf = bin
    BY <1>i, <1>11 DEF CopyEnd, MainSafe, UpdaterSafe
  <2>2. /\ job'[Updater] = At("open", "new", "absent")
        /\ bak' = bin /\ bin' = bin /\ Rest(Updater)
    BY <1>0, <1>i, <1>u, <1>11, <2>1, Outcomes DEF CopyEnd, WriteTarget
  <2> QED BY <1>i, <1>q, <2>1, <2>2 DEF At, Idle, MainSafe, UpdaterSafe, GoodCopySurvives, Releases
<1>12. CASE OpenFile(Updater)
  <2>1. UpdaterWorks /\ job[Updater].stage = "new" /\ bak \in Releases
    BY <1>i, <1>12 DEF OpenFile, MainSafe, UpdaterSafe
  <2>2. /\ job'[Updater] = At("flush", "new", "absent")
        /\ bin' = "cut" /\ bak' = bak /\ Rest(Updater)
    BY <1>0, <1>i, <1>u, <1>12, <2>1 DEF OpenFile
  <2> QED BY <1>i, <1>q, <2>1, <2>2 DEF At, Idle, MainSafe, UpdaterSafe, GoodCopySurvives, Releases
<1>13. CASE FlushFile(Updater)
  <2>1. UpdaterWorks /\ job[Updater].stage = "new"
    BY <1>i, <1>13 DEF FlushFile, MainSafe, UpdaterSafe
  <2>2. /\ job'[Updater] = At("read", "new", "absent")
        /\ bin' = "updated" /\ bak' = bak /\ Rest(Updater)
    BY <1>0, <1>i, <1>u, <1>13, <2>1, Outcomes DEF FlushFile, Payload
  <2> QED BY <1>i, <1>q, <2>1, <2>2 DEF At, Idle, MainSafe, UpdaterSafe, GoodCopySurvives, Releases
<1>14. CASE ReadFile(Updater)
  <2>1. UpdaterWorks /\ job[Updater].stage = "new" /\ bin \in Releases
    BY <1>i, <1>14 DEF ReadFile, MainSafe, UpdaterSafe
  <2>2. job'[Updater] = At("apply", "new", bin) /\ Rest(Updater) /\ UNCHANGED <<bin, bak>>
    BY <1>0, <1>i, <1>u, <1>14, <2>1, Outcomes DEF ReadFile
  <2> QED BY <1>i, <1>q, <2>1, <2>2 DEF At, Idle, MainSafe, UpdaterSafe, GoodCopySurvives, Releases
<1>15. CASE Apply(Updater)
  <2>1. UpdaterWorks /\ job[Updater].stage = "new" /\ bin \in Releases
        /\ job[Updater].buf = bin
    BY <1>i, <1>15 DEF Apply, MainSafe, UpdaterSafe
  <2>2. /\ job'[Updater] = Idle /\ job'[Main] = job[Main]
        /\ memory' = bin /\ UNCHANGED <<bin, bak>>
    BY <1>0, <1>i, <1>u, <1>15, <2>1, Outcomes DEF Apply, Finished
  <2> QED BY <1>i, <1>q, <2>1, <2>2 DEF At, Idle, MainSafe, UpdaterSafe, GoodCopySurvives, Releases
<1>16. CASE StartUpdater
  <2>1. UpdaterWorks /\ bin = memory
    BY <1>i, <1>16 DEF StartUpdater, UpdaterSafe
  <2>2. job'[Updater] = Idle /\ Rest(Updater) /\ UNCHANGED <<bin, bak>>
    BY <1>0, <1>u, <1>16 DEF StartUpdater
  <2> QED BY <1>i, <1>q, <2>1, <2>2 DEF At, Idle, MainSafe, UpdaterSafe, GoodCopySurvives, Releases
<1>17. CASE UpdateDue
  <2>1. UpdaterWorks /\ bin = memory
    BY <1>i, <1>17 DEF UpdateDue, UpdaterSafe
  <2>2. job'[Updater] = StartUpdate /\ Rest(Updater) /\ UNCHANGED <<bin, bak>>
    BY <1>0, <1>u, <1>17 DEF UpdateDue
  <2> QED BY <1>i, <1>q, <2>1, <2>2
       DEF At, StartUpdate, MainSafe, UpdaterSafe, GoodCopySurvives, Releases
<1>18. CASE Crash
  <2>1. /\ job'[Main] = At("check", "none", "absent")
        /\ job'[Updater] = At("down", "none", "absent")
        /\ memory' = "none" /\ UNCHANGED <<bin, bak>>
    BY <1>0, <1>18 DEF Crash, Starting
  <2> QED BY <1>i, <1>q, <2>1 DEF At, MainSafe, GoodCopySurvives
<1>19. CASE UNCHANGED vars
  BY <1>i, <1>q, <1>19 DEF vars, MainSafe, UpdaterSafe, GoodCopySurvives
<1>20. ASSUME NEW t \in Threads, Call(t) \/ Return(t) PROVE FALSE
  BY <1>20 DEF Call, Return, QuietDisk
<1>21. CASE TestBackup(Main) BY <1>i, <1>21 DEF TestBackup, MainSafe
<1>22. CASE CheckLoaded(Updater) \/ EnsureFile(Updater)
  BY <1>i, <1>22 DEF CheckLoaded, EnsureFile, UpdaterSafe
<1> QED
  BY <1>0, <1>1, <1>2, <1>3, <1>4, <1>5, <1>6, <1>7, <1>8, <1>9, <1>10, <1>11, <1>12,
     <1>13, <1>14, <1>15, <1>16, <1>17, <1>18, <1>19, <1>20, <1>21, <1>22 DEF Next, Work

\* Without I/O failures, however often the process is killed, one of the two
\* files holds a good database: an update never has both of them open.
THEOREM CrashSafety == QuietDisk => (Spec => []GoodCopySurvives)
<1> SUFFICES ASSUME QuietDisk PROVE Spec => []GoodCopySurvives
  OBVIOUS
<1>1. Init => QuietInv BY InitQuietInv
<1>2. QuietInv /\ [Next]_vars => QuietInv' BY StepQuietInv
<1>3. QuietInv => GoodCopySurvives BY DEF QuietInv
<1> QED BY <1>1, <1>2, <1>3, PTL DEF Spec

\* On the same instances the files follow the memory: what an update thread at
\* rest would serve after a restart is what it serves now.
THEOREM UpdatesStick == QuietDisk => (Spec => []MemoryMatchesFile)
<1> SUFFICES ASSUME QuietDisk PROVE Spec => []MemoryMatchesFile
  OBVIOUS
<1>1. Init => QuietInv BY InitQuietInv
<1>2. QuietInv /\ [Next]_vars => QuietInv' BY StepQuietInv
<1>3. QuietInv => MemoryMatchesFile
  BY DEF QuietInv, UpdaterSafe, MemoryMatchesFile
<1> QED BY <1>1, <1>2, <1>3, PTL DEF Spec

-----------------------------------------------------------------------------
(* The recovery chain ends                                                  *)

\* The steps that belong to each stage.
StepsOf(stage) ==
  CASE stage = "none" -> {"down", "idle", "check", "ready"}
    [] stage = "primary" -> {"ensure", "open", "flush", "read", "apply"}
    [] stage = "backup" -> {"test", "open", "flush", "copy", "fill"}
    [] stage = "new" -> {"open", "flush", "read", "apply"}
    [] stage = "rollback" -> {"copy", "fill", "read", "apply"}
    [] stage = "restore" -> {"copy", "fill", "read", "apply"}
    [] stage = "default" -> {"apply", "open", "flush"}

\* How many steps of its own a thread takes at most before its load or its update
\* has ended.
StepsLeft(j) ==
  CASE j.stage = "none" -> IF j.at = "check" THEN 23 ELSE 0
    [] j.stage = "primary" -> (CASE j.at = "ensure" -> 22 [] j.at = "open" -> 21
                                 [] j.at = "flush" -> 20 [] j.at = "read" -> 19 [] OTHER -> 1)
    [] j.stage = "backup" -> (CASE j.at = "test" -> 18 [] j.at = "open" -> 17
                                [] j.at = "flush" -> 16 [] j.at = "copy" -> 15 [] OTHER -> 14)
    [] j.stage = "new" -> (CASE j.at = "open" -> 13 [] j.at = "flush" -> 12
                             [] j.at = "read" -> 11 [] OTHER -> 1)
    [] j.stage = "rollback" -> (CASE j.at = "copy" -> 10 [] j.at = "fill" -> 9
                                  [] j.at = "read" -> 8 [] OTHER -> 7)
    [] j.stage = "restore" -> (CASE j.at = "copy" -> 6 [] j.at = "fill" -> 5
                                 [] j.at = "read" -> 4 [] OTHER -> 1)
    [] j.stage = "default" -> (CASE j.at = "apply" -> 3 [] j.at = "open" -> 2 [] OTHER -> 1)

StepsInOrder == \A t \in Threads : job[t].at \in StepsOf(job[t].stage)

\* A thread that is neither waiting for work nor done only ever comes nearer to the
\* end of its load or update, unless the process ends.
LoadsShorten ==
  [][\A t \in Threads :
       job'[t] # job[t] =>
         \/ StepsLeft(job'[t]) < StepsLeft(job[t])
         \/ job[t].at \in {"down", "idle", "ready"}
         \/ crashes' # crashes]_vars

\* Where a step leads, in order and nearer to the end.
Nearer(j, k) == k.at \in StepsOf(k.stage) /\ StepsLeft(k) < StepsLeft(j)

LEMMA WriteNearer ==
  ASSUME NEW t \in Threads, NEW j \in Jobs, j.at \in StepsOf(j.stage), j.at \in {"open", "flush"},
         NEW ok \in BOOLEAN
  PROVE  /\ Nearer(j, Written(t, j.stage, ok))
         /\ j.at = "open" => Nearer(j, At("flush", j.stage, "absent"))
<1>1. j.stage \in {"primary", "backup", "new", "default"}
  BY DEF Jobs, Stages, StepsOf
<1>2. CASE j.stage = "primary"
  BY <1>2 DEF Nearer, Written, At, StepsOf, StepsLeft
<1>3. CASE j.stage = "backup"
  BY <1>3 DEF Nearer, Written, At, StepsOf, StepsLeft
<1>4. CASE j.stage = "new"
  BY <1>4 DEF Nearer, Written, LoadFailed, At, StepsOf, StepsLeft
<1>5. CASE j.stage = "default"
  BY <1>5 DEF Nearer, Written, Finished, Idle, At, StepsOf, StepsLeft
<1> QED BY <1>1, <1>2, <1>3, <1>4, <1>5

LEMMA CopyNearer ==
  ASSUME NEW t \in Threads, NEW j \in Jobs, j.at \in StepsOf(j.stage), j.at \in {"copy", "fill"},
         NEW c
  PROVE  /\ Nearer(j, Copied(t, j.stage, FALSE))
         /\ j.at = "fill" => Nearer(j, Copied(t, j.stage, TRUE))
         /\ j.at = "copy" => Nearer(j, At("fill", j.stage, c))
<1>1. j.stage \in {"backup", "rollback", "restore"}
  BY DEF Jobs, Stages, StepsOf
<1>2. CASE j.stage = "backup"
  BY <1>2 DEF Nearer, Copied, At, StepsOf, StepsLeft
<1>3. CASE j.stage = "rollback"
  BY <1>3 DEF Nearer, Copied, LoadFailed, UpdateFailed, Idle, At, StepsOf, StepsLeft
<1>4. CASE j.stage = "restore"
  BY <1>4 DEF Nearer, Copied, LoadFailed, LastResort, At, StepsOf, StepsLeft
<1> QED BY <1>1, <1>2, <1>3, <1>4

LEMMA ReadNearer ==
  ASSUME NEW t \in Threads, NEW j \in Jobs, j.at \in StepsOf(j.stage), j.at = "read",
         NEW c \in Contents
  PROVE  /\ Nearer(j, LoadFailed(t, j.stage, c))
         /\ Nearer(j, At("apply", j.stage, c))
<1>1. j.stage \in {"primary", "new", "rollback", "restore"}
  BY DEF Jobs, Stages, StepsOf
<1>2. CASE j.stage = "primary"
  BY <1>2 DEF Nearer, LoadFailed, StartUpdate, At, StepsOf, StepsLeft
<1>3. CASE j.stage = "new"
  BY <1>3 DEF Nearer, LoadFailed, At, StepsOf, StepsLeft
<1>4. CASE j.stage = "rollback"
  BY <1>4 DEF Nearer, LoadFailed, UpdateFailed, Idle, At, StepsOf, StepsLeft
<1>5. CASE j.stage = "restore"
  BY <1>5 DEF Nearer, LoadFailed, LastResort, At, StepsOf, StepsLeft
<1> QED BY <1>1, <1>2, <1>3, <1>4, <1>5

LEMMA ApplyNearer ==
  ASSUME NEW t \in Threads, NEW j \in Jobs, j.at \in StepsOf(j.stage), j.at = "apply"
  PROVE  Nearer(j, Loaded(t, j.stage))
<1>1. j.stage \in {"primary", "new", "rollback", "restore", "default"}
  BY DEF Jobs, Stages, StepsOf
<1>2. CASE j.stage \in {"primary", "new", "restore"}
  BY <1>2 DEF Nearer, Loaded, Finished, Idle, At, StepsOf, StepsLeft
<1>3. CASE j.stage = "rollback"
  BY <1>3 DEF Nearer, Loaded, UpdateFailed, Idle, At, StepsOf, StepsLeft
<1>4. CASE j.stage = "default"
  BY <1>4 DEF Nearer, Loaded, At, StepsOf, StepsLeft
<1> QED BY <1>1, <1>2, <1>3, <1>4

LEMMA WorkShortens ==
  ASSUME LoadInv, StepsInOrder, NEW t \in Threads, Work(t)
  PROVE  \E k : Go(t, k) /\ Nearer(job[t], k)
<1> DEFINE j == job[t]
<1>1. j \in Jobs /\ j.at \in StepsOf(j.stage) /\ bin \in Contents /\ bak \in Contents
  BY DEF StepsInOrder, LoadInv, TypeOK
<1>2. CASE CheckLoaded(t)
  <2>1. j.at = "check" /\ j.stage = "none"
    BY <1>1, <1>2 DEF CheckLoaded, StepsOf, Jobs, Stages
  <2>2. /\ Nearer(j, At("ready", "none", "absent"))
        /\ Nearer(j, At("ensure", "primary", "absent"))
    BY <2>1 DEF Nearer, At, StepsOf, StepsLeft
  <2> QED BY <1>2, <2>2 DEF CheckLoaded
<1>3. CASE EnsureFile(t)
  <2>1. j.at = "ensure" /\ j.stage = "primary"
    BY <1>1, <1>3 DEF EnsureFile, StepsOf, Jobs, Stages
  <2>2. /\ Nearer(j, At("open", "primary", "absent"))
        /\ Nearer(j, At("read", "primary", "absent"))
    BY <2>1 DEF Nearer, At, StepsOf, StepsLeft
  <2> QED BY <1>3, <2>2 DEF EnsureFile
<1>4. CASE TestBackup(t)
  <2>1. j.at = "test" /\ j.stage = "backup"
    BY <1>1, <1>4 DEF TestBackup, StepsOf, Jobs, Stages
  <2>2. /\ Nearer(j, At("open", "backup", "absent"))
        /\ Nearer(j, At("copy", "backup", "absent"))
    BY <2>1 DEF Nearer, At, StepsOf, StepsLeft
  <2> QED BY <1>4, <2>2 DEF TestBackup
<1>5. CASE OpenFile(t)
  BY <1>1, <1>5, WriteNearer DEF OpenFile
<1>6. CASE FlushFile(t)
  BY <1>1, <1>6, WriteNearer DEF FlushFile
<1>7. CASE CopyBegin(t)
  <2>1. Source(j.stage) \in Contents
    BY <1>1 DEF Source
  <2> QED BY <1>1, <1>7, <2>1, CopyNearer DEF CopyBegin
<1>8. CASE CopyEnd(t)
  <2>1. "absent" \in Contents
    BY DEF Contents
  <2> QED BY <1>1, <1>8, <2>1, CopyNearer DEF CopyEnd
<1>9. CASE ReadFile(t)
  <2>1. "absent" \in Contents
    BY DEF Contents
  <2> QED BY <1>1, <1>9, <2>1, ReadNearer DEF ReadFile
<1>10. CASE Apply(t)
  BY <1>1, <1>10, ApplyNearer DEF Apply
<1> QED BY <1>2, <1>3, <1>4, <1>5, <1>6, <1>7, <1>8, <1>9, <1>10 DEF Work

LEMMA InitInOrder == Init => StepsInOrder
BY DEF Init, Starting, StepsInOrder, StepsOf, At, Idle

\* A step of t that leads to k leaves the other threads where they are.
LEMMA GoMovesOne ==
  ASSUME LoadInv, StepsInOrder, NEW t \in Threads, NEW k, Go(t, k), k.at \in StepsOf(k.stage)
  PROVE  /\ StepsInOrder'
         /\ job'[t] = k
         /\ \A u \in Threads : u # t => job'[u] = job[u]
BY DEF LoadInv, TypeOK, StepsInOrder, Go

LEMMA StepShortens ==
  ASSUME LoadInv, StepsInOrder, [Next]_vars
  PROVE  /\ StepsInOrder'
         /\ \A t \in Threads :
              job'[t] # job[t] =>
                \/ StepsLeft(job'[t]) < StepsLeft(job[t])
                \/ job[t].at \in {"down", "idle", "ready"}
                \/ crashes' # crashes
<1>0. Main \in Threads /\ Updater \in Threads /\ crashes \in Nat
  BY StorageAssumption DEF Threads, LoadInv, TypeOK
<1>1. ASSUME NEW t \in Threads, Work(t)
      PROVE  /\ StepsInOrder'
             /\ \A u \in Threads : job'[u] # job[u] => StepsLeft(job'[u]) < StepsLeft(job[u])
  <2>1. PICK k : Go(t, k) /\ Nearer(job[t], k)
    BY <1>1, WorkShortens
  <2> QED BY <2>1, GoMovesOne DEF Nearer
<1>2. ASSUME NEW t \in Threads, NEW k, Go(t, k), k.at \in StepsOf(k.stage),
             job[t].at \in {"down", "idle", "ready"}
      PROVE  /\ StepsInOrder'
             /\ \A u \in Threads : job'[u] # job[u] => job[u].at \in {"down", "idle", "ready"}
  BY <1>2, GoMovesOne
<1>3. /\ At("check", "none", "absent").at \in StepsOf(At("check", "none", "absent").stage)
      /\ Idle.at \in StepsOf(Idle.stage)
      /\ StartUpdate.at \in StepsOf(StartUpdate.stage)
  BY DEF At, Idle, StartUpdate, StepsOf
<1>4. CASE (\E t \in Threads : Call(t) \/ Return(t)) \/ StartUpdater \/ UpdateDue
  BY <1>0, <1>2, <1>3, <1>4 DEF Call, Return, StartUpdater, UpdateDue
<1>5. CASE Crash
  BY <1>0, <1>5 DEF Crash, Starting, StepsInOrder, StepsOf, At, Idle
<1>6. CASE UNCHANGED vars
  BY <1>6 DEF vars, StepsInOrder
<1> QED BY <1>1, <1>4, <1>5, <1>6 DEF Next

\* The recovery ends: whatever fails and whatever other threads do to the files, each
\* step of a thread brings its load (load, forced update, rollback, restore, default)
\* or its update nearer to the end, which is at most 23 steps away.
THEOREM RecoveryEnds == Spec => LoadsShorten
<1>1. Init => LoadInv /\ StepsInOrder
  BY InitLoadInv, InitInOrder
<1>2. LoadInv /\ StepsInOrder /\ [Next]_vars => (LoadInv /\ StepsInOrder)'
  BY StepLoadInv, StepShortens
<1>3. LoadInv /\ StepsInOrder /\ [Next]_vars =>
        [\A t \in Threads :
           job'[t] # job[t] =>
             \/ StepsLeft(job'[t]) < StepsLeft(job[t])
             \/ job[t].at \in {"down", "idle", "ready"}
             \/ crashes' # crashes]_vars
  BY StepShortens
<1> QED BY <1>1, <1>2, <1>3, PTL DEF Spec, LoadsShorten
=============================================================================
