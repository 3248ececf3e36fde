---------------------------- MODULE DirectoryScan ----------------------------
(***************************************************************************)
(* One scan of a path in service.cpp: ScanPathDirectory, which walks a      *)
(* folder with ScanDirectoryRecursive, and ScanSingleFile, which every file *)
(* goes through.  The schedule and the monitor thread each run one scan at  *)
(* a time as a sequence of visits; both modules step these operators.       *)
(* The recursion into sub-folders is abstracted to the set of files below   *)
(* the path, visited in any order.                                          *)
(***************************************************************************)
EXTENDS Naturals, FiniteSets

CONSTANTS Paths,   \* paths a client may name
          Files,
          Holds    \* Holds[p]: the files below folder p, or {p's file}

\* What a scan of a file would find: its bytes and the database in force decide.
\* "locked": ReadFileBytes cannot open or read it, or the file is not there.
Contents == {"clean", "bad", "locked"}

ASSUME ScanAssumption ==
  /\ IsFiniteSet(Files)
  /\ Holds \in [Paths -> SUBSET Files]

\* doubtful: the files whose entry may differ from the disk, because they were
\* passed over, changed after their visit, or read while the database was
\* replaced.  It records the history of the walk; the code has no such variable.
Scans == [path : Paths, todo : SUBSET Files, found : SUBSET Files,
          count : 0..Cardinality(Files), doubtful : SUBSET Files]

Begin(p) == [path |-> p, todo |-> Holds[p], found |-> {}, count |-> 0, doubtful |-> {}]

\* Mutants: the walk does not advance, or counts clean files only.
Visit_Stays(scan, f, licensed, content) ==
  [scan EXCEPT !.count = IF licensed /\ content # "locked" THEN @ + 1 ELSE @]
Visit_CleanOnly(scan, f, licensed, content) ==
  [scan EXCEPT !.todo = @ \ {f},
               !.count = IF licensed /\ content = "clean" THEN @ + 1 ELSE @,
               !.found = IF licensed /\ content = "bad" THEN @ \cup {f} ELSE @,
               !.doubtful = IF licensed THEN @ ELSE @ \cup {f}]

\* ScanSingleFile(f) inside the walk: without a license (EnsureAvReady) or when
\* the file cannot be read the file is passed over, and the report does not say so.
Visit(scan, f, licensed, content) ==
  LET read == licensed /\ content # "locked" IN
    [scan EXCEPT !.todo = @ \ {f},
                 !.count = IF read THEN @ + 1 ELSE @,
                 !.found = IF read /\ content = "bad" THEN @ \cup {f} ELSE @,
                 !.doubtful = IF licensed THEN @ ELSE @ \cup {f}]

\* FindFirstFileW fails for a folder, or FindNextFileW ends its listing early:
\* the files below are left out without a word.
Skip(scan, files) == [scan EXCEPT !.todo = @ \ files, !.doubtful = @ \cup files]

\* ScanBytes of f when the database is replaced between two of its bytes: the
\* verdict may be that of neither database.
Torn(scan, f, verdict) ==
  [Visit(scan, f, TRUE, verdict) EXCEPT !.doubtful = @ \cup {f}]

\* The files are no longer what they were: a problem for those visited already.
Outdate(scan, files) ==
  [scan EXCEPT !.doubtful = @ \cup ((files \cap Holds[scan.path]) \ scan.todo)]

\* What the database put in force finds in `files' is the opposite of before.
Rejudge(disk, files) ==
  [f \in Files |-> IF f \notin files \/ disk[f] = "locked" THEN disk[f]
                   ELSE IF disk[f] = "bad" THEN "clean" ELSE "bad"]

\* What last_result and g_monitor_last_result say.  "done": the report of a
\* scan of path `of'; "failed": its error text; "configured": the text the
\* monitor shows until the first report; "empty".
Results == [kind : {"empty", "configured", "done", "failed"}, of : Paths,
            found : SUBSET Files, count : 0..Cardinality(Files)]

Say(kind, p) == [kind |-> kind, of |-> p, found |-> {}, count |-> 0]

Report(scan) == [kind |-> "done", of |-> scan.path, found |-> scan.found,
                 count |-> scan.count]

\* The report names only files of its path; of the files beyond doubt it names
\* exactly the infected ones and counts every readable one, once.
Exact(result, doubtful, disk) ==
  LET below == Holds[result.of]
      counted == {f \in below : f \notin doubtful /\ disk[f] # "locked"}
      countable == {f \in below : f \in doubtful \/ disk[f] # "locked"} IN
    /\ result.found \subseteq below
    /\ result.found \ doubtful = {f \in below \ doubtful : disk[f] = "bad"}
    /\ result.count \in Cardinality(counted)..Cardinality(countable)
=============================================================================
