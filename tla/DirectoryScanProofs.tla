------------------------- MODULE DirectoryScanProofs -------------------------
(* Lemmas about one walk of a folder (DirectoryScan), for any files and     *)
(* folders: its counter cannot pass the number of files, and at every visit *)
(* it agrees with the disk on the files that are not in doubt.              *)
EXTENDS DirectoryScan, FiniteSetTheorems, TLAPS

\* Every file is counted at most once: what is left to visit leaves room for it.
Bounded(scan) == scan.count + Cardinality(scan.todo) <= Cardinality(Files)

Visited(scan) == Holds[scan.path] \ scan.todo
SureBad(scan, disk) == {f \in Visited(scan) \ scan.doubtful : disk[f] = "bad"}
Counted(scan, disk) == {f \in Visited(scan) : f \notin scan.doubtful /\ disk[f] # "locked"}
Countable(scan, disk) == {f \in Visited(scan) : f \in scan.doubtful \/ disk[f] # "locked"}

\* Only visited files are in doubt, and the walk so far is right about the others.
Faithful(scan, disk) ==
  /\ scan.todo \subseteq Holds[scan.path]
  /\ scan.doubtful \subseteq Visited(scan)
  /\ scan.found \subseteq Visited(scan)
  /\ scan.found \ scan.doubtful = SureBad(scan, disk)
  /\ Cardinality(Counted(scan, disk)) <= scan.count
  /\ scan.count <= Cardinality(Countable(scan, disk))

LEMMA BeginWalk ==
  ASSUME NEW p \in Paths, NEW disk
  PROVE  Begin(p) \in Scans /\ Bounded(Begin(p)) /\ Faithful(Begin(p), disk)
<1>1. Holds[p] \subseteq Files /\ IsFiniteSet(Files)
  BY ScanAssumption
<1>2. Cardinality(Files) \in Nat /\ Cardinality(Holds[p]) \in Nat
      /\ Cardinality(Holds[p]) <= Cardinality(Files)
  BY <1>1, FS_CardinalityType, FS_Subset
<1>3. Begin(p) \in Scans /\ Bounded(Begin(p))
  BY <1>1, <1>2 DEF Begin, Scans, Bounded
<1>4. /\ Visited(Begin(p)) = {}
      /\ SureBad(Begin(p), disk) = {}
      /\ Counted(Begin(p), disk) = {}
      /\ Countable(Begin(p), disk) = {}
  BY DEF Begin, Visited, SureBad, Counted, Countable
<1>5. Cardinality(Counted(Begin(p), disk)) = 0 /\ Cardinality(Countable(Begin(p), disk)) = 0
  BY <1>4, FS_EmptySet
<1>6. Begin(p).doubtful = {} /\ Begin(p).found = {} /\ Begin(p).count = 0
      /\ Begin(p).todo = Holds[p] /\ Begin(p).path = p
  BY DEF Begin
<1>7. Faithful(Begin(p), disk)
  BY <1>4, <1>5, <1>6 DEF Faithful
<1> QED BY <1>3, <1>7

\* The state of a thread that is in no scan.
LEMMA NoWalk ==
  ASSUME NEW p \in Paths
  PROVE  [Begin(p) EXCEPT !.todo = {}] \in Scans /\ Bounded([Begin(p) EXCEPT !.todo = {}])
<1> DEFINE scan == Begin(p)
           none == [scan EXCEPT !.todo = {}]
<1>1. scan \in Scans /\ Cardinality(Files) \in Nat /\ scan.count = 0
  BY BeginWalk, ScanAssumption, FS_CardinalityType DEF Begin
<1> HIDE DEF scan
<1>2. none \in Scans /\ none.todo = {} /\ none.count = 0
  BY <1>1 DEF Scans
<1> QED BY <1>1, <1>2, FS_EmptySet DEF Bounded, scan

LEMMA VisitTyped ==
  ASSUME NEW scan \in Scans, Bounded(scan), NEW f \in scan.todo,
         NEW licensed \in BOOLEAN, NEW content
  PROVE  /\ Visit(scan, f, licensed, content) \in Scans
         /\ Bounded(Visit(scan, f, licensed, content))
<1> DEFINE next == Visit(scan, f, licensed, content)
<1>1. IsFiniteSet(scan.todo) /\ scan.todo \subseteq Files /\ f \in Files
  BY ScanAssumption, FS_Subset DEF Scans
<1>2. Cardinality(Files) \in Nat /\ Cardinality(scan.todo) \in Nat /\ scan.count \in Nat
  BY <1>1, ScanAssumption, FS_CardinalityType DEF Scans
<1>3. IsFiniteSet(scan.todo \ {f}) /\ Cardinality(scan.todo \ {f}) = Cardinality(scan.todo) - 1
  BY <1>1, FS_RemoveElement
<1>4. Cardinality(scan.todo \ {f}) \in Nat
  BY <1>3, FS_CardinalityType
<1>5. /\ next.todo = scan.todo \ {f}
      /\ next.count = scan.count \/ next.count = scan.count + 1
  BY DEF Visit, Scans
<1>6. Bounded(next) /\ next.count \in 0..Cardinality(Files)
  BY <1>2, <1>3, <1>4, <1>5 DEF Bounded
<1>7. next.found \subseteq Files /\ next.todo \subseteq Files
  BY <1>1 DEF Visit, Scans
<1>8. next \in Scans
  <2> DEFINE found == IF licensed /\ content # "locked" /\ content = "bad"
                      THEN scan.found \cup {f} ELSE scan.found
             count == IF licensed /\ content # "locked" THEN scan.count + 1 ELSE scan.count
             doubtful == IF licensed THEN scan.doubtful ELSE scan.doubtful \cup {f}
  <2>1. next = [scan EXCEPT !.todo = scan.todo \ {f}, !.count = count, !.found = found,
                            !.doubtful = doubtful]
    BY DEF Visit
  <2>2. found \subseteq Files /\ count \in 0..Cardinality(Files) /\ scan.todo \ {f} \subseteq Files
    BY <1>1, <1>2, <1>3, <1>4, <1>6, <1>7, <2>1 DEF Scans
  <2>3. doubtful \subseteq Files
    BY <1>1 DEF Scans
  <2> HIDE DEF found, count, doubtful, next
  <2> QED BY <2>1, <2>2, <2>3 DEF Scans
<1> QED BY <1>6, <1>8 DEF next

\* A smaller rest of the walk leaves the counter its room.
LEMMA SmallerRest ==
  ASSUME NEW scan \in Scans, Bounded(scan), NEW next \in Scans,
         next.todo \subseteq scan.todo, next.count = scan.count
  PROVE  Bounded(next)
<1>1. IsFiniteSet(scan.todo) /\ Cardinality(Files) \in Nat
  BY ScanAssumption, FS_Subset, FS_CardinalityType DEF Scans
<1>2. Cardinality(next.todo) <= Cardinality(scan.todo)
  BY <1>1, FS_Subset
<1>3. IsFiniteSet(next.todo)
  BY <1>1, FS_Subset
<1>4. Cardinality(next.todo) \in Nat /\ Cardinality(scan.todo) \in Nat /\ scan.count \in Nat
  BY <1>1, <1>3, FS_CardinalityType DEF Scans
<1> QED BY <1>1, <1>2, <1>4 DEF Bounded

LEMMA SkipTyped ==
  ASSUME NEW scan \in Scans, Bounded(scan), NEW files \in SUBSET scan.todo
  PROVE  Skip(scan, files) \in Scans /\ Bounded(Skip(scan, files))
<1>1. Skip(scan, files) \in Scans
  BY DEF Skip, Scans
<1>2. Skip(scan, files).todo \subseteq scan.todo /\ Skip(scan, files).count = scan.count
  BY DEF Skip, Scans
<1> QED BY <1>1, <1>2, SmallerRest

LEMMA TornTyped ==
  ASSUME NEW scan \in Scans, Bounded(scan), NEW f \in scan.todo, NEW verdict
  PROVE  Torn(scan, f, verdict) \in Scans /\ Bounded(Torn(scan, f, verdict))
<1> DEFINE read == Visit(scan, f, TRUE, verdict)
<1>1. read \in Scans /\ Bounded(read) /\ f \in Files
  BY VisitTyped DEF Scans
<1> HIDE DEF read
<1>2. Torn(scan, f, verdict) = [read EXCEPT !.doubtful = read.doubtful \cup {f}]
  BY DEF Torn, read
<1>3. Torn(scan, f, verdict) \in Scans
  BY <1>1, <1>2 DEF Scans
<1>4. Torn(scan, f, verdict).todo = read.todo /\ Torn(scan, f, verdict).count = read.count
  BY <1>1, <1>2 DEF Scans
<1> QED BY <1>1, <1>3, <1>4, SmallerRest

LEMMA OutdateTyped ==
  ASSUME NEW scan \in Scans, Bounded(scan), NEW files
  PROVE  /\ Outdate(scan, files) \in Scans
         /\ Bounded(Outdate(scan, files))
         /\ Outdate(scan, files).path = scan.path
<1>1. Holds[scan.path] \subseteq Files
  BY ScanAssumption DEF Scans
<1>2. Outdate(scan, files) =
        [scan EXCEPT !.doubtful = scan.doubtful \cup ((files \cap Holds[scan.path]) \ scan.todo)]
  BY DEF Outdate
<1>3. Outdate(scan, files) \in Scans
  BY <1>1, <1>2 DEF Scans
<1>4. /\ Outdate(scan, files).todo = scan.todo
      /\ Outdate(scan, files).count = scan.count
      /\ Outdate(scan, files).path = scan.path
  BY <1>2 DEF Scans
<1> QED BY <1>3, <1>4, SmallerRest
-----------------------------------------------------------------------------
LEMMA Sizes ==
  ASSUME NEW scan \in Scans, NEW disk
  PROVE  /\ IsFiniteSet(Counted(scan, disk)) /\ IsFiniteSet(Countable(scan, disk))
         /\ Cardinality(Counted(scan, disk)) \in Nat
         /\ Cardinality(Countable(scan, disk)) \in Nat
         /\ scan.count \in Nat
<1>1. Visited(scan) \subseteq Files /\ IsFiniteSet(Files)
  BY ScanAssumption DEF Scans, Visited
<1>2. Counted(scan, disk) \subseteq Files /\ Countable(scan, disk) \subseteq Files
  BY <1>1 DEF Counted, Countable
<1>3. IsFiniteSet(Counted(scan, disk)) /\ IsFiniteSet(Countable(scan, disk))
  BY <1>1, <1>2, FS_Subset
<1>4. scan.count \in Nat
  BY ScanAssumption, FS_CardinalityType DEF Scans
<1> QED BY <1>3, <1>4, FS_CardinalityType

\* A step that counts nothing keeps the bounds of the counter when it takes no
\* file away that may have been counted.
LEMMA NothingCounted ==
  ASSUME NEW scan \in Scans, NEW disk, Faithful(scan, disk),
         NEW next \in Scans, NEW changed, next.count = scan.count,
         Counted(next, changed) \subseteq Counted(scan, disk),
         Countable(scan, disk) \subseteq Countable(next, changed)
  PROVE  /\ Cardinality(Counted(next, changed)) <= next.count
         /\ next.count <= Cardinality(Countable(next, changed))
<1>1. /\ IsFiniteSet(Counted(scan, disk)) /\ IsFiniteSet(Countable(next, changed))
      /\ Cardinality(Counted(scan, disk)) \in Nat /\ Cardinality(Counted(next, changed)) \in Nat
      /\ Cardinality(Countable(scan, disk)) \in Nat /\ Cardinality(Countable(next, changed)) \in Nat
      /\ scan.count \in Nat
  BY Sizes
<1>2. /\ Cardinality(Counted(next, changed)) <= Cardinality(Counted(scan, disk))
      /\ Cardinality(Countable(scan, disk)) <= Cardinality(Countable(next, changed))
  BY <1>1, FS_Subset
<1> QED BY <1>1, <1>2 DEF Faithful

\* A step that counts the file f.
LEMMA OneCounted ==
  ASSUME NEW scan \in Scans, NEW disk, Faithful(scan, disk), NEW f \in scan.todo,
         NEW next \in Scans, next.count = scan.count + 1,
         Counted(next, disk) \subseteq Counted(scan, disk) \cup {f},
         Countable(scan, disk) \cup {f} \subseteq Countable(next, disk)
  PROVE  /\ Cardinality(Counted(next, disk)) <= next.count
         /\ next.count <= Cardinality(Countable(next, disk))
<1>1. /\ IsFiniteSet(Counted(scan, disk)) /\ IsFiniteSet(Countable(scan, disk))
      /\ Cardinality(Counted(scan, disk)) \in Nat /\ Cardinality(Countable(scan, disk)) \in Nat
      /\ scan.count \in Nat
  BY Sizes
<1>2. /\ IsFiniteSet(Counted(next, disk)) /\ IsFiniteSet(Countable(next, disk))
      /\ Cardinality(Counted(next, disk)) \in Nat /\ Cardinality(Countable(next, disk)) \in Nat
  BY Sizes
<1>3. f \notin Counted(scan, disk) /\ f \notin Countable(scan, disk)
  BY DEF Counted, Countable, Visited
<1>4. /\ Cardinality(Counted(scan, disk) \cup {f}) = Cardinality(Counted(scan, disk)) + 1
      /\ Cardinality(Countable(scan, disk) \cup {f}) = Cardinality(Countable(scan, disk)) + 1
      /\ IsFiniteSet(Counted(scan, disk) \cup {f})
  BY <1>1, <1>3, FS_AddElement
<1>5. /\ Cardinality(Counted(next, disk)) <= Cardinality(Counted(scan, disk) \cup {f})
      /\ Cardinality(Countable(scan, disk) \cup {f}) <= Cardinality(Countable(next, disk))
  BY <1>2, <1>4, FS_Subset
<1> QED BY <1>1, <1>2, <1>4, <1>5 DEF Faithful

LEMMA VisitFaithful ==
  ASSUME NEW scan \in Scans, Bounded(scan), NEW f \in scan.todo, NEW licensed \in BOOLEAN,
         NEW disk, Faithful(scan, disk)
  PROVE  Faithful(Visit(scan, f, licensed, disk[f]), disk)
<1> DEFINE next == Visit(scan, f, licensed, disk[f])
           read == licensed /\ disk[f] # "locked"
<1>1. /\ next.path = scan.path
      /\ next.todo = scan.todo \ {f}
      /\ next.count = IF read THEN scan.count + 1 ELSE scan.count
      /\ next.found = IF read /\ disk[f] = "bad" THEN scan.found \cup {f} ELSE scan.found
      /\ next.doubtful = IF licensed THEN scan.doubtful ELSE scan.doubtful \cup {f}
  BY DEF Visit, Scans
<1>2. next \in Scans
  BY VisitTyped
<1> HIDE DEF next
<1>3. Visited(next) = Visited(scan) \cup {f} /\ f \notin Visited(scan)
      /\ scan.doubtful \subseteq Visited(scan) /\ scan.found \subseteq Visited(scan)
  BY <1>1 DEF Faithful, Visited
<1>4. /\ next.todo \subseteq Holds[next.path]
      /\ next.doubtful \subseteq Visited(next)
      /\ next.found \subseteq Visited(next)
  BY <1>1, <1>3 DEF Faithful
<1>5. next.found \ next.doubtful = SureBad(next, disk)
  <2>1. scan.found \ scan.doubtful = SureBad(scan, disk)
    BY DEF Faithful
  <2>2. CASE ~licensed
    BY <1>1, <1>3, <2>1, <2>2 DEF SureBad
  <2>3. CASE licensed /\ disk[f] = "bad"
    BY <1>1, <1>3, <2>1, <2>3 DEF SureBad
  <2>4. CASE licensed /\ disk[f] # "bad"
    BY <1>1, <1>3, <2>1, <2>4 DEF SureBad
  <2> QED BY <2>2, <2>3, <2>4
<1>6. /\ Cardinality(Counted(next, disk)) <= next.count
      /\ next.count <= Cardinality(Countable(next, disk))
  <2>1. CASE read
    <3>1. /\ Counted(next, disk) \subseteq Counted(scan, disk) \cup {f}
          /\ Countable(scan, disk) \cup {f} \subseteq Countable(next, disk)
      BY <1>1, <1>3, <2>1 DEF Counted, Countable
    <3>2. next.count = scan.count + 1
      BY <1>1, <2>1
    <3> QED BY <1>2, <3>1, <3>2, OneCounted
  <2>2. CASE ~read
    <3>1. Counted(next, disk) \subseteq Counted(scan, disk)
      BY <1>1, <1>3, <2>2 DEF Counted
    <3>2. Countable(scan, disk) \subseteq Countable(next, disk)
      BY <1>1, <1>3 DEF Countable
    <3>3. next.count = scan.count
      BY <1>1, <2>2
    <3> QED BY <1>2, <3>1, <3>2, <3>3, NothingCounted
  <2> QED BY <2>1, <2>2
<1> QED BY <1>4, <1>5, <1>6 DEF Faithful, next

LEMMA SkipFaithful ==
  ASSUME NEW scan \in Scans, Bounded(scan), NEW files \in SUBSET scan.todo,
         NEW disk, Faithful(scan, disk)
  PROVE  Faithful(Skip(scan, files), disk)
<1> DEFINE next == Skip(scan, files)
<1>1. /\ next.path = scan.path
      /\ next.todo = scan.todo \ files
      /\ next.count = scan.count
      /\ next.found = scan.found
      /\ next.doubtful = scan.doubtful \cup files
  BY DEF Skip, Scans
<1>2. next \in Scans
  BY SkipTyped
<1> HIDE DEF next
<1>3. Visited(next) = Visited(scan) \cup files /\ files \cap Visited(scan) = {}
      /\ scan.doubtful \subseteq Visited(scan) /\ scan.found \subseteq Visited(scan)
  BY <1>1 DEF Faithful, Visited
<1>4. /\ next.todo \subseteq Holds[next.path]
      /\ next.doubtful \subseteq Visited(next)
      /\ next.found \subseteq Visited(next)
  BY <1>1, <1>3 DEF Faithful
<1>5. next.found \ next.doubtful = SureBad(next, disk)
  <2>1. scan.found \ scan.doubtful = SureBad(scan, disk)
    BY DEF Faithful
  <2> QED BY <1>1, <1>3, <2>1 DEF SureBad
<1>6. /\ Counted(next, disk) \subseteq Counted(scan, disk)
      /\ Countable(scan, disk) \subseteq Countable(next, disk)
  BY <1>1, <1>3 DEF Counted, Countable
<1>7. /\ Cardinality(Counted(next, disk)) <= next.count
      /\ next.count <= Cardinality(Countable(next, disk))
  BY <1>1, <1>2, <1>6, NothingCounted
<1> QED BY <1>4, <1>5, <1>7 DEF Faithful, next

LEMMA TornFaithful ==
  ASSUME NEW scan \in Scans, Bounded(scan), NEW f \in scan.todo,
         NEW verdict \in {"clean", "bad"}, NEW disk, Faithful(scan, disk)
  PROVE  Faithful(Torn(scan, f, verdict), disk)
<1> DEFINE next == Torn(scan, f, verdict)
           read == Visit(scan, f, TRUE, verdict)
<1>1. /\ read.path = scan.path
      /\ read.todo = scan.todo \ {f}
      /\ read.count = scan.count + 1
      /\ read.found = IF verdict = "bad" THEN scan.found \cup {f} ELSE scan.found
      /\ read.doubtful = scan.doubtful
  BY DEF Visit, Scans
<1>2. read \in Scans /\ next \in Scans
  BY VisitTyped, TornTyped
<1> HIDE DEF read
<1>3. next = [read EXCEPT !.doubtful = read.doubtful \cup {f}]
  BY DEF Torn, read
<1> HIDE DEF next
<1>4. /\ next.path = scan.path
      /\ next.todo = scan.todo \ {f}
      /\ next.count = scan.count + 1
      /\ next.found \subseteq scan.found \cup {f} /\ scan.found \subseteq next.found
      /\ next.doubtful = scan.doubtful \cup {f}
  BY <1>1, <1>2, <1>3 DEF Scans
<1>5. Visited(next) = Visited(scan) \cup {f} /\ f \notin Visited(scan)
      /\ scan.doubtful \subseteq Visited(scan) /\ scan.found \subseteq Visited(scan)
  BY <1>4 DEF Faithful, Visited
<1>6. /\ next.todo \subseteq Holds[next.path]
      /\ next.doubtful \subseteq Visited(next)
      /\ next.found \subseteq Visited(next)
  BY <1>4, <1>5 DEF Faithful
<1>7. next.found \ next.doubtful = SureBad(next, disk)
  <2>1. scan.found \ scan.doubtful = SureBad(scan, disk)
    BY DEF Faithful
  <2> QED BY <1>4, <1>5, <2>1 DEF SureBad
<1>8. /\ Counted(next, disk) \subseteq Counted(scan, disk) \cup {f}
      /\ Countable(scan, disk) \cup {f} \subseteq Countable(next, disk)
  BY <1>4, <1>5 DEF Counted, Countable
<1>9. /\ Cardinality(Counted(next, disk)) <= next.count
      /\ next.count <= Cardinality(Countable(next, disk))
  BY <1>2, <1>4, <1>8, OneCounted
<1> QED BY <1>6, <1>7, <1>9 DEF Faithful, next

\* Whatever becomes of `files', the walk stays right about the others.
LEMMA OutdateFaithful ==
  ASSUME NEW scan \in Scans, Bounded(scan), NEW files, NEW disk, Faithful(scan, disk),
         NEW changed, \A f \in Files \ files : changed[f] = disk[f]
  PROVE  Faithful(Outdate(scan, files), changed)
<1> DEFINE next == Outdate(scan, files)
           hit == files \cap Visited(scan)
<1>1. /\ next.path = scan.path
      /\ next.todo = scan.todo
      /\ next.count = scan.count
      /\ next.found = scan.found
      /\ next.doubtful = scan.doubtful \cup hit
  BY DEF Outdate, Scans, Visited
<1>2. next \in Scans
  BY OutdateTyped
<1> HIDE DEF next
<1>3. /\ Visited(next) = Visited(scan)
      /\ scan.doubtful \subseteq Visited(scan)
      /\ scan.found \subseteq Visited(scan)
  BY <1>1 DEF Faithful, Visited
<1>4. \A f \in Visited(scan) \ hit : changed[f] = disk[f]
  BY ScanAssumption DEF Visited, Scans
<1>5. /\ next.todo \subseteq Holds[next.path]
      /\ next.doubtful \subseteq Visited(next)
      /\ next.found \subseteq Visited(next)
  BY <1>1, <1>3 DEF Faithful
<1> HIDE DEF hit
<1>6. next.found \ next.doubtful = SureBad(next, changed)
  <2>1. scan.found \ scan.doubtful = SureBad(scan, disk)
    BY DEF Faithful
  <2> QED BY <1>1, <1>3, <1>4, <2>1 DEF SureBad
<1>7. /\ Counted(next, changed) \subseteq Counted(scan, disk)
      /\ Countable(scan, disk) \subseteq Countable(next, changed)
  BY <1>1, <1>3, <1>4 DEF Counted, Countable
<1>8. /\ Cardinality(Counted(next, changed)) <= next.count
      /\ next.count <= Cardinality(Countable(next, changed))
  BY <1>1, <1>2, <1>7, NothingCounted
<1> QED BY <1>5, <1>6, <1>8 DEF Faithful, next

LEMMA Rejudged ==
  ASSUME NEW disk \in [Files -> Contents], NEW files
  PROVE  /\ Rejudge(disk, files) \in [Files -> Contents]
         /\ \A f \in Files \ files : Rejudge(disk, files)[f] = disk[f]
BY DEF Rejudge, Contents
-----------------------------------------------------------------------------
LEMMA WalkReported ==
  ASSUME NEW scan \in Scans
  PROVE  /\ Report(scan) \in Results
         /\ \A disk : Faithful(scan, disk) /\ scan.todo = {}
                        => Exact(Report(scan), scan.doubtful, disk)
<1>1. Report(scan) \in Results
  BY DEF Report, Results, Scans
<1>2. ASSUME NEW disk, Faithful(scan, disk), scan.todo = {}
      PROVE  Exact(Report(scan), scan.doubtful, disk)
  <2>1. Visited(scan) = Holds[scan.path]
    BY <1>2 DEF Visited
  <2>2. scan.count \in Cardinality(Counted(scan, disk))..Cardinality(Countable(scan, disk))
    BY <1>2, Sizes DEF Faithful
  <2>3. Report(scan).of = scan.path /\ Report(scan).found = scan.found
        /\ Report(scan).count = scan.count
    BY DEF Report
  <2> QED BY <1>2, <2>1, <2>2, <2>3 DEF Exact, Faithful, SureBad, Counted, Countable
<1> QED BY <1>1, <1>2

LEMMA Said ==
  ASSUME NEW p \in Paths, NEW kind \in {"empty", "configured", "done", "failed"}
  PROVE  Say(kind, p) \in Results
<1>1. Cardinality(Files) \in Nat
  BY ScanAssumption, FS_CardinalityType
<1> QED BY <1>1 DEF Say, Results
=============================================================================
