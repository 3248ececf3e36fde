---------------------------- MODULE SignatureScan ----------------------------
(***************************************************************************)
(* The scanning engine of service.cpp: BuildAhoCorasickAutomaton over the   *)
(* records of the database in memory, and ScanBytes, which walks it with    *)
(* the bytes of one file.  ScanBytes takes g_av_lock anew for every byte    *)
(* and keeps only the index of a node in between, so the update thread may  *)
(* replace database and automaton in the middle of a file.                  *)
(*                                                                         *)
(* Nodes are numbered by insertion as in aho_nodes (from 1, not 0).  The    *)
(* node of a word is the one reached from the root by its bytes.  A file    *)
(* is a short text over a small alphabet; the SHA-256 of a signature is     *)
(* the signature.                                                           *)
(***************************************************************************)
EXTENDS Integers, Sequences

CONSTANTS Byte,    \* values of a byte
          Kinds,   \* ObjectType
          Pairs,   \* <<records of the default release, records the update appends>>
          Texts    \* contents of scanned files

AvRecords == [pattern : Seq(Byte), kind : Kinds, from : Nat, to : Nat]

ASSUME PairsAssumption ==
  /\ Pairs \subseteq Seq(AvRecords) \X Seq(AvRecords)
  /\ \A p \in Pairs : p[1] # <<>>
ASSUME TextsAssumption == Texts \subseteq Seq(Byte)

\* The signatures the program builds have at least one byte (MakeAvRecord).
ASSUME NonemptyAssumption ==
  \A p \in Pairs : \A k \in DOMAIN p[1] : p[1][k].pattern # <<>>

VARIABLES pair,      \* the two releases of this installation
          db,        \* all_records in memory
          text, kind,  \* the bytes ScanBytes was given, and their object type
          position,  \* bytes consumed
          state,     \* index into aho_nodes, kept between two bytes
          verdict, found,
          shrunk     \* a release with fewer records was applied since the last byte

vars == <<pair, db, text, kind, position, state, verdict, found, shrunk>>

Default == pair[1]
Updated == pair[1] \o pair[2]
-----------------------------------------------------------------------------
(* BuildAhoCorasickAutomaton                                                *)

Prefix(word, n) == SubSeq(word, 1, n)
IsSuffix(s, t) == /\ Len(s) <= Len(t)
                  /\ s = SubSeq(t, Len(t) - Len(s) + 1, Len(t))
WordsOf(nodes) == {nodes[n] : n \in DOMAIN nodes}

\* How far a pattern leads along the nodes there are.
Depth(nodes, pattern) ==
  CHOOSE d \in 0..Len(pattern) :
    /\ Prefix(pattern, d) \in WordsOf(nodes)
    /\ \A e \in d+1..Len(pattern) : Prefix(pattern, e) \notin WordsOf(nodes)

\* The rest of the pattern gets new nodes, one per byte.
Insert(nodes, pattern) ==
  LET d == Depth(nodes, pattern)
  IN nodes \o [i \in 1..Len(pattern) - d |-> Prefix(pattern, d + i)]

\* The words of the nodes in the order they are pushed onto aho_nodes.
Nodes(records) ==
  LET after[k \in 0..Len(records)] ==
        IF k = 0 THEN << <<>> >> ELSE Insert(after[k-1], records[k].pattern)
  IN after[Len(records)]

\* The loop both the construction and the scan use to find the next node:
\* follow failure links until there is a transition on the byte.
Follow(words, failure, word, byte) ==
  LET go[w \in {v \in words : Len(v) <= Len(word)}] ==
        IF Append(w, byte) \in words THEN Append(w, byte)
        ELSE IF w = <<>> THEN <<>> ELSE go[failure[w]]
  IN go[word]

\* Mutant: every failure link goes to the root.
Failures_Root(words) == [w \in words |-> <<>>]

Failures(words) ==
  LET failure[w \in words] ==
        IF Len(w) <= 1 THEN <<>>
        ELSE Follow(words, failure, failure[Prefix(w, Len(w) - 1)], w[Len(w)])
  IN failure

\* Records of a pattern, in the order they were inserted.
Own(records, word) ==
  LET own[k \in 0..Len(records)] ==
        IF k = 0 THEN <<>>
        ELSE IF records[k].pattern = word THEN Append(own[k-1], k) ELSE own[k-1]
  IN own[Len(records)]

\* Mutant: a node does not inherit the outputs of its failure node.
Outputs_OwnOnly(records, words, failure) == [w \in words |-> Own(records, w)]

\* Indices of the records of a node, its own first, then its failure node's.
\* The nodes below the root are given none of the root's.
Outputs(records, words, failure) ==
  LET out[w \in words] ==
        IF Len(w) <= 1 THEN Own(records, w) ELSE Own(records, w) \o out[failure[w]]
  IN out

Automaton(records) ==
  LET nodes == Nodes(records)
      words == WordsOf(nodes)
      failure == Failures(words)
  IN [nodes |-> nodes, words |-> words, failure |-> failure,
      out |-> Outputs(records, words, failure)]

\* One automaton per database, built when it is applied.
Databases == {p[1] : p \in Pairs} \cup {p[1] \o p[2] : p \in Pairs}
Built == [records \in Databases |-> Automaton(records)]
-----------------------------------------------------------------------------
(* ScanBytes                                                                *)

\* Mutants: the index of the node is off by one, to either side.
SearchFrom_Before(at) ==
  /\ position' = position + 1
  /\ shrunk' = FALSE
  /\ state' = at - 1
  /\ UNCHANGED <<pair, db, text, kind>>
SearchFrom_After(at) ==
  /\ position' = position + 1
  /\ shrunk' = FALSE
  /\ state' = at + 1
  /\ UNCHANGED <<pair, db, text, kind>>

SearchFrom(at) ==
  /\ position' = position + 1
  /\ shrunk' = FALSE
  /\ state' = at
  /\ UNCHANGED <<pair, db, text, kind>>

\* Mutant: the upper end of the offset range is not looked at.
Passes_NoEnd(record, end) ==
  LET start == end - Len(record.pattern) IN
    /\ start >= 0
    /\ record.kind = kind
    /\ record.from <= start
    /\ SubSeq(text, start + 1, end) = record.pattern

\* The checks on a candidate that ends at byte `end': type and offset range.
Passes(record, end) ==
  LET start == end - Len(record.pattern) IN
    /\ start >= 0
    /\ record.kind = kind
    /\ record.from <= start
    /\ start <= record.to
    /\ SubSeq(text, start + 1, end) = record.pattern

\* One turn of the loop: the transition and the copy of the candidates under
\* the lock, then the checks in order.
ScanByte ==
  /\ verdict = "scanning"
  /\ position < Len(text)
  /\ state <= Len(Built[db].nodes)
  /\ LET aho == Built[db]
         word == Follow(aho.words, aho.failure, aho.nodes[state], text[position + 1])
         candidates == [i \in DOMAIN aho.out[word] |-> db[aho.out[word][i]]]
         hits == {i \in DOMAIN candidates : Passes(candidates[i], position + 1)}
     IN /\ SearchFrom(CHOOSE n \in DOMAIN aho.nodes : aho.nodes[n] = word)
        /\ IF hits = {} THEN UNCHANGED <<verdict, found>>
           ELSE /\ verdict' = "infected"
                /\ found' = candidates[CHOOSE i \in hits : \A j \in hits : i <= j]

\* aho_nodes[state] past the end of the vector: undefined behaviour, the scan
\* is given up by the model.
ReadPastEnd ==
  /\ verdict = "scanning"
  /\ position < Len(text)
  /\ state > Len(Built[db].nodes)
  /\ verdict' = "undefined"
  /\ UNCHANGED <<pair, db, text, kind, position, state, found, shrunk>>

Finish == /\ verdict = "scanning"
          /\ position = Len(text)
          /\ verdict' = "clean"
          /\ UNCHANGED <<pair, db, text, kind, position, state, found, shrunk>>

\* ApplyAvRecordsUnlocked by the update thread: the whole of it under the lock.
ApplyAvRecords(records) ==
  /\ verdict = "scanning"
  /\ db' = records
  /\ shrunk' = (shrunk \/ Len(records) < Len(db))
  /\ UNCHANGED <<pair, text, kind, position, state, verdict, found>>

Init == /\ pair \in Pairs
        /\ db \in {Default, Updated}
        /\ text \in Texts
        /\ kind \in Kinds
        /\ position = 0
        /\ state = 1
        /\ verdict = "scanning"
        /\ found = pair[1][1]
        /\ shrunk = FALSE

Next == \/ ScanByte
        \/ ReadPastEnd
        \/ Finish
        \/ \E records \in {Default, Updated} \ {db} : ApplyAvRecords(records)

Spec == Init /\ [][Next]_vars

\* Types: every variable stays in its range.
TypeOK == /\ pair \in Pairs
          /\ db \in {Default, Updated}
          /\ text \in Texts
          /\ kind \in Kinds
          /\ position \in 0..Len(text)
          /\ state \in 1..Len(Built[Updated].nodes)
          /\ verdict \in {"scanning", "clean", "infected", "undefined"}
          /\ found \in {Updated[k] : k \in DOMAIN Updated}
          /\ shrunk \in BOOLEAN
-----------------------------------------------------------------------------
(* Properties                                                               *)

\* The reference: record occurs in the text at an offset it allows, ending at `end'.
EndsAt(record, end) ==
  \E start \in record.from..record.to :
    /\ record.kind = kind
    /\ start + Len(record.pattern) = end
    /\ \A i \in DOMAIN record.pattern : text[start + i] = record.pattern[i]
OccursBefore(record, end) == \E e \in 1..end : EndsAt(record, e)

\* A detection is real, whatever was swapped during the scan.
DetectionReal == verdict = "infected" => EndsAt(found, position)

\* Every record that is in both releases is found at its first occurrence,
\* even when the database is replaced any number of times during the scan: as
\* long as the scan goes on, no such record ended in the bytes consumed.
KnownStillFound ==
  verdict \in {"scanning", "clean"} =>
    \A k \in DOMAIN Default : ~OccursBefore(Default[k], position)

\* The node index never leaves the automaton unless a smaller release was
\* applied between two bytes: a rollback to the default release.
OutOfRangeOnlyAfterRollback ==
  state > Len(Built[db].nodes) => shrunk

\* The automaton stands on the longest suffix of the consumed bytes that begins
\* a signature of the default release, or on a longer one.
SuffixKept ==
  LET here == Built[Updated].nodes[state]
      read == SubSeq(text, 1, position)
  IN verdict \in {"scanning", "clean"} =>
       /\ IsSuffix(here, read)
       /\ \A w \in Built[Default].words : IsSuffix(w, read) => Len(w) <= Len(here)
=============================================================================
