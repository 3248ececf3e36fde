----------------------------- MODULE DbContract -----------------------------
(***************************************************************************)
(* What the signature database promises to the code that asks for it,      *)
(* whatever happens on the disk: EnsureAvReady (service.cpp) lets a scan    *)
(* go on only after LoadAvDatabaseIfNeeded has returned, and from then on   *)
(* a database is in memory until the process ends.  How the database is     *)
(* found, recovered or updated is the business of AvStorage, which is shown *)
(* to implement this module.                                                *)
(***************************************************************************)
CONSTANTS Askers,     \* the threads that ask for a loaded database
          Releases    \* the releases a database can have

VARIABLES memory,     \* the release in memory, or "none"
          call        \* call[a]: where asker a is

vars == <<memory, call>>

Init == /\ memory = "none"
        /\ call = [a \in Askers |-> "out"]

Ask(a) == /\ call[a] = "out"
          /\ call' = [call EXCEPT ![a] = "waiting"]
          /\ UNCHANGED memory

\* Some thread at work on the storage puts a release in memory.
Publish == /\ memory' \in Releases
           /\ UNCHANGED call

\* An asker is answered only when a database is in memory.
Answer(a) == /\ call[a] = "waiting"
             /\ memory # "none"
             /\ call' = [call EXCEPT ![a] = "answered"]
             /\ UNCHANGED memory

PublishAndAnswer(a) == /\ call[a] = "waiting"
                       /\ memory' \in Releases
                       /\ call' = [call EXCEPT ![a] = "answered"]

Leave(a) == /\ call[a] = "answered"
            /\ call' = [call EXCEPT ![a] = "out"]
            /\ UNCHANGED memory

\* The process ends: the memory and every call are gone.
Restart == /\ memory' = "none"
           /\ call' = [a \in Askers |-> "out"]

Next == \/ Publish
        \/ Restart
        \/ \E a \in Askers : Ask(a) \/ Answer(a) \/ PublishAndAnswer(a) \/ Leave(a)

Spec == Init /\ [][Next]_vars
=============================================================================
