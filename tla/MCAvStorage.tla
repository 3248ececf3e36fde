---------------------------- MODULE MCAvStorage ----------------------------
(* AvStorage on small instances: the disks the process may start from.      *)
EXTENDS AvStorage

AllDisks == Contents \X Contents

\* What an installation that was killed at some point can have left, with one
\* good copy and no content altered by hand.
GoodDisks == {d \in ({"absent", "cut"} \cup Releases) \X ({"absent", "cut"} \cup Releases) :
                d[1] \in Releases \/ d[2] \in Releases}

\* The primary file was altered by hand while a good backup is there.
ForgedDisks == {<<"forged", "updated">>}
=============================================================================
