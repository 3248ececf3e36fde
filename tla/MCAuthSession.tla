--------------------------- MODULE MCAuthSession ---------------------------
(* AuthSession on small instances.                                          *)
EXTENDS AuthSession, TLC

\* RPC threads differ in nothing but their name, nor do the server's accounts.
Symmetry == Permutations(Callers) \cup Permutations(Users)

\* Every login is answered by the HTTP server, not by the demo account, and no code
\* is activated: requests for the status of the license only.
StatusOnly == /\ auth'.login # Demo
              /\ \A c \in Callers : op'[c].at # "activate"

ServerSpec == Init /\ [][Next /\ StatusOnly]_vars
=============================================================================
