--------------------------- MODULE LicenseSession ---------------------------
(***************************************************************************)
(* What the session of the service is to an RPC client: who is logged in,   *)
(* whose token goes out with the next request, and whose license is in      *)
(* force.  Login, logout, a failed token refresh, license queries and       *)
(* activations of any client and of the service's own thread change it at   *)
(* any time.  AuthSession implements this.                                  *)
(***************************************************************************)
CONSTANTS Principals,  \* the accounts
          Nobody       \* no account

ASSUME SessionAssumption == Nobody \notin Principals

VARIABLES user,    \* what GetCurrentUser answers
          token,   \* the account of g_auth.accessToken
          license, \* the account g_auth.hasLicense was granted to, Nobody if it is FALSE
          overlap  \* history: a session began or ended while a thread was between
                   \* copying a token and writing the answer

session == <<user, token, license, overlap>>

Owners == Principals \cup {Nobody}

SessionInit == user = Nobody /\ token = Nobody /\ license = Nobody /\ overlap = FALSE

\* Whether a request is in flight meanwhile is not kept here.
Begin(p) == /\ user' = p /\ token' = p /\ license' = Nobody
            /\ overlap' \in {overlap, TRUE}

End == /\ user' = Nobody /\ token' = Nobody /\ license' = Nobody
       /\ overlap' \in {overlap, TRUE}

\* An answer on the license of p, or on the license p does not have (Nobody), is
\* written, whoever is logged in by then.
Decide(p) == /\ ~overlap => user # Nobody /\ p \in {Nobody, user}
             /\ license' = p
             /\ UNCHANGED <<user, token, overlap>>

\* A refresh writes the tokens of p into the session that exists by then.
Retoken(p) == /\ ~overlap => user # Nobody /\ p = user
              /\ token' = p
              /\ UNCHANGED <<user, license, overlap>>

\* The process ends; the next one starts with an empty g_auth and with nothing in
\* flight.  SessionSpec describes one process.
Restart == user' = Nobody /\ token' = Nobody /\ license' = Nobody /\ overlap' = FALSE

SessionStep == \/ \E p \in Principals : Begin(p) \/ Retoken(p)
               \/ End
               \/ \E p \in Owners : Decide(p)

SessionSpec == SessionInit /\ [][SessionStep]_session
=============================================================================
