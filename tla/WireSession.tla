----------------------------- MODULE WireSession -----------------------------
(***************************************************************************)
(* AuthSession with the replies of the HTTP server written out.  The server  *)
(* writes them as mock_license_server.cpp does, the one description of its   *)
(* protocol in the repository, but in other orders and with members left out; *)
(* the service understands of them what JsonCodec extracts.                  *)
(***************************************************************************)
EXTENDS AuthSession, JsonCodec, Functions

CONSTANTS Arrangements,  \* the orders in which the server writes the members of a
                         \* reply: Arrangements[n] permutes the members 1..n
          Lives          \* seconds an access token may live

ASSUME ArrangementsAssumption ==
  \A n \in 3..5 : Arrangements[n] \subseteq Bijection(1..n, 1..n)
ASSUME LivesAssumption == Lives \subseteq Nat

VARIABLE reply  \* reply[t]: the object t has received and not yet acted upon

wire == <<auth, op, server, licensed, overlap, reply>>

None == << >>

WireInit == Init /\ reply = [t \in Threads |-> None]
-----------------------------------------------------------------------------
(* What the server sends.  Its texts are the names of what they stand for.   *)

\* The members of an object in other orders.
Orders(object) == {[i \in DOMAIN object |-> object[p[i]]] : p \in Arrangements[Len(object)]}

RefreshReplies ==
  UNION {Orders(<< <<"accessToken", Quoted(access)>>, <<"refreshToken", Quoted(refresh)>>,
                   <<"accessExpiresIn", Number(life)>> >>) :
           access \in {"token", Empty}, refresh \in {"token"}, life \in Lives}

\* GET /api/license/status; a server may leave the ticket out.
StatusReplies(active) ==
  LET has == <<"hasLicense", Number(IF active THEN 1 ELSE 0)>>
      ticket == <<"ticket", Quoted(IF active THEN "ticket" ELSE Empty)>>
      expires == <<"expiresAt", Quoted(IF active THEN "date" ELSE Empty)>>
      life == <<"licenseExpiresIn", Number(IF active THEN 120 ELSE 60)>>
  IN  Orders(<<has, ticket, expires, life>>) \cup Orders(<<has, expires, life>>)

\* POST /api/license/activate; a refused code is answered 400, see Answer.  The
\* ticket may be left to the status request that follows.
ActivateReplies(withTicket) ==
  LET has == <<"hasLicense", Number(1)>>
      ticket == <<"ticket", Quoted("ticket")>>
      expires == <<"expiresAt", Quoted("date")>>
      life == <<"licenseExpiresIn", Number(120)>>
      signature == <<"signature", Quoted("signature")>>
  IN  IF withTicket THEN Orders(<<has, ticket, expires, life, signature>>)
      ELSE Orders(<<has, expires, life, signature>>)

Replies(t) == CASE op[t].at = "refreshHttp" -> RefreshReplies
                [] op[t].at = "queryHttp" -> StatusReplies(op[t].tok \in licensed)
                [] op[t].at = "activateHttp" -> ActivateReplies(TRUE) \cup ActivateReplies(FALSE)
-----------------------------------------------------------------------------
(* What the service makes of it                                             *)

Understood(step, object) ==
  LET json == Text(object)
      ticket == ExtractJsonString(json, "ticket")
      tokens == {ExtractJsonString(json, "accessToken"), ExtractJsonString(json, "refreshToken")}
  IN  CASE step = "refreshHttp" -> IF Empty \in tokens THEN "failed" ELSE "yes"
        [] step = "queryHttp" -> IF ticket # Empty THEN "yes"
                                 ELSE IF ExtractJsonLong(json, "hasLicense", 0) # 0 THEN "flag"
                                 ELSE "no"
        [] step = "activateHttp" -> IF ticket # Empty THEN "yes" ELSE "no"

WriteStep(step) == CASE step = "refreshHttp" -> "refreshWrite"
                     [] step = "queryHttp" -> "queryWrite"
                     [] step = "activateHttp" -> "activateWrite"

\* A reply 2xx.  A ticket in it means that the account has its license.
Receive(t) ==
  /\ server = "up"
  /\ op[t].at \in {"refreshHttp", "queryHttp", "activateHttp"}
  /\ \E object \in Replies(t) :
       /\ reply' = [reply EXCEPT ![t] = object]
       /\ Go(t, WriteStep(op[t].at), op[t].tok, Understood(op[t].at, object), op[t].lic)
       /\ \/ op[t].at = "activateHttp" /\ licensed' = licensed \cup {op[t].tok}
          \/ /\ op[t].at = "activateHttp" => object \in ActivateReplies(FALSE)
             /\ UNCHANGED licensed
  /\ UNCHANGED <<auth, server, overlap>>

\* A reply is dropped with the string that holds it, when the operation returns.
Drop == reply' = [t \in Threads |->
                    IF op'[t].at \in {"refreshWrite", "queryWrite", "activateWrite"}
                    THEN reply[t] ELSE None]

WireNext == \/ \E t \in Threads : Receive(t)
            \/ \E t \in Threads : Answer(t, "failed") /\ Drop
            \/ \E t \in Threads : Compute(t) /\ Drop
            \/ RefreshWork /\ Drop
            \/ \E c \in Callers : Request(c) /\ Drop
            \/ Environment /\ Drop

WireSpec == WireInit /\ [][WireNext]_wire /\ Fairness
-----------------------------------------------------------------------------
(* Properties                                                               *)

\* Searching the text finds what the server said, in whatever order it writes the
\* members: the service never takes a license that the server does not grant, nor
\* misses one, and every exchange is one that AuthSession describes.
WireImplementsSession == Init /\ [][Next]_vars

\* A member of a reply as a parser would find it.
Member(object, key) == {object[i][2].value : i \in {j \in DOMAIN object : object[j][1] = key}}

\* The deadline written for a token or a license lies before the end of its life,
\* if that is longer than the margin of 30 s.  (A shorter life gets the fallback,
\* which is longer.)
AskedAgainInTime ==
  \A t \in Threads : \A m \in {<<"accessExpiresIn", 600>>, <<"licenseExpiresIn", 300>>} :
    LET key == m[1]
        fallback == m[2]
    IN  \A life \in Member(reply[t], key) :
          life > 30 => DelayFromSeconds(ExtractJsonLong(Text(reply[t]), key, fallback), fallback) < life
=============================================================================
