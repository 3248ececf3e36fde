--------------------------- MODULE MCWireSession ---------------------------
(* WireSession on a small instance.                                         *)
EXTENDS WireSession

\* As the mock server writes the members, backwards, and with the first one last.
ThreeOrders ==
  [n \in 3..5 |-> { [i \in 1..n |-> i],
                    [i \in 1..n |-> n + 1 - i],
                    [i \in 1..n |-> IF i = n THEN 1 ELSE i + 1] }]

\* A life of 20 s is legal and below the margin of DelayFromSeconds.
ShortAndLong == {20, 120}
=============================================================================
