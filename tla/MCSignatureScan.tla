--------------------------- MODULE MCSignatureScan ---------------------------
(* Signatures of two or three bytes over two letters, so that signatures     *)
(* share prefixes, are suffixes of one another and overlap in the text.      *)
EXTENDS SignatureScan

Letters == {"a", "b"}
Words(n) == [1..n -> Letters]
Signatures == Words(2) \cup Words(3)

AllKinds == {"pe", "script"}
Record(p, type, from, to) ==
  [pattern |-> p, kind |-> type, from |-> from, to |-> to]

\* The first record may occur anywhere, the second only at offset 1;
\* the update appends a third one.
AllPairs ==
  {<< <<Record(v, "script", 0, 9), Record(w, k, 1, 1)>>,
      <<Record(<<"a", "b", "b">>, "script", 0, 9)>> >> :
     v \in Words(3), w \in Signatures, k \in AllKinds}

AllTexts == Words(0) \cup Words(4)
=============================================================================
