------------------------------ MODULE JsonCodec ------------------------------
(***************************************************************************)
(* How service.cpp reads the JSON replies of the HTTP server: it does not   *)
(* parse them but searches the text, from the quoted key to the next colon   *)
(* and from there to the next quoted text or number.  A text is a sequence   *)
(* of tokens; braces and commas, at which no search stops, are left out.     *)
(***************************************************************************)
EXTENDS Integers, Sequences

Empty == ""
Quoted(s) == [kind |-> "quoted", text |-> s, value |-> 0]
Number(n) == [kind |-> "number", text |-> Empty, value |-> n]
Colon == [kind |-> "colon", text |-> Empty, value |-> 0]

\* The text of an object, given as the sequence of its members <<key, value>>.
Text(object) ==
  [i \in 1..3 * Len(object) |->
     LET member == object[(i + 2) \div 3]
     IN  CASE i % 3 = 1 -> Quoted(member[1])
           [] i % 3 = 2 -> Colon
           [] i % 3 = 0 -> member[2]]

\* json.find(..., from), of a character at these positions: 0 stands for npos.
Find(positions, from) ==
  LET hits == {i \in positions : i >= from}
  IN  IF from = 0 \/ hits = {} THEN 0 ELSE CHOOSE i \in hits : \A j \in hits : i <= j

Colons(json) == {i \in DOMAIN json : json[i] = Colon}
Quotes(json) == {i \in DOMAIN json : json[i].kind = "quoted"}
Keys(json, key) == {i \in DOMAIN json : json[i] = Quoted(key)}

ColonAfter(json, key) == Find(Colons(json), Find(Keys(json, key), 1))

\* Mutant: the search for the value starts at the first colon of the text.
ExtractJsonString_FirstColon(json, key) ==
  LET value == Find(Quotes(json), Find(Colons(json), 1))
  IN  IF value = 0 THEN Empty ELSE json[value].text

ExtractJsonString(json, key) ==
  LET value == Find(Quotes(json), ColonAfter(json, key))
  IN  IF value = 0 THEN Empty ELSE json[value].text

ExtractJsonLong(json, key, fallback) ==
  LET colon == ColonAfter(json, key)
  IN  IF colon \notin 1..(Len(json) - 1) \/ json[colon + 1].kind # "number" THEN fallback
      ELSE json[colon + 1].value

\* Mutant: the margin is taken from short lives only.
DelayFromSeconds_NoMargin(seconds, fallback) ==
  IF seconds > 30 THEN seconds ELSE fallback

\* The seconds from now at which a deadline is set.
DelayFromSeconds(seconds, fallback) ==
  IF seconds > 30 THEN seconds - 30 ELSE fallback
=============================================================================
