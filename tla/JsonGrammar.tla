------------------------------ MODULE JsonGrammar ------------------------------
(***************************************************************************)
(* What a text denotes, said without a parser: by how it can be taken       *)
(* apart.  The grammar of JSON over the characters of JsonParser, with     *)
(* what is the program's own: a \u takes any four characters, and of the    *)
(* escapes \b, \f and \/ there are none.                                    *)
(*                                                                         *)
(* A part of a text lies between two positions i and j, both included.      *)
(* Each operator yields the set of what such a part denotes, where g is     *)
(* what the smaller parts do.                                              *)
(***************************************************************************)
EXTENDS JsonParser

Blank(text, i, j) == \A r \in i .. j : text[r] = "ws"

\* Where a part begins and ends without the space on both sides.
Heads(text, i, j) == {a \in i .. j : text[a] # "ws" /\ Blank(text, i, a - 1)}
Lasts(text, i, j) == {b \in i .. j : text[b] # "ws" /\ Blank(text, b + 1, j)}

Commas(text, i, j) == {k \in i .. j : text[k] = ","}
Colons(text, i, j) == {k \in i .. j : text[k] = ":"}

Encloses(text, a, b, first, last) == a < b /\ text[a] = first /\ text[b] = last

IsNumber(text, a, b) ==
  \E first \in {a, a + 1} :
    /\ first = a \/ text[a] = "-"
    /\ first <= b /\ \A r \in first .. b : text[r] = "d"

\* Between quotes there are plain characters and escapes.
Spellings(text, g, i, j) ==
  (IF i = j + 1 THEN {<< >>} ELSE {}) \cup
  (IF i <= j /\ text[i] \notin {Quote, Slash}
   THEN {<<text[i]>> \o r : r \in g[<<"characters", i + 1, j>>]} ELSE {}) \cup
  (IF i + 1 <= j /\ text[i] = Slash /\ text[i + 1] \in {"n", "t", "r"}
   THEN {<<Escapes[text[i + 1]]>> \o r : r \in g[<<"characters", i + 2, j>>]} ELSE {}) \cup
  (IF i + 1 <= j /\ text[i] = Slash /\ text[i + 1] \in {Quote, Slash}
   THEN {<<text[i + 1]>> \o r : r \in g[<<"characters", i + 2, j>>]} ELSE {}) \cup
  (IF i + 5 <= j /\ text[i] = Slash /\ text[i + 1] = "u"
   THEN {to_unicode(SubSeq(text, i + 2, i + 5)) \o r : r \in g[<<"characters", i + 6, j>>]}
   ELSE {})

Strings(text, g, a, b) ==
  IF Encloses(text, a, b, Quote, Quote) THEN g[<<"characters", a + 1, b - 1>>] ELSE {}

Lists(text, g, kind, a, b, first, last) ==
  IF ~Encloses(text, a, b, first, last) THEN {}
  ELSE (IF Blank(text, a + 1, b - 1) THEN {<< >>} ELSE {}) \cup g[<<kind, a + 1, b - 1>>]

\* A key has the value with which it occurs first.
Firsts(ms) ==
  LET new == {i \in DOMAIN ms : \A j \in 1 .. i - 1 : ms[j].key # ms[i].key}
      Place(k) == CHOOSE i \in new : ms[i].key = k
  IN  [k \in {ms[i].key : i \in new} |-> ms[Place(k)].value]

\* A value with no space around it, and with it; and a string.
Sole(text, g, a, b) ==
  (IF a = b /\ text[a] = "null" THEN {NullValue} ELSE {}) \cup
  (IF a = b /\ text[a] \in {"true", "false"} THEN {Plain("bool", <<text[a]>>)} ELSE {}) \cup
  (IF IsNumber(text, a, b) THEN {Plain("number", SubSeq(text, a, b))} ELSE {}) \cup
  {Plain("string", c) : c \in Strings(text, g, a, b)} \cup
  {ArrayOf(e) : e \in Lists(text, g, "elements", a, b, "[", "]")} \cup
  {ObjectOf(Firsts(m)) : m \in Lists(text, g, "members", a, b, "{", "}")}
Values(text, g, i, j) ==
  UNION {Sole(text, g, a, b) : a \in Heads(text, i, j), b \in Lasts(text, i, j)}
Keys(text, g, i, j) ==
  UNION {Strings(text, g, a, b) : a \in Heads(text, i, j), b \in Lasts(text, i, j)}

\* Each of some, before each of some lists.
Prefixed(firsts, rests) == {<<first>> \o rest : first \in firsts, rest \in rests}

Elements(text, g, i, j) ==
  {<<v>> : v \in Values(text, g, i, j)} \cup
  UNION {Prefixed(Values(text, g, i, k - 1), g[<<"elements", k + 1, j>>]) : k \in Commas(text, i, j)}

Pairs(text, g, i, j) ==
  UNION {{[key |-> k, value |-> v] :
            k \in Keys(text, g, i, c - 1), v \in Values(text, g, c + 1, j)} : c \in Colons(text, i, j)}
PairLists(text, g, i, j) ==
  {<<m>> : m \in Pairs(text, g, i, j)} \cup
  UNION {Prefixed(Pairs(text, g, i, k - 1), g[<<"members", k + 1, j>>]) : k \in Commas(text, i, j)}

Nested == {"elements", "members", "characters"}

Taken(text, g, part) ==
  CASE part[1] = "elements"   -> Elements(text, g, part[2], part[3])
    [] part[1] = "members"    -> PairLists(text, g, part[2], part[3])
    [] part[1] = "characters" -> Spellings(text, g, part[2], part[3])

Grammar(text) ==
  LET g[part \in Nested \X Positions(text) \X (0 .. Len(text))] == Taken(text, g, part) IN g

Denotes(text, n) == Values(text, Grammar(text), 1, n)

\* The parser accepts just the texts that begin with a value, or are blank, and makes
\* of them what the grammar does, and the grammar only that.
ReadAsDenoted(text) ==
  LET node == Node(text)
  IN  IF node.exc = "none"
      THEN IF Blank(text, 1, Len(text)) THEN node.value = NullValue
           ELSE Denotes(text, node.at - 1) = {node.value}
      ELSE \A n \in 0 .. Len(text) : Denotes(text, n) = {}
==============================================================================
