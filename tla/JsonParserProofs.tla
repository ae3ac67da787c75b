--------------------------- MODULE JsonParserProofs ---------------------------
(***************************************************************************)
(* Proofs about JsonParser and JsonGrammar, for every text.                *)
(*                                                                         *)
(* Parser is defined by what is read further on, and the end of a text is the *)
(* last place there is: what holds of a position when it holds of all behind *)
(* it holds of all (FromTheEnd, from the well-foundedness of < on Nat).  In *)
(* this way, there is such a function, and it reads within the text; what it *)
(* makes of a part of a text it makes of the text; what it makes is a value *)
(* whose lists are sequences; and what it reads is in the grammar.          *)
(*                                                                         *)
(* The grammar is defined by smaller parts: what holds of a part when it    *)
(* holds of all that are smaller holds of all (FromTheStart, over sizes).   *)
(* In this way there is such a grammar, and all that is in it is read.      *)
(***************************************************************************)
EXTENDS JsonGrammar, WellFoundedInduction, SequenceTheorems, TLAPS

------------------------------------------------------------------------------
(* From the end of a text *)

LEMMA LeastOf ==
  ASSUME NEW S, S \subseteq Nat, S # {}
  PROVE  \E m \in S : \A n \in S : m <= n
<1>1. PICK m \in S : \A n \in S : ~(<<n, m>> \in OpToRel(<, Nat))
  BY NatLessThanWellFounded, WFMin
<1>2. ASSUME NEW n \in S, n < m  PROVE FALSE
  <2>1. <<n, m>> \in OpToRel(<, Nat)
    BY <1>2 DEF OpToRel
  <2> QED  BY <1>1, <2>1
<1>3. \A n \in S : m <= n
  BY <1>2
<1> QED  BY <1>3

\* What holds of a position when it holds of all behind it, holds of all.
LEMMA FromTheEnd ==
  ASSUME NEW last \in Nat, NEW Good,
         \A p \in 1 .. last : (\A q \in p + 1 .. last : q \in Good) => p \in Good
  PROVE  \A p \in 1 .. last : p \in Good
<1> SUFFICES ASSUME NEW b \in 1 .. last, b \notin Good  PROVE FALSE
  OBVIOUS
<1> DEFINE Rest == {last - p : p \in {q \in 1 .. last : q \notin Good}}
<1>1. Rest \subseteq Nat /\ Rest # {}
  <2>1. last - b \in Rest
    OBVIOUS
  <2> QED  BY <2>1
<1>2. PICK m \in Rest : \A n \in Rest : m <= n
  <2> HIDE DEF Rest
  <2> QED  BY <1>1, LeastOf
<1>3. PICK p \in 1 .. last : p \notin Good /\ m = last - p
  OBVIOUS
<1>4. ASSUME NEW q \in p + 1 .. last, q \notin Good  PROVE FALSE
  <2>1. q \in 1 .. last /\ last - q \in Rest
    BY <1>4
  <2>2. m <= last - q
    BY <2>1, <1>2
  <2> QED  BY <2>2, <1>3
<1> QED  BY <1>3, <1>4

\* What holds of none, and of one more than it holds of, holds of every number.
LEMMA FromTheStart ==
  ASSUME NEW last \in Nat, NEW Good, 0 \in Good, \A n \in 0 .. last - 1 : n \in Good => n + 1 \in Good
  PROVE  \A n \in 0 .. last : n \in Good
<1> SUFFICES ASSUME NEW b \in 0 .. last, b \notin Good  PROVE FALSE
  OBVIOUS
<1> DEFINE Bad == {n \in 0 .. last : n \notin Good}
<1>1. Bad \subseteq Nat /\ Bad # {}
  OBVIOUS
<1>2. PICK m \in Bad : \A n \in Bad : m <= n
  <2> HIDE DEF Bad
  <2> QED  BY <1>1, LeastOf
<1>3. m # 0 /\ m \in 0 .. last /\ m \notin Good
  OBVIOUS
<1>4. m - 1 \in 0 .. last - 1 /\ m - 1 \in 0 .. last /\ m - 1 + 1 = m
  BY <1>3
<1>5. m - 1 \in Good
  <2>1. m - 1 \notin Bad
    <3> HIDE DEF Bad
    <3> QED  BY <1>2, <1>3
  <2> QED  BY <2>1, <1>4
<1> QED  BY <1>3, <1>4, <1>5

------------------------------------------------------------------------------
(* StringPointer *)

LEMMA PositionsOf ==
  ASSUME NEW text \in Texts
  PROVE  /\ Len(text) \in Nat
         /\ Positions(text) = 1 .. Len(text) + 1
         /\ \A p \in 1 .. Len(text) : At(text, p) \in STRING /\ At(text, p) # End
         /\ \A p \in Int : p > Len(text) => At(text, p) = End
BY DEF Texts, Positions, At

LEMMA BehindFinds ==
  ASSUME NEW text \in Texts, NEW p \in Positions(text), NEW c, c # End
  PROVE  /\ Behind(text, p, c) \in p .. Len(text) + 1
         /\ At(text, Behind(text, p, c)) # c
         /\ \A r \in p .. Behind(text, p, c) - 1 : At(text, r) = c
<1> DEFINE S == {q \in p .. Len(text) + 1 : At(text, q) # c}
<1>0. Len(text) \in Nat /\ p \in 1 .. Len(text) + 1 /\ At(text, Len(text) + 1) = End
  BY PositionsOf
<1>1. S \subseteq Nat /\ S # {}
  <2>1. Len(text) + 1 \in S
    BY <1>0
  <2> QED  BY <2>1, <1>0
<1>2. PICK m \in S : \A n \in S : m <= n
  <2> HIDE DEF S
  <2> QED  BY <1>1, LeastOf
<1>3. ASSUME NEW r \in p .. m - 1  PROVE At(text, r) = c
  <2>1. r \in p .. Len(text) + 1
    BY <1>0, <1>2
  <2>2. r \notin S
    BY <1>2, <1>0
  <2> QED  BY <2>1, <2>2
<1>4. \E q \in p .. Len(text) + 1 : At(text, q) # c /\ \A r \in p .. q - 1 : At(text, r) = c
  BY <1>2, <1>3
<1> QED  BY <1>4 DEF Behind

LEMMA BehindIs ==
  ASSUME NEW text \in Texts, NEW p \in Positions(text), NEW c, c # End,
         NEW q \in p .. Len(text) + 1, At(text, q) # c, \A r \in p .. q - 1 : At(text, r) = c
  PROVE  Behind(text, p, c) = q
<1>0. Len(text) \in Nat /\ p \in 1 .. Len(text) + 1
  BY PositionsOf
<1>1. /\ Behind(text, p, c) \in p .. Len(text) + 1
      /\ At(text, Behind(text, p, c)) # c
      /\ \A r \in p .. Behind(text, p, c) - 1 : At(text, r) = c
  BY BehindFinds
<1> DEFINE b == Behind(text, p, c)
<1> HIDE DEF b
<1>2. b \in p .. Len(text) + 1 /\ At(text, b) # c /\ \A r \in p .. b - 1 : At(text, r) = c
  BY <1>1 DEF b
<1>3. ~(b < q) /\ ~(q < b)
  BY <1>2, <1>0
<1> QED  BY <1>2, <1>3, <1>0 DEF b

------------------------------------------------------------------------------
(* What the functions do, case by case *)

\* Characters, and an exception, by name.
Opening  == "{"
Closing  == "}"
Comma    == ","
CutShort == "char const*"

LEMMA Names ==
  /\ Opening \notin {Closing, Comma, End, Quote, "[", "]"}
  /\ Closing \notin {Comma, End, "d", "ws", ":"}
  /\ Comma \notin {"[", "]", End}
  /\ "]" \notin {"[", End} /\ "[" # End /\ ":" # End /\ Quote # End /\ "d" # End
  /\ CutShort \notin {"none", "ParseException", "undefined", "std::string"}
BY DEF Opening, Closing, Comma, CutShort, Quote, End

LEMMA EndOf ==
  ASSUME NEW text \in Texts, NEW p \in Positions(text)
  PROVE  /\ Len(text) \in Nat /\ p \in 1 .. Len(text) + 1
         /\ p <= Len(text) <=> At(text, p) # End
         /\ ~(p <= Len(text)) => p = Len(text) + 1
<1>1. Len(text) \in Nat /\ p \in 1 .. Len(text) + 1
  BY PositionsOf
<1>2. CASE p <= Len(text)
  <2>1. p \in 1 .. Len(text)
    BY <1>1, <1>2
  <2> QED  BY <1>1, <1>2, <2>1, PositionsOf
<1>3. CASE p > Len(text)
  BY <1>1, <1>3, PositionsOf
<1> QED  BY <1>1, <1>2, <1>3

\* Space ends, at the latest where the text does.
LEMMA BlankUpTo ==
  ASSUME NEW text \in Texts, NEW p \in Positions(text)
  PROVE  /\ whitespace(text, p) \in p .. Len(text) + 1
         /\ whitespace(text, p) \in Positions(text)
         /\ At(text, whitespace(text, p)) # "ws"
         /\ \A r \in p .. whitespace(text, p) - 1 : At(text, r) = "ws"
BY BehindFinds, PositionsOf DEF whitespace, End

LEMMA JoinedOf ==
  ASSUME NEW first, NEW rest
  PROVE  /\ Joined(first, rest).exc = rest.exc
         /\ Joined(first, rest).at = rest.at
BY DEF Joined, Parsed

LEMMA MadeOf ==
  ASSUME NEW value, NEW contents
  PROVE  /\ Made(value, contents).exc = contents.exc
         /\ Made(value, contents).at = contents.at
         /\ contents.exc = "none" => Made(value, contents).value = value
BY DEF Made, Parsed

LEMMA ParsedOf ==
  ASSUME NEW value, NEW p
  PROVE  Parsed(value, p).exc = "none" /\ Parsed(value, p).at = p /\ Parsed(value, p).value = value
BY DEF Parsed

LEMMA ThrowOf ==
  ASSUME NEW exc, NEW p
  PROVE  Throw(exc, p).exc = exc /\ Throw(exc, p).at = p
BY DEF Throw

\* What escaped_string does at a position, and how far it gets.
Spelled(first, rest) ==
  IF rest.exc # "none" THEN rest ELSE Parsed(first \o rest.value, rest.at)

LEMMA SpelledOf ==
  ASSUME NEW first, NEW rest
  PROVE  /\ Spelled(first, rest).exc = rest.exc
         /\ Spelled(first, rest).at = rest.at
BY DEF Spelled, Parsed

LEMMA CharactersCases ==
  ASSUME NEW text \in Texts, NEW p \in Positions(text), NEW f
  PROVE  LET r == Characters(text, f, p)
             c == At(text, p)
             e == At(text, p + 1)
         IN  \/ /\ p <= Len(text) /\ c = Quote
                /\ r = Parsed(<< >>, p + 1) /\ r.at = p + 1
             \/ /\ p = Len(text) + 1
                /\ r = Throw("ParseException", p) /\ r.at = p
             \/ /\ p + 1 <= Len(text) /\ c = Slash /\ e \in {"n", "t", "r"}
                /\ r = Joined(Escapes[e], f[<<"characters", p + 2>>])
                /\ r.at = f[<<"characters", p + 2>>].at
             \/ /\ p + 1 <= Len(text) /\ c = Slash /\ e \in {Slash, Quote}
                /\ r = Joined(e, f[<<"characters", p + 2>>])
                /\ r.at = f[<<"characters", p + 2>>].at
             \/ /\ p + 5 > Len(text) /\ c = Slash /\ e = "u"
                /\ r = Throw("undefined", Len(text) + 1) /\ r.at = Len(text) + 1
             \/ /\ p + 5 <= Len(text) /\ c = Slash /\ e = "u"
                /\ r = Spelled(to_unicode(SubSeq(text, p + 2, p + 5)), f[<<"characters", p + 6>>])
                /\ r.at = f[<<"characters", p + 6>>].at
             \/ /\ p <= Len(text) /\ c = Slash /\ e \notin {"n", "t", "r", "u", Slash, Quote}
                /\ r = Throw("ParseException", p + 1) /\ r.at = p + 1
             \/ /\ p <= Len(text) /\ c \notin {Quote, Slash, End}
                /\ r = Joined(c, f[<<"characters", p + 1>>])
                /\ r.at = f[<<"characters", p + 1>>].at
<1> DEFINE c == At(text, p)
           e == At(text, p + 1)
           L == Len(text)
           r == Characters(text, f, p)
<1>0. L \in Nat /\ p \in 1 .. L + 1
  BY PositionsOf
<1>1. (p <= L <=> c # End) /\ (p + 1 <= L <=> e # End)
  BY <1>0, PositionsOf
<1>2. DOMAIN Escapes = {"n", "t", "r"}
  BY DEF Escapes
<1>3. \/ c = Quote
      \/ c = End
      \/ c = Slash /\ e \in {"n", "t", "r"}
      \/ c = Slash /\ e \in {Slash, Quote}
      \/ c = Slash /\ e = "u" /\ p + 5 > L
      \/ c = Slash /\ e = "u" /\ p + 5 <= L
      \/ c = Slash /\ e \notin {"n", "t", "r", "u", Slash, Quote}
      \/ c \notin {Quote, End, Slash}
  BY <1>0
<1>a. CASE c = Quote
  <2>1. r = Parsed(<< >>, p + 1)
    BY <1>a, <1>2 DEF Characters, Quote, End, Slash
  <2>9. r.at = p + 1
    BY <2>1, ParsedOf
  <2> QED  BY <2>9, <2>1, <1>1, <1>a DEF Quote, End
<1>b. CASE c = End
  <2>1. r = Throw("ParseException", p)
    BY <1>b, <1>2 DEF Characters, Quote, End, Slash
  <2>2. p = L + 1
    BY <1>b, <1>1, <1>0
  <2>9. r.at = p
    BY <2>1, ThrowOf
  <2> QED  BY <2>9, <2>1, <2>2
<1>c. CASE c = Slash /\ e \in {"n", "t", "r"}
  <2>1. r = Joined(Escapes[e], f[<<"characters", p + 2>>])
    BY <1>c, <1>2 DEF Characters, Quote, End, Slash
  <2>2. p + 1 <= L
    BY <1>c, <1>1 DEF End
  <2>9. r.at = f[<<"characters", p + 2>>].at
    BY <2>1, JoinedOf
  <2> QED  BY <2>9, <2>1, <2>2, <1>c
<1>d. CASE c = Slash /\ e \in {Slash, Quote}
  <2>1. r = Joined(e, f[<<"characters", p + 2>>])
    BY <1>d, <1>2 DEF Characters, Quote, End, Slash
  <2>2. p + 1 <= L
    BY <1>d, <1>1 DEF End, Slash, Quote
  <2>9. r.at = f[<<"characters", p + 2>>].at
    BY <2>1, JoinedOf
  <2> QED  BY <2>9, <2>1, <2>2, <1>d
<1>e. CASE c = Slash /\ e = "u" /\ p + 5 > L
  <2>1. ~(p + 5 <= L)
    BY <1>e, <1>0
  <2>2. r = Throw("undefined", L + 1)
    BY <1>e, <1>2, <2>1 DEF Characters, Quote, End, Slash
  <2>9. r.at = L + 1
    BY <2>2, ThrowOf
  <2> QED  BY <2>9, <2>2, <1>e
<1>f. CASE c = Slash /\ e = "u" /\ p + 5 <= L
  <2>1. ~(p + 5 > L)
    BY <1>f, <1>0
  <2>2. r = Spelled(to_unicode(SubSeq(text, p + 2, p + 5)), f[<<"characters", p + 6>>])
    BY <1>f, <1>2, <2>1 DEF Characters, Quote, End, Slash, Spelled
  <2>9. r.at = f[<<"characters", p + 6>>].at
    BY <2>2, SpelledOf
  <2> QED  BY <2>9, <2>2, <1>f
<1>g. CASE c = Slash /\ e \notin {"n", "t", "r", "u", Slash, Quote}
  <2>1. r = Throw("ParseException", p + 1)
    BY <1>g, <1>2 DEF Characters, Quote, End, Slash
  <2>2. p <= L
    BY <1>g, <1>1 DEF End, Slash
  <2>9. r.at = p + 1
    BY <2>1, ThrowOf
  <2> QED  BY <2>9, <2>1, <2>2, <1>g
<1>h. CASE c \notin {Quote, End, Slash}
  <2>1. r = Joined(c, f[<<"characters", p + 1>>])
    BY <1>h DEF Characters
  <2>2. p <= L
    BY <1>h, <1>1
  <2>9. r.at = f[<<"characters", p + 1>>].at
    BY <2>1, JoinedOf
  <2> QED  BY <2>9, <2>1, <2>2, <1>h
<1> QED  BY <1>3, <1>a, <1>b, <1>c, <1>d, <1>e, <1>f, <1>g, <1>h

LEMMA StringCases ==
  ASSUME NEW text \in Texts, NEW p \in Positions(text), NEW f
  PROVE  LET r == escaped_string(text, f, p)
         IN  \/ p <= Len(text) /\ At(text, p) = Quote /\ r = f[<<"characters", p + 1>>]
             \/ At(text, p) # Quote /\ r = Throw("ParseException", p)
<1>1. At(text, p) = Quote => p <= Len(text)
  BY EndOf DEF Quote, End
<1> QED  BY <1>1 DEF escaped_string

LEMMA NumberCases ==
  ASSUME NEW text \in Texts, NEW p \in Positions(text)
  PROVE  LET r == number_str(text, p)
             first == IF At(text, p) = "-" THEN p + 1 ELSE p
             last == Behind(text, first, "d")
         IN  /\ first \in p .. Len(text) + 1 /\ last \in first .. Len(text) + 1
             /\ \/ last = first /\ r = Throw("ParseException", first)
                \/ last # first /\ r = Parsed(Plain("number", SubSeq(text, p, last - 1)), last)
<1> DEFINE first == IF At(text, p) = "-" THEN p + 1 ELSE p
           last == Behind(text, first, "d")
<1>0. Len(text) \in Nat /\ p \in 1 .. Len(text) + 1
  BY PositionsOf
<1>1. At(text, p) = "-" => p <= Len(text)
  BY <1>0, PositionsOf DEF End
<1>2. first \in p .. Len(text) + 1 /\ first \in Positions(text)
  BY <1>0, <1>1, PositionsOf
<1>3. last \in first .. Len(text) + 1
  <2> HIDE DEF first
  <2> QED  BY <1>2, BehindFinds DEF End
<1> QED  BY <1>2, <1>3 DEF number_str

\* Where Object looks for a key, and for the value behind it, and Array for an element.
NextAt(text, p)    == whitespace(text, whitespace(text, p) + 1)
KeyAt(text, f, p)  == escaped_string(text, f, NextAt(text, p))
ColonAt(text, f, p) == whitespace(text, KeyAt(text, f, p).at)
MemberValue(text, f, p)  == f[<<"value", ColonAt(text, f, p) + 1>>]
ElementValue(text, f, p) == f[<<"value", NextAt(text, p)>>]
IsDelimiter(delimiter, close) == delimiter # close /\ delimiter # End
EmptyAt(text, p, delimiter, open, close) ==
  delimiter = open /\ At(text, NextAt(text, p)) = close

LEMMA ObjectCases ==
  ASSUME NEW text \in Texts, NEW p \in Positions(text), NEW f, NEW delimiter, IsDelimiter(delimiter, Closing)
  PROVE  LET r == Object(text, f, p, delimiter)
             q == whitespace(text, p)
             c == At(text, q)
             key == KeyAt(text, f, p)
             colon == ColonAt(text, f, p)
             value == MemberValue(text, f, p)
             more == ~EmptyAt(text, p, delimiter, Opening, Closing)
         IN  \/ /\ q <= Len(text) /\ c = delimiter /\ ~more
                /\ r = Parsed(<< >>, NextAt(text, p) + 1) /\ r.at = NextAt(text, p) + 1
             \/ /\ q <= Len(text) /\ c = delimiter /\ more
                /\ \/ key.exc # "none" /\ r = key
                   \/ /\ key.exc = "none" /\ At(text, colon) # ":"
                      /\ r = Throw("std::string", colon) /\ r.at = colon
                   \/ /\ key.exc = "none" /\ At(text, colon) = ":"
                      /\ \/ value.exc # "none" /\ r = value
                         \/ /\ value.exc = "none"
                            /\ r = Joined([key |-> key.value, value |-> value.value],
                                          f[<<"members", value.at>>])
                            /\ r.at = f[<<"members", value.at>>].at
             \/ /\ q <= Len(text) /\ c = Closing
                /\ r = Parsed(<< >>, q + 1) /\ r.at = q + 1
             \/ /\ q = Len(text) + 1
                /\ r = Throw(CutShort, q) /\ r.at = q
             \/ /\ q <= Len(text) /\ c \notin {delimiter, Closing}
                /\ r = Throw("std::string", q) /\ r.at = q
<1> DEFINE q == whitespace(text, p)
           c == At(text, q)
           r == Object(text, f, p, delimiter)
           key == KeyAt(text, f, p)
           colon == ColonAt(text, f, p)
           val == MemberValue(text, f, p)
           more == ~EmptyAt(text, p, delimiter, Opening, Closing)
<1>1. (q <= Len(text) <=> c # End) /\ (~(q <= Len(text)) => q = Len(text) + 1)
  BY BlankUpTo, EndOf
<1>2. delimiter # Closing /\ delimiter # End
  BY DEF IsDelimiter
<1>a. CASE c = delimiter /\ ~more
  <2>1. r = Parsed(<< >>, NextAt(text, p) + 1)
    BY <1>2, <1>a DEF Object, Opening, Closing, NextAt, EmptyAt
  <2>0. Parsed(<< >>, NextAt(text, p) + 1).at = NextAt(text, p) + 1
    BY ParsedOf
  <2>2. r.at = NextAt(text, p) + 1
    BY <2>1, <2>0, Zenon
  <2> QED  BY <2>1, <2>2, <1>a, <1>1, <1>2
<1>b. CASE c = delimiter /\ more
  <2>1. r = IF key.exc # "none" THEN key
            ELSE IF At(text, colon) # ":" THEN Throw("std::string", colon)
            ELSE IF val.exc # "none" THEN val
            ELSE Joined([key |-> key.value, value |-> val.value], f[<<"members", val.at>>])
    BY <1>2, <1>b DEF Object, Opening, Closing, NextAt, EmptyAt, KeyAt, ColonAt, MemberValue
  <2>2. Throw("std::string", colon).at = colon
    BY ThrowOf
  <2>3. Joined([key |-> key.value, value |-> val.value], f[<<"members", val.at>>]).at
          = f[<<"members", val.at>>].at
    BY JoinedOf
  <2> QED  BY <2>1, <2>2, <2>3, <1>b, <1>1, <1>2
<1>c. CASE c = Closing
  <2>1. r = Parsed(<< >>, q + 1)
    BY <1>2, <1>c DEF Object, Opening, Closing
  <2>0. Parsed(<< >>, q + 1).at = q + 1
    BY ParsedOf
  <2>2. r.at = q + 1
    BY <2>1, <2>0, Zenon
  <2> QED  BY <2>1, <2>2, <1>c, <1>1, <1>2, Names
<1>d. CASE c = End
  <2>1. r = Throw(CutShort, q)
    BY <1>2, <1>d DEF Object, Opening, Closing, Unexpected, End, CutShort
  <2>2. r.at = q
    BY <2>1, ThrowOf
  <2> QED  BY <2>1, <2>2, <1>d, <1>1
<1>e. CASE c \notin {delimiter, Closing, End}
  <2>1. r = Throw("std::string", q)
    BY <1>2, <1>e DEF Object, Opening, Closing, Unexpected
  <2>2. r.at = q
    BY <2>1, ThrowOf
  <2> QED  BY <2>1, <2>2, <1>e, <1>1
<1> QED  BY <1>a, <1>b, <1>c, <1>d, <1>e

LEMMA ArrayCases ==
  ASSUME NEW text \in Texts, NEW p \in Positions(text), NEW f, NEW delimiter, IsDelimiter(delimiter, "]")
  PROVE  LET r == Array(text, f, p, delimiter)
             q == whitespace(text, p)
             c == At(text, q)
             value == ElementValue(text, f, p)
             more == ~EmptyAt(text, p, delimiter, "[", "]")
         IN  \/ /\ q <= Len(text) /\ c = delimiter /\ ~more
                /\ r = Parsed(<< >>, NextAt(text, p) + 1) /\ r.at = NextAt(text, p) + 1
             \/ /\ q <= Len(text) /\ c = delimiter /\ more
                /\ \/ value.exc # "none" /\ r = value
                   \/ /\ value.exc = "none"
                      /\ r = Joined(value.value, f[<<"elements", value.at>>])
                      /\ r.at = f[<<"elements", value.at>>].at
             \/ /\ q <= Len(text) /\ c = "]"
                /\ r = Parsed(<< >>, q + 1) /\ r.at = q + 1
             \/ /\ q = Len(text) + 1
                /\ r = Throw(CutShort, q) /\ r.at = q
             \/ /\ q <= Len(text) /\ c \notin {delimiter, "]"}
                /\ r = Throw("std::string", q) /\ r.at = q
<1> DEFINE q == whitespace(text, p)
           c == At(text, q)
           r == Array(text, f, p, delimiter)
           val == ElementValue(text, f, p)
           more == ~EmptyAt(text, p, delimiter, "[", "]")
<1>1. (q <= Len(text) <=> c # End) /\ (~(q <= Len(text)) => q = Len(text) + 1)
  BY BlankUpTo, EndOf
<1>2. delimiter # "]" /\ delimiter # End
  BY DEF IsDelimiter
<1>a. CASE c = delimiter /\ ~more
  <2>1. r = Parsed(<< >>, NextAt(text, p) + 1)
    BY <1>2, <1>a DEF Array, NextAt, EmptyAt
  <2>0. Parsed(<< >>, NextAt(text, p) + 1).at = NextAt(text, p) + 1
    BY ParsedOf
  <2>2. r.at = NextAt(text, p) + 1
    BY <2>1, <2>0, Zenon
  <2> QED  BY <2>1, <2>2, <1>a, <1>1, <1>2
<1>b. CASE c = delimiter /\ more
  <2>1. r = IF val.exc # "none" THEN val
            ELSE Joined(val.value, f[<<"elements", val.at>>])
    BY <1>2, <1>b DEF Array, NextAt, EmptyAt, ElementValue
  <2>2. Joined(val.value, f[<<"elements", val.at>>]).at = f[<<"elements", val.at>>].at
    BY JoinedOf
  <2> QED  BY <2>1, <2>2, <1>b, <1>1, <1>2
<1>c. CASE c = "]"
  <2>1. r = Parsed(<< >>, q + 1)
    BY <1>2, <1>c DEF Array
  <2>0. Parsed(<< >>, q + 1).at = q + 1
    BY ParsedOf
  <2>2. r.at = q + 1
    BY <2>1, <2>0, Zenon
  <2> QED  BY <2>1, <2>2, <1>c, <1>1, <1>2, Names
<1>d. CASE c = End
  <2>1. r = Throw(CutShort, q)
    BY <1>2, <1>d DEF Array, Unexpected, End, CutShort
  <2>2. r.at = q
    BY <2>1, ThrowOf
  <2> QED  BY <2>1, <2>2, <1>d, <1>1
<1>e. CASE c \notin {delimiter, "]", End}
  <2>1. r = Throw("std::string", q)
    BY <1>2, <1>e DEF Array, Unexpected
  <2>2. r.at = q
    BY <2>1, ThrowOf
  <2> QED  BY <2>1, <2>2, <1>e, <1>1
<1> QED  BY <1>a, <1>b, <1>c, <1>d, <1>e

LEMMA ValueCases ==
  ASSUME NEW text \in Texts, NEW p \in Positions(text), NEW f
  PROVE  LET r == Value(text, f, p)
             q == whitespace(text, p)
             c == At(text, q)
             object == Object(text, f, q, Opening)
             array == Array(text, f, q, "[")
             chars == escaped_string(text, f, q)
         IN  \/ q = Len(text) + 1 /\ r = Parsed(NullValue, q)
             \/ /\ q <= Len(text)
                /\ \/ c = Opening /\ r = Made(ObjectOf(Emplaced(object.value)), object)
                   \/ c = "[" /\ r = Made(ArrayOf(array.value), array)
                   \/ c = Quote /\ r = Made(Plain("string", chars.value), chars)
                   \/ c \in {"true", "false"} /\ r = Parsed(Plain("bool", <<c>>), q + 1)
                   \/ c = "null" /\ r = Parsed(NullValue, q + 1)
                   \/ c \in {"d", "-"} /\ r = number_str(text, q)
                   \/ /\ c \notin {Opening, "[", Quote, "true", "false", "null", "d", "-"}
                      /\ r \in {Throw("std::string", q), Throw("undefined", Len(text) + 1)}
<1> DEFINE q == whitespace(text, p)
           c == At(text, q)
           r == Value(text, f, p)
           object == Object(text, f, q, Opening)
           array == Array(text, f, q, "[")
           chars == escaped_string(text, f, q)
<1>1. (q <= Len(text) <=> c # End) /\ (~(q <= Len(text)) => q = Len(text) + 1)
  BY BlankUpTo, EndOf
<1>a. CASE c = End
  <2>1. r = Parsed(NullValue, q)
    BY <1>a DEF Value, Opening, End, Quote
  <2> QED  BY <2>1, <1>a, <1>1
<1>b. CASE c = Opening
  <2>1. r = Made(ObjectOf(Emplaced(object.value)), object)
    BY <1>b DEF Value, Opening, End, Quote
  <2> QED  BY <2>1, <1>b, <1>1, Names
<1>c. CASE c = "["
  <2>1. r = Made(ArrayOf(array.value), array)
    BY <1>c DEF Value, Opening, End, Quote
  <2> QED  BY <2>1, <1>c, <1>1 DEF End
<1>d. CASE c = Quote
  <2>1. r = Made(Plain("string", chars.value), chars)
    BY <1>d DEF Value, Opening, End, Quote
  <2> QED  BY <2>1, <1>d, <1>1 DEF End, Quote
<1>e. CASE c \in {"true", "false"}
  <2>1. r = Parsed(Plain("bool", <<c>>), q + 1)
    BY <1>e DEF Value, Opening, End, Quote
  <2> QED  BY <2>1, <1>e, <1>1 DEF End
<1>f. CASE c = "null"
  <2>1. r = Parsed(NullValue, q + 1)
    BY <1>f DEF Value, Opening, End, Quote
  <2> QED  BY <2>1, <1>f, <1>1 DEF End
<1>g. CASE c \in {"d", "-"}
  <2>1. r = number_str(text, q)
    BY <1>g DEF Value, Opening, End, Quote
  <2> QED  BY <2>1, <1>g, <1>1 DEF End
<1>h. CASE c \notin {End, Opening, "[", Quote, "true", "false", "null", "d", "-", "t", "f", "n"}
  <2>1. r = Throw("std::string", q)
    BY <1>h DEF Value, Opening
  <2> QED  BY <2>1, <1>h, <1>1
<1>i. CASE c \in {"t", "f", "n"}
  <2>1. r \in {Misspelt(text, q, 5), Misspelt(text, q, 4)}
    BY <1>i DEF Value, Opening, End, Quote
  <2>2. \A k : Misspelt(text, q, k) \in {Throw("std::string", q), Throw("undefined", Len(text) + 1)}
    BY DEF Misspelt
  <2>3. c \notin {End, Opening, "[", Quote, "true", "false", "null", "d", "-"}
    BY <1>i DEF Opening, End, Quote
  <2> QED  BY <2>1, <2>2, <2>3, <1>1
<1> QED  BY <1>a, <1>b, <1>c, <1>d, <1>e, <1>f, <1>g, <1>h, <1>i

------------------------------------------------------------------------------
(* Each reads on from further positions, and depends on nothing else *)

\* What lies ahead of a position is read up to somewhere within the text, and two
\* agree about it.
Ahead(text, p, f) ==
  \A kind \in Kinds : \A q \in p + 1 .. Len(text) + 1 : f[<<kind, q>>].at \in q .. Len(text) + 1
SameAhead(text, p, f, g) ==
  \A kind \in Kinds : \A q \in p + 1 .. Len(text) + 1 : f[<<kind, q>>] = g[<<kind, q>>]

LEMMA AheadOf ==
  ASSUME NEW text \in Texts, NEW p \in Positions(text), NEW f, Ahead(text, p, f),
         NEW kind \in Kinds, NEW q \in p + 1 .. Len(text) + 1
  PROVE  f[<<kind, q>>].at \in p + 1 .. Len(text) + 1 /\ f[<<kind, q>>].at \in q .. Len(text) + 1
<1>1. f[<<kind, q>>].at \in q .. Len(text) + 1
  BY DEF Ahead
<1> DEFINE a == f[<<kind, q>>].at
<1> HIDE DEF a
<1>2. a \in q .. Len(text) + 1 => a \in p + 1 .. Len(text) + 1
  BY EndOf
<1> QED  BY <1>1, <1>2 DEF a

LEMMA SameOf ==
  ASSUME NEW text, NEW p, NEW f, NEW g, SameAhead(text, p, f, g),
         NEW kind \in Kinds, NEW q \in p + 1 .. Len(text) + 1
  PROVE  f[<<kind, q>>] = g[<<kind, q>>]
BY DEF SameAhead

\* The same from a position further on.
LEMMA FurtherAhead ==
  ASSUME NEW text \in Texts, NEW p \in Positions(text), NEW q \in p .. Len(text) + 1
  PROVE  /\ \A f : Ahead(text, p, f) => Ahead(text, q, f)
         /\ \A f, g : SameAhead(text, p, f, g) => SameAhead(text, q, f, g)
<1>1. \A i \in q + 1 .. Len(text) + 1 : i \in p + 1 .. Len(text) + 1
  BY EndOf
<1> QED  BY <1>1 DEF Ahead, SameAhead

LEMMA CharactersAt ==
  ASSUME NEW text \in Texts, NEW p \in Positions(text), NEW f, Ahead(text, p, f)
  PROVE  Characters(text, f, p).at \in p .. Len(text) + 1
<1>0. Len(text) \in Nat /\ p \in 1 .. Len(text) + 1 /\ "characters" \in Kinds
  BY EndOf DEF Kinds
<1>1. \A q \in p + 1 .. Len(text) + 1 : f[<<"characters", q>>].at \in q .. Len(text) + 1
  BY <1>0, AheadOf, SameOf
<1>2. /\ p + 1 <= Len(text) + 1 => f[<<"characters", p + 1>>].at \in p .. Len(text) + 1
      /\ p + 2 <= Len(text) + 1 => f[<<"characters", p + 2>>].at \in p .. Len(text) + 1
      /\ p + 6 <= Len(text) + 1 => f[<<"characters", p + 6>>].at \in p .. Len(text) + 1
  BY <1>0, <1>1
<1> DEFINE a == Characters(text, f, p).at
<1>3. \/ p <= Len(text) /\ a = p + 1
      \/ a \in {p, Len(text) + 1}
      \/ p <= Len(text) /\ a = f[<<"characters", p + 1>>].at
      \/ p + 1 <= Len(text) /\ a = f[<<"characters", p + 2>>].at
      \/ p + 5 <= Len(text) /\ a = f[<<"characters", p + 6>>].at
  BY CharactersCases
<1> HIDE DEF a
<1>4. a \in p .. Len(text) + 1
  BY <1>0, <1>2, <1>3
<1> QED  BY <1>4 DEF a

LEMMA CharactersSame ==
  ASSUME NEW text \in Texts, NEW p \in Positions(text), NEW f, Ahead(text, p, f),
         NEW g, SameAhead(text, p, f, g)
  PROVE  Characters(text, f, p) = Characters(text, g, p)
<1>0. Len(text) \in Nat /\ p \in 1 .. Len(text) + 1 /\ "characters" \in Kinds
  BY EndOf DEF Kinds
<1>1. \A q \in p + 1 .. Len(text) + 1 : f[<<"characters", q>>] = g[<<"characters", q>>]
  BY <1>0, AheadOf, SameOf
<1>2. /\ p + 1 <= Len(text) + 1 => f[<<"characters", p + 1>>] = g[<<"characters", p + 1>>]
      /\ p + 2 <= Len(text) + 1 => f[<<"characters", p + 2>>] = g[<<"characters", p + 2>>]
      /\ p + 6 <= Len(text) + 1 => f[<<"characters", p + 6>>] = g[<<"characters", p + 6>>]
  BY <1>0, <1>1
<1>3. /\ At(text, p) # End => f[<<"characters", p + 1>>] = g[<<"characters", p + 1>>]
      /\ At(text, p + 1) # End => f[<<"characters", p + 2>>] = g[<<"characters", p + 2>>]
      /\ p + 5 <= Len(text) => f[<<"characters", p + 6>>] = g[<<"characters", p + 6>>]
  BY <1>0, <1>2, PositionsOf
<1>4. DOMAIN Escapes = {"n", "t", "r"}
  BY DEF Escapes
<1> QED  BY <1>3, <1>4 DEF Characters, Quote, Slash, End

LEMMA StringStep ==
  ASSUME NEW text \in Texts, NEW p \in Positions(text), NEW f, Ahead(text, p, f)
  PROVE  /\ escaped_string(text, f, p).at \in p .. Len(text) + 1
         /\ \A g : SameAhead(text, p, f, g) => escaped_string(text, f, p) = escaped_string(text, g, p)
<1>0. Len(text) \in Nat /\ p \in 1 .. Len(text) + 1 /\ "characters" \in Kinds
  BY EndOf DEF Kinds
<1>1. CASE p <= Len(text) /\ At(text, p) = Quote
  <2>1. /\ f[<<"characters", p + 1>>].at \in p + 1 .. Len(text) + 1
        /\ \A g : SameAhead(text, p, f, g) => f[<<"characters", p + 1>>] = g[<<"characters", p + 1>>]
    BY <1>0, <1>1, AheadOf, SameOf
  <2>2. \A g : escaped_string(text, g, p) = g[<<"characters", p + 1>>]
    BY <1>1 DEF escaped_string
  <2> QED  BY <1>0, <2>1, <2>2
<1>2. CASE At(text, p) # Quote
  <2>1. \A g : escaped_string(text, g, p) = Throw("ParseException", p)
    BY <1>2 DEF escaped_string
  <2> QED  BY <1>0, <2>1, ThrowOf
<1> QED  BY <1>1, <1>2, StringCases

\* The places Object and Array come to.
LEMMA Places ==
  ASSUME NEW text \in Texts, NEW p \in Positions(text), whitespace(text, p) <= Len(text)
  PROVE  /\ whitespace(text, p) \in p .. Len(text)
         /\ NextAt(text, p) \in p + 1 .. Len(text) + 1 /\ NextAt(text, p) \in Positions(text)
         /\ \A c : c # End /\ At(text, NextAt(text, p)) = c => NextAt(text, p) \in p + 1 .. Len(text)
<1> DEFINE q == whitespace(text, p)
           next == NextAt(text, p)
<1>0. Len(text) \in Nat /\ p \in 1 .. Len(text) + 1 /\ q \in p .. Len(text) + 1
  BY EndOf, BlankUpTo
<1>1. q + 1 \in Positions(text)
  BY <1>0, PositionsOf
<1>2. next \in q + 1 .. Len(text) + 1 /\ next \in Positions(text)
  BY <1>1, BlankUpTo DEF NextAt
<1> HIDE DEF q, next
<1>3. q \in p .. Len(text) /\ next \in p + 1 .. Len(text) + 1
  BY <1>0, <1>1, <1>2 DEF q
<1>4. ASSUME NEW c, c # End, At(text, next) = c
      PROVE  next \in p + 1 .. Len(text)
  <2>1. next <= Len(text)
    BY <1>2, <1>4, EndOf
  <2> QED  BY <2>1, <1>0, <1>3
<1> QED  BY <1>2, <1>3, <1>4 DEF q, next

LEMMA MemberPlaces ==
  ASSUME NEW text \in Texts, NEW p \in Positions(text), NEW f, Ahead(text, p, f),
         whitespace(text, p) <= Len(text)
  PROVE  /\ KeyAt(text, f, p).at \in p + 1 .. Len(text) + 1
         /\ ColonAt(text, f, p) \in p + 1 .. Len(text) + 1
         /\ At(text, ColonAt(text, f, p)) = ":" =>
              /\ ColonAt(text, f, p) \in p + 1 .. Len(text)
              /\ ColonAt(text, f, p) + 1 \in p + 1 .. Len(text) + 1
              /\ MemberValue(text, f, p).at \in p + 1 .. Len(text) + 1
<1> DEFINE next == NextAt(text, p)
           a == KeyAt(text, f, p).at
           colon == ColonAt(text, f, p)
<1>0. Len(text) \in Nat /\ p \in 1 .. Len(text) + 1 /\ "value" \in Kinds
  BY EndOf DEF Kinds
<1>1. next \in p + 1 .. Len(text) + 1 /\ next \in Positions(text)
  BY Places
<1>2. next \in p .. Len(text) + 1
  BY <1>0, <1>1
<1>3. Ahead(text, next, f)
  BY <1>2, FurtherAhead
<1>4. a \in next .. Len(text) + 1
  BY <1>1, <1>3, StringStep DEF KeyAt
<1>5. a \in p + 1 .. Len(text) + 1 /\ a \in Positions(text)
  <2> HIDE DEF next, a
  <2> QED  BY <1>0, <1>1, <1>4, PositionsOf
<1>6. colon \in a .. Len(text) + 1 /\ colon \in Positions(text)
  BY <1>5, BlankUpTo DEF ColonAt
<1>7. colon \in p + 1 .. Len(text) + 1
  <2> HIDE DEF a, colon
  <2> QED  BY <1>0, <1>5, <1>6
<1>8. ASSUME At(text, colon) = ":"
      PROVE  /\ colon \in p + 1 .. Len(text)
             /\ colon + 1 \in p + 1 .. Len(text) + 1
             /\ MemberValue(text, f, p).at \in p + 1 .. Len(text) + 1
  <2>1. colon <= Len(text)
    BY <1>6, <1>8, EndOf DEF End
  <2>2. colon \in p + 1 .. Len(text) /\ colon + 1 \in p + 1 .. Len(text) + 1
    <3> HIDE DEF colon
    <3> QED  BY <1>0, <1>7, <2>1
  <2> QED  BY <2>2, <1>0, AheadOf DEF MemberValue
<1> QED  BY <1>5, <1>7, <1>8

LEMMA MemberSame ==
  ASSUME NEW text \in Texts, NEW p \in Positions(text), NEW f, Ahead(text, p, f),
         NEW g, SameAhead(text, p, f, g), whitespace(text, p) <= Len(text)
  PROVE  /\ KeyAt(text, f, p) = KeyAt(text, g, p)
         /\ At(text, ColonAt(text, f, p)) = ":" =>
              /\ MemberValue(text, f, p) = MemberValue(text, g, p)
              /\ f[<<"members", MemberValue(text, f, p).at>>] =
                   g[<<"members", MemberValue(text, f, p).at>>]
<1>0. /\ Len(text) \in Nat /\ p \in 1 .. Len(text) + 1 /\ "value" \in Kinds /\ "members" \in Kinds
  BY EndOf DEF Kinds
<1>1. NextAt(text, p) \in p + 1 .. Len(text) + 1 /\ NextAt(text, p) \in Positions(text)
  BY Places
<1>2. NextAt(text, p) \in p .. Len(text) + 1
  BY <1>0, <1>1
<1>3. Ahead(text, NextAt(text, p), f) /\ SameAhead(text, NextAt(text, p), f, g)
  BY <1>2, FurtherAhead
<1>4. KeyAt(text, f, p) = KeyAt(text, g, p)
  BY <1>1, <1>3, StringStep DEF KeyAt
<1>5. ColonAt(text, f, p) = ColonAt(text, g, p)
  BY <1>4 DEF ColonAt
<1>6. ASSUME At(text, ColonAt(text, f, p)) = ":"
      PROVE  /\ MemberValue(text, f, p) = MemberValue(text, g, p)
             /\ f[<<"members", MemberValue(text, f, p).at>>] =
                  g[<<"members", MemberValue(text, f, p).at>>]
  <2>1. /\ ColonAt(text, f, p) + 1 \in p + 1 .. Len(text) + 1
        /\ MemberValue(text, f, p).at \in p + 1 .. Len(text) + 1
    BY <1>6, MemberPlaces
  <2>2. MemberValue(text, f, p) = MemberValue(text, g, p)
    BY <2>1, <1>0, <1>5, SameOf DEF MemberValue
  <2> QED  BY <2>1, <2>2, <1>0, SameOf
<1> QED  BY <1>4, <1>6

LEMMA ObjectAt ==
  ASSUME NEW text \in Texts, NEW p \in Positions(text), NEW f, Ahead(text, p, f),
         NEW delimiter, IsDelimiter(delimiter, Closing)
  PROVE  Object(text, f, p, delimiter).at \in p .. Len(text) + 1
<1> DEFINE q == whitespace(text, p)
           next == NextAt(text, p)
           val == MemberValue(text, f, p)
           colon == ColonAt(text, f, p)
           b == KeyAt(text, f, p).at
           a == Object(text, f, p, delimiter).at
           m == f[<<"members", val.at>>].at
<1>0. /\ Len(text) \in Nat /\ p \in 1 .. Len(text) + 1 /\ "members" \in Kinds
      /\ q \in p .. Len(text) + 1
  BY EndOf, BlankUpTo DEF Kinds
<1>1. q <= Len(text) =>
        /\ At(text, next) = Closing => next \in p + 1 .. Len(text)
        /\ b \in p + 1 .. Len(text) + 1
        /\ colon \in p + 1 .. Len(text) + 1
        /\ At(text, colon) = ":" => val.at \in p + 1 .. Len(text) + 1
  BY Places, MemberPlaces, Names
<1>2. q <= Len(text) /\ At(text, colon) = ":" => m \in p + 1 .. Len(text) + 1
  BY <1>0, <1>1, AheadOf
<1>3. \/ q <= Len(text) /\ At(text, next) = Closing /\ a = next + 1
      \/ q <= Len(text) /\ a = b
      \/ q <= Len(text) /\ a = colon
      \/ q <= Len(text) /\ At(text, colon) = ":" /\ a = val.at
      \/ q <= Len(text) /\ At(text, colon) = ":" /\ a = m
      \/ q <= Len(text) /\ a = q + 1
      \/ a = q
  BY ObjectCases, ZenonT(40) DEF EmptyAt
<1> HIDE DEF a, b, q, next, colon, val, m
<1>4. a \in p .. Len(text) + 1
  <2>1. CASE q <= Len(text) /\ At(text, next) = Closing /\ a = next + 1
    BY <1>0, <1>1, <2>1
  <2>2. CASE q <= Len(text) /\ a = b
    BY <1>0, <1>1, <2>2
  <2>3. CASE q <= Len(text) /\ a = colon
    BY <1>0, <1>1, <2>3
  <2>4. CASE q <= Len(text) /\ At(text, colon) = ":" /\ a = val.at
    <3>1. a \in p + 1 .. Len(text) + 1
      BY <1>1, <2>4
    <3> QED  BY <1>0, <3>1
  <2>5. CASE q <= Len(text) /\ At(text, colon) = ":" /\ a = m
    <3>1. a \in p + 1 .. Len(text) + 1
      BY <1>2, <2>5
    <3> QED  BY <1>0, <3>1
  <2>6. CASE q <= Len(text) /\ a = q + 1
    BY <1>0, <2>6
  <2>7. CASE a = q
    BY <1>0, <2>7
  <2> QED  BY <1>3, <2>1, <2>2, <2>3, <2>4, <2>5, <2>6, <2>7
<1> QED  BY <1>4 DEF a

LEMMA ObjectSame ==
  ASSUME NEW text \in Texts, NEW p \in Positions(text), NEW f, Ahead(text, p, f),
         NEW g, SameAhead(text, p, f, g),
         NEW delimiter, IsDelimiter(delimiter, Closing)
  PROVE  Object(text, f, p, delimiter) = Object(text, g, p, delimiter)
<1> DEFINE q == whitespace(text, p)
<1>1. At(text, q) = delimiter => q <= Len(text)
  BY BlankUpTo, EndOf DEF IsDelimiter
<1>2. At(text, q) = delimiter =>
         /\ KeyAt(text, f, p) = KeyAt(text, g, p)
         /\ At(text, ColonAt(text, f, p)) = ":" =>
              /\ MemberValue(text, f, p) = MemberValue(text, g, p)
              /\ f[<<"members", MemberValue(text, f, p).at>>] =
                   g[<<"members", MemberValue(text, f, p).at>>]
  BY <1>1, MemberSame
<1> QED  BY <1>2 DEF Object, Opening, Closing, KeyAt, ColonAt, MemberValue, NextAt, EmptyAt

LEMMA ElementPlaces ==
  ASSUME NEW text \in Texts, NEW p \in Positions(text), NEW f, Ahead(text, p, f),
         whitespace(text, p) <= Len(text)
  PROVE  ElementValue(text, f, p).at \in p + 1 .. Len(text) + 1
<1>1. NextAt(text, p) \in p + 1 .. Len(text) + 1 /\ "value" \in Kinds
  BY Places DEF Kinds
<1> QED  BY <1>1, AheadOf DEF ElementValue

LEMMA ElementSame ==
  ASSUME NEW text \in Texts, NEW p \in Positions(text), NEW f, Ahead(text, p, f),
         NEW g, SameAhead(text, p, f, g), whitespace(text, p) <= Len(text)
  PROVE  /\ ElementValue(text, f, p) = ElementValue(text, g, p)
         /\ f[<<"elements", ElementValue(text, f, p).at>>] =
              g[<<"elements", ElementValue(text, f, p).at>>]
<1>1. /\ NextAt(text, p) \in p + 1 .. Len(text) + 1 /\ "value" \in Kinds /\ "elements" \in Kinds
  BY Places DEF Kinds
<1>2. ElementValue(text, f, p) = ElementValue(text, g, p)
  BY <1>1, SameOf DEF ElementValue
<1>3. ElementValue(text, f, p).at \in p + 1 .. Len(text) + 1
  BY ElementPlaces
<1> QED  BY <1>1, <1>2, <1>3, SameOf

LEMMA ArrayAt ==
  ASSUME NEW text \in Texts, NEW p \in Positions(text), NEW f, Ahead(text, p, f),
         NEW delimiter, IsDelimiter(delimiter, "]")
  PROVE  Array(text, f, p, delimiter).at \in p .. Len(text) + 1
<1> DEFINE q == whitespace(text, p)
           next == NextAt(text, p)
           val == ElementValue(text, f, p)
           a == Array(text, f, p, delimiter).at
           m == f[<<"elements", val.at>>].at
<1>0. /\ Len(text) \in Nat /\ p \in 1 .. Len(text) + 1 /\ "elements" \in Kinds
      /\ q \in p .. Len(text) + 1
  BY EndOf, BlankUpTo DEF Kinds
<1>1. q <= Len(text) =>
        /\ At(text, next) = "]" => next \in p + 1 .. Len(text)
        /\ val.at \in p + 1 .. Len(text) + 1
  BY Places, ElementPlaces DEF End
<1>2. q <= Len(text) => m \in p + 1 .. Len(text) + 1
  BY <1>0, <1>1, AheadOf
<1>3. \/ q <= Len(text) /\ At(text, next) = "]" /\ a = next + 1
      \/ q <= Len(text) /\ a = val.at
      \/ q <= Len(text) /\ a = m
      \/ q <= Len(text) /\ a = q + 1
      \/ a = q
  BY ArrayCases DEF EmptyAt
<1> HIDE DEF a, q, next, val, m
<1>4. a \in p .. Len(text) + 1
  BY <1>0, <1>1, <1>2, <1>3
<1> QED  BY <1>4 DEF a

LEMMA ArraySame ==
  ASSUME NEW text \in Texts, NEW p \in Positions(text), NEW f, Ahead(text, p, f),
         NEW g, SameAhead(text, p, f, g),
         NEW delimiter, IsDelimiter(delimiter, "]")
  PROVE  Array(text, f, p, delimiter) = Array(text, g, p, delimiter)
<1>1. At(text, whitespace(text, p)) = delimiter => whitespace(text, p) <= Len(text)
  BY BlankUpTo, EndOf DEF IsDelimiter
<1>2. At(text, whitespace(text, p)) = delimiter =>
         /\ ElementValue(text, f, p) = ElementValue(text, g, p)
         /\ f[<<"elements", ElementValue(text, f, p).at>>] =
              g[<<"elements", ElementValue(text, f, p).at>>]
  BY <1>1, ElementSame
<1> QED  BY <1>2 DEF Array, ElementValue, NextAt, EmptyAt

LEMMA NumberStep ==
  ASSUME NEW text \in Texts, NEW p \in Positions(text)
  PROVE  number_str(text, p).at \in p .. Len(text) + 1
<1> DEFINE first == IF At(text, p) = "-" THEN p + 1 ELSE p
           last == Behind(text, first, "d")
           r == number_str(text, p)
<1>0. Len(text) \in Nat /\ p \in 1 .. Len(text) + 1
  BY EndOf
<1>1. /\ first \in p .. Len(text) + 1 /\ last \in first .. Len(text) + 1
      /\ \/ r = Throw("ParseException", first)
         \/ r = Parsed(Plain("number", SubSeq(text, p, last - 1)), last)
  BY NumberCases
<1>2. /\ Throw("ParseException", first).at = first
      /\ Parsed(Plain("number", SubSeq(text, p, last - 1)), last).at = last
  BY ParsedOf, ThrowOf
<1>3. r.at \in {first, last}
  <2> HIDE DEF first, last, r
  <2> QED  BY <1>1, <1>2
<1> HIDE DEF first, last, r
<1>4. r.at \in p .. Len(text) + 1
  BY <1>0, <1>1, <1>3
<1> QED  BY <1>4 DEF r

LEMMA ValueStep ==
  ASSUME NEW text \in Texts, NEW p \in Positions(text), NEW f, Ahead(text, p, f)
  PROVE  /\ Value(text, f, p).at \in p .. Len(text) + 1
         /\ \A g : SameAhead(text, p, f, g) => Value(text, f, p) = Value(text, g, p)
<1> DEFINE q == whitespace(text, p)
           c == At(text, q)
           object == Object(text, f, q, Opening)
           array == Array(text, f, q, "[")
           chars == escaped_string(text, f, q)
           number == number_str(text, q)
           a == Value(text, f, p).at
<1>0. /\ Len(text) \in Nat /\ p \in 1 .. Len(text) + 1
      /\ q \in p .. Len(text) + 1 /\ q \in Positions(text)
  BY EndOf, BlankUpTo
<1>1. Ahead(text, q, f) /\ \A g : SameAhead(text, p, f, g) => SameAhead(text, q, f, g)
  BY <1>0, FurtherAhead
<1>d. IsDelimiter(Opening, Closing) /\ IsDelimiter("[", "]")
  BY DEF IsDelimiter, End, Opening, Closing
<1>2. object.at \in q .. Len(text) + 1 /\ array.at \in q .. Len(text) + 1
      /\ chars.at \in q .. Len(text) + 1
  BY <1>0, <1>1, <1>d, ObjectAt, ArrayAt, StringStep
<1>3. number.at \in q .. Len(text) + 1
  BY <1>0, NumberStep
<1>4. \/ a \in {q, Len(text) + 1}
      \/ a \in {object.at, array.at, chars.at, number.at}
      \/ a = q + 1 /\ q <= Len(text)
  <2>1. \A v : Made(v, object).at = object.at /\ Made(v, array).at = array.at
               /\ Made(v, chars).at = chars.at
    BY MadeOf
  <2>2. Parsed(NullValue, q).at = q /\ \A v : Parsed(v, q + 1).at = q + 1
    BY ParsedOf
  <2>3. Throw("std::string", q).at = q /\ Throw("undefined", Len(text) + 1).at = Len(text) + 1
    BY ThrowOf
  <2> QED  BY <2>1, <2>2, <2>3, ValueCases
<1>5. a \in p .. Len(text) + 1
  <2> HIDE DEF a, q, object, array, chars, number
  <2> QED  BY <1>0, <1>2, <1>3, <1>4
<1>6. ASSUME NEW g, SameAhead(text, p, f, g)
      PROVE  Value(text, f, p) = Value(text, g, p)
  <2>0. SameAhead(text, q, f, g)
    BY <1>1, <1>6
  <2>1. \A d : IsDelimiter(d, Closing) => Object(text, f, q, d) = Object(text, g, q, d)
    BY <1>0, <1>1, <2>0, ObjectSame
  <2>2. \A d : IsDelimiter(d, "]") => Array(text, f, q, d) = Array(text, g, q, d)
    BY <1>0, <1>1, <2>0, ArraySame
  <2>3. chars = escaped_string(text, g, q)
    BY <1>0, <1>1, <2>0, StringStep
  <2>4. object = Object(text, g, q, Opening) /\ array = Array(text, g, q, "[")
    BY <2>1, <2>2, <1>d
  <2> QED  BY <2>3, <2>4 DEF Value, Opening
<1> QED  BY <1>5, <1>6

------------------------------------------------------------------------------
(* Reading ends *)

LEMMA ReadIs ==
  ASSUME NEW text, NEW f, NEW p
  PROVE  /\ Read(text, f, <<"value", p>>) = Value(text, f, p)
         /\ Read(text, f, <<"members", p>>) = Object(text, f, p, Comma)
         /\ Read(text, f, <<"elements", p>>) = Array(text, f, p, Comma)
         /\ Read(text, f, <<"characters", p>>) = Characters(text, f, p)
BY DEF Read, Comma

LEMMA ReadStep ==
  ASSUME NEW text \in Texts, NEW p \in Positions(text), NEW f, Ahead(text, p, f),
         NEW kind \in Kinds
  PROVE  /\ Read(text, f, <<kind, p>>).at \in p .. Len(text) + 1
         /\ \A g : SameAhead(text, p, f, g) => Read(text, f, <<kind, p>>) = Read(text, g, <<kind, p>>)
<1>0. IsDelimiter(Comma, Closing) /\ IsDelimiter(Comma, "]")
  BY Names DEF IsDelimiter
<1>1. CASE kind = "value"
  <2>1. \A g : Read(text, g, <<kind, p>>) = Value(text, g, p)
    BY <1>1, ReadIs
  <2> QED  BY <2>1, ValueStep
<1>2. CASE kind = "members"
  <2>1. \A g : Read(text, g, <<kind, p>>) = Object(text, g, p, Comma)
    BY <1>2, ReadIs
  <2> QED  BY <2>1, <1>0, ObjectAt, ObjectSame
<1>3. CASE kind = "elements"
  <2>1. \A g : Read(text, g, <<kind, p>>) = Array(text, g, p, Comma)
    BY <1>3, ReadIs
  <2> QED  BY <2>1, <1>0, ArrayAt, ArraySame
<1>4. CASE kind = "characters"
  <2>1. \A g : Read(text, g, <<kind, p>>) = Characters(text, g, p)
    BY <1>4, ReadIs
  <2> QED  BY <2>1, CharactersAt, CharactersSame
<1> QED  BY <1>1, <1>2, <1>3, <1>4 DEF Kinds

\* The parser as far as it is known: from a position on.
ReadsFrom(text, f, p) ==
  \A kind \in Kinds : \A q \in p .. Len(text) + 1 :
    /\ f[<<kind, q>>] = Read(text, f, <<kind, q>>)
    /\ f[<<kind, q>>].at \in q .. Len(text) + 1

Onward(text, f, p) ==
  [work \in Kinds \X Positions(text) |-> IF work[2] = p THEN Read(text, f, work) ELSE f[work]]

LEMMA ReadsAhead ==
  ASSUME NEW text, NEW f, NEW p, ReadsFrom(text, f, p + 1)
  PROVE  Ahead(text, p, f)
BY DEF ReadsFrom, Ahead

LEMMA ReadsOnward ==
  ASSUME NEW text \in Texts, NEW p \in Positions(text), NEW f, ReadsFrom(text, f, p + 1)
  PROVE  ReadsFrom(text, Onward(text, f, p), p)
<1> DEFINE g == Onward(text, f, p)
<1>0. Len(text) \in Nat /\ p \in 1 .. Len(text) + 1 /\ Positions(text) = 1 .. Len(text) + 1
  BY EndOf, PositionsOf
<1>1. ASSUME NEW kind \in Kinds, NEW q \in Positions(text)
      PROVE  g[<<kind, q>>] = IF q = p THEN Read(text, f, <<kind, q>>) ELSE f[<<kind, q>>]
  BY DEF Onward
<1> HIDE DEF g
<1>2. SameAhead(text, p, f, g)
  <2>1. \A q \in p + 1 .. Len(text) + 1 : q \in Positions(text) /\ q # p
    BY <1>0
  <2> QED  BY <2>1, <1>1 DEF SameAhead
<1>3. SUFFICES ASSUME NEW kind \in Kinds, NEW q \in p .. Len(text) + 1
               PROVE  /\ g[<<kind, q>>] = Read(text, g, <<kind, q>>)
                      /\ g[<<kind, q>>].at \in q .. Len(text) + 1
  BY DEF ReadsFrom, g
<1>4. q \in Positions(text)
  BY <1>0
<1>5. Ahead(text, p, f)
  BY ReadsAhead
<1>6. Ahead(text, q, f) /\ SameAhead(text, q, f, g)
  BY <1>2, <1>5, FurtherAhead
<1>7. Read(text, f, <<kind, q>>) = Read(text, g, <<kind, q>>)
      /\ Read(text, f, <<kind, q>>).at \in q .. Len(text) + 1
  BY <1>4, <1>6, ReadStep
<1>8. g[<<kind, q>>] = Read(text, f, <<kind, q>>)
  <2>1. CASE q = p
    BY <2>1, <1>1, <1>4
  <2>2. CASE q # p
    <3>1. q \in p + 1 .. Len(text) + 1
      BY <2>2, <1>0
    <3>2. f[<<kind, q>>] = Read(text, f, <<kind, q>>)
      BY <3>1 DEF ReadsFrom
    <3> QED  BY <3>2, <2>2, <1>1, <1>4
  <2> QED  BY <2>1, <2>2
<1> QED  BY <1>7, <1>8

LEMMA ReaderExists ==
  ASSUME NEW text \in Texts
  PROVE  \E f : ReadsFrom(text, f, 1)
<1> DEFINE last == Len(text) + 2
           Good == {p \in 1 .. last : \E f : ReadsFrom(text, f, p)}
<1>0. Len(text) \in Nat /\ last \in Nat /\ Positions(text) = 1 .. Len(text) + 1
  BY PositionsOf
<1>1. ASSUME NEW p \in 1 .. last, \A q \in p + 1 .. last : q \in Good
      PROVE  p \in Good
  <2>1. CASE p = last
    <3>1. \A f : ReadsFrom(text, f, last)
      <4>1. last .. Len(text) + 1 = {}
        BY <1>0
      <4> QED  BY <4>1 DEF ReadsFrom
    <3> QED  BY <2>1, <3>1
  <2>2. CASE p # last
    <3>1. p + 1 \in p + 1 .. last /\ p \in Positions(text)
      BY <1>0, <2>2
    <3>2. p + 1 \in Good
      BY <3>1, <1>1
    <3>3. PICK f : ReadsFrom(text, f, p + 1)
      BY <3>2
    <3>4. ReadsFrom(text, Onward(text, f, p), p)
      BY <3>1, <3>3, ReadsOnward
    <3> QED  BY <3>4
  <2> QED  BY <2>1, <2>2
<1>2. \A p \in 1 .. last : p \in Good
  <2> HIDE DEF last, Good
  <2> QED  BY <1>0, <1>1, FromTheEnd
<1>3. 1 \in 1 .. last
  BY <1>0
<1> QED  BY <1>2, <1>3

\* json_parser is a recursion that comes to its end: there is such a function as it
\* describes, and from any position of any text reading ends, or throws, at no
\* earlier one and never behind the terminating zero.
THEOREM ParserReads ==
  ASSUME NEW text \in Texts
  PROVE  /\ ReadsFrom(text, Parser(text), 1)
         /\ \A p \in Positions(text) : Ahead(text, p, Parser(text))
<1> DEFINE S == Kinds \X Positions(text)
<1>0. Len(text) \in Nat /\ Len(text) + 2 \in Nat /\ Positions(text) = 1 .. Len(text) + 1
  BY PositionsOf
<1>1. PICK f : ReadsFrom(text, f, 1)
  BY ReaderExists
<1> DEFINE h == [work \in S |-> f[work]]
<1>2. ASSUME NEW p \in Positions(text)
      PROVE  Ahead(text, p, f) /\ SameAhead(text, p, f, h)
  <2>1. \A q \in p + 1 .. Len(text) + 1 : q \in 1 .. Len(text) + 1
    BY <1>0
  <2>2. Ahead(text, p, f)
    BY <2>1, <1>1 DEF ReadsFrom, Ahead
  <2>3. SameAhead(text, p, f, h)
    BY <2>1, <1>0 DEF SameAhead
  <2> QED  BY <2>2, <2>3
<1>3. ASSUME NEW work \in S
      PROVE  f[work] = Read(text, h, work)
  <2>1. PICK kind \in Kinds, p \in Positions(text) : work = <<kind, p>>
    OBVIOUS
  <2>2. Read(text, f, <<kind, p>>) = Read(text, h, <<kind, p>>)
    <3> HIDE DEF h
    <3> QED  BY <1>2, ReadStep
  <2>3. f[<<kind, p>>] = Read(text, f, <<kind, p>>)
    BY <1>0, <1>1 DEF ReadsFrom
  <2> QED  BY <2>1, <2>2, <2>3
<1>4. h = [work \in S |-> Read(text, h, work)]
  <2>1. h = [work \in S |-> h[work]] /\ \A work \in S : h[work] = f[work]
    OBVIOUS
  <2> HIDE DEF h, S
  <2> QED  BY <2>1, <1>3
<1>5. \E g : g = [work \in S |-> Read(text, g, work)]
  <2> HIDE DEF h
  <2> QED  BY <1>4
<1>6. Parser(text) = [work \in S |-> Read(text, Parser(text), work)]
  BY <1>5 DEF Parser
<1> DEFINE G == Parser(text)
           last == Len(text) + 2
           Good == {p \in 1 .. last : ReadsFrom(text, G, p)}
<1>7. \A kind \in Kinds, p \in Positions(text) : G[<<kind, p>>] = Read(text, G, <<kind, p>>)
  <2> HIDE DEF G
  <2>1. G = [work \in S |-> Read(text, G, work)]
    BY <1>6 DEF G
  <2>2. \A kind \in Kinds, p \in Positions(text) : <<kind, p>> \in S
    OBVIOUS
  <2> HIDE DEF S
  <2> QED  BY <2>1, <2>2
<1> HIDE DEF G
<1>8. ASSUME NEW p \in 1 .. last, \A q \in p + 1 .. last : q \in Good
      PROVE  p \in Good
  <2>1. CASE p = last
    <3>1. ReadsFrom(text, G, last)
      <4>1. last .. Len(text) + 1 = {}
        BY <1>0
      <4> QED  BY <4>1 DEF ReadsFrom
    <3> QED  BY <2>1, <3>1
  <2>2. CASE p # last
    <3>1. p + 1 \in p + 1 .. last /\ p \in Positions(text)
      BY <1>0, <2>2
    <3>2. ReadsFrom(text, G, p + 1)
      BY <3>1, <1>8
    <3>3. Ahead(text, p, G)
      BY <3>2, ReadsAhead
    <3>4. \A kind \in Kinds : G[<<kind, p>>] = Read(text, G, <<kind, p>>)
                             /\ G[<<kind, p>>].at \in p .. Len(text) + 1
      BY <3>1, <3>3, <1>7, ReadStep
    <3>5. \A q \in p .. Len(text) + 1 : q = p \/ q \in p + 1 .. Len(text) + 1
      BY <1>0
    <3>6. ReadsFrom(text, G, p)
      BY <3>2, <3>4, <3>5 DEF ReadsFrom
    <3> QED  BY <3>6
  <2> QED  BY <2>1, <2>2
<1>9. \A p \in 1 .. last : p \in Good
  <2>1. last \in Nat
    BY <1>0
  <2> HIDE DEF last, Good
  <2> QED  BY <2>1, <1>8, FromTheEnd
<1>10. ReadsFrom(text, G, 1)
  BY <1>0, <1>9
<1>11. ASSUME NEW p \in Positions(text)
       PROVE  Ahead(text, p, G)
  <2>1. p + 1 \in 1 .. last
    BY <1>0
  <2>2. ReadsFrom(text, G, p + 1)
    BY <2>1, <1>9
  <2> QED  BY <2>2, ReadsAhead
<1> QED  BY <1>10, <1>11 DEF G

------------------------------------------------------------------------------
(* A text that goes on: what was decided of its part *)

\* A text goes on where part of it ends.
Extends(part, text) ==
  /\ part \in Texts /\ text \in Texts
  /\ Len(part) <= Len(text) /\ \A i \in 1 .. Len(part) : text[i] = part[i]

LEMMA ExtendsAt ==
  ASSUME NEW part, NEW text, Extends(part, text)
  PROVE  /\ Len(part) \in Nat /\ Len(text) \in Nat /\ Len(part) <= Len(text)
         /\ \A i \in 1 .. Len(part) : At(text, i) = At(part, i)
         /\ Positions(part) \subseteq Positions(text)
<1>1. Len(part) \in Nat /\ Len(text) \in Nat /\ Len(part) <= Len(text)
  BY PositionsOf DEF Extends
<1>2. Positions(part) \subseteq Positions(text)
  BY <1>1 DEF Positions
<1>3. ASSUME NEW i \in 1 .. Len(part)  PROVE At(text, i) = At(part, i)
  BY <1>1, <1>3 DEF Extends, At
<1> QED  BY <1>1, <1>2, <1>3

LEMMA BehindSame ==
  ASSUME NEW part, NEW text, Extends(part, text), NEW p \in Positions(part), NEW c, c # End,
         Behind(part, p, c) <= Len(part) \/ At(text, Len(part) + 1) # c
  PROVE  Behind(text, p, c) = Behind(part, p, c)
<1> DEFINE b == Behind(part, p, c)
<1>0. /\ Len(part) \in Nat /\ Len(text) \in Nat /\ Len(part) <= Len(text)
      /\ p \in 1 .. Len(part) + 1 /\ p \in Positions(text)
      /\ part \in Texts /\ text \in Texts
  BY ExtendsAt, EndOf DEF Extends
<1>1. b \in p .. Len(part) + 1 /\ At(part, b) # c /\ \A r \in p .. b - 1 : At(part, r) = c
  BY <1>0, BehindFinds
<1> HIDE DEF b
<1>2. \A r \in p .. b - 1 : At(text, r) = c
  <2>1. \A r \in p .. b - 1 : r \in 1 .. Len(part)
    BY <1>0, <1>1
  <2> QED  BY <2>1, <1>1, ExtendsAt
<1>3. At(text, b) # c
  <2>1. CASE b <= Len(part)
    <3>1. b \in 1 .. Len(part)
      BY <2>1, <1>0, <1>1
    <3> QED  BY <3>1, <1>1, ExtendsAt
  <2>2. CASE ~(b <= Len(part))
    <3>1. b = Len(part) + 1
      BY <2>2, <1>0, <1>1
    <3> QED  BY <2>2, <3>1 DEF b
  <2> QED  BY <2>1, <2>2
<1>4. b \in p .. Len(text) + 1
  BY <1>0, <1>1
<1> QED  BY <1>0, <1>2, <1>3, <1>4, BehindIs DEF b

\* Where space ends within the part it ends in the text.
LEMMA BlankSame ==
  ASSUME NEW part, NEW text, Extends(part, text), NEW p \in Positions(part),
         whitespace(part, p) <= Len(part)
  PROVE  /\ whitespace(text, p) = whitespace(part, p)
         /\ whitespace(part, p) \in 1 .. Len(part)
         /\ At(text, whitespace(part, p)) = At(part, whitespace(part, p))
<1>1. whitespace(text, p) = whitespace(part, p)
  BY BehindSame DEF whitespace, End
<1>2. whitespace(part, p) \in 1 .. Len(part)
  BY BlankUpTo, EndOf DEF Extends
<1> QED  BY <1>1, <1>2, ExtendsAt

\* What is read of a part is decided if it did not come to an end with the part, or
\* ends by itself.
Decides(part, text, kind, p, r) ==
  /\ r.exc = "none"
  /\ kind = "value" =>
       \/ r.at <= Len(part)
       \/ /\ whitespace(part, p) <= Len(part)
          /\ r.value.type # "number" \/ At(text, Len(part) + 1) # "d"

AgreeAhead(part, text, p, F, G) ==
  \A kind \in Kinds : \A q \in p + 1 .. Len(part) + 1 :
    Decides(part, text, kind, q, F[<<kind, q>>]) => G[<<kind, q>>] = F[<<kind, q>>]

LEMMA AgreeFurther ==
  ASSUME NEW part, NEW text, Extends(part, text), NEW p \in Positions(part),
         NEW q \in p .. Len(part) + 1, NEW F, NEW G, AgreeAhead(part, text, p, F, G)
  PROVE  AgreeAhead(part, text, q, F, G)
<1>1. \A i \in q + 1 .. Len(part) + 1 : i \in p + 1 .. Len(part) + 1
  BY EndOf DEF Extends
<1> QED  BY <1>1 DEF AgreeAhead

LEMMA AgreeOf ==
  ASSUME NEW part, NEW text, NEW p, NEW F, NEW G, AgreeAhead(part, text, p, F, G),
         NEW kind \in Kinds, kind # "value", NEW q \in p + 1 .. Len(part) + 1,
         F[<<kind, q>>].exc = "none"
  PROVE  G[<<kind, q>>] = F[<<kind, q>>]
BY DEF AgreeAhead, Decides

LEMMA AgreeValue ==
  ASSUME NEW part, NEW text, NEW p, NEW F, NEW G, AgreeAhead(part, text, p, F, G),
         NEW q \in p + 1 .. Len(part) + 1,
         F[<<"value", q>>].exc = "none", F[<<"value", q>>].at <= Len(part)
  PROVE  G[<<"value", q>>] = F[<<"value", q>>]
BY DEF AgreeAhead, Decides, Kinds

LEMMA CharactersAgree ==
  ASSUME NEW part, NEW text, Extends(part, text), NEW p \in Positions(part),
         NEW F, NEW G, AgreeAhead(part, text, p, F, G),
         Characters(part, F, p).exc = "none"
  PROVE  Characters(text, G, p) = Characters(part, F, p)
<1> DEFINE c == At(part, p)
           e == At(part, p + 1)
           L == Len(part)
           r == Characters(part, F, p)
           s == Characters(text, G, p)
<1>0. /\ L \in Nat /\ Len(text) \in Nat /\ L <= Len(text)
      /\ p \in 1 .. L + 1 /\ p \in Positions(text)
      /\ part \in Texts /\ text \in Texts /\ "characters" \in Kinds
  BY ExtendsAt, EndOf DEF Extends, Kinds
<1>1. (p <= L => At(text, p) = c) /\ (p + 1 <= L => At(text, p + 1) = e)
  <2>1. (p <= L => p \in 1 .. L) /\ (p + 1 <= L => p + 1 \in 1 .. L)
    BY <1>0
  <2> QED  BY <2>1, ExtendsAt
<1>2. ASSUME NEW n \in {1, 2, 6}, p + n <= L + 1, F[<<"characters", p + n>>].exc = "none"
      PROVE  G[<<"characters", p + n>>] = F[<<"characters", p + n>>]
  <2>1. p + n \in p + 1 .. L + 1
    BY <1>0, <1>2
  <2> QED  BY <2>1, <1>0, <1>2, AgreeOf
<1>3. DOMAIN Escapes = {"n", "t", "r"}
  BY DEF Escapes
<1>a. CASE p <= L /\ c = Quote /\ r = Parsed(<< >>, p + 1)
  <2>1. s = Parsed(<< >>, p + 1)
    BY <1>1, <1>a, <1>3 DEF Characters, Quote, Slash, End
  <2> QED  BY <2>1, <1>a
<1>b. CASE r = Throw("ParseException", p) \/ r = Throw("undefined", L + 1)
           \/ r = Throw("ParseException", p + 1)
  BY <1>b, ThrowOf
<1>c. CASE p + 1 <= L /\ c = Slash /\ e \in {"n", "t", "r"} /\ r = Joined(Escapes[e], F[<<"characters", p + 2>>])
  <2>1. At(text, p) = c /\ At(text, p + 1) = e /\ p + 2 <= L + 1
    BY <1>0, <1>1, <1>c
  <2>2. s = Joined(Escapes[e], G[<<"characters", p + 2>>])
    BY <2>1, <1>c, <1>3 DEF Characters, Quote, Slash, End
  <2>3. F[<<"characters", p + 2>>].exc = "none"
    BY <1>c, JoinedOf
  <2> QED  BY <2>1, <2>2, <2>3, <1>2, <1>c
<1>d. CASE p + 1 <= L /\ c = Slash /\ e \in {Slash, Quote} /\ r = Joined(e, F[<<"characters", p + 2>>])
  <2>1. At(text, p) = c /\ At(text, p + 1) = e /\ p + 2 <= L + 1
    BY <1>0, <1>1, <1>d
  <2>2. s = Joined(e, G[<<"characters", p + 2>>])
    BY <2>1, <1>d, <1>3 DEF Characters, Quote, Slash, End
  <2>3. F[<<"characters", p + 2>>].exc = "none"
    BY <1>d, JoinedOf
  <2> QED  BY <2>1, <2>2, <2>3, <1>2, <1>d
<1>e. CASE /\ p + 5 <= L /\ c = Slash /\ e = "u"
           /\ r = Spelled(to_unicode(SubSeq(part, p + 2, p + 5)), F[<<"characters", p + 6>>])
  <2>1. At(text, p) = c /\ At(text, p + 1) = e /\ p + 6 <= L + 1
        /\ p + 5 <= Len(text) /\ ~(p + 5 > Len(text))
    BY <1>0, <1>1, <1>e
  <2>2. s = Spelled(to_unicode(SubSeq(text, p + 2, p + 5)), G[<<"characters", p + 6>>])
    BY <2>1, <1>e, <1>3 DEF Characters, Quote, Slash, End, Spelled
  <2>3. F[<<"characters", p + 6>>].exc = "none"
    BY <1>e, SpelledOf
  <2>4. SubSeq(text, p + 2, p + 5) = SubSeq(part, p + 2, p + 5)
    <3>1. SubSeq(text, p + 2, p + 5) \in Seq(STRING) /\ SubSeq(part, p + 2, p + 5) \in Seq(STRING)
          /\ Len(SubSeq(text, p + 2, p + 5)) = 4 /\ Len(SubSeq(part, p + 2, p + 5)) = 4
      BY <1>0, <2>1, <1>e DEF Texts
    <3>2. \A i \in 1 .. 4 : SubSeq(text, p + 2, p + 5)[i] = SubSeq(part, p + 2, p + 5)[i]
      BY <1>0, <2>1, <1>e DEF Texts, Extends
    <3> QED  BY <3>1, <3>2, SeqEqual
  <2> QED  BY <2>1, <2>2, <2>3, <2>4, <1>2, <1>e
<1>f. CASE p <= L /\ c \notin {Quote, Slash, End} /\ r = Joined(c, F[<<"characters", p + 1>>])
  <2>1. At(text, p) = c /\ p + 1 <= L + 1
    BY <1>0, <1>1, <1>f
  <2>2. s = Joined(c, G[<<"characters", p + 1>>])
    BY <2>1, <1>f DEF Characters
  <2>3. F[<<"characters", p + 1>>].exc = "none"
    BY <1>f, JoinedOf
  <2> QED  BY <2>1, <2>2, <2>3, <1>2, <1>f
<1> QED  BY <1>0, <1>a, <1>b, <1>c, <1>d, <1>e, <1>f, CharactersCases

\* A list that has no end where the text ends throws.
CutEnds(part, F) ==
  \A kind \in {"members", "elements"} : F[<<kind, Len(part) + 1>>].exc # "none"

LEMMA StringAgree ==
  ASSUME NEW part, NEW text, Extends(part, text), NEW p \in Positions(part),
         NEW F, NEW G, AgreeAhead(part, text, p, F, G),
         escaped_string(part, F, p).exc = "none"
  PROVE  /\ escaped_string(text, G, p) = escaped_string(part, F, p)
         /\ p <= Len(part)
<1>0. part \in Texts /\ Len(part) \in Nat /\ p \in 1 .. Len(part) + 1 /\ "characters" \in Kinds
  BY EndOf DEF Extends, Kinds
<1>1. Throw("ParseException", p).exc = "ParseException"
  BY ThrowOf
<1>2. p <= Len(part) /\ At(part, p) = Quote /\ escaped_string(part, F, p) = F[<<"characters", p + 1>>]
  BY <1>0, <1>1, StringCases
<1>3. p + 1 \in p + 1 .. Len(part) + 1 /\ p \in 1 .. Len(part)
  BY <1>0, <1>2
<1>4. F[<<"characters", p + 1>>] = G[<<"characters", p + 1>>]
  BY <1>0, <1>2, <1>3, AgreeOf
<1>5. At(text, p) = Quote
  BY <1>2, <1>3, ExtendsAt
<1>6. escaped_string(text, G, p) = G[<<"characters", p + 1>>]
  BY <1>5 DEF escaped_string
<1> QED  BY <1>2, <1>4, <1>6

LEMMA NextSame ==
  ASSUME NEW part, NEW text, Extends(part, text), NEW p \in Positions(part),
         whitespace(part, p) <= Len(part), NextAt(part, p) <= Len(part)
  PROVE  /\ NextAt(text, p) = NextAt(part, p)
         /\ At(text, NextAt(text, p)) = At(part, NextAt(part, p))
         /\ \A d, o, c : EmptyAt(text, p, d, o, c) <=> EmptyAt(part, p, d, o, c)
<1> DEFINE q == whitespace(part, p)
<1>1. whitespace(text, p) = q /\ q \in 1 .. Len(part)
  BY BlankSame
<1>2. q + 1 \in Positions(part) /\ part \in Texts
  BY <1>1, PositionsOf DEF Extends
<1>3. whitespace(part, q + 1) = NextAt(part, p)
  BY DEF NextAt
<1>4. whitespace(text, q + 1) = NextAt(part, p) /\ At(text, NextAt(part, p)) = At(part, NextAt(part, p))
  BY <1>2, <1>3, BlankSame
<1>5. NextAt(text, p) = NextAt(part, p)
  BY <1>1, <1>4 DEF NextAt
<1> QED  BY <1>4, <1>5 DEF EmptyAt

\* A member, and what follows it, agree.
LEMMA MemberAgree ==
  ASSUME NEW part, NEW text, Extends(part, text), NEW p \in Positions(part),
         NEW F, NEW G, Ahead(part, p, F), AgreeAhead(part, text, p, F, G), CutEnds(part, F),
         whitespace(part, p) <= Len(part), KeyAt(part, F, p).exc = "none",
         At(part, ColonAt(part, F, p)) = ":", MemberValue(part, F, p).exc = "none",
         F[<<"members", MemberValue(part, F, p).at>>].exc = "none"
  PROVE  /\ NextAt(part, p) <= Len(part)
         /\ KeyAt(text, G, p) = KeyAt(part, F, p)
         /\ ColonAt(text, G, p) = ColonAt(part, F, p)
         /\ At(text, ColonAt(text, G, p)) = ":"
         /\ MemberValue(text, G, p) = MemberValue(part, F, p)
         /\ G[<<"members", MemberValue(part, F, p).at>>] = F[<<"members", MemberValue(part, F, p).at>>]
<1> DEFINE next == NextAt(part, p)
           colon == ColonAt(part, F, p)
           val == MemberValue(part, F, p)
           after == val.at
<1>0. /\ part \in Texts /\ text \in Texts /\ Len(part) \in Nat /\ p \in 1 .. Len(part) + 1
      /\ "members" \in Kinds /\ "members" # "value"
  BY EndOf DEF Extends, Kinds
<1>1. next \in p + 1 .. Len(part) + 1 /\ next \in Positions(part)
  BY <1>0, Places
<1>2. next \in p .. Len(part) + 1
  BY <1>0, <1>1
<1>3. AgreeAhead(part, text, next, F, G)
  BY <1>2, AgreeFurther
<1>4. escaped_string(text, G, next) = KeyAt(part, F, p) /\ next <= Len(part)
  BY <1>1, <1>3, StringAgree DEF KeyAt
<1>5. NextAt(text, p) = next
  BY <1>4, NextSame
<1>6. KeyAt(text, G, p) = KeyAt(part, F, p)
  BY <1>4, <1>5 DEF KeyAt
<1>7. /\ KeyAt(part, F, p).at \in p + 1 .. Len(part) + 1
      /\ colon \in p + 1 .. Len(part) /\ colon + 1 \in p + 1 .. Len(part) + 1
      /\ after \in p + 1 .. Len(part) + 1
  BY <1>0, MemberPlaces
<1>8. KeyAt(part, F, p).at \in Positions(part) /\ colon <= Len(part)
  <2> HIDE DEF colon
  <2> QED  BY <1>0, <1>7, PositionsOf
<1>9. whitespace(part, KeyAt(part, F, p).at) = colon
  BY DEF ColonAt
<1>10. ColonAt(text, G, p) = colon /\ At(text, colon) = ":"
  <2>1. whitespace(text, KeyAt(part, F, p).at) = colon /\ At(text, colon) = At(part, colon)
    BY <1>8, <1>9, BlankSame
  <2> QED  BY <2>1, <1>6 DEF ColonAt
<1>11. after <= Len(part)
  <2>1. after # Len(part) + 1
    BY DEF CutEnds
  <2> HIDE DEF after
  <2> QED  BY <2>1, <1>0, <1>7
<1>12. MemberValue(text, G, p) = val
  <2>1. G[<<"value", colon + 1>>] = F[<<"value", colon + 1>>]
    BY <1>7, <1>11, AgreeValue DEF MemberValue
  <2> QED  BY <2>1, <1>10 DEF MemberValue
<1>13. G[<<"members", after>>] = F[<<"members", after>>]
  BY <1>0, <1>7, AgreeOf
<1> QED  BY <1>4, <1>6, <1>10, <1>12, <1>13

LEMMA ObjectAgree ==
  ASSUME NEW part, NEW text, Extends(part, text), NEW p \in Positions(part),
         NEW F, NEW G, Ahead(part, p, F), AgreeAhead(part, text, p, F, G), CutEnds(part, F),
         NEW delimiter, IsDelimiter(delimiter, Closing),
         Object(part, F, p, delimiter).exc = "none"
  PROVE  Object(text, G, p, delimiter) = Object(part, F, p, delimiter)
<1> DEFINE q == whitespace(part, p)
           c == At(part, q)
           next == NextAt(part, p)
           key == KeyAt(part, F, p)
           colon == ColonAt(part, F, p)
           val == MemberValue(part, F, p)
           rest == F[<<"members", val.at>>]
           member == [key |-> key.value, value |-> val.value]
           r == Object(part, F, p, delimiter)
           more == ~EmptyAt(part, p, delimiter, Opening, Closing)
<1>0. part \in Texts /\ text \in Texts /\ Len(part) \in Nat /\ p \in Positions(text)
  BY ExtendsAt DEF Extends
<1>1. \A exc, i : exc # "none" => r # Throw(exc, i)
  BY ThrowOf
<1>2. r # Throw("std::string", colon) /\ r # Throw("std::string", q) /\ r # Throw(CutShort, q)
  BY <1>1, Names
<1>3. \/ q <= Len(part) /\ c = delimiter /\ ~more /\ r = Parsed(<< >>, next + 1)
      \/ /\ q <= Len(part) /\ c = delimiter /\ more
         /\ key.exc = "none" /\ At(part, colon) = ":" /\ val.exc = "none" /\ r = Joined(member, rest)
      \/ q <= Len(part) /\ c = Closing /\ r = Parsed(<< >>, q + 1)
  BY <1>0, <1>2, ObjectCases, ZenonT(40)
<1>4. whitespace(text, p) = q /\ q \in 1 .. Len(part) /\ At(text, q) = c
  BY <1>3, BlankSame
<1>d. delimiter # Closing /\ delimiter # End
  BY DEF IsDelimiter
<1>a. CASE q <= Len(part) /\ c = delimiter /\ ~more /\ r = Parsed(<< >>, next + 1)
  <2>1. next \in p + 1 .. Len(part)
    BY <1>a, <1>0, Places, Names DEF EmptyAt
  <2>2. next <= Len(part)
    <3> HIDE DEF next
    <3> QED  BY <2>1
  <2>3. NextAt(text, p) = next /\ EmptyAt(text, p, delimiter, Opening, Closing)
    BY <1>a, <2>2, NextSame
  <2>4. Object(text, G, p, delimiter) = Parsed(<< >>, next + 1)
    BY <1>4, <1>d, <1>a, <2>3 DEF Object, NextAt, EmptyAt, Opening, Closing
  <2> QED  BY <2>4, <1>a
<1>b. CASE /\ q <= Len(part) /\ c = delimiter /\ more
           /\ key.exc = "none" /\ At(part, colon) = ":" /\ val.exc = "none" /\ r = Joined(member, rest)
  <2>1. rest.exc = "none"
    BY <1>b, JoinedOf
  <2>2. /\ next <= Len(part)
        /\ KeyAt(text, G, p) = key
        /\ At(text, ColonAt(text, G, p)) = ":"
        /\ MemberValue(text, G, p) = val
        /\ G[<<"members", val.at>>] = rest
    BY <2>1, <1>b, MemberAgree
  <2>3. NextAt(text, p) = next /\ ~EmptyAt(text, p, delimiter, Opening, Closing)
    BY <1>b, <2>2, NextSame
  <2>4. Object(text, G, p, delimiter) =
          IF key.exc # "none" THEN key
          ELSE IF At(text, ColonAt(text, G, p)) # ":" THEN Throw("std::string", ColonAt(text, G, p))
          ELSE IF val.exc # "none" THEN val
          ELSE Joined(member, G[<<"members", val.at>>])
    <3> HIDE DEF val, key
    <3> QED  BY <1>4, <1>d, <1>b, <2>2, <2>3
             DEF Object, NextAt, EmptyAt, KeyAt, ColonAt, MemberValue, Opening, Closing
  <2> QED  BY <2>2, <2>4, <1>b
<1>c. CASE q <= Len(part) /\ c = Closing /\ r = Parsed(<< >>, q + 1)
  <2>1. Object(text, G, p, delimiter) = Parsed(<< >>, q + 1)
    BY <1>4, <1>d, <1>c DEF Object, Closing
  <2> QED  BY <2>1, <1>c
<1> QED  BY <1>3, <1>a, <1>b, <1>c

LEMMA ElementAgree ==
  ASSUME NEW part, NEW text, Extends(part, text), NEW p \in Positions(part),
         NEW F, NEW G, Ahead(part, p, F), AgreeAhead(part, text, p, F, G), CutEnds(part, F),
         whitespace(part, p) <= Len(part), ElementValue(part, F, p).exc = "none",
         F[<<"elements", ElementValue(part, F, p).at>>].exc = "none"
  PROVE  /\ NextAt(part, p) <= Len(part)
         /\ ElementValue(text, G, p) = ElementValue(part, F, p)
         /\ G[<<"elements", ElementValue(part, F, p).at>>] = F[<<"elements", ElementValue(part, F, p).at>>]
<1> DEFINE next == NextAt(part, p)
           val == ElementValue(part, F, p)
           after == val.at
<1>0. /\ part \in Texts /\ text \in Texts /\ Len(part) \in Nat /\ p \in 1 .. Len(part) + 1
      /\ "elements" \in Kinds /\ "elements" # "value" /\ "value" \in Kinds
  BY EndOf DEF Extends, Kinds
<1>1. next \in p + 1 .. Len(part) + 1
  BY <1>0, Places
<1>2. after \in next .. Len(part) + 1
  BY <1>0, <1>1, AheadOf DEF ElementValue
<1>3. after # Len(part) + 1
  BY DEF CutEnds
<1>4. /\ after <= Len(part) /\ after \in p + 1 .. Len(part) + 1 /\ next <= Len(part)
  <2> HIDE DEF after, next
  <2> QED  BY <1>0, <1>1, <1>2, <1>3
<1>5. G[<<"value", next>>] = F[<<"value", next>>]
  BY <1>1, <1>4, AgreeValue DEF ElementValue
<1>6. NextAt(text, p) = next
  BY <1>4, NextSame
<1>7. ElementValue(text, G, p) = val
  BY <1>5, <1>6 DEF ElementValue
<1>8. G[<<"elements", after>>] = F[<<"elements", after>>]
  BY <1>0, <1>4, AgreeOf
<1> QED  BY <1>4, <1>7, <1>8

LEMMA ArrayAgree ==
  ASSUME NEW part, NEW text, Extends(part, text), NEW p \in Positions(part),
         NEW F, NEW G, Ahead(part, p, F), AgreeAhead(part, text, p, F, G), CutEnds(part, F),
         NEW delimiter, IsDelimiter(delimiter, "]"),
         Array(part, F, p, delimiter).exc = "none"
  PROVE  Array(text, G, p, delimiter) = Array(part, F, p, delimiter)
<1> DEFINE q == whitespace(part, p)
           c == At(part, q)
           next == NextAt(part, p)
           val == ElementValue(part, F, p)
           rest == F[<<"elements", val.at>>]
           first == val.value
           r == Array(part, F, p, delimiter)
           more == ~EmptyAt(part, p, delimiter, "[", "]")
<1>0. part \in Texts /\ text \in Texts /\ Len(part) \in Nat /\ p \in Positions(text)
  BY ExtendsAt DEF Extends
<1>1. \A exc, i : exc # "none" => r # Throw(exc, i)
  BY ThrowOf
<1>2. r # Throw("std::string", q) /\ r # Throw(CutShort, q)
  BY <1>1, Names
<1>3. \/ q <= Len(part) /\ c = delimiter /\ ~more /\ r = Parsed(<< >>, next + 1)
      \/ /\ q <= Len(part) /\ c = delimiter /\ more
         /\ val.exc = "none" /\ r = Joined(first, rest)
      \/ q <= Len(part) /\ c = "]" /\ r = Parsed(<< >>, q + 1)
  BY <1>0, <1>2, ArrayCases
<1>4. whitespace(text, p) = q /\ q \in 1 .. Len(part) /\ At(text, q) = c
  BY <1>3, BlankSame
<1>d. delimiter # "]" /\ delimiter # End
  BY DEF IsDelimiter
<1>a. CASE q <= Len(part) /\ c = delimiter /\ ~more /\ r = Parsed(<< >>, next + 1)
  <2>1. next \in p + 1 .. Len(part)
    BY <1>a, <1>0, Places, Names DEF EmptyAt
  <2>2. next <= Len(part)
    <3> HIDE DEF next
    <3> QED  BY <2>1
  <2>3. NextAt(text, p) = next /\ EmptyAt(text, p, delimiter, "[", "]")
    BY <1>a, <2>2, NextSame
  <2>4. Array(text, G, p, delimiter) = Parsed(<< >>, next + 1)
    BY <1>4, <1>d, <1>a, <2>3 DEF Array, NextAt, EmptyAt
  <2> QED  BY <2>4, <1>a
<1>b. CASE /\ q <= Len(part) /\ c = delimiter /\ more
           /\ val.exc = "none" /\ r = Joined(first, rest)
  <2>1. rest.exc = "none"
    BY <1>b, JoinedOf
  <2>2. /\ next <= Len(part)
        /\ ElementValue(text, G, p) = val
        /\ G[<<"elements", val.at>>] = rest
    BY <2>1, <1>b, ElementAgree
  <2>3. NextAt(text, p) = next /\ ~EmptyAt(text, p, delimiter, "[", "]")
    BY <1>b, <2>2, NextSame
  <2>4. Array(text, G, p, delimiter) =
          IF val.exc # "none" THEN val ELSE Joined(first, G[<<"elements", val.at>>])
    <3> HIDE DEF val
    <3> QED  BY <1>4, <1>d, <1>b, <2>2, <2>3 DEF Array, NextAt, EmptyAt, ElementValue
  <2> QED  BY <2>2, <2>4, <1>b
<1>c. CASE q <= Len(part) /\ c = "]" /\ r = Parsed(<< >>, q + 1)
  <2>1. Array(text, G, p, delimiter) = Parsed(<< >>, q + 1)
    BY <1>4, <1>d, <1>c DEF Array
  <2> QED  BY <2>1, <1>c
<1> QED  BY <1>3, <1>a, <1>b, <1>c

LEMMA SubSeqSame ==
  ASSUME NEW part, NEW text, Extends(part, text), NEW a \in Positions(part),
         NEW b \in a - 1 .. Len(part)
  PROVE  SubSeq(text, a, b) = SubSeq(part, a, b)
<1>0. /\ part \in Texts /\ text \in Texts /\ Len(part) \in Nat /\ Len(text) \in Nat
      /\ Len(part) <= Len(text) /\ a \in 1 .. Len(part) + 1 /\ \A i \in 1 .. Len(part) : text[i] = part[i]
  BY ExtendsAt, EndOf DEF Extends
<1>1. /\ SubSeq(text, a, b) \in Seq(STRING) /\ SubSeq(part, a, b) \in Seq(STRING)
      /\ Len(SubSeq(text, a, b)) = b - a + 1 /\ Len(SubSeq(part, a, b)) = b - a + 1
  BY <1>0 DEF Texts
<1>2. \A i \in 1 .. b - a + 1 : SubSeq(text, a, b)[i] = SubSeq(part, a, b)[i]
  BY <1>0 DEF Texts
<1> QED  BY <1>1, <1>2, SeqEqual

LEMMA NumberAgree ==
  ASSUME NEW part, NEW text, Extends(part, text), NEW p \in Positions(part), p <= Len(part),
         number_str(part, p).exc = "none",
         number_str(part, p).at <= Len(part) \/ At(text, Len(part) + 1) # "d"
  PROVE  number_str(text, p) = number_str(part, p)
<1> DEFINE first == IF At(part, p) = "-" THEN p + 1 ELSE p
           last == Behind(part, first, "d")
           r == number_str(part, p)
           digits == SubSeq(part, p, last - 1)
<1>0. /\ part \in Texts /\ text \in Texts /\ Len(part) \in Nat /\ p \in 1 .. Len(part)
      /\ p \in Positions(part)
  BY EndOf DEF Extends
<1>1. At(text, p) = At(part, p)
  BY <1>0, ExtendsAt
<1>2. Throw("ParseException", first).exc # "none"
  BY ThrowOf
<1>3. /\ first \in p .. Len(part) + 1 /\ last \in first .. Len(part) + 1
      /\ last # first /\ r = Parsed(Plain("number", digits), last)
  BY <1>0, <1>2, NumberCases
<1>4. r.at = last
  BY <1>3, ParsedOf
<1>5. first \in Positions(part)
  BY <1>0, <1>3, PositionsOf
<1>6. Behind(text, first, "d") = last
  BY <1>4, <1>5, BehindSame, Names
<1>7. last - 1 \in p - 1 .. Len(part)
  <2> HIDE DEF first, last
  <2> QED  BY <1>0, <1>3
<1>8. SubSeq(text, p, last - 1) = digits
  BY <1>0, <1>7, SubSeqSame
<1> QED  BY <1>1, <1>3, <1>6, <1>8 DEF number_str

LEMMA ValueAgree ==
  ASSUME NEW part, NEW text, Extends(part, text), NEW p \in Positions(part),
         NEW F, NEW G, Ahead(part, p, F), AgreeAhead(part, text, p, F, G), CutEnds(part, F),
         Decides(part, text, "value", p, Value(part, F, p))
  PROVE  Value(text, G, p) = Value(part, F, p)
<1> DEFINE q == whitespace(part, p)
           c == At(part, q)
           object == Object(part, F, q, Opening)
           array == Array(part, F, q, "[")
           chars == escaped_string(part, F, q)
           number == number_str(part, q)
           r == Value(part, F, p)
           s == Value(text, G, p)
<1>0. /\ part \in Texts /\ text \in Texts /\ Len(part) \in Nat /\ p \in Positions(text)
      /\ q \in p .. Len(part) + 1 /\ q \in Positions(part)
  BY ExtendsAt, BlankUpTo DEF Extends
<1>1. r.exc = "none" /\ (\/ r.at <= Len(part)
                         \/ q <= Len(part) /\ (r.value.type # "number" \/ At(text, Len(part) + 1) # "d"))
  BY DEF Decides
<1>2. \A exc, i : exc # "none" => r # Throw(exc, i)
  BY <1>1, ThrowOf
<1>3. r # Parsed(NullValue, Len(part) + 1) \/ q <= Len(part)
  <2>1. Parsed(NullValue, Len(part) + 1).at = Len(part) + 1
    BY ParsedOf
  <2>2. r = Parsed(NullValue, Len(part) + 1) => ~(r.at <= Len(part))
    BY <2>1, <1>0
  <2> QED  BY <1>1, <2>2
<1>4. /\ q <= Len(part)
      /\ \/ c = Opening /\ r = Made(ObjectOf(Emplaced(object.value)), object)
         \/ c = "[" /\ r = Made(ArrayOf(array.value), array)
         \/ c = Quote /\ r = Made(Plain("string", chars.value), chars)
         \/ c \in {"true", "false"} /\ r = Parsed(Plain("bool", <<c>>), q + 1)
         \/ c = "null" /\ r = Parsed(NullValue, q + 1)
         \/ c \in {"d", "-"} /\ r = number
  <2>1. r \notin {Throw("std::string", q), Throw("undefined", Len(part) + 1)}
    BY <1>2
  <2>2. q <= Len(part)
    BY <1>0, <1>3, ValueCases
  <2> QED  BY <1>0, <2>1, <2>2, ValueCases
<1>5. whitespace(text, p) = q /\ q \in 1 .. Len(part) /\ At(text, q) = c
  BY <1>4, BlankSame
<1>6. Ahead(part, q, F) /\ AgreeAhead(part, text, q, F, G)
  BY <1>0, FurtherAhead, AgreeFurther
<1>7. IsDelimiter(Opening, Closing) /\ IsDelimiter("[", "]")
  BY Names DEF IsDelimiter
<1>a. CASE c = Opening /\ r = Made(ObjectOf(Emplaced(object.value)), object)
  <2>1. object.exc = "none"
    BY <1>1, <1>a, MadeOf
  <2>2. \A d : IsDelimiter(d, Closing) /\ Object(part, F, q, d).exc = "none" =>
               Object(text, G, q, d) = Object(part, F, q, d)
    BY <1>0, <1>6, ObjectAgree
  <2>3. Object(text, G, q, Opening) = object
    BY <2>1, <2>2, <1>7
  <2>4. s = Made(ObjectOf(Emplaced(object.value)), object)
    BY <1>5, <1>a, <2>3 DEF Value, Opening, End, Quote
  <2> QED  BY <2>4, <1>a
<1>b. CASE c = "[" /\ r = Made(ArrayOf(array.value), array)
  <2>1. array.exc = "none"
    BY <1>1, <1>b, MadeOf
  <2>2. \A d : IsDelimiter(d, "]") /\ Array(part, F, q, d).exc = "none" =>
               Array(text, G, q, d) = Array(part, F, q, d)
    BY <1>0, <1>6, ArrayAgree
  <2>3. Array(text, G, q, "[") = array
    BY <2>1, <2>2, <1>7
  <2>4. s = Made(ArrayOf(array.value), array)
    BY <1>5, <1>b, <2>3 DEF Value, Opening, End, Quote
  <2> QED  BY <2>4, <1>b
<1>c. CASE c = Quote /\ r = Made(Plain("string", chars.value), chars)
  <2>1. chars.exc = "none"
    BY <1>1, <1>c, MadeOf
  <2>2. escaped_string(text, G, q) = chars
    BY <1>0, <1>6, <2>1, StringAgree
  <2>4. s = Made(Plain("string", chars.value), chars)
    BY <1>5, <1>c, <2>2 DEF Value, Opening, End, Quote
  <2> QED  BY <2>4, <1>c
<1>d. CASE c \in {"true", "false"} /\ r = Parsed(Plain("bool", <<c>>), q + 1)
  <2>1. s = Parsed(Plain("bool", <<c>>), q + 1)
    BY <1>5, <1>d DEF Value, Opening, End, Quote
  <2> QED  BY <2>1, <1>d
<1>e. CASE c = "null" /\ r = Parsed(NullValue, q + 1)
  <2>1. s = Parsed(NullValue, q + 1)
    BY <1>5, <1>e DEF Value, Opening, End, Quote
  <2> QED  BY <2>1, <1>e
<1>f. CASE c \in {"d", "-"} /\ r = number
  <2>1. s = number_str(text, q)
    BY <1>5, <1>f DEF Value, Opening, End, Quote
  <2>2. r.value.type = "number"
    <3> DEFINE first == IF At(part, q) = "-" THEN q + 1 ELSE q
               last == Behind(part, first, "d")
    <3>1. Throw("ParseException", first).exc # "none"
      BY ThrowOf
    <3>2. r = Parsed(Plain("number", SubSeq(part, q, last - 1)), last)
      BY <1>0, <1>1, <1>f, <3>1, NumberCases
    <3>3. r.value = Plain("number", SubSeq(part, q, last - 1))
      BY <3>2, ParsedOf
    <3> QED  BY <3>3 DEF Plain
  <2>3. number_str(text, q) = number
    BY <1>0, <1>1, <1>4, <1>f, <2>2, NumberAgree
  <2> QED  BY <2>1, <2>3, <1>f
<1> QED  BY <1>4, <1>a, <1>b, <1>c, <1>d, <1>e, <1>f

LEMMA ReadAgrees ==
  ASSUME NEW part, NEW text, Extends(part, text), NEW p \in Positions(part),
         NEW F, NEW G, Ahead(part, p, F), AgreeAhead(part, text, p, F, G), CutEnds(part, F),
         NEW kind \in Kinds, Decides(part, text, kind, p, Read(part, F, <<kind, p>>))
  PROVE  Read(text, G, <<kind, p>>) = Read(part, F, <<kind, p>>)
<1>0. IsDelimiter(Comma, Closing) /\ IsDelimiter(Comma, "]")
  BY Names DEF IsDelimiter
<1>1. CASE kind = "value"
  <2>1. Decides(part, text, "value", p, Value(part, F, p))
    BY <1>1, ReadIs
  <2>2. Value(text, G, p) = Value(part, F, p)
    BY <2>1, ValueAgree
  <2> QED  BY <1>1, <2>2, ReadIs
<1>2. CASE kind = "members"
  <2>1. Object(part, F, p, Comma).exc = "none"
    BY <1>2, ReadIs DEF Decides
  <2>2. Object(text, G, p, Comma) = Object(part, F, p, Comma)
    BY <2>1, <1>0, ObjectAgree
  <2> QED  BY <1>2, <2>2, ReadIs
<1>3. CASE kind = "elements"
  <2>1. Array(part, F, p, Comma).exc = "none"
    BY <1>3, ReadIs DEF Decides
  <2>2. Array(text, G, p, Comma) = Array(part, F, p, Comma)
    BY <2>1, <1>0, ArrayAgree
  <2> QED  BY <1>3, <2>2, ReadIs
<1>4. CASE kind = "characters"
  <2>1. Characters(part, F, p).exc = "none"
    BY <1>4, ReadIs DEF Decides
  <2>2. Characters(text, G, p) = Characters(part, F, p)
    BY <2>1, CharactersAgree
  <2> QED  BY <1>4, <2>2, ReadIs
<1> QED  BY <1>1, <1>2, <1>3, <1>4 DEF Kinds

LEMMA ParserIs ==
  ASSUME NEW text \in Texts, NEW p \in Positions(text), NEW kind \in Kinds
  PROVE  /\ Parser(text)[<<kind, p>>] = Read(text, Parser(text), <<kind, p>>)
         /\ Parser(text)[<<kind, p>>].at \in p .. Len(text) + 1
         /\ Ahead(text, p, Parser(text))
<1>1. p \in 1 .. Len(text) + 1
  BY PositionsOf
<1> QED  BY <1>1, ParserReads DEF ReadsFrom

LEMMA ParserCutEnds ==
  ASSUME NEW text \in Texts
  PROVE  CutEnds(text, Parser(text))
<1> DEFINE e == Len(text) + 1
           F == Parser(text)
<1>0. Len(text) \in Nat /\ e \in Positions(text) /\ At(text, e) = End
  BY PositionsOf
<1>1. whitespace(text, e) = e
  <2>1. whitespace(text, e) \in e .. e
    BY <1>0, BlankUpTo
  <2> QED  BY <2>1, <1>0
<1>2. ~(e <= Len(text))
  BY <1>0
<1>3. IsDelimiter(Comma, Closing) /\ IsDelimiter(Comma, "]")
  BY Names DEF IsDelimiter
<1>4. Object(text, F, e, Comma) = Throw(CutShort, e) /\ Array(text, F, e, Comma) = Throw(CutShort, e)
  <2> HIDE DEF e, F
  <2>1. Object(text, F, e, Comma) = Throw(CutShort, e)
    BY <1>0, <1>1, <1>2, <1>3, ObjectCases
  <2>2. Array(text, F, e, Comma) = Throw(CutShort, e)
    BY <1>0, <1>1, <1>2, <1>3, ArrayCases
  <2> QED  BY <2>1, <2>2
<1>5. F[<<"members", e>>] = Object(text, F, e, Comma) /\ F[<<"elements", e>>] = Array(text, F, e, Comma)
  BY <1>0, ParserIs, ReadIs DEF Kinds
<1>6. Throw(CutShort, e).exc # "none"
  BY ThrowOf, Names
<1> QED  BY <1>4, <1>5, <1>6 DEF CutEnds

\* What the parsers return of a part of a text they return of the whole, if they had
\* decided it: not at a blank end, and not within a number.
THEOREM ParserAgrees ==
  ASSUME NEW part, NEW text, Extends(part, text)
  PROVE  \A kind \in Kinds, p \in Positions(part) :
           Decides(part, text, kind, p, Parser(part)[<<kind, p>>]) =>
             Parser(text)[<<kind, p>>] = Parser(part)[<<kind, p>>]
<1> DEFINE F == Parser(part)
           G == Parser(text)
           last == Len(part) + 1
           Good == {p \in 1 .. last : \A kind \in Kinds :
                      Decides(part, text, kind, p, F[<<kind, p>>]) => G[<<kind, p>>] = F[<<kind, p>>]}
<1>0. /\ part \in Texts /\ text \in Texts /\ Len(part) \in Nat /\ last \in Nat
      /\ Positions(part) = 1 .. last /\ Positions(part) \subseteq Positions(text)
  BY ExtendsAt, PositionsOf DEF Extends
<1>1. ASSUME NEW p \in 1 .. last, \A q \in p + 1 .. last : q \in Good
      PROVE  p \in Good
  <2>1. AgreeAhead(part, text, p, F, G)
    <3> HIDE DEF F, G
    <3> QED  BY <1>1 DEF AgreeAhead
  <2>2. ASSUME NEW kind \in Kinds, Decides(part, text, kind, p, F[<<kind, p>>])
        PROVE  G[<<kind, p>>] = F[<<kind, p>>]
    <3>1. p \in Positions(part) /\ p \in Positions(text)
      BY <1>0
    <3>2. F[<<kind, p>>] = Read(part, F, <<kind, p>>) /\ Ahead(part, p, F)
      BY <1>0, <3>1, ParserIs
    <3>3. G[<<kind, p>>] = Read(text, G, <<kind, p>>)
      BY <1>0, <3>1, ParserIs
    <3>4. CutEnds(part, F)
      BY <1>0, ParserCutEnds
    <3> HIDE DEF F, G
    <3>5. Read(text, G, <<kind, p>>) = Read(part, F, <<kind, p>>)
      BY <2>1, <2>2, <3>1, <3>2, <3>4, ReadAgrees
    <3> QED  BY <3>2, <3>3, <3>5
  <2> QED  BY <2>2
<1>2. \A p \in 1 .. last : p \in Good
  <2> HIDE DEF last, Good
  <2> QED  BY <1>0, <1>1, FromTheEnd
<1> QED  BY <1>0, <1>2

\* What Node makes of the beginning of a text that is neither blank nor a number is what
\* it makes of the whole text: a file that is still being written is not taken for another one.
THEOREM BeginningStays ==
  ASSUME NEW whole \in Texts, NEW n \in DOMAIN whole
  PROVE  LET part == SubSeq(whole, 1, n)
             node == Node(part)
         IN  node.exc = "none" /\ (\E i \in 1 .. n : whole[i] # "ws") /\ node.value.type # "number" =>
               Node(whole) = node
<1> DEFINE part == SubSeq(whole, 1, n)
           node == Node(part)
<1>0. whole \in Seq(STRING \ {End}) /\ n \in 1 .. Len(whole) /\ Len(whole) \in Nat
  BY DEF Texts
<1>1. /\ part \in Texts /\ Len(part) = n
      /\ \A i \in 1 .. n : part[i] = whole[i]
  BY <1>0 DEF Texts
<1> HIDE DEF part
<1>2. Extends(part, whole)
  BY <1>0, <1>1 DEF Extends
<1> SUFFICES ASSUME node.exc = "none", NEW i \in 1 .. n, whole[i] # "ws", node.value.type # "number"
             PROVE  Node(whole) = node
  BY DEF part
<1>3. 1 \in Positions(part) /\ "value" \in Kinds
  BY <1>0, <1>1 DEF Positions, Kinds
<1>4. whitespace(part, 1) <= Len(part)
  <2> DEFINE q == whitespace(part, 1)
  <2>1. q \in 1 .. n + 1 /\ \A r \in 1 .. q - 1 : At(part, r) = "ws"
    BY <1>1, <1>3, BlankUpTo
  <2>2. At(part, i) # "ws"
    BY <1>0, <1>1 DEF At
  <2> HIDE DEF q
  <2>3. ~(q > n)
    BY <2>1, <2>2, <1>0
  <2> QED  BY <2>1, <2>3, <1>1, <1>0 DEF q
<1>5. Parser(part)[<<"value", 1>>] = node
  BY DEF Node
<1>6. Decides(part, whole, "value", 1, node)
  BY <1>4 DEF Decides
<1>7. Parser(whole)[<<"value", 1>>] = Parser(part)[<<"value", 1>>]
  BY <1>2, <1>3, <1>5, <1>6, ParserAgrees
<1> QED  BY <1>5, <1>7 DEF Node

------------------------------------------------------------------------------
(* What a node holds *)

\* What an array holds is a sequence, and so is what the members of an object hold
\* when they are arrays.
IsSeq(v) == \E S : v \in Seq(S)
Listed(value) == value.type = "array" => IsSeq(value.vector)
Members(list) == IsSeq(list) /\ \A i \in DOMAIN list : Listed(list[i].value)
WellMade(value) ==
  Listed(value) /\ (value.type = "object" => \A k \in DOMAIN value.map : Listed(value.map[k]))

MadeWell(kind, r) ==
  r.exc = "none" =>
    /\ kind = "value" => WellMade(r.value)
    /\ kind = "elements" => IsSeq(r.value)
    /\ kind = "members" => Members(r.value)

MadeAhead(whole, p, F) ==
  \A kind \in Kinds : \A q \in p + 1 .. Len(whole) + 1 : MadeWell(kind, F[<<kind, q>>])

LEMMA SeqFirst ==
  ASSUME NEW first, NEW rest, IsSeq(rest)
  PROVE  /\ IsSeq(<<first>> \o rest)
         /\ \A i \in DOMAIN (<<first>> \o rest) :
              (<<first>> \o rest)[i] = first
                \/ \E j \in DOMAIN rest : (<<first>> \o rest)[i] = rest[j]
<1>1. PICK S : rest \in Seq(S)
  BY DEF IsSeq
<1>2. <<first>> \in Seq(S \cup {first}) /\ rest \in Seq(S \cup {first})
  BY <1>1
<1>3. <<first>> \o rest \in Seq(S \cup {first})
  BY <1>2
<1>4. Len(<<first>>) = 1 /\ Len(rest) \in Nat /\ DOMAIN rest = 1 .. Len(rest)
  BY <1>1
<1>5. DOMAIN (<<first>> \o rest) = 1 .. Len(rest) + 1
  BY <1>2, <1>4
<1>6. ASSUME NEW i \in DOMAIN (<<first>> \o rest)
      PROVE  (<<first>> \o rest)[i] = first
                \/ \E j \in DOMAIN rest : (<<first>> \o rest)[i] = rest[j]
  <2>1. CASE i = 1
    BY <1>2, <1>4, <2>1
  <2>2. CASE i # 1
    <3>1. (<<first>> \o rest)[i] = rest[i - 1] /\ i - 1 \in DOMAIN rest
      BY <1>2, <1>4, <1>5, <2>2
    <3> QED  BY <3>1
  <2> QED  BY <2>1, <2>2
<1> QED  BY <1>3, <1>6 DEF IsSeq

LEMMA NoneIsSeq == IsSeq(<< >>) /\ Members(<< >>)
<1>1. << >> \in Seq({}) /\ DOMAIN << >> = {}
  OBVIOUS
<1> QED  BY <1>1 DEF IsSeq, Members

LEMMA EmplacedListed ==
  ASSUME NEW list, Members(list)
  PROVE  \A k \in DOMAIN Emplaced(list) : Listed(Emplaced(list)[k])
<1> SUFFICES ASSUME NEW k \in DOMAIN Emplaced(list)  PROVE Listed(Emplaced(list)[k])
  OBVIOUS
<1> DEFINE same == {i \in DOMAIN list : list[i].key = k}
           first == CHOOSE i \in same : \A j \in same : i <= j
<1>1. k \in {list[i].key : i \in DOMAIN list} /\ Emplaced(list)[k] = list[first].value
  BY DEF Emplaced
<1>2. PICK S : list \in Seq(S)
  BY DEF Members, IsSeq
<1>3. same \subseteq Nat /\ same # {}
  BY <1>1, <1>2
<1>4. \E i \in same : \A j \in same : i <= j
  <2> HIDE DEF same
  <2> QED  BY <1>3, LeastOf
<1>5. first \in same
  BY <1>4
<1>6. Listed(list[first].value)
  BY <1>5 DEF Members
<1> QED  BY <1>1, <1>6

LEMMA ObjectMade ==
  ASSUME NEW whole \in Texts, NEW p \in Positions(whole), MadeAhead(whole, p, Parser(whole)),
         NEW delimiter, IsDelimiter(delimiter, Closing),
         Object(whole, Parser(whole), p, delimiter).exc = "none"
  PROVE  Members(Object(whole, Parser(whole), p, delimiter).value)
<1> DEFINE F == Parser(whole)
           r == Object(whole, F, p, delimiter)
           q == whitespace(whole, p)
           key == KeyAt(whole, F, p)
           colon == ColonAt(whole, F, p)
           val == MemberValue(whole, F, p)
           rest == F[<<"members", val.at>>]
           member == [key |-> key.value, value |-> val.value]
<1>0. "members" \in Kinds /\ "value" \in Kinds
  BY DEF Kinds
<1>1. r # Throw("std::string", colon) /\ r # Throw("std::string", q) /\ r # Throw(CutShort, q)
  BY ThrowOf, Names
<1>2. \/ r = Parsed(<< >>, NextAt(whole, p) + 1)
      \/ r = Parsed(<< >>, q + 1)
      \/ /\ q <= Len(whole) /\ At(whole, colon) = ":"
         /\ val.exc = "none" /\ r = Joined(member, rest)
  BY <1>1, ObjectCases
<1>a. CASE \E i : r = Parsed(<< >>, i)
  BY <1>a, ParsedOf, NoneIsSeq
<1>b. CASE /\ q <= Len(whole) /\ At(whole, colon) = ":"
           /\ val.exc = "none" /\ r = Joined(member, rest)
  <2>1. Ahead(whole, p, F)
    BY ParserReads
  <2>2. colon + 1 \in p + 1 .. Len(whole) + 1 /\ val.at \in p + 1 .. Len(whole) + 1
    <3> HIDE DEF F
    <3> QED  BY <1>b, <2>1, MemberPlaces
  <2>3. WellMade(val.value)
    BY <1>0, <1>b, <2>2 DEF MadeAhead, MadeWell, MemberValue
  <2>4. rest.exc = "none" /\ r = Parsed(<<member>> \o rest.value, rest.at)
    <3>1. rest.exc = "none"
      BY <1>b, JoinedOf
    <3> HIDE DEF rest, member
    <3> QED  BY <1>b, <3>1 DEF Joined
  <2>5. Members(rest.value)
    <3> HIDE DEF val
    <3> QED  BY <1>0, <2>2, <2>4 DEF MadeAhead, MadeWell
  <2>6. r.value = <<member>> \o rest.value
    <3> HIDE DEF rest, member
    <3> QED  BY <2>4, ParsedOf
  <2>7. Listed(member.value)
    BY <2>3 DEF WellMade
  <2> HIDE DEF rest, member
  <2>8. Members(<<member>> \o rest.value)
    BY <2>5, <2>7, SeqFirst DEF Members
  <2> QED  BY <2>6, <2>8
<1> QED  BY <1>2, <1>a, <1>b

LEMMA ArrayMade ==
  ASSUME NEW whole \in Texts, NEW p \in Positions(whole), MadeAhead(whole, p, Parser(whole)),
         NEW delimiter, IsDelimiter(delimiter, "]"),
         Array(whole, Parser(whole), p, delimiter).exc = "none"
  PROVE  IsSeq(Array(whole, Parser(whole), p, delimiter).value)
<1> DEFINE F == Parser(whole)
           r == Array(whole, F, p, delimiter)
           q == whitespace(whole, p)
           next == NextAt(whole, p)
           val == ElementValue(whole, F, p)
           rest == F[<<"elements", val.at>>]
           first == val.value
<1>0. "elements" \in Kinds /\ "value" \in Kinds /\ Len(whole) \in Nat /\ p \in 1 .. Len(whole) + 1
  BY EndOf DEF Kinds
<1>1. r # Throw("std::string", q) /\ r # Throw(CutShort, q)
  BY ThrowOf, Names
<1>2. \/ r = Parsed(<< >>, next + 1)
      \/ r = Parsed(<< >>, q + 1)
      \/ q <= Len(whole) /\ val.exc = "none" /\ r = Joined(first, rest)
  BY <1>1, ArrayCases
<1>a. CASE \E i : r = Parsed(<< >>, i)
  BY <1>a, ParsedOf, NoneIsSeq
<1>b. CASE q <= Len(whole) /\ val.exc = "none" /\ r = Joined(first, rest)
  <2>1. Ahead(whole, p, F) /\ next \in p + 1 .. Len(whole) + 1
    BY <1>b, ParserReads, Places
  <2>2. val.at \in p + 1 .. Len(whole) + 1
    <3> HIDE DEF F, next
    <3>1. F[<<"value", next>>].at \in p + 1 .. Len(whole) + 1
      BY <1>0, <2>1, AheadOf
    <3> QED  BY <3>1 DEF ElementValue, next
  <2>4. rest.exc = "none" /\ r = Parsed(<<first>> \o rest.value, rest.at)
    <3>1. rest.exc = "none"
      BY <1>b, JoinedOf
    <3> HIDE DEF rest, first
    <3> QED  BY <1>b, <3>1 DEF Joined
  <2>5. IsSeq(rest.value)
    <3> HIDE DEF val
    <3> QED  BY <1>0, <2>2, <2>4 DEF MadeAhead, MadeWell
  <2>6. r.value = <<first>> \o rest.value
    <3> HIDE DEF rest, first
    <3> QED  BY <2>4, ParsedOf
  <2> HIDE DEF rest, first
  <2>8. IsSeq(<<first>> \o rest.value)
    BY <2>5, SeqFirst
  <2> QED  BY <2>6, <2>8
<1> QED  BY <1>2, <1>a, <1>b

LEMMA ValueMade ==
  ASSUME NEW whole \in Texts, NEW p \in Positions(whole), MadeAhead(whole, p, Parser(whole)),
         Value(whole, Parser(whole), p).exc = "none"
  PROVE  WellMade(Value(whole, Parser(whole), p).value)
<1> DEFINE F == Parser(whole)
           r == Value(whole, F, p)
           q == whitespace(whole, p)
           c == At(whole, q)
           object == Object(whole, F, q, Opening)
           array == Array(whole, F, q, "[")
           chars == escaped_string(whole, F, q)
           number == number_str(whole, q)
<1>0. q \in Positions(whole) /\ q \in p .. Len(whole) + 1 /\ Len(whole) \in Nat /\ p \in 1 .. Len(whole) + 1
  BY BlankUpTo, EndOf
<1>1. MadeAhead(whole, q, F)
  <2>1. \A i \in q + 1 .. Len(whole) + 1 : i \in p + 1 .. Len(whole) + 1
    BY <1>0
  <2> QED  BY <2>1 DEF MadeAhead
<1>2. IsDelimiter(Opening, Closing) /\ IsDelimiter("[", "]")
  BY Names DEF IsDelimiter
<1>3. \A value : value.type \notin {"array", "object"} => WellMade(value)
  BY DEF WellMade, Listed
<1>4. \A type, symbols : type \in {"string", "bool", "number"} => WellMade(Plain(type, symbols))
  BY <1>3 DEF Plain
<1>5. WellMade(NullValue)
  BY <1>3 DEF NullValue
<1>6. r \notin {Throw("std::string", q), Throw("undefined", Len(whole) + 1)}
  BY ThrowOf
<1>7. \/ r = Parsed(NullValue, q)
      \/ r = Parsed(NullValue, q + 1)
      \/ r = Parsed(Plain("bool", <<c>>), q + 1)
      \/ r = number
      \/ r = Made(Plain("string", chars.value), chars)
      \/ r = Made(ObjectOf(Emplaced(object.value)), object)
      \/ r = Made(ArrayOf(array.value), array)
  BY <1>6, ValueCases
<1>a. CASE \/ r = Parsed(NullValue, q)
           \/ r = Parsed(NullValue, q + 1)
           \/ r = Parsed(Plain("bool", <<c>>), q + 1)
  BY <1>a, <1>4, <1>5, ParsedOf
<1>b. CASE r = number
  <2> DEFINE first == IF At(whole, q) = "-" THEN q + 1 ELSE q
             last == Behind(whole, first, "d")
  <2>1. r # Throw("ParseException", first)
    BY ThrowOf
  <2>2. r = Parsed(Plain("number", SubSeq(whole, q, last - 1)), last)
    BY <1>0, <1>b, <2>1, NumberCases
  <2>3. r.value = Plain("number", SubSeq(whole, q, last - 1))
    BY <2>2, ParsedOf
  <2> QED  BY <2>3, <1>4
<1>c. CASE r = Made(Plain("string", chars.value), chars)
  <2>1. r.value = Plain("string", chars.value)
    BY <1>c, MadeOf
  <2> QED  BY <2>1, <1>4
<1>d. CASE r = Made(ObjectOf(Emplaced(object.value)), object)
  <2>1. object.exc = "none" /\ r.value = ObjectOf(Emplaced(object.value))
    BY <1>d, MadeOf
  <2>2. \A d : IsDelimiter(d, Closing) /\ Object(whole, F, q, d).exc = "none" =>
               Members(Object(whole, F, q, d).value)
    BY <1>0, <1>1, ObjectMade
  <2>3. Members(object.value)
    BY <1>2, <2>1, <2>2
  <2>4. \A k \in DOMAIN Emplaced(object.value) : Listed(Emplaced(object.value)[k])
    BY <2>3, EmplacedListed
  <2> DEFINE map == Emplaced(object.value)
  <2>5. \A m : (\A k \in DOMAIN m : Listed(m[k])) => WellMade(ObjectOf(m))
    BY DEF WellMade, Listed, ObjectOf
  <2> QED  BY <2>1, <2>4, <2>5
<1>e. CASE r = Made(ArrayOf(array.value), array)
  <2>1. array.exc = "none" /\ r.value = ArrayOf(array.value)
    BY <1>e, MadeOf
  <2>2. \A d : IsDelimiter(d, "]") /\ Array(whole, F, q, d).exc = "none" =>
               IsSeq(Array(whole, F, q, d).value)
    BY <1>0, <1>1, ArrayMade
  <2>3. IsSeq(array.value)
    BY <1>2, <2>1, <2>2
  <2>4. \A v : IsSeq(v) => WellMade(ArrayOf(v))
    BY DEF WellMade, Listed, ArrayOf
  <2> QED  BY <2>1, <2>3, <2>4
<1> QED  BY <1>7, <1>a, <1>b, <1>c, <1>d, <1>e

\* What the parser makes, at any position, and behind it.
LEMMA ParserMade ==
  ASSUME NEW whole \in Texts
  PROVE  \A p \in Positions(whole) :
           MadeAhead(whole, p, Parser(whole)) /\ MadeWell("value", Parser(whole)[<<"value", p>>])
<1> DEFINE last == Len(whole) + 1
           F == Parser(whole)
           Good == {p \in 1 .. last : \A kind \in Kinds : MadeWell(kind, F[<<kind, p>>])}
<1>0. Len(whole) \in Nat /\ last \in Nat /\ Positions(whole) = 1 .. last /\ 1 \in 1 .. last /\ "value" \in Kinds
  BY PositionsOf DEF Kinds
<1>1. ASSUME NEW p \in 1 .. last, \A q \in p + 1 .. last : q \in Good
      PROVE  p \in Good
  <2>1. MadeAhead(whole, p, F)
    BY <1>1 DEF MadeAhead
  <2>2. p \in Positions(whole) /\ IsDelimiter(Comma, Closing) /\ IsDelimiter(Comma, "]")
    BY <1>0, Names DEF IsDelimiter
  <2>3. ASSUME NEW kind \in Kinds
        PROVE  MadeWell(kind, F[<<kind, p>>])
    <3>1. F[<<kind, p>>] = Read(whole, F, <<kind, p>>)
      BY <2>2, ParserIs
    <3>a. CASE kind = "value"
      <4>1. F[<<kind, p>>] = Value(whole, F, p)
        BY <3>1, <3>a, ReadIs
      <4> QED  BY <2>1, <2>2, <3>a, <4>1, ValueMade DEF MadeWell
    <3>b. CASE kind = "members"
      <4>1. F[<<kind, p>>] = Object(whole, F, p, Comma)
        BY <3>1, <3>b, ReadIs
      <4> QED  BY <2>1, <2>2, <3>b, <4>1, ObjectMade DEF MadeWell
    <3>c. CASE kind = "elements"
      <4>1. F[<<kind, p>>] = Array(whole, F, p, Comma)
        BY <3>1, <3>c, ReadIs
      <4> QED  BY <2>1, <2>2, <3>c, <4>1, ArrayMade DEF MadeWell
    <3>d. CASE kind = "characters"
      BY <3>d DEF MadeWell
    <3> QED  BY <3>a, <3>b, <3>c, <3>d DEF Kinds
  <2> QED  BY <2>3
<1>2. \A p \in 1 .. last : p \in Good
  <2> HIDE DEF last, Good
  <2> QED  BY <1>0, <1>1, FromTheEnd
<1>3. ASSUME NEW p \in 1 .. last
      PROVE  MadeAhead(whole, p, F) /\ MadeWell("value", F[<<"value", p>>])
  <2>1. \A q \in p + 1 .. last : q \in 1 .. last
    BY <1>0
  <2>2. MadeAhead(whole, p, F)
    BY <1>2, <2>1 DEF MadeAhead
  <2> QED  BY <1>0, <1>2, <2>2
<1> QED  BY <1>0, <1>3

\* Whatever is read as a node is a value whose lists are sequences: apply_config can go
\* through the sections and the items it finds in it.
THEOREM NodeMade ==
  ASSUME NEW whole \in Texts, Node(whole).exc = "none"
  PROVE  WellMade(Node(whole).value)
<1>1. 1 \in Positions(whole)
  BY PositionsOf
<1>2. MadeWell("value", Parser(whole)[<<"value", 1>>])
  BY <1>1, ParserMade
<1> QED  BY <1>2 DEF Node, MadeWell

------------------------------------------------------------------------------
(* The grammar: each part of a text by the smaller ones *)

\* Two sets with the same elements.
LEMMA SetsEqual ==
  ASSUME NEW S, NEW T, \A x : x \in S <=> x \in T
  PROVE  S = T
OBVIOUS

\* The sets of the grammar, by what is in them.
LEMMA ValuesAre ==
  ASSUME NEW text, NEW g, NEW i, NEW j
  PROVE  /\ \A v : v \in Values(text, g, i, j) <=>
                  \E a \in Heads(text, i, j), b \in Lasts(text, i, j) : v \in Sole(text, g, a, b)
         /\ \A v : v \in Keys(text, g, i, j) <=>
                  \E a \in Heads(text, i, j), b \in Lasts(text, i, j) : v \in Strings(text, g, a, b)
BY DEF Values, Keys

\* One before each list.
LEMMA PrefixedAre ==
  ASSUME NEW S, NEW R
  PROVE  \A e : e \in Prefixed(S, R) <=> \E v \in S : \E r \in R : e = <<v>> \o r
BY DEF Prefixed

\* A list of elements is one, or one before a shorter list.
LEMMA ElementsAre ==
  ASSUME NEW text, NEW g, NEW i, NEW j
  PROVE  \A e : e \in Elements(text, g, i, j) <=>
           \/ \E v \in Values(text, g, i, j) : e = <<v>>
           \/ \E k \in Commas(text, i, j) :
                e \in Prefixed(Values(text, g, i, k - 1), g[<<"elements", k + 1, j>>])
BY DEF Elements

\* A member is a key, a colon and a value.
LEMMA PairsAre ==
  ASSUME NEW text, NEW g, NEW i, NEW j
  PROVE  \A m : m \in Pairs(text, g, i, j) <=>
           \E c \in Colons(text, i, j) :
             \E k \in Keys(text, g, i, c - 1), v \in Values(text, g, c + 1, j) :
               m = [key |-> k, value |-> v]
BY DEF Pairs

\* A list of members likewise.
LEMMA PairListsAre ==
  ASSUME NEW text, NEW g, NEW i, NEW j
  PROVE  \A e : e \in PairLists(text, g, i, j) <=>
           \/ \E m \in Pairs(text, g, i, j) : e = <<m>>
           \/ \E k \in Commas(text, i, j) :
                e \in Prefixed(Pairs(text, g, i, k - 1), g[<<"members", k + 1, j>>])
BY DEF PairLists

\* A string is a character or an escape, and what follows.
LEMMA SpellingsAre ==
  ASSUME NEW text, NEW g, NEW i, NEW j
  PROVE  \A e : e \in Spellings(text, g, i, j) <=>
           \/ i = j + 1 /\ e = << >>
           \/ /\ i <= j /\ text[i] \notin {Quote, Slash}
              /\ \E r \in g[<<"characters", i + 1, j>>] : e = <<text[i]>> \o r
           \/ /\ i + 1 <= j /\ text[i] = Slash /\ text[i + 1] \in {"n", "t", "r"}
              /\ \E r \in g[<<"characters", i + 2, j>>] : e = <<Escapes[text[i + 1]]>> \o r
           \/ /\ i + 1 <= j /\ text[i] = Slash /\ text[i + 1] \in {Quote, Slash}
              /\ \E r \in g[<<"characters", i + 2, j>>] : e = <<text[i + 1]>> \o r
           \/ /\ i + 5 <= j /\ text[i] = Slash /\ text[i + 1] = "u"
              /\ \E r \in g[<<"characters", i + 6, j>>] :
                   e = to_unicode(SubSeq(text, i + 2, i + 5)) \o r
BY DEF Spellings

\* Where the commas and the colons are.
LEMMA CommasAre ==
  ASSUME NEW text, NEW i, NEW j
  PROVE  /\ \A k : k \in Commas(text, i, j) <=> k \in i .. j /\ text[k] = Comma
         /\ \A k : k \in Colons(text, i, j) <=> k \in i .. j /\ text[k] = ":"
BY Zenon DEF Commas, Colons, Comma

SameBelow(text, g, h, m) ==
  \A kind \in Nested : \A i \in Positions(text) : \A j \in 0 .. Len(text) :
    j - i < m => g[<<kind, i, j>>] = h[<<kind, i, j>>]

\* A value depends on the parts that lie within it.
LEMMA SoleSame ==
  ASSUME NEW text \in Texts, NEW m \in Int, NEW g, NEW h, SameBelow(text, g, h, m),
         NEW a \in 1 .. Len(text), NEW b \in 1 .. Len(text), b - a <= m
  PROVE  /\ Strings(text, g, a, b) = Strings(text, h, a, b)
         /\ Sole(text, g, a, b) = Sole(text, h, a, b)
<1>0. Len(text) \in Nat /\ Positions(text) = 1 .. Len(text) + 1
  BY PositionsOf
<1>1. /\ a < b => a + 1 \in Positions(text) /\ b - 1 \in 0 .. Len(text)
      /\ b - 1 - (a + 1) < m
  BY <1>0
<1>2. a < b => \A kind \in Nested : g[<<kind, a + 1, b - 1>>] = h[<<kind, a + 1, b - 1>>]
  BY <1>1 DEF SameBelow
<1>3. \A kind \in Nested : \A first, last : Lists(text, g, kind, a, b, first, last) = Lists(text, h, kind, a, b, first, last)
  BY <1>2 DEF Lists, Encloses
<1>4. "characters" \in Nested /\ "elements" \in Nested /\ "members" \in Nested
  BY DEF Nested
<1>5. Strings(text, g, a, b) = Strings(text, h, a, b)
  BY <1>2, <1>4 DEF Strings, Encloses
<1>6. \A first, last : Lists(text, g, "elements", a, b, first, last) = Lists(text, h, "elements", a, b, first, last)
  BY <1>3, <1>4
<1>7. \A first, last : Lists(text, g, "members", a, b, first, last) = Lists(text, h, "members", a, b, first, last)
  BY <1>3, <1>4
<1>8. Sole(text, g, a, b) = Sole(text, h, a, b)
  BY <1>5, <1>6, <1>7, Zenon DEF Sole
<1> QED  BY <1>5, <1>8

\* ... with the space around it as well,
LEMMA ValuesSame ==
  ASSUME NEW text \in Texts, NEW m \in Int, NEW g, NEW h, SameBelow(text, g, h, m),
         NEW i \in Positions(text), NEW j \in 0 .. Len(text), j - i <= m
  PROVE  /\ Values(text, g, i, j) = Values(text, h, i, j)
         /\ Keys(text, g, i, j) = Keys(text, h, i, j)
<1>0. Len(text) \in Nat /\ Positions(text) = 1 .. Len(text) + 1
  BY PositionsOf
<1>1. ASSUME NEW a \in Heads(text, i, j), NEW b \in Lasts(text, i, j)
      PROVE  /\ Strings(text, g, a, b) = Strings(text, h, a, b)
             /\ Sole(text, g, a, b) = Sole(text, h, a, b)
  <2>1. a \in i .. j /\ b \in i .. j
    BY DEF Heads, Lasts
  <2>2. a \in 1 .. Len(text) /\ b \in 1 .. Len(text) /\ b - a <= m
    BY <1>0, <2>1
  <2> QED  BY <2>2, SoleSame
<1>2. \A v : v \in Values(text, g, i, j) <=> v \in Values(text, h, i, j)
  BY <1>1, ValuesAre
<1>3. \A v : v \in Keys(text, g, i, j) <=> v \in Keys(text, h, i, j)
  BY <1>1, ValuesAre
<1> QED  BY <1>2, <1>3, SetsEqual

\* ... and so does everything else.
LEMMA TakenSame ==
  ASSUME NEW text \in Texts, NEW g, NEW h, NEW i \in Positions(text), NEW j \in 0 .. Len(text),
         SameBelow(text, g, h, j - i), NEW kind \in Nested
  PROVE  Taken(text, g, <<kind, i, j>>) = Taken(text, h, <<kind, i, j>>)
<1>0. Len(text) \in Nat /\ Positions(text) = 1 .. Len(text) + 1 /\ i \in 1 .. Len(text) + 1
  BY PositionsOf
<1>1. ASSUME NEW k \in Commas(text, i, j)
      PROVE  /\ Values(text, g, i, k - 1) = Values(text, h, i, k - 1)
             /\ Keys(text, g, i, k - 1) = Keys(text, h, i, k - 1)
             /\ Values(text, g, k + 1, j) = Values(text, h, k + 1, j)
             /\ \A part \in Nested : g[<<part, k + 1, j>>] = h[<<part, k + 1, j>>]
  <2>1. k \in i .. j
    BY CommasAre
  <2>2. k - 1 \in 0 .. Len(text) /\ k + 1 \in Positions(text)
        /\ k - 1 - i <= j - i /\ j - (k + 1) < j - i /\ j - i \in Int
    BY <1>0, <2>1
  <2>3. \A part \in Nested : g[<<part, k + 1, j>>] = h[<<part, k + 1, j>>]
    BY <2>2 DEF SameBelow
  <2>4. j - (k + 1) <= j - i
    BY <1>0, <2>1
  <2> QED  BY <2>2, <2>3, <2>4, ValuesSame
<1>2. Values(text, g, i, j) = Values(text, h, i, j)
  <2>1. j - i \in Int /\ j - i <= j - i
    BY <1>0
  <2> QED  BY <2>1, ValuesSame
<1>3. "characters" \in Nested /\ "elements" \in Nested /\ "members" \in Nested
  BY DEF Nested
<1>4. CASE kind = "elements"
  <2>1. Elements(text, g, i, j) = Elements(text, h, i, j)
    <3>1. \A k \in Commas(text, i, j) :
            Prefixed(Values(text, g, i, k - 1), g[<<"elements", k + 1, j>>]) =
              Prefixed(Values(text, h, i, k - 1), h[<<"elements", k + 1, j>>])
      BY <1>1, <1>3
    <3>2. \A e : e \in Elements(text, g, i, j) <=> e \in Elements(text, h, i, j)
      BY <1>2, <3>1 DEF Elements
    <3> QED  BY <3>2, SetsEqual
  <2> QED  BY <2>1, <1>4 DEF Taken
<1>5. CASE kind = "members"
  <2>1. \A k \in Positions(text) : \A l \in 0 .. Len(text) : l - k <= j - i => Pairs(text, g, k, l) = Pairs(text, h, k, l)
    <3> SUFFICES ASSUME NEW k \in Positions(text), NEW l \in 0 .. Len(text), l - k <= j - i
                 PROVE  Pairs(text, g, k, l) = Pairs(text, h, k, l)
      OBVIOUS
    <3>1. ASSUME NEW c \in Colons(text, k, l)
          PROVE  /\ Keys(text, g, k, c - 1) = Keys(text, h, k, c - 1)
                 /\ Values(text, g, c + 1, l) = Values(text, h, c + 1, l)
      <4>1. c \in k .. l
        BY CommasAre
      <4>2. c - 1 \in 0 .. Len(text) /\ c + 1 \in Positions(text)
            /\ c - 1 - k <= j - i /\ l - (c + 1) <= j - i /\ j - i \in Int
        BY <1>0, <4>1
      <4> QED  BY <4>2, ValuesSame
    <3>2. \A m : m \in Pairs(text, g, k, l) <=> m \in Pairs(text, h, k, l)
      BY <3>1, PairsAre
    <3> QED  BY <3>2, SetsEqual
  <2>2. Pairs(text, g, i, j) = Pairs(text, h, i, j)
    BY <2>1, <1>0
  <2>3. ASSUME NEW k \in Commas(text, i, j)
        PROVE  Pairs(text, g, i, k - 1) = Pairs(text, h, i, k - 1)
    <3>1. k \in i .. j
      BY CommasAre
    <3>2. k - 1 \in 0 .. Len(text) /\ k - 1 - i <= j - i
      BY <1>0, <3>1
    <3> QED  BY <2>1, <3>2
  <2>4. PairLists(text, g, i, j) = PairLists(text, h, i, j)
    <3>1. \A k \in Commas(text, i, j) :
            Prefixed(Pairs(text, g, i, k - 1), g[<<"members", k + 1, j>>]) =
              Prefixed(Pairs(text, h, i, k - 1), h[<<"members", k + 1, j>>])
      BY <1>1, <1>3, <2>3
    <3>2. \A e : e \in PairLists(text, g, i, j) <=> e \in PairLists(text, h, i, j)
      BY <2>2, <3>1 DEF PairLists
    <3> QED  BY <3>2, SetsEqual
  <2> QED  BY <2>4, <1>5 DEF Taken
<1>6. CASE kind = "characters"
  <2>1. \A n \in {1, 2, 6} : i + n <= j + 1 =>
          g[<<"characters", i + n, j>>] = h[<<"characters", i + n, j>>]
    <3> SUFFICES ASSUME NEW n \in {1, 2, 6}, i + n <= j + 1
                 PROVE  g[<<"characters", i + n, j>>] = h[<<"characters", i + n, j>>]
      OBVIOUS
    <3>1. i + n \in Positions(text) /\ j - (i + n) < j - i
      BY <1>0
    <3> QED  BY <3>1, <1>3 DEF SameBelow
  <2>2. /\ i <= j => g[<<"characters", i + 1, j>>] = h[<<"characters", i + 1, j>>]
        /\ i + 1 <= j => g[<<"characters", i + 2, j>>] = h[<<"characters", i + 2, j>>]
        /\ i + 5 <= j => g[<<"characters", i + 6, j>>] = h[<<"characters", i + 6, j>>]
    BY <2>1, <1>0
  <2>3. Spellings(text, g, i, j) = Spellings(text, h, i, j)
    BY <2>2, Zenon DEF Spellings
  <2> QED  BY <2>3, <1>6 DEF Taken
<1> QED  BY <1>4, <1>5, <1>6 DEF Nested

\* The grammar as far as it is known: of parts up to a size.
FitsBelow(text, g, m) ==
  \A kind \in Nested : \A i \in Positions(text) : \A j \in 0 .. Len(text) :
    j - i < m => g[<<kind, i, j>>] = Taken(text, g, <<kind, i, j>>)

Larger(text, g, m) ==
  [part \in Nested \X Positions(text) \X (0 .. Len(text)) |->
     IF part[3] - part[2] = m THEN Taken(text, g, part) ELSE g[part]]

\* What is known of the smaller parts tells what the next larger ones are.
LEMMA FitsLarger ==
  ASSUME NEW text \in Texts, NEW m \in Int, NEW g, FitsBelow(text, g, m)
  PROVE  FitsBelow(text, Larger(text, g, m), m + 1)
<1> DEFINE h == Larger(text, g, m)
<1>0. Len(text) \in Nat /\ Positions(text) = 1 .. Len(text) + 1
  BY PositionsOf
<1>1. ASSUME NEW kind \in Nested, NEW i \in Positions(text), NEW j \in 0 .. Len(text)
      PROVE  h[<<kind, i, j>>] = IF j - i = m THEN Taken(text, g, <<kind, i, j>>) ELSE g[<<kind, i, j>>]
  BY DEF Larger
<1> HIDE DEF h
<1>2. SUFFICES ASSUME NEW kind \in Nested, NEW i \in Positions(text), NEW j \in 0 .. Len(text), j - i < m + 1
               PROVE  h[<<kind, i, j>>] = Taken(text, h, <<kind, i, j>>)
  BY DEF FitsBelow, h
<1>3. j - i <= m /\ j - i \in Int
  BY <1>0, <1>2
<1>4. SameBelow(text, g, h, j - i)
  <2>1. \A k \in Positions(text), l \in 0 .. Len(text) : l - k < j - i => l - k # m
    BY <1>0, <1>3
  <2> QED  BY <2>1, <1>1 DEF SameBelow
<1>5. Taken(text, g, <<kind, i, j>>) = Taken(text, h, <<kind, i, j>>)
  BY <1>4, TakenSame
<1>6. CASE j - i = m
  BY <1>1, <1>5, <1>6
<1>7. CASE j - i # m
  <2>1. j - i < m
    BY <1>3, <1>7
  <2>2. g[<<kind, i, j>>] = Taken(text, g, <<kind, i, j>>)
    BY <2>1 DEF FitsBelow
  <2> QED  BY <1>1, <1>5, <1>7, <2>2
<1> QED  BY <1>6, <1>7

\* There is just what the grammar describes.
LEMMA GrammarIs ==
  ASSUME NEW text \in Texts, NEW kind \in Nested, NEW i \in Positions(text), NEW j \in 0 .. Len(text)
  PROVE  Grammar(text)[<<kind, i, j>>] = Taken(text, Grammar(text), <<kind, i, j>>)
<1> DEFINE S == Nested \X Positions(text) \X (0 .. Len(text))
           L == Len(text)
           last == L + L + 2
           Good == {n \in 0 .. last : \E g : FitsBelow(text, g, n - L - 1)}
<1>0. L \in Nat /\ last \in Nat /\ Positions(text) = 1 .. L + 1
  BY PositionsOf
<1>1. 0 \in Good
  <2>1. \A g : FitsBelow(text, g, 0 - L - 1)
    <3>1. \A k \in Positions(text), l \in 0 .. L : ~(l - k < 0 - L - 1)
      BY <1>0
    <3> QED  BY <3>1 DEF FitsBelow
  <2> QED  BY <2>1, <1>0
<1>2. ASSUME NEW n \in 0 .. last - 1, n \in Good
      PROVE  n + 1 \in Good
  <2>1. PICK g : FitsBelow(text, g, n - L - 1)
    BY <1>2
  <2>2. n - L - 1 \in Int /\ n - L - 1 + 1 = n + 1 - L - 1 /\ n + 1 \in 0 .. last
    BY <1>0
  <2>3. FitsBelow(text, Larger(text, g, n - L - 1), n + 1 - L - 1)
    BY <2>1, <2>2, FitsLarger
  <2> QED  BY <2>2, <2>3
<1>3. last \in Good
  <2> HIDE DEF Good, last
  <2>1. \A n \in 0 .. last : n \in Good
    BY <1>0, <1>1, <1>2, FromTheStart
  <2> QED  BY <1>0, <2>1
<1>4. PICK g : FitsBelow(text, g, L + 1)
  <2>1. last - L - 1 = L + 1
    BY <1>0
  <2> QED  BY <1>3, <2>1
<1> DEFINE h == [part \in S |-> g[part]]
<1>5. ASSUME NEW part \in S
      PROVE  g[part] = Taken(text, h, part)
  <2>1. PICK a \in Nested, b \in Positions(text), c \in 0 .. L : part = <<a, b, c>>
    OBVIOUS
  <2>2. c - b < L + 1 /\ c - b \in Int
    BY <1>0
  <2>3. g[<<a, b, c>>] = Taken(text, g, <<a, b, c>>)
    BY <1>4, <2>2 DEF FitsBelow
  <2>4. SameBelow(text, g, h, c - b)
    BY DEF SameBelow
  <2>5. Taken(text, g, <<a, b, c>>) = Taken(text, h, <<a, b, c>>)
    <3> HIDE DEF h
    <3> QED  BY <2>4, TakenSame
  <2> QED  BY <2>1, <2>3, <2>5
<1>6. h = [part \in S |-> Taken(text, h, part)]
  <2>1. h = [part \in S |-> h[part]] /\ \A part \in S : h[part] = g[part]
    OBVIOUS
  <2> HIDE DEF h, S
  <2> QED  BY <2>1, <1>5
<1>7. \E f : f = [part \in S |-> Taken(text, f, part)]
  <2> HIDE DEF h
  <2> QED  BY <1>6
<1>8. Grammar(text) = [part \in S |-> Taken(text, Grammar(text), part)]
  BY <1>7 DEF Grammar
<1> DEFINE G == Grammar(text)
<1> HIDE DEF G
<1>9. G = [part \in S |-> Taken(text, G, part)]
  BY <1>8 DEF G
<1>10. <<kind, i, j>> \in S
  OBVIOUS
<1> HIDE DEF S
<1>11. G[<<kind, i, j>>] = Taken(text, G, <<kind, i, j>>)
  BY <1>9, <1>10
<1> QED  BY <1>11 DEF G

\* What a part of a text denotes, by what its smaller parts do.
LEMMA GrammarOf ==
  ASSUME NEW text \in Texts, NEW i \in Positions(text), NEW j \in 0 .. Len(text)
  PROVE  LET g == Grammar(text)
         IN  /\ g[<<"elements", i, j>>] = Elements(text, g, i, j)
             /\ g[<<"members", i, j>>] = PairLists(text, g, i, j)
             /\ g[<<"characters", i, j>>] = Spellings(text, g, i, j)
<1>1. "characters" \in Nested /\ "elements" \in Nested /\ "members" \in Nested
  BY DEF Nested
<1>2. \A g : /\ Taken(text, g, <<"elements", i, j>>) = Elements(text, g, i, j)
             /\ Taken(text, g, <<"members", i, j>>) = PairLists(text, g, i, j)
             /\ Taken(text, g, <<"characters", i, j>>) = Spellings(text, g, i, j)
  BY DEF Taken
<1> QED  BY <1>1, <1>2, GrammarIs

------------------------------------------------------------------------------
(* Space around a part *)

\* The characters of a text.
LEMMA TextAt ==
  ASSUME NEW text \in Texts
  PROVE  /\ Len(text) \in Nat
         /\ \A p \in 1 .. Len(text) : At(text, p) = text[p] /\ text[p] \in STRING /\ text[p] # End
         /\ \A p \in Positions(text) : At(text, p) # End => p \in 1 .. Len(text)
<1>1. Len(text) \in Nat /\ Positions(text) = 1 .. Len(text) + 1
  BY PositionsOf
<1>2. \A p \in 1 .. Len(text) : At(text, p) = text[p]
  BY <1>1 DEF At
<1>3. \A p \in 1 .. Len(text) : At(text, p) \in STRING /\ At(text, p) # End
  BY PositionsOf
<1>4. \A p \in Positions(text) : At(text, p) # End => p \in 1 .. Len(text)
  BY <1>1, EndOf
<1> QED  BY <1>1, <1>2, <1>3, <1>4

\* The first character that is no space, as whitespace finds it.
LEMMA HeadsAre ==
  ASSUME NEW text \in Texts, NEW i \in Positions(text), NEW j \in 0 .. Len(text)
  PROVE  \A a : a \in Heads(text, i, j) <=> a = whitespace(text, i) /\ a <= j
<1> DEFINE q == whitespace(text, i)
<1>0. Len(text) \in Nat /\ i \in 1 .. Len(text) + 1
  BY PositionsOf
<1>1. /\ q \in i .. Len(text) + 1 /\ At(text, q) # "ws"
      /\ \A r \in i .. q - 1 : At(text, r) = "ws"
  BY BlankUpTo
<1> HIDE DEF q
<1>2. ASSUME q <= j  PROVE q \in Heads(text, i, j)
  <2>1. q \in i .. j /\ q \in 1 .. Len(text) /\ \A r \in i .. q - 1 : r \in 1 .. Len(text)
    BY <1>0, <1>1, <1>2
  <2>2. text[q] # "ws" /\ \A r \in i .. q - 1 : text[r] = "ws"
    BY <2>1, <1>1, TextAt
  <2> QED  BY <2>1, <2>2 DEF Heads, Blank
<1>3. ASSUME NEW a \in Heads(text, i, j)  PROVE a = q /\ a <= j
  <2>1. a \in i .. j /\ text[a] # "ws" /\ \A r \in i .. a - 1 : text[r] = "ws"
    BY DEF Heads, Blank
  <2>2. a \in i .. Len(text) + 1 /\ a \in 1 .. Len(text) /\ a <= j
        /\ \A r \in i .. a - 1 : r \in 1 .. Len(text)
    BY <1>0, <2>1
  <2>3. At(text, a) # "ws" /\ \A r \in i .. a - 1 : At(text, r) = "ws"
    BY <2>1, <2>2, TextAt
  <2>4. "ws" # End
    BY DEF End
  <2>5. Behind(text, i, "ws") = a
    BY <2>2, <2>3, <2>4, BehindIs
  <2> QED  BY <2>2, <2>5 DEF q, whitespace
<1> QED  BY <1>2, <1>3 DEF q

\* The last one.
LEMMA LastsAre ==
  ASSUME NEW text, NEW i, NEW j
  PROVE  \A b : b \in Lasts(text, i, j) <=> b \in i .. j /\ text[b] # "ws" /\ Blank(text, b + 1, j)
BY DEF Lasts

\* There is no space behind space.
LEMMA SpaceAgain ==
  ASSUME NEW text \in Texts, NEW p \in Positions(text)
  PROVE  whitespace(text, whitespace(text, p)) = whitespace(text, p)
<1> DEFINE q == whitespace(text, p)
<1>0. q \in p .. Len(text) + 1 /\ q \in Positions(text) /\ At(text, q) # "ws" /\ "ws" # End
  BY BlankUpTo DEF End
<1>1. q \in q .. Len(text) + 1 /\ \A r \in q .. q - 1 : At(text, r) = "ws"
  <2>1. Len(text) \in Nat /\ p \in Nat
    BY PositionsOf
  <2> HIDE DEF q
  <2> QED  BY <1>0, <2>1
<1> HIDE DEF q
<1>2. Behind(text, q, "ws") = q
  BY <1>0, <1>1, BehindIs
<1> QED  BY <1>2 DEF q, whitespace

\* A part with space on both sides.
LEMMA InValues ==
  ASSUME NEW text \in Texts, NEW g, NEW i \in Positions(text), NEW j \in 0 .. Len(text),
         NEW b \in whitespace(text, i) .. j, text[b] # "ws", Blank(text, b + 1, j)
  PROVE  /\ \A v \in Sole(text, g, whitespace(text, i), b) : v \in Values(text, g, i, j)
         /\ \A v \in Strings(text, g, whitespace(text, i), b) : v \in Keys(text, g, i, j)
<1> DEFINE a == whitespace(text, i)
<1>1. a \in i .. Len(text) + 1 /\ Len(text) \in Nat /\ i \in 1 .. Len(text) + 1
  BY BlankUpTo, PositionsOf
<1>2. a \in Heads(text, i, j)
  <2>1. a <= j
    <3> HIDE DEF a
    <3> QED  BY <1>1 DEF a
  <2> QED  BY <2>1, HeadsAre
<1>3. b \in Lasts(text, i, j)
  <2>1. b \in i .. j
    <3>1. b \in a .. j
      OBVIOUS
    <3> HIDE DEF a
    <3> QED  BY <1>1, <3>1
  <2> QED  BY <2>1, LastsAre
<1> QED  BY <1>2, <1>3, ValuesAre

\* A value, by its kind.
LEMMA SoleIs ==
  ASSUME NEW text, NEW g, NEW a, NEW b
  PROVE  \A v : v \in Sole(text, g, a, b) <=>
           \/ a = b /\ text[a] = "null" /\ v = NullValue
           \/ a = b /\ text[a] \in {"true", "false"} /\ v = Plain("bool", <<text[a]>>)
           \/ IsNumber(text, a, b) /\ v = Plain("number", SubSeq(text, a, b))
           \/ \E c \in Strings(text, g, a, b) : v = Plain("string", c)
           \/ \E e \in Lists(text, g, "elements", a, b, "[", "]") : v = ArrayOf(e)
           \/ \E m \in Lists(text, g, "members", a, b, Opening, Closing) : v = ObjectOf(Firsts(m))
BY Zenon DEF Sole, Opening, Closing

\* A list, empty or not.
LEMMA ListsAre ==
  ASSUME NEW text, NEW g, NEW kind, NEW a, NEW b, NEW first, NEW last
  PROVE  /\ \A e : e \in Lists(text, g, kind, a, b, first, last) <=>
                /\ Encloses(text, a, b, first, last)
                /\ (Blank(text, a + 1, b - 1) /\ e = << >>) \/ e \in g[<<kind, a + 1, b - 1>>]
         /\ \A c : c \in Strings(text, g, a, b) <=>
                /\ Encloses(text, a, b, Quote, Quote)
                /\ c \in g[<<"characters", a + 1, b - 1>>]
<1>1. \A e : e \in Lists(text, g, kind, a, b, first, last) <=>
                /\ Encloses(text, a, b, first, last)
                /\ (Blank(text, a + 1, b - 1) /\ e = << >>) \/ e \in g[<<kind, a + 1, b - 1>>]
  BY DEF Lists
<1>2. \A c : c \in Strings(text, g, a, b) <=>
                /\ Encloses(text, a, b, Quote, Quote)
                /\ c \in g[<<"characters", a + 1, b - 1>>]
  BY DEF Strings
<1> QED  BY <1>1, <1>2

\* The first of two members with one key is the one whose key is new.
LEMMA FirstsAre ==
  ASSUME NEW ms, IsSeq(ms)
  PROVE  Firsts(ms) = Emplaced(ms)
<1> DEFINE new == {i \in DOMAIN ms : \A j \in 1 .. i - 1 : ms[j].key # ms[i].key}
           Same(k) == {i \in DOMAIN ms : ms[i].key = k}
           First(k) == CHOOSE i \in Same(k) : \A j \in Same(k) : i <= j
           Place(k) == CHOOSE i \in new : ms[i].key = k
           keys == {ms[i].key : i \in DOMAIN ms}
<1>1. PICK S : ms \in Seq(S)
  BY DEF IsSeq
<1>2. DOMAIN ms = 1 .. Len(ms) /\ Len(ms) \in Nat
  BY <1>1
<1>3. ASSUME NEW k \in keys
      PROVE  First(k) = Place(k) /\ First(k) \in new /\ ms[First(k)].key = k
  <2>1. Same(k) \subseteq Nat /\ Same(k) # {}
    BY <1>2
  <2>2. PICK m \in Same(k) : \A j \in Same(k) : m <= j
    <3> HIDE DEF Same
    <3> QED  BY <2>1, LeastOf
  <2>3. First(k) \in Same(k) /\ \A j \in Same(k) : First(k) <= j
    <3> HIDE DEF Same
    <3> QED  BY <2>2
  <2> DEFINE f == First(k)
  <2> HIDE DEF First
  <2>4. f \in DOMAIN ms /\ ms[f].key = k /\ \A j \in DOMAIN ms : ms[j].key = k => f <= j
    BY <2>3
  <2> HIDE DEF f
  <2>5. f \in 1 .. Len(ms) /\ \A j \in 1 .. Len(ms) : ms[j].key = k => f <= j
    BY <2>4, <1>2
  <2>6. ASSUME NEW j \in 1 .. f - 1  PROVE ms[j].key # k
    <3>1. j \in 1 .. Len(ms) /\ ~(f <= j)
      BY <2>5, <1>2
    <3> QED  BY <2>5, <3>1
  <2>7. f \in new
    BY <2>4, <2>6
  <2>8. ASSUME NEW i \in new, ms[i].key = k  PROVE i = f
    <3>1. i \in 1 .. Len(ms) /\ \A j \in 1 .. i - 1 : ms[j].key # k
      BY <1>2, <2>8
    <3>2. f <= i
      BY <2>5, <3>1, <2>8
    <3>3. ~(f <= i - 1)
      BY <2>4, <2>5, <3>1
    <3> QED  BY <2>5, <3>1, <3>2, <3>3
  <2>9. Place(k) = f
    <3> HIDE DEF new
    <3> QED  BY <2>4, <2>7, <2>8
  <2> HIDE DEF new, Place
  <2> QED  BY <2>4, <2>7, <2>9 DEF f
<1>4. keys = {ms[i].key : i \in new}
  <2>1. \A k \in keys : \E i \in new : ms[i].key = k
    <3> HIDE DEF keys, new, First, Place
    <3> QED  BY <1>3
  <2>2. new \subseteq DOMAIN ms
    OBVIOUS
  <2> HIDE DEF new
  <2> QED  BY <2>1, <2>2
<1>5. Firsts(ms) = [k \in keys |-> ms[Place(k)].value]
  <2>1. Firsts(ms) = [k \in {ms[i].key : i \in new} |-> ms[Place(k)].value]
    BY DEF Firsts
  <2> HIDE DEF keys, new, Place
  <2> QED  BY <1>4, <2>1
<1>6. Emplaced(ms) = [k \in keys |-> ms[First(k)].value]
  BY DEF Emplaced
<1> HIDE DEF keys, new, First, Place
<1> QED  BY <1>3, <1>5, <1>6

------------------------------------------------------------------------------
(* What is read is in the grammar *)

\* What whitespace skips is blank.
LEMMA BlankText ==
  ASSUME NEW text \in Texts, NEW p \in Positions(text)
  PROVE  Blank(text, p, whitespace(text, p) - 1)
<1> DEFINE q == whitespace(text, p)
<1>1. q \in p .. Len(text) + 1 /\ \A r \in p .. q - 1 : At(text, r) = "ws"
  BY BlankUpTo
<1>2. Len(text) \in Nat /\ p \in 1 .. Len(text) + 1
  BY PositionsOf
<1> HIDE DEF q
<1>3. \A r \in p .. q - 1 : r \in 1 .. Len(text)
  BY <1>1, <1>2
<1>4. \A r \in p .. q - 1 : text[r] = "ws"
  BY <1>1, <1>3, TextAt
<1> QED  BY <1>4 DEF Blank, q

\* A part, and the space behind it.
LEMMA Inside ==
  ASSUME NEW text \in Texts, NEW g, NEW i \in Positions(text),
         NEW b \in whitespace(text, i) .. Len(text), text[b] # "ws"
  PROVE  LET j == whitespace(text, b + 1) - 1
         IN  /\ j \in b .. Len(text) /\ j + 1 \in Positions(text) /\ b + 1 \in Positions(text)
             /\ whitespace(text, i) \in i .. b
             /\ \A v \in Sole(text, g, whitespace(text, i), b) : v \in Values(text, g, i, j)
             /\ \A v \in Strings(text, g, whitespace(text, i), b) : v \in Keys(text, g, i, j)
<1> DEFINE a == whitespace(text, i)
           w == whitespace(text, b + 1)
           j == w - 1
<1>1. a \in i .. Len(text) + 1 /\ Len(text) \in Nat /\ i \in 1 .. Len(text) + 1
  BY BlankUpTo, PositionsOf
<1>2. b \in a .. Len(text)
  OBVIOUS
<1>3. b + 1 \in Positions(text)
  <2> HIDE DEF a
  <2> QED  BY <1>1, <1>2, PositionsOf
<1>4. w \in b + 1 .. Len(text) + 1 /\ w \in Positions(text) /\ Blank(text, b + 1, j)
  BY <1>3, BlankUpTo, BlankText
<1>5. /\ j \in b .. Len(text) /\ j \in 0 .. Len(text) /\ j + 1 = w
      /\ b \in a .. j /\ a \in i .. b
  <2> HIDE DEF a, w
  <2> QED  BY <1>1, <1>2, <1>4
<1>6. /\ \A v \in Sole(text, g, a, b) : v \in Values(text, g, i, j)
      /\ \A v \in Strings(text, g, a, b) : v \in Keys(text, g, i, j)
  <2> HIDE DEF j
  <2> QED  BY <1>4, <1>5, InValues
<1> QED  BY <1>3, <1>4, <1>5, <1>6

\* What is read is in the grammar.
IsValue(text, p, r) ==
  r.exc = "none" /\ whitespace(text, p) <= Len(text) =>
    \E b \in whitespace(text, p) .. Len(text) :
      /\ r.at = b + 1 /\ text[b] # "ws"
      /\ r.value \in Sole(text, Grammar(text), whitespace(text, p), b)
IsString(text, p, r) ==
  r.exc = "none" =>
    \E b \in p .. Len(text) :
      /\ r.at = b + 1 /\ text[b] = Quote
      /\ r.value \in Grammar(text)[<<"characters", p, b - 1>>]
IsList(text, p, r, kind, d, close) ==
  r.exc = "none" =>
    \E b \in whitespace(text, p) .. Len(text) :
      /\ r.at = b + 1 /\ text[b] = close
      /\ \/ b = whitespace(text, p) /\ r.value = << >>
         \/ /\ b > whitespace(text, p) /\ text[whitespace(text, p)] = d
            /\ \/ r.value \in Grammar(text)[<<kind, whitespace(text, p) + 1, b - 1>>]
               \/ /\ d # Comma /\ r.value = << >>
                  /\ Blank(text, whitespace(text, p) + 1, b - 1)

IsRead(text, q, F) ==
  /\ IsValue(text, q, F[<<"value", q>>])
  /\ IsString(text, q, F[<<"characters", q>>])
  /\ IsList(text, q, F[<<"elements", q>>], "elements", Comma, "]")
  /\ IsList(text, q, F[<<"members", q>>], "members", Comma, Closing)

\* The characters between quotes, in the grammar.
LEMMA CharactersIn ==
  ASSUME NEW text \in Texts, NEW i \in Positions(text), NEW j \in 0 .. Len(text)
  PROVE  \A e : e \in Grammar(text)[<<"characters", i, j>>] <=>
           \/ i = j + 1 /\ e = << >>
           \/ /\ i <= j /\ text[i] \notin {Quote, Slash}
              /\ \E r \in Grammar(text)[<<"characters", i + 1, j>>] : e = <<text[i]>> \o r
           \/ /\ i + 1 <= j /\ text[i] = Slash /\ text[i + 1] \in {"n", "t", "r"}
              /\ \E r \in Grammar(text)[<<"characters", i + 2, j>>] : e = <<Escapes[text[i + 1]]>> \o r
           \/ /\ i + 1 <= j /\ text[i] = Slash /\ text[i + 1] \in {Quote, Slash}
              /\ \E r \in Grammar(text)[<<"characters", i + 2, j>>] : e = <<text[i + 1]>> \o r
           \/ /\ i + 5 <= j /\ text[i] = Slash /\ text[i + 1] = "u"
              /\ \E r \in Grammar(text)[<<"characters", i + 6, j>>] :
                   e = to_unicode(SubSeq(text, i + 2, i + 5)) \o r
<1>1. Grammar(text)[<<"characters", i, j>>] = Spellings(text, Grammar(text), i, j)
  BY GrammarOf
<1> DEFINE g == Grammar(text)
<1> HIDE DEF g
<1>2. g[<<"characters", i, j>>] = Spellings(text, g, i, j)
  BY <1>1 DEF g
<1>3. \A e : e \in g[<<"characters", i, j>>] <=> e \in Spellings(text, g, i, j)
  BY <1>2
<1>4. \A e : e \in g[<<"characters", i, j>>] <=>
           \/ i = j + 1 /\ e = << >>
           \/ /\ i <= j /\ text[i] \notin {Quote, Slash}
              /\ \E r \in g[<<"characters", i + 1, j>>] : e = <<text[i]>> \o r
           \/ /\ i + 1 <= j /\ text[i] = Slash /\ text[i + 1] \in {"n", "t", "r"}
              /\ \E r \in g[<<"characters", i + 2, j>>] : e = <<Escapes[text[i + 1]]>> \o r
           \/ /\ i + 1 <= j /\ text[i] = Slash /\ text[i + 1] \in {Quote, Slash}
              /\ \E r \in g[<<"characters", i + 2, j>>] : e = <<text[i + 1]>> \o r
           \/ /\ i + 5 <= j /\ text[i] = Slash /\ text[i + 1] = "u"
              /\ \E r \in g[<<"characters", i + 6, j>>] :
                   e = to_unicode(SubSeq(text, i + 2, i + 5)) \o r
  BY <1>3 DEF Spellings
<1> QED  BY <1>4 DEF g

\* What joined and Spelled have made comes from what was read.
LEMMA JoinedIs ==
  ASSUME NEW first, NEW rest, Joined(first, rest).exc = "none"
  PROVE  /\ rest.exc = "none"
         /\ Joined(first, rest).value = <<first>> \o rest.value
         /\ Joined(first, rest).at = rest.at
<1>1. rest.exc = "none" /\ Joined(first, rest).at = rest.at
  BY JoinedOf
<1>2. Joined(first, rest) = Parsed(<<first>> \o rest.value, rest.at)
  BY <1>1 DEF Joined
<1> QED  BY <1>1, <1>2, ParsedOf

LEMMA SpelledIs ==
  ASSUME NEW first, NEW rest, Spelled(first, rest).exc = "none"
  PROVE  /\ rest.exc = "none"
         /\ Spelled(first, rest).value = first \o rest.value
         /\ Spelled(first, rest).at = rest.at
<1>1. rest.exc = "none" /\ Spelled(first, rest).at = rest.at
  BY SpelledOf
<1>2. Spelled(first, rest) = Parsed(first \o rest.value, rest.at)
  BY <1>1 DEF Spelled
<1> QED  BY <1>1, <1>2, ParsedOf

\* Strings.
LEMMA CharactersSound ==
  ASSUME NEW text \in Texts, NEW p \in Positions(text), NEW F,
         \A q \in p + 1 .. Len(text) + 1 : IsString(text, q, F[<<"characters", q>>])
  PROVE  IsString(text, p, Characters(text, F, p))
<1> DEFINE r == Characters(text, F, p)
           L == Len(text)
           c == At(text, p)
           e == At(text, p + 1)
<1>0. L \in Nat /\ p \in 1 .. L + 1
  BY PositionsOf
<1>1. (p <= L => c = text[p]) /\ (p + 1 <= L => e = text[p + 1])
  BY <1>0, TextAt
<1>2. SUFFICES ASSUME r.exc = "none"
               PROVE  \E b \in p .. L : /\ r.at = b + 1 /\ text[b] = Quote
                                        /\ r.value \in Grammar(text)[<<"characters", p, b - 1>>]
  BY DEF IsString
<1>3. /\ r # Throw("ParseException", p) /\ r # Throw("ParseException", p + 1)
      /\ r # Throw("undefined", L + 1)
  BY <1>2, ThrowOf
<1> DEFINE one == F[<<"characters", p + 1>>]
           two == F[<<"characters", p + 2>>]
           six == F[<<"characters", p + 6>>]
           chars == to_unicode(SubSeq(text, p + 2, p + 5))
<1>4. \/ p <= L /\ c = Quote /\ r = Parsed(<< >>, p + 1)
      \/ p + 1 <= L /\ c = Slash /\ e \in {"n", "t", "r"} /\ r = Joined(Escapes[e], two)
      \/ p + 1 <= L /\ c = Slash /\ e \in {Slash, Quote} /\ r = Joined(e, two)
      \/ p + 5 <= L /\ c = Slash /\ e = "u" /\ r = Spelled(chars, six)
      \/ p <= L /\ c \notin {Quote, Slash, End} /\ r = Joined(c, one)
  <2> HIDE DEF r, one, two, six, chars
  <2> QED  BY <1>3, CharactersCases DEF r, one, two, six, chars
<1>5. \A n \in {1, 2, 6} : p + n <= L + 1 => IsString(text, p + n, F[<<"characters", p + n>>])
  <2> SUFFICES ASSUME NEW n \in {1, 2, 6}, p + n <= L + 1  PROVE IsString(text, p + n, F[<<"characters", p + n>>])
    OBVIOUS
  <2>1. p + n \in p + 1 .. L + 1
    BY <1>0
  <2> QED  BY <2>1
<1> HIDE DEF r, one, two, six, chars, c, e
<1>a. CASE p <= L /\ c = Quote /\ r = Parsed(<< >>, p + 1)
  <2>1. p \in p .. L /\ p - 1 \in 0 .. L /\ p = p - 1 + 1
    BY <1>0, <1>a
  <2>2. << >> \in Grammar(text)[<<"characters", p, p - 1>>]
    BY <2>1, CharactersIn
  <2>3. r.at = p + 1 /\ r.value = << >>
    BY <1>a, ParsedOf
  <2> QED  BY <2>1, <2>2, <2>3, <1>1, <1>a
<1>b. CASE p + 1 <= L /\ c = Slash /\ e \in {"n", "t", "r"} /\ r = Joined(Escapes[e], two)
  <2>1. two.exc = "none" /\ r.value = <<Escapes[e]>> \o two.value /\ r.at = two.at
    BY <1>2, <1>b, JoinedIs
  <2>2. PICK b \in p + 2 .. L : /\ two.at = b + 1 /\ text[b] = Quote
                                /\ two.value \in Grammar(text)[<<"characters", p + 2, b - 1>>]
    <3>1. IsString(text, p + 2, two)
      BY <1>0, <1>5, <1>b DEF two
    <3> QED  BY <2>1, <3>1 DEF IsString
  <2>3. b \in p .. L /\ b - 1 \in 0 .. L /\ p + 1 <= b - 1
    BY <1>0, <2>2
  <2>4. p <= L /\ text[p] = Slash /\ text[p + 1] = e
    BY <1>0, <1>1, <1>b
  <2>5. r.value \in Grammar(text)[<<"characters", p, b - 1>>]
    BY <1>b, <2>1, <2>2, <2>3, <2>4, CharactersIn
  <2> QED  BY <2>1, <2>2, <2>3, <2>5
<1>c. CASE p + 1 <= L /\ c = Slash /\ e \in {Slash, Quote} /\ r = Joined(e, two)
  <2>1. two.exc = "none" /\ r.value = <<e>> \o two.value /\ r.at = two.at
    BY <1>2, <1>c, JoinedIs
  <2>2. PICK b \in p + 2 .. L : /\ two.at = b + 1 /\ text[b] = Quote
                                /\ two.value \in Grammar(text)[<<"characters", p + 2, b - 1>>]
    <3>1. IsString(text, p + 2, two)
      BY <1>0, <1>5, <1>c DEF two
    <3> QED  BY <2>1, <3>1 DEF IsString
  <2>3. b \in p .. L /\ b - 1 \in 0 .. L /\ p + 1 <= b - 1
    BY <1>0, <2>2
  <2>4. p <= L /\ text[p] = Slash /\ text[p + 1] = e
    BY <1>0, <1>1, <1>c
  <2>5. r.value \in Grammar(text)[<<"characters", p, b - 1>>]
    BY <1>c, <2>1, <2>2, <2>3, <2>4, CharactersIn
  <2> QED  BY <2>1, <2>2, <2>3, <2>5
<1>d. CASE p + 5 <= L /\ c = Slash /\ e = "u" /\ r = Spelled(chars, six)
  <2>1. six.exc = "none" /\ r.value = chars \o six.value /\ r.at = six.at
    BY <1>2, <1>d, SpelledIs
  <2>2. PICK b \in p + 6 .. L : /\ six.at = b + 1 /\ text[b] = Quote
                                /\ six.value \in Grammar(text)[<<"characters", p + 6, b - 1>>]
    <3>1. IsString(text, p + 6, six)
      BY <1>0, <1>5, <1>d DEF six
    <3> QED  BY <2>1, <3>1 DEF IsString
  <2>3. b \in p .. L /\ b - 1 \in 0 .. L /\ p + 5 <= b - 1
    BY <1>0, <2>2
  <2>4. p <= L /\ p + 1 <= L /\ text[p] = Slash /\ text[p + 1] = e
    BY <1>0, <1>1, <1>d
  <2>5. r.value \in Grammar(text)[<<"characters", p, b - 1>>]
    BY <1>d, <2>1, <2>2, <2>3, <2>4, CharactersIn DEF chars
  <2> QED  BY <2>1, <2>2, <2>3, <2>5
<1>e. CASE p <= L /\ c \notin {Quote, Slash, End} /\ r = Joined(c, one)
  <2>1. one.exc = "none" /\ r.value = <<c>> \o one.value /\ r.at = one.at
    BY <1>2, <1>e, JoinedIs
  <2>2. PICK b \in p + 1 .. L : /\ one.at = b + 1 /\ text[b] = Quote
                                /\ one.value \in Grammar(text)[<<"characters", p + 1, b - 1>>]
    <3>1. IsString(text, p + 1, one)
      BY <1>0, <1>5, <1>e DEF one
    <3> QED  BY <2>1, <3>1 DEF IsString
  <2>3. b \in p .. L /\ b - 1 \in 0 .. L /\ p <= b - 1
    BY <1>0, <2>2
  <2>4. text[p] = c
    BY <1>1, <1>e
  <2>5. r.value \in Grammar(text)[<<"characters", p, b - 1>>]
    BY <1>e, <2>1, <2>2, <2>3, <2>4, CharactersIn
  <2> QED  BY <2>1, <2>2, <2>3, <2>5
<1> QED  BY <1>4, <1>a, <1>b, <1>c, <1>d, <1>e

\* The lists of elements and of members, in the grammar.
LEMMA ElementsIn ==
  ASSUME NEW text \in Texts, NEW i \in Positions(text), NEW j \in 0 .. Len(text)
  PROVE  /\ \A e : e \in Grammar(text)[<<"elements", i, j>>] <=>
                \/ \E v \in Values(text, Grammar(text), i, j) : e = <<v>>
                \/ \E k \in Commas(text, i, j) :
                     e \in Prefixed(Values(text, Grammar(text), i, k - 1), Grammar(text)[<<"elements", k + 1, j>>])
         /\ \A e : e \in Grammar(text)[<<"members", i, j>>] <=>
                \/ \E m \in Pairs(text, Grammar(text), i, j) : e = <<m>>
                \/ \E k \in Commas(text, i, j) :
                     e \in Prefixed(Pairs(text, Grammar(text), i, k - 1), Grammar(text)[<<"members", k + 1, j>>])
<1> DEFINE g == Grammar(text)
<1>1. g[<<"elements", i, j>>] = Elements(text, g, i, j) /\ g[<<"members", i, j>>] = PairLists(text, g, i, j)
  BY GrammarOf
<1> HIDE DEF g
<1>2. \A e : e \in g[<<"elements", i, j>>] <=>
           \/ \E v \in Values(text, g, i, j) : e = <<v>>
           \/ \E k \in Commas(text, i, j) :
                e \in Prefixed(Values(text, g, i, k - 1), g[<<"elements", k + 1, j>>])
  BY <1>1 DEF Elements
<1>3. \A e : e \in g[<<"members", i, j>>] <=>
           \/ \E m \in Pairs(text, g, i, j) : e = <<m>>
           \/ \E k \in Commas(text, i, j) :
                e \in Prefixed(Pairs(text, g, i, k - 1), g[<<"members", k + 1, j>>])
  BY <1>1 DEF PairLists
<1> QED  BY <1>2, <1>3 DEF g

\* In front of a list, and a comma, there may be one more.
LEMMA MoreIn ==
  ASSUME NEW text \in Texts, NEW i \in Positions(text), NEW j \in 0 .. Len(text),
         NEW k \in Commas(text, i, j), NEW e
  PROVE  /\ e \in Prefixed(Values(text, Grammar(text), i, k - 1), Grammar(text)[<<"elements", k + 1, j>>]) =>
              e \in Grammar(text)[<<"elements", i, j>>]
         /\ e \in Prefixed(Pairs(text, Grammar(text), i, k - 1), Grammar(text)[<<"members", k + 1, j>>]) =>
              e \in Grammar(text)[<<"members", i, j>>]
BY ElementsIn

\* One before a list is a list.
LEMMA OneBefore ==
  ASSUME NEW first, NEW rest, rest = << >>
  PROVE  <<first>> \o rest = <<first>>
OBVIOUS

\* Behind the delimiter a list begins, after any space.
LEMMA ListStarts ==
  ASSUME NEW text \in Texts, NEW p \in Positions(text), whitespace(text, p) <= Len(text)
  PROVE  /\ whitespace(text, p) \in 1 .. Len(text) /\ whitespace(text, p) \in p .. Len(text)
         /\ whitespace(text, p) + 1 \in Positions(text)
         /\ At(text, whitespace(text, p)) = text[whitespace(text, p)]
         /\ NextAt(text, p) = whitespace(text, whitespace(text, p) + 1)
         /\ NextAt(text, p) \in whitespace(text, p) + 1 .. Len(text) + 1
         /\ NextAt(text, p) \in Positions(text)
         /\ whitespace(text, NextAt(text, p)) = NextAt(text, p)
         /\ Blank(text, whitespace(text, p) + 1, NextAt(text, p) - 1)
<1> DEFINE q == whitespace(text, p)
<1>1. q \in p .. Len(text)
  BY Places
<1>2. Len(text) \in Nat /\ p \in 1 .. Len(text) + 1
  BY PositionsOf
<1>3. q \in 1 .. Len(text) /\ q + 1 \in Positions(text)
  <2> HIDE DEF q
  <2> QED  BY <1>1, <1>2, PositionsOf
<1>4. At(text, q) = text[q]
  BY <1>3, TextAt
<1> HIDE DEF q
<1>5. NextAt(text, p) = whitespace(text, q + 1)
  BY DEF NextAt, q
<1>6. /\ whitespace(text, q + 1) \in q + 1 .. Len(text) + 1
      /\ whitespace(text, q + 1) \in Positions(text)
      /\ whitespace(text, whitespace(text, q + 1)) = whitespace(text, q + 1)
      /\ Blank(text, q + 1, whitespace(text, q + 1) - 1)
  BY <1>3, BlankUpTo, SpaceAgain, BlankText
<1> QED  BY <1>1, <1>3, <1>4, <1>5, <1>6 DEF q

\* Behind the end of a text there is no list.
LEMMA NoneBehind ==
  ASSUME NEW text \in Texts, NEW q \in Positions(text), NEW kind \in {"members", "elements"},
         Parser(text)[<<kind, Parser(text)[<<"value", q>>].at>>].exc = "none"
  PROVE  /\ q <= Len(text)
         /\ Parser(text)[<<"value", q>>].at \in q .. Len(text)
         /\ whitespace(text, q) <= Len(text)
<1> DEFINE F == Parser(text)
           val == F[<<"value", q>>]
           L == Len(text)
<1>0. L \in Nat /\ q \in 1 .. L + 1 /\ "value" \in Kinds
  BY PositionsOf DEF Kinds
<1>1. val.at \in q .. L + 1
  BY <1>0, ParserIs
<1>2. val.at # L + 1
  BY ParserCutEnds DEF CutEnds
<1>3. val.at \in q .. L /\ q <= L
  <2> HIDE DEF val
  <2> QED  BY <1>0, <1>1, <1>2
<1>4. ASSUME whitespace(text, q) = L + 1  PROVE FALSE
  <2>1. val = Value(text, F, q)
    BY <1>0, ParserIs, ReadIs
  <2>2. Value(text, F, q) = Parsed(NullValue, L + 1)
    <3>1. ~(whitespace(text, q) <= L)
      BY <1>0, <1>4
    <3> HIDE DEF F
    <3> QED  BY <1>4, <3>1, ValueCases
  <2> QED  BY <1>2, <2>1, <2>2, ParsedOf
<1>5. whitespace(text, q) \in q .. L + 1
  BY BlankUpTo
<1> QED  BY <1>0, <1>3, <1>4, <1>5

\* Lists of elements.
LEMMA ArraySound ==
  ASSUME NEW text \in Texts, NEW p \in Positions(text),
         \A q \in p + 1 .. Len(text) + 1 : IsRead(text, q, Parser(text)),
         NEW delimiter, IsDelimiter(delimiter, "]")
  PROVE  IsList(text, p, Array(text, Parser(text), p, delimiter), "elements", delimiter, "]")
<1> DEFINE F == Parser(text)
           g == Grammar(text)
           L == Len(text)
           r == Array(text, F, p, delimiter)
           q == whitespace(text, p)
           next == NextAt(text, p)
           val == ElementValue(text, F, p)
           rest == F[<<"elements", val.at>>]
<1>0. L \in Nat /\ p \in 1 .. L + 1
  BY PositionsOf
<1>1. SUFFICES ASSUME r.exc = "none"
      PROVE  \E b \in q .. L :
               /\ r.at = b + 1 /\ text[b] = "]"
               /\ \/ b = q /\ r.value = << >>
                  \/ /\ b > q /\ text[q] = delimiter
                     /\ \/ r.value \in g[<<"elements", q + 1, b - 1>>]
                        \/ delimiter # Comma /\ r.value = << >> /\ Blank(text, q + 1, b - 1)
  BY DEF IsList
<1>2. r # Throw("std::string", q) /\ r # Throw(CutShort, q)
  BY <1>1, ThrowOf, Names
<1>3. \/ /\ q <= L /\ At(text, q) = delimiter /\ EmptyAt(text, p, delimiter, "[", "]")
         /\ r = Parsed(<< >>, next + 1)
      \/ q <= L /\ At(text, q) = delimiter /\ val.exc = "none" /\ r = Joined(val.value, rest)
      \/ q <= L /\ At(text, q) = "]" /\ r = Parsed(<< >>, q + 1)
  <2> HIDE DEF F
  <2> QED  BY <1>1, <1>2, ArrayCases
<1>4. ASSUME q <= L
      PROVE  /\ q \in 1 .. L /\ q + 1 \in Positions(text) /\ At(text, q) = text[q]
             /\ q \in p .. L
             /\ next = whitespace(text, q + 1) /\ next \in q + 1 .. L + 1
             /\ next \in Positions(text) /\ whitespace(text, next) = next
             /\ Blank(text, q + 1, next - 1)
  BY <1>4, ListStarts
<1>5. val = F[<<"value", next>>]
  BY DEF ElementValue
<1> HIDE DEF F, g, r, q, next, val, rest
<1>a. CASE /\ q <= L /\ At(text, q) = delimiter /\ EmptyAt(text, p, delimiter, "[", "]")
           /\ r = Parsed(<< >>, next + 1)
  <2>1. delimiter = "[" /\ At(text, next) = "]" /\ delimiter # Comma
    BY <1>a, Names DEF EmptyAt, next
  <2>2. next \in 1 .. L /\ text[next] = "]"
    BY <1>4, <1>a, <2>1, TextAt DEF End
  <2>3. next \in q .. L /\ next > q
    BY <1>4, <1>a, <2>2
  <2>4. r.at = next + 1 /\ r.value = << >>
    BY <1>a, ParsedOf
  <2> QED  BY <1>4, <1>a, <2>1, <2>2, <2>3, <2>4
<1>c. CASE q <= L /\ At(text, q) = "]" /\ r = Parsed(<< >>, q + 1)
  <2>1. r.at = q + 1 /\ r.value = << >>
    BY <1>c, ParsedOf
  <2>2. q \in q .. L /\ text[q] = "]"
    BY <1>4, <1>c
  <2> QED  BY <2>1, <2>2
<1>b. CASE q <= L /\ At(text, q) = delimiter /\ val.exc = "none" /\ r = Joined(val.value, rest)
  <2>1. rest.exc = "none" /\ r.value = <<val.value>> \o rest.value /\ r.at = rest.at
    BY <1>1, <1>b, JoinedIs
  <2>2. next <= L /\ val.at \in next .. L /\ whitespace(text, next) <= L
    <3>1. Parser(text)[<<"elements", Parser(text)[<<"value", next>>].at>>].exc = "none"
      BY <2>1, <1>5 DEF rest, F
    <3> QED  BY <3>1, <1>4, <1>5, <1>b, NoneBehind DEF F
  <2>3. /\ next \in p + 1 .. L + 1 /\ val.at \in p + 1 .. L + 1 /\ next \in q + 1 .. L
    BY <1>0, <1>4, <1>b, <2>2
  <2>4. IsValue(text, next, val) /\ IsList(text, val.at, rest, "elements", Comma, "]")
    BY <2>3, <1>5 DEF IsRead, F, rest
  <2>5. PICK b1 \in next .. L : /\ val.at = b1 + 1 /\ text[b1] # "ws"
                                /\ val.value \in Sole(text, g, next, b1)
    BY <1>4, <1>b, <2>2, <2>4 DEF IsValue, g
  <2> DEFINE w == whitespace(text, b1 + 1)
  <2>6. /\ w - 1 \in b1 .. L /\ w \in Positions(text)
        /\ val.value \in Values(text, g, q + 1, w - 1)
    <3>1. b1 \in whitespace(text, q + 1) .. L /\ val.value \in Sole(text, g, whitespace(text, q + 1), b1)
      BY <1>4, <1>b, <2>5
    <3>2. w - 1 \in b1 .. L /\ w - 1 + 1 \in Positions(text)
          /\ \A v \in Sole(text, g, whitespace(text, q + 1), b1) : v \in Values(text, g, q + 1, w - 1)
      BY <1>4, <1>b, <2>5, <3>1, Inside
    <3>3. w - 1 + 1 = w
      <4>1. w \in b1 + 1 .. L + 1
        BY <1>0, <2>3, <2>5, BlankUpTo, PositionsOf
      <4> QED  BY <4>1, <1>0, <2>5
    <3> QED  BY <3>1, <3>2, <3>3
  <2> HIDE DEF w
  <2>7. PICK b \in w .. L :
          /\ rest.at = b + 1 /\ text[b] = "]"
          /\ \/ b = w /\ rest.value = << >>
             \/ /\ b > w /\ text[w] = Comma
                /\ rest.value \in g[<<"elements", w + 1, b - 1>>]
    BY <2>1, <2>4, <2>5 DEF IsList, g, w
  <2>8. /\ w \in q + 1 .. L /\ b \in q .. L /\ b > q /\ b - 1 \in 0 .. L
        /\ q + 1 <= b - 1
    <3>1. q \in 1 .. L /\ next \in q + 1 .. L
      BY <1>4, <1>b, <2>3
    <3>2. b \in w .. L /\ w \in Nat
      BY <1>0, <2>6, <2>7, PositionsOf
    <3>3. w \in q + 2 .. L
      <4>1. b1 \in next .. L /\ w - 1 \in b1 .. L
        BY <2>5, <2>6
      <4> QED  BY <1>0, <3>1, <3>2, <4>1
    <3> QED  BY <1>0, <3>1, <3>2, <3>3
  <2>9. r.value \in g[<<"elements", q + 1, b - 1>>]
    <3>1. CASE b = w /\ rest.value = << >>
      <4>1. r.value = <<val.value>>
        BY <2>1, <3>1, OneBefore
      <4>2. val.value \in Values(text, g, q + 1, b - 1)
        BY <2>6, <3>1
      <4> QED  BY <1>4, <1>b, <2>8, <4>1, <4>2, ElementsIn DEF g
    <3>2. CASE b > w /\ text[w] = Comma /\ rest.value \in g[<<"elements", w + 1, b - 1>>]
      <4>1. w \in q + 1 .. b - 1
        BY <1>0, <2>7, <2>8, <3>2
      <4>2. w \in Commas(text, q + 1, b - 1)
        BY <3>2, <4>1, CommasAre
      <4>3. r.value \in Prefixed(Values(text, g, q + 1, w - 1), g[<<"elements", w + 1, b - 1>>])
        BY <2>1, <2>6, <3>2, PrefixedAre, ZenonT(40)
      <4>4. q + 1 \in Positions(text) /\ b - 1 \in 0 .. Len(text)
        BY <1>4, <1>b, <2>8
      <4> QED  BY <4>2, <4>3, <4>4, MoreIn DEF g
    <3> QED  BY <2>7, <3>1, <3>2
  <2> QED  BY <1>4, <1>b, <2>1, <2>7, <2>8, <2>9
<1> QED  BY <1>3, <1>a, <1>b, <1>c

\* Lists of members.
LEMMA ObjectSound ==
  ASSUME NEW text \in Texts, NEW p \in Positions(text),
         \A q \in p + 1 .. Len(text) + 1 : IsRead(text, q, Parser(text)),
         NEW delimiter, IsDelimiter(delimiter, Closing)
  PROVE  IsList(text, p, Object(text, Parser(text), p, delimiter), "members", delimiter, Closing)
<1> DEFINE F == Parser(text)
           g == Grammar(text)
           L == Len(text)
           r == Object(text, F, p, delimiter)
           q == whitespace(text, p)
           next == NextAt(text, p)
           key == KeyAt(text, F, p)
           colon == ColonAt(text, F, p)
           val == MemberValue(text, F, p)
           member == [key |-> key.value, value |-> val.value]
           rest == F[<<"members", val.at>>]
<1>0. L \in Nat /\ p \in 1 .. L + 1
  BY PositionsOf
<1>1. SUFFICES ASSUME r.exc = "none"
      PROVE  \E b \in q .. L :
               /\ r.at = b + 1 /\ text[b] = Closing
               /\ \/ b = q /\ r.value = << >>
                  \/ /\ b > q /\ text[q] = delimiter
                     /\ \/ r.value \in g[<<"members", q + 1, b - 1>>]
                        \/ delimiter # Comma /\ r.value = << >> /\ Blank(text, q + 1, b - 1)
  BY DEF IsList
<1>2. r # Throw("std::string", q) /\ r # Throw(CutShort, q) /\ r # Throw("std::string", colon)
  BY <1>1, ThrowOf, Names
<1>3. \/ /\ q <= L /\ At(text, q) = delimiter /\ EmptyAt(text, p, delimiter, Opening, Closing)
         /\ r = Parsed(<< >>, next + 1)
      \/ /\ q <= L /\ At(text, q) = delimiter /\ key.exc = "none" /\ At(text, colon) = ":"
         /\ val.exc = "none" /\ r = Joined(member, rest)
      \/ q <= L /\ At(text, q) = Closing /\ r = Parsed(<< >>, q + 1)
  <2> HIDE DEF F
  <2> QED  BY <1>1, <1>2, ObjectCases
<1>4. ASSUME q <= L
      PROVE  /\ q \in 1 .. L /\ q + 1 \in Positions(text) /\ At(text, q) = text[q]
             /\ q \in p .. L
             /\ next = whitespace(text, q + 1) /\ next \in q + 1 .. L + 1
             /\ next \in Positions(text) /\ whitespace(text, next) = next
             /\ Blank(text, q + 1, next - 1)
  BY <1>4, ListStarts
<1>5. val = F[<<"value", colon + 1>>] /\ key = escaped_string(text, F, next) /\ colon = whitespace(text, key.at)
  BY DEF MemberValue, KeyAt, ColonAt
<1>6. \/ next <= L /\ At(text, next) = Quote /\ key = F[<<"characters", next + 1>>]
      \/ key = Throw("ParseException", next)
  <2>1. q <= L => next \in Positions(text)
    BY <1>4
  <2>2. ~(q <= L) => r.exc # "none"
    BY <1>3
  <2> HIDE DEF F
  <2> QED  BY <1>1, <1>5, <2>1, <2>2, StringCases
<1>7. Ahead(text, p, F)
  BY ParserReads
<1>8. q <= L /\ At(text, colon) = ":" =>
        /\ key.at \in p + 1 .. L + 1 /\ colon \in p + 1 .. L /\ colon + 1 \in p + 1 .. L + 1
        /\ val.at \in p + 1 .. L + 1
  <2> HIDE DEF F
  <2> QED  BY <1>7, MemberPlaces
<1> HIDE DEF F, g, r, q, next, key, colon, val, member, rest
<1>a. CASE /\ q <= L /\ At(text, q) = delimiter /\ EmptyAt(text, p, delimiter, Opening, Closing)
           /\ r = Parsed(<< >>, next + 1)
  <2>1. delimiter = Opening /\ At(text, next) = Closing /\ delimiter # Comma /\ Closing # End
    BY <1>a, Names DEF EmptyAt, next
  <2>2. next \in 1 .. L /\ text[next] = Closing
    BY <1>4, <1>a, <2>1, TextAt
  <2>3. next \in q .. L /\ next > q
    BY <1>4, <1>a, <2>2
  <2>4. r.at = next + 1 /\ r.value = << >>
    BY <1>a, ParsedOf
  <2> QED  BY <1>4, <1>a, <2>1, <2>2, <2>3, <2>4
<1>c. CASE q <= L /\ At(text, q) = Closing /\ r = Parsed(<< >>, q + 1)
  <2>1. r.at = q + 1 /\ r.value = << >>
    BY <1>c, ParsedOf
  <2>2. q \in q .. L /\ text[q] = Closing
    BY <1>4, <1>c
  <2> QED  BY <2>1, <2>2
<1>b. CASE /\ q <= L /\ At(text, q) = delimiter /\ key.exc = "none" /\ At(text, colon) = ":"
           /\ val.exc = "none" /\ r = Joined(member, rest)
  <2>1. rest.exc = "none" /\ r.value = <<member>> \o rest.value /\ r.at = rest.at
    BY <1>1, <1>b, JoinedIs
  <2>2. colon + 1 <= L /\ val.at \in colon + 1 .. L /\ whitespace(text, colon + 1) <= L
    <3>1. Parser(text)[<<"members", Parser(text)[<<"value", colon + 1>>].at>>].exc = "none"
      BY <2>1, <1>5 DEF rest, F
    <3>2. colon + 1 \in Positions(text)
      BY <1>0, <1>8, <1>b, PositionsOf
    <3> QED  BY <3>1, <3>2, <1>5, NoneBehind DEF F
  <2>3. /\ next <= L /\ text[next] = Quote /\ key = F[<<"characters", next + 1>>]
        /\ next \in q + 1 .. L /\ next + 1 \in p + 1 .. L + 1
    <3>1. key # Throw("ParseException", next)
      BY <1>b, ThrowOf
    <3>2. next <= L /\ At(text, next) = Quote /\ key = F[<<"characters", next + 1>>]
      BY <1>6, <3>1
    <3>3. text[next] = Quote
      BY <1>4, <1>b, <3>2, TextAt, Names
    <3> QED  BY <1>0, <1>4, <1>b, <3>2, <3>3
  <2>4. /\ IsString(text, next + 1, key) /\ IsValue(text, colon + 1, val)
        /\ IsList(text, val.at, rest, "members", Comma, Closing)
    BY <1>b, <1>5, <1>8, <2>3 DEF IsRead, F, rest
  <2>5. PICK b0 \in next + 1 .. L : /\ key.at = b0 + 1 /\ text[b0] = Quote
                                    /\ key.value \in g[<<"characters", next + 1, b0 - 1>>]
    BY <1>b, <2>4 DEF IsString, g
  <2>6. PICK b1 \in whitespace(text, colon + 1) .. L :
          /\ val.at = b1 + 1 /\ text[b1] # "ws"
          /\ val.value \in Sole(text, g, whitespace(text, colon + 1), b1)
    BY <1>b, <2>2, <2>4 DEF IsValue, g
  <2>7. /\ colon \in b0 + 1 .. L /\ colon + 1 \in Positions(text) /\ text[colon] = ":"
        /\ key.value \in Keys(text, g, q + 1, colon - 1)
    <3>1. Encloses(text, next, b0, Quote, Quote)
      BY <1>0, <2>3, <2>5 DEF Encloses
    <3>2. key.value \in Strings(text, g, next, b0)
      BY <2>5, <3>1, ListsAre
    <3>3. b0 \in whitespace(text, q + 1) .. L /\ text[b0] # "ws"
      <4>1. Quote # "ws"
        BY DEF Quote
      <4> QED  BY <1>0, <1>4, <1>b, <2>3, <2>5, <4>1
    <3>4. \A v \in Strings(text, g, whitespace(text, q + 1), b0) :
             v \in Keys(text, g, q + 1, whitespace(text, b0 + 1) - 1)
      BY <1>4, <1>b, <3>3, Inside
    <3>5. colon = whitespace(text, b0 + 1) /\ key.value \in Keys(text, g, q + 1, colon - 1)
      BY <1>4, <1>5, <1>b, <2>5, <3>2, <3>4
    <3>6. b0 + 1 \in Positions(text)
      BY <1>0, <2>3, <2>5, PositionsOf
    <3>7. colon \in b0 + 1 .. L + 1
      BY <3>5, <3>6, BlankUpTo
    <3>8. colon \in 1 .. L /\ text[colon] = ":"
      <4>1. colon \in 1 .. L
        BY <1>0, <1>8, <1>b
      <4> QED  BY <4>1, <1>b, TextAt
    <3>9. colon \in b0 + 1 .. L /\ colon + 1 \in Positions(text)
      BY <1>0, <3>7, <3>8, PositionsOf
    <3> QED  BY <3>5, <3>8, <3>9
  <2> DEFINE w == whitespace(text, b1 + 1)
  <2>8. /\ whitespace(text, colon + 1) \in colon + 1 .. b1
        /\ w - 1 \in b1 .. L /\ w \in Positions(text)
        /\ val.value \in Values(text, g, colon + 1, w - 1)
    <3>1. whitespace(text, colon + 1) \in colon + 1 .. b1 /\ w - 1 \in b1 .. L /\ w - 1 + 1 \in Positions(text)
          /\ b1 + 1 \in Positions(text)
          /\ \A v \in Sole(text, g, whitespace(text, colon + 1), b1) : v \in Values(text, g, colon + 1, w - 1)
      BY <2>6, <2>7, Inside
    <3>3. w - 1 + 1 = w
      <4>1. w \in b1 + 1 .. L + 1 /\ w \in Positions(text)
        BY <3>1, BlankUpTo
      <4>2. w \in 1 .. L + 1
        BY <4>1, PositionsOf
      <4> HIDE DEF w
      <4> QED  BY <4>2
    <3> QED  BY <2>6, <3>1, <3>3
  <2> HIDE DEF w
  <2>9. PICK b \in w .. L :
          /\ rest.at = b + 1 /\ text[b] = Closing
          /\ \/ b = w /\ rest.value = << >>
             \/ /\ b > w /\ text[w] = Comma
                /\ rest.value \in g[<<"members", w + 1, b - 1>>]
    BY <2>1, <2>4, <2>6 DEF IsList, g, w
  <2>10. /\ w \in q + 1 .. L /\ b \in q .. L /\ b > q /\ b - 1 \in 0 .. L
         /\ q + 1 <= b - 1 /\ colon \in q + 1 .. w - 1
    <3>1. w \in 1 .. L + 1
      BY <2>8, PositionsOf
    <3>2. q \in 1 .. L
      BY <1>4, <1>b
    <3>3. colon \in q + 1 .. L /\ colon < w
      <4>1. b0 \in q + 1 .. L
        BY <1>0, <2>3, <2>5, <3>2
      <4>2. colon \in q + 1 .. L
        BY <1>0, <2>7, <4>1, <3>2
      <4>3. b1 \in colon + 1 .. L
        BY <2>8, <2>6, <4>2, <1>0
      <4> QED  BY <4>2, <4>3, <2>8, <3>1
    <3> QED  BY <1>0, <2>9, <3>1, <3>2, <3>3
  <2>11. member \in Pairs(text, g, q + 1, w - 1)
    <3>1. colon \in Colons(text, q + 1, w - 1)
      BY <2>7, <2>10, CommasAre
    <3> QED  BY <2>7, <2>8, <3>1, PairsAre DEF member
  <2>12. r.value \in g[<<"members", q + 1, b - 1>>]
    <3>1. CASE b = w /\ rest.value = << >>
      <4>1. r.value = <<member>>
        BY <2>1, <3>1, OneBefore
      <4>2. member \in Pairs(text, g, q + 1, b - 1)
        BY <2>11, <3>1
      <4> QED  BY <1>4, <1>b, <2>10, <4>1, <4>2, ElementsIn DEF g
    <3>2. CASE b > w /\ text[w] = Comma /\ rest.value \in g[<<"members", w + 1, b - 1>>]
      <4>1. w \in q + 1 .. b - 1
        BY <1>0, <2>9, <2>10, <3>2
      <4>2. w \in Commas(text, q + 1, b - 1)
        BY <3>2, <4>1, CommasAre
      <4>3. r.value \in Prefixed(Pairs(text, g, q + 1, w - 1), g[<<"members", w + 1, b - 1>>])
        BY <2>1, <2>11, <3>2, PrefixedAre, ZenonT(40)
      <4>4. q + 1 \in Positions(text) /\ b - 1 \in 0 .. Len(text)
        BY <1>4, <1>b, <2>10
      <4> QED  BY <4>2, <4>3, <4>4, MoreIn DEF g
    <3> QED  BY <2>9, <3>1, <3>2
  <2> QED  BY <1>4, <1>b, <2>1, <2>9, <2>10, <2>12
<1> QED  BY <1>3, <1>a, <1>b, <1>c

\* number_str takes a sign and digits.
LEMMA NumberSound ==
  ASSUME NEW text \in Texts, NEW p \in 1 .. Len(text), number_str(text, p).exc = "none"
  PROVE  \E b \in p .. Len(text) :
           /\ number_str(text, p) = Parsed(Plain("number", SubSeq(text, p, b)), b + 1)
           /\ text[b] # "ws" /\ IsNumber(text, p, b) /\ At(text, b + 1) # "d"
<1> DEFINE first == IF At(text, p) = "-" THEN p + 1 ELSE p
           last == Behind(text, first, "d")
           L == Len(text)
<1>0. L \in Nat /\ p \in Positions(text) /\ "d" # End /\ "d" # "ws"
  BY PositionsOf, Names
<1>1. /\ first \in p .. L + 1 /\ last \in first .. L + 1
      /\ last # first /\ number_str(text, p) = Parsed(Plain("number", SubSeq(text, p, last - 1)), last)
  <2>1. Throw("ParseException", first).exc # "none"
    BY ThrowOf
  <2> HIDE DEF first
  <2>2. number_str(text, p) # Throw("ParseException", first)
    BY <2>1
  <2>3. /\ first \in p .. L + 1 /\ last \in first .. L + 1
        /\ \/ last = first /\ number_str(text, p) = Throw("ParseException", first)
           \/ last # first /\ number_str(text, p) = Parsed(Plain("number", SubSeq(text, p, last - 1)), last)
    BY <1>0, NumberCases DEF first
  <2> HIDE DEF last
  <2> QED  BY <2>2, <2>3
<1>2. first = p \/ (first = p + 1 /\ text[p] = "-")
  <2>1. At(text, p) = text[p]
    BY TextAt
  <2> QED  BY <2>1
<1> HIDE DEF first
<1>3. /\ At(text, last) # "d" /\ \A r \in first .. last - 1 : At(text, r) = "d"
  <2>1. first \in Positions(text)
    BY <1>0, <1>1, PositionsOf
  <2> QED  BY <1>0, <2>1, BehindFinds
<1> HIDE DEF last
<1>4. last - 1 \in p .. L /\ last - 1 + 1 = last /\ first <= last - 1 /\ last - 1 \in first .. last - 1
  BY <1>0, <1>1
<1>5. \A r \in first .. last - 1 : text[r] = "d"
  <2>1. \A r \in first .. last - 1 : r \in 1 .. L
    BY <1>0, <1>1
  <2> QED  BY <2>1, <1>3, TextAt
<1>6. IsNumber(text, p, last - 1)
  BY <1>2, <1>4, <1>5 DEF IsNumber
<1>7. text[last - 1] # "ws"
  BY <1>0, <1>4, <1>5
<1> QED  BY <1>1, <1>3, <1>4, <1>6, <1>7

\* Values.
LEMMA ValueSound ==
  ASSUME NEW text \in Texts, NEW p \in Positions(text),
         \A q \in p + 1 .. Len(text) + 1 : IsRead(text, q, Parser(text))
  PROVE  IsValue(text, p, Value(text, Parser(text), p))
<1> DEFINE F == Parser(text)
           g == Grammar(text)
           L == Len(text)
           r == Value(text, F, p)
           q == whitespace(text, p)
           c == At(text, q)
           object == Object(text, F, q, Opening)
           array == Array(text, F, q, "[")
           chars == escaped_string(text, F, q)
<1>0. L \in Nat /\ p \in 1 .. L + 1 /\ q \in p .. L + 1 /\ q \in Positions(text)
  BY PositionsOf, BlankUpTo
<1>1. SUFFICES ASSUME r.exc = "none", q <= L
               PROVE  \E b \in q .. L : r.at = b + 1 /\ text[b] # "ws" /\ r.value \in Sole(text, g, q, b)
  BY DEF IsValue
<1>2. r \notin {Throw("std::string", q), Throw("undefined", L + 1)} /\ ~(q = L + 1)
  <2>1. ~(q = L + 1)
    <3> HIDE DEF q
    <3> QED  BY <1>0, <1>1
  <2> QED  BY <1>1, <2>1, ThrowOf
<1>3. \/ c = Opening /\ r = Made(ObjectOf(Emplaced(object.value)), object)
      \/ c = "[" /\ r = Made(ArrayOf(array.value), array)
      \/ c = Quote /\ r = Made(Plain("string", chars.value), chars)
      \/ c \in {"true", "false"} /\ r = Parsed(Plain("bool", <<c>>), q + 1)
      \/ c = "null" /\ r = Parsed(NullValue, q + 1)
      \/ c \in {"d", "-"} /\ r = number_str(text, q)
  <2> HIDE DEF F
  <2> QED  BY <1>2, ValueCases
<1>4. /\ q \in 1 .. L /\ q \in q .. L /\ c = text[q] /\ c # "ws" /\ whitespace(text, q) = q
      /\ \A s \in q + 1 .. L + 1 : s \in p + 1 .. L + 1
  <2>1. q \in 1 .. L /\ q \in q .. L /\ \A s \in q + 1 .. L + 1 : s \in p + 1 .. L + 1
    <3> HIDE DEF q
    <3> QED  BY <1>0, <1>1
  <2> QED  BY <2>1, TextAt, BlankUpTo, SpaceAgain
<1>5. \A s \in q + 1 .. L + 1 : IsRead(text, s, F)
  BY <1>4
<1>a. CASE c \in {"true", "false"} /\ r = Parsed(Plain("bool", <<c>>), q + 1)
  <2>1. r.at = q + 1 /\ r.value = Plain("bool", <<c>>)
    <3> HIDE DEF r, q, c
    <3> QED  BY <1>a, ParsedOf
  <2> HIDE DEF r, q, c, g
  <2> QED  BY <1>4, <1>a, <2>1, SoleIs
<1>b. CASE c = "null" /\ r = Parsed(NullValue, q + 1)
  <2>1. r.at = q + 1 /\ r.value = NullValue
    <3> HIDE DEF r, q, c
    <3> QED  BY <1>b, ParsedOf
  <2> HIDE DEF r, q, c, g
  <2> QED  BY <1>4, <1>b, <2>1, SoleIs
<1>c. CASE c \in {"d", "-"} /\ r = number_str(text, q)
  <2> HIDE DEF r, q, c, g
  <2>1. PICK b \in q .. L : /\ r = Parsed(Plain("number", SubSeq(text, q, b)), b + 1)
                            /\ text[b] # "ws" /\ IsNumber(text, q, b)
    BY <1>1, <1>4, <1>c, NumberSound
  <2>2. r.at = b + 1 /\ r.value = Plain("number", SubSeq(text, q, b))
    BY <2>1, ParsedOf
  <2> QED  BY <2>1, <2>2, SoleIs
<1>d. CASE c = Quote /\ r = Made(Plain("string", chars.value), chars)
  <2>1. chars = F[<<"characters", q + 1>>]
    <3>1. c = Quote
      BY <1>d
    <3> HIDE DEF F, q
    <3> QED  BY <1>0, <3>1, StringCases
  <2>2. chars.exc = "none" /\ r.at = chars.at /\ r.value = Plain("string", chars.value)
    <3> HIDE DEF r, chars, q, c
    <3> QED  BY <1>1, <1>d, MadeOf
  <2>3. IsString(text, q + 1, chars)
    <3>1. q + 1 \in q + 1 .. L + 1
      BY <1>4
    <3> HIDE DEF F, q
    <3> QED  BY <1>5, <2>1, <3>1 DEF IsRead
  <2> HIDE DEF r, q, c, g, chars
  <2>4. PICK b \in q + 1 .. L : /\ chars.at = b + 1 /\ text[b] = Quote
                                /\ chars.value \in g[<<"characters", q + 1, b - 1>>]
    BY <2>2, <2>3 DEF IsString, g
  <2>0. Quote # "ws"
    BY DEF Quote
  <2>5. Encloses(text, q, b, Quote, Quote) /\ b \in q .. L /\ Quote # "ws"
    BY <1>4, <1>d, <2>0, <2>4 DEF Encloses
  <2>6. chars.value \in Strings(text, g, q, b)
    BY <2>4, <2>5, ListsAre
  <2>7. r.value \in Sole(text, g, q, b)
    BY <2>2, <2>6, SoleIs
  <2> QED  BY <2>2, <2>4, <2>5, <2>7
<1>e. CASE c = "[" /\ r = Made(ArrayOf(array.value), array)
  <2>1. IsList(text, q, array, "elements", "[", "]")
    <3>1. IsDelimiter("[", "]")
      BY Names DEF IsDelimiter
    <3> HIDE DEF q
    <3> QED  BY <1>0, <1>5, <3>1, ArraySound
  <2>2. array.exc = "none" /\ r.at = array.at /\ r.value = ArrayOf(array.value)
    <3> HIDE DEF r, array, q, c
    <3> QED  BY <1>1, <1>e, MadeOf
  <2> HIDE DEF r, q, c, g, array
  <2>4. PICK b \in q .. L : /\ array.at = b + 1 /\ text[b] = "]"
                            /\ \/ b = q
                               \/ /\ b > q
                                  /\ \/ array.value \in g[<<"elements", q + 1, b - 1>>]
                                     \/ array.value = << >> /\ Blank(text, q + 1, b - 1)
    BY <1>4, <2>1, <2>2 DEF IsList, g
  <2>5. b # q /\ "]" # "ws"
    BY <1>4, <1>e, <2>4
  <2>6. Encloses(text, q, b, "[", "]")
    BY <1>4, <1>e, <2>4, <2>5 DEF Encloses
  <2>7. array.value \in Lists(text, g, "elements", q, b, "[", "]")
    BY <2>4, <2>5, <2>6, ListsAre
  <2>8. r.value \in Sole(text, g, q, b)
    BY <2>2, <2>7, SoleIs
  <2> QED  BY <2>2, <2>4, <2>5, <2>8
<1>f. CASE c = Opening /\ r = Made(ObjectOf(Emplaced(object.value)), object)
  <2>0. IsDelimiter(Opening, Closing)
    BY Names DEF IsDelimiter
  <2>1. IsList(text, q, object, "members", Opening, Closing)
    <3> HIDE DEF q
    <3> QED  BY <1>0, <1>5, <2>0, ObjectSound
  <2>2. object.exc = "none" /\ r.at = object.at /\ r.value = ObjectOf(Emplaced(object.value))
    <3> HIDE DEF r, object, q, c
    <3> QED  BY <1>1, <1>f, MadeOf
  <2>3. Firsts(object.value) = Emplaced(object.value)
    <3>1. MadeAhead(text, q, F)
      BY <1>0, ParserMade
    <3>2. Members(object.value)
      <4> HIDE DEF q
      <4> QED  BY <1>0, <2>0, <2>2, <3>1, ObjectMade
    <3> HIDE DEF object
    <3> QED  BY <3>2, FirstsAre DEF Members
  <2> HIDE DEF r, q, c, g, object
  <2>4. PICK b \in q .. L : /\ object.at = b + 1 /\ text[b] = Closing
                            /\ \/ b = q
                               \/ /\ b > q
                                  /\ \/ object.value \in g[<<"members", q + 1, b - 1>>]
                                     \/ object.value = << >> /\ Blank(text, q + 1, b - 1)
    BY <1>4, <2>1, <2>2 DEF IsList, g
  <2>5. b # q /\ Closing # "ws"
    BY <1>4, <1>f, <2>4, Names
  <2>6. Encloses(text, q, b, Opening, Closing)
    BY <1>4, <1>f, <2>4, <2>5 DEF Encloses
  <2>7. object.value \in Lists(text, g, "members", q, b, Opening, Closing)
    BY <2>4, <2>5, <2>6, ListsAre
  <2>8. r.value \in Sole(text, g, q, b)
    BY <2>2, <2>3, <2>7, SoleIs
  <2> QED  BY <2>2, <2>4, <2>5, <2>8
<1> QED  BY <1>3, <1>a, <1>b, <1>c, <1>d, <1>e, <1>f

\* Whatever the parser reads, at any position, the grammar has.
LEMMA ReadsSoundly ==
  ASSUME NEW text \in Texts
  PROVE  \A p \in Positions(text) : IsRead(text, p, Parser(text))
<1> DEFINE last == Len(text) + 1
           F == Parser(text)
           Good == {p \in 1 .. last : IsRead(text, p, F)}
<1>0. Len(text) \in Nat /\ last \in Nat /\ Positions(text) = 1 .. last
  BY PositionsOf
<1>1. ASSUME NEW p \in 1 .. last, \A q \in p + 1 .. last : q \in Good
      PROVE  p \in Good
  <2>1. p \in Positions(text) /\ \A q \in p + 1 .. Len(text) + 1 : IsRead(text, q, Parser(text))
    BY <1>0, <1>1
  <2>2. IsDelimiter(Comma, Closing) /\ IsDelimiter(Comma, "]")
    BY Names DEF IsDelimiter
  <2>3. /\ F[<<"value", p>>] = Value(text, F, p)
        /\ F[<<"members", p>>] = Object(text, F, p, Comma)
        /\ F[<<"elements", p>>] = Array(text, F, p, Comma)
        /\ F[<<"characters", p>>] = Characters(text, F, p)
    <3>1. \A kind \in Kinds : F[<<kind, p>>] = Read(text, F, <<kind, p>>)
      BY <2>1, ParserIs
    <3> HIDE DEF F
    <3> QED  BY <3>1, ReadIs DEF Kinds
  <2>4. IsValue(text, p, F[<<"value", p>>])
    BY <2>1, <2>3, ValueSound
  <2>5. IsString(text, p, F[<<"characters", p>>])
    <3>1. \A q \in p + 1 .. Len(text) + 1 : IsString(text, q, F[<<"characters", q>>])
      BY <2>1 DEF IsRead
    <3> HIDE DEF F
    <3> QED  BY <2>1, <2>3, <3>1, CharactersSound
  <2>6. IsList(text, p, F[<<"elements", p>>], "elements", Comma, "]")
    BY <2>1, <2>2, <2>3, ArraySound
  <2>7. IsList(text, p, F[<<"members", p>>], "members", Comma, Closing)
    BY <2>1, <2>2, <2>3, ObjectSound
  <2> HIDE DEF F
  <2> QED  BY <2>4, <2>5, <2>6, <2>7 DEF IsRead
<1>2. \A p \in 1 .. last : p \in Good
  <2> HIDE DEF last, Good
  <2> QED  BY <1>0, <1>1, FromTheEnd
<1> QED  BY <1>0, <1>2

------------------------------------------------------------------------------
(* What is in the grammar is read *)

\* The parser at a position.
LEMMA ParsersAt ==
  ASSUME NEW text \in Texts, NEW p \in Positions(text)
  PROVE  /\ Parser(text)[<<"value", p>>] = Value(text, Parser(text), p)
         /\ Parser(text)[<<"members", p>>] = Object(text, Parser(text), p, Comma)
         /\ Parser(text)[<<"elements", p>>] = Array(text, Parser(text), p, Comma)
         /\ Parser(text)[<<"characters", p>>] = Characters(text, Parser(text), p)
<1> DEFINE F == Parser(text)
<1>1. \A kind \in Kinds : F[<<kind, p>>] = Read(text, F, <<kind, p>>)
  BY ParserIs
<1> HIDE DEF F
<1>2. /\ F[<<"value", p>>] = Value(text, F, p)
      /\ F[<<"members", p>>] = Object(text, F, p, Comma)
      /\ F[<<"elements", p>>] = Array(text, F, p, Comma)
      /\ F[<<"characters", p>>] = Characters(text, F, p)
  BY <1>1, ReadIs DEF Kinds
<1> QED  BY <1>2 DEF F

\* What is read on, with one more in front.
LEMMA JoinedParsed ==
  ASSUME NEW first, NEW rest, NEW n
  PROVE  Joined(first, Parsed(rest, n)) = Parsed(<<first>> \o rest, n)
<1> DEFINE r == Parsed(rest, n)
<1>1. r.exc = "none" /\ r.at = n /\ r.value = rest
  BY ParsedOf
<1> HIDE DEF r
<1>2. Joined(first, r) = Parsed(<<first>> \o rest, n)
  BY <1>1 DEF Joined
<1> QED  BY <1>2 DEF r

LEMMA MadeParsed ==
  ASSUME NEW first, NEW rest, NEW n
  PROVE  Made(first, Parsed(rest, n)) = Parsed(first, n)
BY ParsedOf DEF Made

\* What the grammar has, between what encloses it, is read.
CharsRead(text, i, j) ==
  j + 1 <= Len(text) /\ text[j + 1] = Quote =>
    \A c \in Grammar(text)[<<"characters", i, j>>] :
      Parser(text)[<<"characters", i>>] = Parsed(c, j + 2)
ElemsRead(text, i, j) ==
  j + 1 <= Len(text) /\ text[j + 1] = "]" =>
    \A p \in Positions(text) : \A d \in {"[", Comma} :
      whitespace(text, p) = i - 1 /\ At(text, i - 1) = d =>
        \A e \in Grammar(text)[<<"elements", i, j>>] :
          Array(text, Parser(text), p, d) = Parsed(e, j + 2)
MembsRead(text, i, j) ==
  j + 1 <= Len(text) /\ text[j + 1] = Closing =>
    \A p \in Positions(text) : \A d \in {Opening, Comma} :
      whitespace(text, p) = i - 1 /\ At(text, i - 1) = d =>
        \A e \in Grammar(text)[<<"members", i, j>>] :
          Object(text, Parser(text), p, d) = Parsed(e, j + 2)
AllRead(text, m) ==
  \A i \in Positions(text) : \A j \in 0 .. Len(text) :
    j - i < m => CharsRead(text, i, j) /\ ElemsRead(text, i, j) /\ MembsRead(text, i, j)

\* Strings.
LEMMA CharactersComplete ==
  ASSUME NEW text \in Texts, NEW i \in Positions(text), NEW j \in 0 .. Len(text), AllRead(text, j - i)
  PROVE  CharsRead(text, i, j)
<1> DEFINE F == Parser(text)
           L == Len(text)
           r == Characters(text, F, i)
           one == F[<<"characters", i + 1>>]
           two == F[<<"characters", i + 2>>]
           six == F[<<"characters", i + 6>>]
           chars == to_unicode(SubSeq(text, i + 2, i + 5))
<1>0. L \in Nat /\ i \in 1 .. L + 1
  BY PositionsOf
<1>1. SUFFICES ASSUME j + 1 <= L, text[j + 1] = Quote,
                      NEW s \in Grammar(text)[<<"characters", i, j>>]
               PROVE  r = Parsed(s, j + 2)
  <2>1. F[<<"characters", i>>] = r
    BY ParsersAt
  <2> HIDE DEF F, r
  <2> QED  BY <2>1 DEF CharsRead, F
<1>2. /\ i <= L => At(text, i) = text[i] /\ text[i] # End
      /\ i + 1 <= L => At(text, i + 1) = text[i + 1]
  BY <1>0, TextAt
<1>3. \A n \in {1, 2, 6} : i + n <= j + 1 =>
        \A rest \in Grammar(text)[<<"characters", i + n, j>>] : F[<<"characters", i + n>>] = Parsed(rest, j + 2)
  <2> SUFFICES ASSUME NEW n \in {1, 2, 6}, i + n <= j + 1,
                      NEW rest \in Grammar(text)[<<"characters", i + n, j>>]
               PROVE  F[<<"characters", i + n>>] = Parsed(rest, j + 2)
    OBVIOUS
  <2>1. i + n \in Positions(text) /\ j - (i + n) < j - i
    BY <1>0, PositionsOf
  <2>2. CharsRead(text, i + n, j)
    BY <2>1 DEF AllRead
  <2> QED  BY <1>1, <2>2 DEF CharsRead
<1> DEFINE c == At(text, i)
           e == At(text, i + 1)
<1>n. Quote # Slash /\ {Quote, Slash} \cap {"n", "t", "r", "u"} = {} /\ Quote # End /\ Slash # End
  BY DEF Quote, Slash, End
<1>a. CASE i = j + 1 /\ s = << >>
  <2>1. c = Quote /\ i <= L /\ i + 1 = j + 2
    BY <1>0, <1>1, <1>2, <1>a
  <2>2. r = Parsed(<< >>, i + 1)
    <3>1. ~(i = L + 1)
      BY <1>0, <2>1
    <3> HIDE DEF F, r
    <3> QED  BY <1>n, <2>1, <3>1, CharactersCases DEF r
  <2> HIDE DEF r
  <2> QED  BY <1>a, <2>1, <2>2
<1>b. CASE /\ i <= j /\ text[i] \notin {Quote, Slash}
           /\ \E rest \in Grammar(text)[<<"characters", i + 1, j>>] : s = <<text[i]>> \o rest
  <2>1. PICK rest \in Grammar(text)[<<"characters", i + 1, j>>] : s = <<text[i]>> \o rest
    BY <1>b
  <2>2. c = text[i] /\ c \notin {Quote, Slash, End} /\ ~(i = L + 1) /\ i + 1 <= j + 1
    BY <1>0, <1>1, <1>2, <1>b
  <2>3. r = Joined(c, one)
    <3> HIDE DEF F, r
    <3> QED  BY <2>2, CharactersCases DEF r
  <2>4. one = Parsed(rest, j + 2)
    BY <1>3, <2>1, <2>2
  <2> HIDE DEF r, one, c
  <2>5. r = Parsed(<<c>> \o rest, j + 2)
    BY <2>3, <2>4, JoinedParsed
  <2> QED  BY <2>1, <2>2, <2>5
<1>c. CASE /\ i + 1 <= j /\ text[i] = Slash /\ text[i + 1] \in {"n", "t", "r"}
           /\ \E rest \in Grammar(text)[<<"characters", i + 2, j>>] : s = <<Escapes[text[i + 1]]>> \o rest
  <2>1. PICK rest \in Grammar(text)[<<"characters", i + 2, j>>] : s = <<Escapes[text[i + 1]]>> \o rest
    BY <1>c
  <2>2. c = Slash /\ e = text[i + 1] /\ e \in {"n", "t", "r"} /\ ~(i = L + 1) /\ i + 2 <= j + 1
    BY <1>0, <1>1, <1>2, <1>c
  <2>3. r = Joined(Escapes[e], two)
    <3>1. c # Quote /\ c # End /\ e \notin {Slash, Quote} /\ e # "u"
      BY <1>n, <2>2
    <3> HIDE DEF F, r
    <3> QED  BY <2>2, <3>1, CharactersCases DEF r
  <2>4. two = Parsed(rest, j + 2)
    BY <1>3, <2>1, <2>2
  <2> HIDE DEF r, two, c, e
  <2>5. r = Parsed(<<Escapes[e]>> \o rest, j + 2)
    BY <2>3, <2>4, JoinedParsed
  <2> QED  BY <2>1, <2>2, <2>5
<1>d. CASE /\ i + 1 <= j /\ text[i] = Slash /\ text[i + 1] \in {Quote, Slash}
           /\ \E rest \in Grammar(text)[<<"characters", i + 2, j>>] : s = <<text[i + 1]>> \o rest
  <2>1. PICK rest \in Grammar(text)[<<"characters", i + 2, j>>] : s = <<text[i + 1]>> \o rest
    BY <1>d
  <2>2. c = Slash /\ e = text[i + 1] /\ e \in {Slash, Quote} /\ ~(i = L + 1) /\ i + 2 <= j + 1
    BY <1>0, <1>1, <1>2, <1>d
  <2>3. r = Joined(e, two)
    <3>1. c # Quote /\ c # End /\ e \notin {"n", "t", "r", "u"}
      BY <1>n, <2>2
    <3> HIDE DEF F, r
    <3> QED  BY <2>2, <3>1, CharactersCases DEF r
  <2>4. two = Parsed(rest, j + 2)
    BY <1>3, <2>1, <2>2
  <2> HIDE DEF r, two, c, e
  <2>5. r = Parsed(<<e>> \o rest, j + 2)
    BY <2>3, <2>4, JoinedParsed
  <2> QED  BY <2>1, <2>2, <2>5
<1>e. CASE /\ i + 5 <= j /\ text[i] = Slash /\ text[i + 1] = "u"
           /\ \E rest \in Grammar(text)[<<"characters", i + 6, j>>] : s = chars \o rest
  <2>1. PICK rest \in Grammar(text)[<<"characters", i + 6, j>>] : s = chars \o rest
    BY <1>e
  <2>2. /\ c = Slash /\ e = "u" /\ ~(i = L + 1) /\ ~(i + 5 > L) /\ i + 6 <= j + 1
    BY <1>0, <1>1, <1>2, <1>e
  <2>3. r = Spelled(chars, six)
    <3>1. c # Quote /\ c # End /\ e \notin {"n", "t", "r", Slash, Quote}
      BY <1>n, <2>2
    <3> HIDE DEF F, r
    <3> QED  BY <2>2, <3>1, CharactersCases DEF r
  <2>4. six = Parsed(rest, j + 2)
    BY <1>3, <2>1, <2>2
  <2> HIDE DEF r, six, c, e, chars
  <2>5. r = Parsed(chars \o rest, j + 2)
    <3>1. Spelled(chars, Parsed(rest, j + 2)) = Parsed(chars \o rest, j + 2)
      BY ParsedOf DEF Spelled
    <3>2. r = Spelled(chars, six)
      BY <2>3
    <3>3. six = Parsed(rest, j + 2)
      BY <2>4
    <3> QED  BY <3>1, <3>2, <3>3
  <2> QED  BY <2>1, <2>5
<1> DEFINE g == Grammar(text)
<1> HIDE DEF r, one, two, six, c, e, F, g
<1>4. s \in g[<<"characters", i, j>>]
  BY <1>1 DEF g
<1>5. \/ i = j + 1 /\ s = << >>
      \/ /\ i <= j /\ text[i] \notin {Quote, Slash}
         /\ \E rest \in g[<<"characters", i + 1, j>>] : s = <<text[i]>> \o rest
      \/ /\ i + 1 <= j /\ text[i] = Slash /\ text[i + 1] \in {"n", "t", "r"}
         /\ \E rest \in g[<<"characters", i + 2, j>>] : s = <<Escapes[text[i + 1]]>> \o rest
      \/ /\ i + 1 <= j /\ text[i] = Slash /\ text[i + 1] \in {Quote, Slash}
         /\ \E rest \in g[<<"characters", i + 2, j>>] : s = <<text[i + 1]>> \o rest
      \/ /\ i + 5 <= j /\ text[i] = Slash /\ text[i + 1] = "u"
         /\ \E rest \in g[<<"characters", i + 6, j>>] : s = chars \o rest
  <2>1. s \in Spellings(text, g, i, j)
    BY <1>4, GrammarOf DEF g
  <2> QED  BY <2>1 DEF Spellings, chars
<1> QED  BY <1>5, <1>a, <1>b, <1>c, <1>d, <1>e, Zenon DEF g

\* number_str takes a number up to where it ends, or to where more digits do.
LEMMA NumberComplete ==
  ASSUME NEW text \in Texts, NEW a \in 1 .. Len(text), NEW b \in 1 .. Len(text), IsNumber(text, a, b)
  PROVE  LET r == number_str(text, a)
         IN  /\ r.exc = "none" /\ At(text, a) \in {"d", "-"}
             /\ \/ r = Parsed(Plain("number", SubSeq(text, a, b)), b + 1)
                \/ r.at > b + 1 /\ At(text, b + 1) = "d"
<1> DEFINE L == Len(text)
           first == IF At(text, a) = "-" THEN a + 1 ELSE a
           last == Behind(text, first, "d")
           r == number_str(text, a)
<1>0. L \in Nat /\ a \in Positions(text) /\ b + 1 \in Positions(text) /\ "d" # End /\ At(text, a) = text[a]
  <2>1. L \in Nat /\ Positions(text) = 1 .. L + 1
    BY PositionsOf
  <2> QED  BY <2>1, TextAt, Names
<1>1. PICK i \in {a, a + 1} : (i = a \/ text[a] = "-") /\ i <= b /\ \A s \in i .. b : text[s] = "d"
  BY DEF IsNumber
<1>2. i = first /\ text[a] \in {"d", "-"}
  <2>1. i = a => text[a] = "d"
    BY <1>1
  <2>2. "d" # "-"
    OBVIOUS
  <2> QED  BY <1>0, <1>1, <2>1, <2>2
<1> HIDE DEF first
<1>3. first \in a .. b /\ first \in Positions(text) /\ \A s \in first .. b : At(text, s) = "d"
  <2>1. first \in a .. b /\ first \in 1 .. L + 1 /\ \A s \in first .. b : s \in 1 .. L
    BY <1>0, <1>1, <1>2
  <2> QED  BY <1>1, <1>2, <2>1, PositionsOf, TextAt
<1>4. /\ last \in first .. L + 1 /\ At(text, last) # "d"
      /\ \A s \in first .. last - 1 : At(text, s) = "d"
  BY <1>0, <1>3, BehindFinds
<1>5. r = Throw("ParseException", first) \/ r = Parsed(Plain("number", SubSeq(text, a, last - 1)), last)
  BY <1>0, NumberCases DEF first
<1>6. last # first => r = Parsed(Plain("number", SubSeq(text, a, last - 1)), last)
  BY <1>0, NumberCases DEF first
<1> HIDE DEF last, r
<1>7. last \in b + 1 .. L + 1
  <2>1. ~(last \in first .. b)
    BY <1>3, <1>4
  <2> QED  BY <1>0, <1>3, <1>4, <2>1
<1>8. r = Parsed(Plain("number", SubSeq(text, a, last - 1)), last)
  BY <1>3, <1>6, <1>7
<1>9. r.exc = "none" /\ r.at = last
  BY <1>8, ParsedOf
<1>10. last = b + 1 \/ (last > b + 1 /\ At(text, b + 1) = "d")
  <2>1. last # b + 1 => last > b + 1 /\ b + 1 \in first .. last - 1
    BY <1>0, <1>3, <1>7
  <2> QED  BY <2>1, <1>4
<1>11. CASE last = b + 1
  <2>1. last - 1 = b
    BY <1>11
  <2>2. r = Parsed(Plain("number", SubSeq(text, a, b)), b + 1)
    BY <1>8, <1>11, <2>1
  <2> QED  BY <1>0, <1>2, <1>9, <2>2 DEF r
<1> QED  BY <1>0, <1>2, <1>9, <1>10, <1>11 DEF r

\* A value up to where it ends, or a number up to where more digits do.
ReadTo(text, r, v, b) ==
  /\ r.exc = "none"
  /\ r = Parsed(v, b + 1) \/ (r.at > b + 1 /\ At(text, b + 1) = "d")

\* What lies behind space is next.
LEMMA SpaceTo ==
  ASSUME NEW text \in Texts, NEW p \in Positions(text), NEW b \in p .. Len(text),
         text[b] # "ws", Blank(text, p, b - 1)
  PROVE  whitespace(text, p) = b
<1>1. Len(text) \in Nat /\ p \in 1 .. Len(text) + 1 /\ "ws" # End
  BY PositionsOf DEF End
<1>2. b \in 1 .. Len(text) /\ b \in p .. Len(text) + 1 /\ \A r \in p .. b - 1 : r \in 1 .. Len(text)
  BY <1>1
<1>3. At(text, b) # "ws" /\ \A r \in p .. b - 1 : At(text, r) = "ws"
  BY <1>2, TextAt DEF Blank
<1> QED  BY <1>1, <1>2, <1>3, BehindIs DEF whitespace

\* The character behind a delimiter and space.
LEMMA NextIs ==
  ASSUME NEW text \in Texts, NEW a \in 1 .. Len(text), NEW b \in 1 .. Len(text), a < b,
         whitespace(text, a) = a, text[b] # "ws", Blank(text, a + 1, b - 1)
  PROVE  NextAt(text, a) = b
<1>1. Len(text) \in Nat /\ Positions(text) = 1 .. Len(text) + 1
  BY PositionsOf
<1>2. a + 1 \in Positions(text) /\ b \in a + 1 .. Len(text)
  BY <1>1
<1> QED  BY <1>2, SpaceTo DEF NextAt

\* Lists with nothing in them.
LEMMA EmptyArray ==
  ASSUME NEW text \in Texts, NEW p \in Positions(text), NEW f, NEW d, IsDelimiter(d, "]"),
         EmptyAt(text, p, d, "[", "]"), whitespace(text, p) <= Len(text),
         At(text, whitespace(text, p)) = d
  PROVE  Array(text, f, p, d) = Parsed(<< >>, NextAt(text, p) + 1)
<1>1. ~(whitespace(text, p) = Len(text) + 1) /\ d # "]"
  BY PositionsOf DEF IsDelimiter
<1> QED  BY <1>1, ArrayCases

\* Values with no space around them.
LEMMA SoleComplete ==
  ASSUME NEW text \in Texts, NEW m \in Int, AllRead(text, m),
         NEW a \in 1 .. Len(text), NEW b \in 1 .. Len(text), b - a <= m,
         NEW p \in Positions(text), whitespace(text, p) = a,
         NEW v \in Sole(text, Grammar(text), a, b)
  PROVE  ReadTo(text, Value(text, Parser(text), p), v, b)
<1> DEFINE F == Parser(text)
           g == Grammar(text)
           L == Len(text)
           r == Value(text, F, p)
           c == At(text, a)
           object == Object(text, F, a, Opening)
           array == Array(text, F, a, "[")
           chars == escaped_string(text, F, a)
<1> SUFFICES ReadTo(text, r, v, b)
  OBVIOUS
<1>0. L \in Nat /\ c = text[a] /\ a \in Positions(text) /\ a + 1 \in Positions(text)
  <2>1. L \in Nat /\ Positions(text) = 1 .. L + 1
    BY PositionsOf
  <2> QED  BY <2>1, TextAt
<1>1. a <= L /\ ~(a = L + 1)
  BY <1>0
<1>2. ASSUME r = Parsed(v, b + 1)  PROVE ReadTo(text, r, v, b)
  <2> HIDE DEF r
  <2> QED  BY <1>2, ParsedOf DEF ReadTo
<1>3. whitespace(text, a) = a
  BY SpaceAgain
<1>n. /\ {Opening, "[", Quote} \cap {"true", "false", "null", "d", "-"} = {}
      /\ Opening # "[" /\ Opening # Quote /\ Quote # "["
  <2>1. Opening \notin {"true", "false", "null", "d", "-"}
    BY DEF Opening
  <2>2. Quote \notin {"true", "false", "null", "d", "-", "["}
    BY DEF Quote
  <2> QED  BY <2>1, <2>2, Names
<1>4. Encloses(text, a, b, text[a], text[b]) =>
        /\ a + 1 \in Positions(text) /\ b - 1 \in 0 .. L /\ b - 1 - (a + 1) < m
        /\ b - 1 + 1 = b /\ b - 1 + 2 = b + 1 /\ a + 1 - 1 = a
        /\ CharsRead(text, a + 1, b - 1) /\ ElemsRead(text, a + 1, b - 1) /\ MembsRead(text, a + 1, b - 1)
  <2> HAVE Encloses(text, a, b, text[a], text[b])
  <2>1. /\ b - 1 \in 0 .. L /\ b - 1 - (a + 1) < m
        /\ b - 1 + 1 = b /\ b - 1 + 2 = b + 1 /\ a + 1 - 1 = a
    BY <1>0 DEF Encloses
  <2> QED  BY <1>0, <2>1 DEF AllRead
<1>a. CASE a = b /\ text[a] = "null" /\ v = NullValue
  <2>1. r = Parsed(NullValue, a + 1)
    <3>1. c = "null" /\ c \notin {Opening, "[", Quote}
      BY <1>0, <1>a, <1>n
    <3> HIDE DEF F
    <3> QED  BY <1>1, <3>1, ValueCases
  <2> HIDE DEF r
  <2> QED  BY <1>2, <1>a, <2>1
<1>b. CASE a = b /\ text[a] \in {"true", "false"} /\ v = Plain("bool", <<text[a]>>)
  <2>1. r = Parsed(Plain("bool", <<c>>), a + 1)
    <3>1. c \in {"true", "false"} /\ c \notin {Opening, "[", Quote}
      BY <1>0, <1>b, <1>n
    <3> HIDE DEF F
    <3> QED  BY <1>1, <3>1, ValueCases
  <2> HIDE DEF r
  <2> QED  BY <1>0, <1>2, <1>b, <2>1
<1>c. CASE IsNumber(text, a, b) /\ v = Plain("number", SubSeq(text, a, b))
  <2>1. LET n == number_str(text, a)
        IN  /\ n.exc = "none" /\ At(text, a) \in {"d", "-"}
            /\ \/ n = Parsed(Plain("number", SubSeq(text, a, b)), b + 1)
               \/ n.at > b + 1 /\ At(text, b + 1) = "d"
    BY <1>c, NumberComplete
  <2>2. r = number_str(text, a)
    <3>1. c \in {"d", "-"} /\ c \notin {Opening, "[", Quote, "true", "false", "null"}
      BY <2>1, <1>n
    <3> HIDE DEF F
    <3> QED  BY <1>1, <3>1, ValueCases
  <2> HIDE DEF r
  <2> QED  BY <2>1, <2>2, <1>c DEF ReadTo
<1>d. CASE \E s \in Strings(text, g, a, b) : v = Plain("string", s)
  <2>1. PICK s \in Strings(text, g, a, b) : v = Plain("string", s)
    BY <1>d
  <2>2. Encloses(text, a, b, Quote, Quote) /\ s \in g[<<"characters", a + 1, b - 1>>]
    BY <2>1, ListsAre
  <2>3. text[a] = Quote /\ text[b] = Quote
    BY <2>2 DEF Encloses
  <2>4. Parser(text)[<<"characters", a + 1>>] = Parsed(s, b + 1)
    <3> HIDE DEF F, r, c, object, array, chars
    <3>1. Encloses(text, a, b, text[a], text[b])
      BY <2>2, <2>3
    <3>2. CharsRead(text, a + 1, b - 1) /\ b - 1 + 1 = b /\ b - 1 + 2 = b + 1
      BY <1>4, <3>1
    <3>3. b <= Len(text)
      BY <1>0
    <3>4. \A t \in Grammar(text)[<<"characters", a + 1, b - 1>>] :
            Parser(text)[<<"characters", a + 1>>] = Parsed(t, b - 1 + 2)
      <4> DEFINE k == b - 1
      <4>1. text[k + 1] = Quote /\ k + 1 <= Len(text)
        BY <2>3, <3>2, <3>3
      <4> HIDE DEF k
      <4>2. CharsRead(text, a + 1, k)
        BY <3>2 DEF k
      <4>3. \A t \in Grammar(text)[<<"characters", a + 1, k>>] :
              Parser(text)[<<"characters", a + 1>>] = Parsed(t, k + 2)
        BY <4>1, <4>2 DEF CharsRead
      <4> QED  BY <4>3 DEF k
    <3>5. s \in Grammar(text)[<<"characters", a + 1, b - 1>>]
      BY <2>2
    <3> QED  BY <3>2, <3>4, <3>5
  <2>5. chars = F[<<"characters", a + 1>>]
    <3> HIDE DEF F
    <3> QED  BY <1>0, <2>3, StringCases
  <2>6. r = Made(Plain("string", chars.value), chars)
    <3>1. c = Quote /\ c \notin {Opening, "["}
      BY <1>0, <2>3, <1>n
    <3> HIDE DEF F
    <3> QED  BY <1>1, <1>n, <3>1, ValueCases
  <2> HIDE DEF r, chars
  <2>7. chars = Parsed(s, b + 1) /\ chars.value = s
    BY <2>4, <2>5, ParsedOf
  <2>8. r = Parsed(v, b + 1)
    BY <2>1, <2>6, <2>7, MadeParsed
  <2> QED  BY <1>2, <2>8
<1>e. CASE \E s \in Lists(text, g, "elements", a, b, "[", "]") : v = ArrayOf(s)
  <2>1. PICK s \in Lists(text, g, "elements", a, b, "[", "]") : v = ArrayOf(s)
    BY <1>e
  <2>2. /\ Encloses(text, a, b, "[", "]")
        /\ (Blank(text, a + 1, b - 1) /\ s = << >>) \/ s \in g[<<"elements", a + 1, b - 1>>]
    BY <2>1, ListsAre
  <2>3. text[a] = "[" /\ text[b] = "]" /\ a < b
    BY <2>2 DEF Encloses
  <2>4. array = Parsed(s, b + 1)
    <3>a. CASE s \in g[<<"elements", a + 1, b - 1>>]
      BY <1>0, <1>3, <1>4, <2>2, <2>3, <3>a DEF ElemsRead
    <3>b. CASE Blank(text, a + 1, b - 1) /\ s = << >>
      <4>1. NextAt(text, a) = b
        BY <1>3, <2>3, <3>b, NextIs
      <4>2. EmptyAt(text, a, "[", "[", "]") /\ IsDelimiter("[", "]")
        BY <4>1, <2>3, TextAt, Names DEF EmptyAt, IsDelimiter
      <4>3. /\ whitespace(text, a) <= L /\ ~(whitespace(text, a) = L + 1)
            /\ At(text, whitespace(text, a)) = "["
        BY <1>0, <1>1, <1>3, <2>3
      <4>4. array = Parsed(<< >>, b + 1)
        BY <1>0, <4>1, <4>2, <4>3, EmptyArray
      <4> QED  BY <4>4, <3>b
    <3> QED  BY <2>2, <3>a, <3>b
  <2>5. r = Made(ArrayOf(array.value), array)
    <3>1. c = "[" /\ c # Opening
      BY <1>0, <2>3, <1>n
    <3> HIDE DEF F
    <3> QED  BY <1>1, <1>n, <3>1, ValueCases
  <2> HIDE DEF r, array
  <2>6. array.value = s
    BY <2>4, ParsedOf
  <2>7. r = Parsed(v, b + 1)
    BY <2>1, <2>4, <2>5, <2>6, MadeParsed
  <2> QED  BY <1>2, <2>7
<1>f. CASE \E s \in Lists(text, g, "members", a, b, Opening, Closing) : v = ObjectOf(Firsts(s))
  <2>1. PICK s \in Lists(text, g, "members", a, b, Opening, Closing) : v = ObjectOf(Firsts(s))
    BY <1>f
  <2>2. /\ Encloses(text, a, b, Opening, Closing)
        /\ (Blank(text, a + 1, b - 1) /\ s = << >>) \/ s \in g[<<"members", a + 1, b - 1>>]
    BY <2>1, ListsAre
  <2>3. text[a] = Opening /\ text[b] = Closing /\ a < b
    BY <2>2 DEF Encloses
  <2>0. IsDelimiter(Opening, Closing)
    BY Names DEF IsDelimiter
  <2>4. object = Parsed(s, b + 1)
    <3>a. CASE s \in g[<<"members", a + 1, b - 1>>]
      BY <1>0, <1>3, <1>4, <2>2, <2>3, <3>a DEF MembsRead
    <3>b. CASE Blank(text, a + 1, b - 1) /\ s = << >>
      <4>1. NextAt(text, a) = b
        BY <1>3, <2>3, <3>b, Names, NextIs
      <4>2. EmptyAt(text, a, Opening, Opening, Closing)
        BY <4>1, <2>3, TextAt DEF EmptyAt
      <4>3. /\ whitespace(text, a) <= L /\ ~(whitespace(text, a) = L + 1)
            /\ At(text, whitespace(text, a)) = Opening
        BY <1>0, <1>1, <1>3, <2>3
      <4> HIDE DEF F
      <4>4. object = Parsed(<< >>, b + 1)
        BY <1>0, <2>0, <4>1, <4>2, <4>3, ObjectCases, Names
      <4> QED  BY <4>4, <3>b
    <3> QED  BY <2>2, <3>a, <3>b
  <2>5. r = Made(ObjectOf(Emplaced(object.value)), object)
    <3>1. c = Opening /\ c # "["
      BY <1>0, <2>3, <1>n
    <3> HIDE DEF F
    <3> QED  BY <1>1, <1>n, <3>1, ValueCases
  <2>6. object.value = s /\ object.exc = "none"
    <3> HIDE DEF object
    <3> QED  BY <2>4, ParsedOf
  <2>7. Firsts(s) = Emplaced(s)
    <3>1. MadeAhead(text, a, F)
      BY <1>0, ParserMade
    <3>2. Members(object.value)
      BY <1>0, <2>0, <2>6, <3>1, ObjectMade
    <3> HIDE DEF object
    <3> QED  BY <2>6, <3>2, FirstsAre DEF Members
  <2> HIDE DEF r, object
  <2>8. r = Parsed(v, b + 1)
    BY <2>1, <2>4, <2>5, <2>6, <2>7, MadeParsed
  <2> QED  BY <1>2, <2>8
<1> HIDE DEF F, g, r
<1>5. v \in Sole(text, g, a, b)
  BY DEF g
<1>6. \/ a = b /\ text[a] = "null" /\ v = NullValue
      \/ a = b /\ text[a] \in {"true", "false"} /\ v = Plain("bool", <<text[a]>>)
      \/ IsNumber(text, a, b) /\ v = Plain("number", SubSeq(text, a, b))
      \/ \E s \in Strings(text, g, a, b) : v = Plain("string", s)
      \/ \E s \in Lists(text, g, "elements", a, b, "[", "]") : v = ArrayOf(s)
      \/ \E s \in Lists(text, g, "members", a, b, Opening, Closing) : v = ObjectOf(Firsts(s))
  BY <1>5, Zenon DEF Sole, Opening, Closing
<1> QED  BY <1>6, <1>a, <1>b, <1>c, <1>d, <1>e, <1>f

\* A value with space around it is read from any position from which it is next.
LEMMA ValuesComplete ==
  ASSUME NEW text \in Texts, NEW m \in Int, AllRead(text, m),
         NEW i \in Positions(text), NEW j \in 0 .. Len(text), j - i <= m,
         NEW p \in Positions(text), whitespace(text, p) = whitespace(text, i),
         NEW v \in Values(text, Grammar(text), i, j)
  PROVE  \E b \in whitespace(text, i) .. j :
           /\ text[b] # "ws" /\ Blank(text, b + 1, j)
           /\ ReadTo(text, Parser(text)[<<"value", p>>], v, b)
<1> DEFINE q == whitespace(text, i)
           g == Grammar(text)
<1>0. Len(text) \in Nat /\ i \in 1 .. Len(text) + 1 /\ q \in i .. Len(text) + 1
  BY PositionsOf, BlankUpTo
<1>1. PICK a \in Heads(text, i, j), b \in Lasts(text, i, j) : v \in Sole(text, g, a, b)
  <2>1. v \in Values(text, g, i, j)
    OBVIOUS
  <2> HIDE DEF g
  <2> QED  BY <2>1, ValuesAre
<1>2. a = q /\ a <= j
  BY HeadsAre
<1>3. b \in i .. j /\ text[b] # "ws" /\ Blank(text, b + 1, j)
  BY LastsAre
<1>4. q <= b
  <2>1. ASSUME b < q  PROVE FALSE
    <3>1. At(text, b) = "ws"
      <4>1. b \in i .. q - 1
        <5> HIDE DEF q
        <5> QED  BY <1>0, <1>3, <2>1
      <4> QED  BY <4>1, BlankUpTo
    <3>2. b \in 1 .. Len(text)
      BY <1>0, <1>3
    <3> QED  BY <1>3, <3>1, <3>2, TextAt
  <2> HIDE DEF q
  <2> QED  BY <1>0, <1>3, <2>1
<1>5. /\ q \in 1 .. Len(text) /\ b \in 1 .. Len(text) /\ b - q <= m /\ b \in q .. j
  <2> HIDE DEF q
  <2> QED  BY <1>0, <1>2, <1>3, <1>4
<1>6. ReadTo(text, Value(text, Parser(text), p), v, b)
  <2>1. v \in Sole(text, Grammar(text), q, b) /\ whitespace(text, p) = q
    BY <1>1, <1>2
  <2> HIDE DEF q, g
  <2> QED  BY <1>5, <2>1, SoleComplete
<1>7. Parser(text)[<<"value", p>>] = Value(text, Parser(text), p)
  BY ParsersAt
<1> QED  BY <1>3, <1>5, <1>6, <1>7

\* Where more than a number follows, a value is read to its end.
LEMMA ValueComplete ==
  ASSUME NEW text \in Texts, NEW m \in Int, AllRead(text, m),
         NEW i \in Positions(text), NEW j \in 0 .. Len(text), j - i <= m,
         j + 1 <= Len(text), text[j + 1] \notin {"d", "ws"},
         NEW p \in Positions(text), whitespace(text, p) = whitespace(text, i),
         NEW v \in Values(text, Grammar(text), i, j)
  PROVE  \E b \in whitespace(text, i) .. j :
           /\ Parser(text)[<<"value", p>>] = Parsed(v, b + 1)
           /\ b + 1 \in Positions(text) /\ whitespace(text, b + 1) = j + 1
<1>0. /\ Len(text) \in Nat /\ i \in 1 .. Len(text) + 1
      /\ whitespace(text, i) \in i .. Len(text) + 1 /\ Positions(text) = 1 .. Len(text) + 1
  BY PositionsOf, BlankUpTo
<1>1. PICK b \in whitespace(text, i) .. j :
        /\ text[b] # "ws" /\ Blank(text, b + 1, j)
        /\ ReadTo(text, Parser(text)[<<"value", p>>], v, b)
  BY ValuesComplete
<1>2. /\ b + 1 \in Positions(text) /\ j + 1 \in b + 1 .. Len(text) /\ j + 1 - 1 = j
      /\ b + 1 \in 1 .. Len(text) /\ (b = j \/ b + 1 \in b + 1 .. j)
  BY <1>0
<1>3. whitespace(text, b + 1) = j + 1
  <2>1. j + 1 - 1 = j
    BY <1>2
  <2>2. Blank(text, b + 1, j + 1 - 1)
    BY <1>1, <2>1
  <2> QED  BY <1>2, <2>2, SpaceTo
<1>4. At(text, b + 1) # "d"
  <2>1. text[b + 1] # "d"
    <3>1. CASE b = j
      BY <3>1
    <3>2. CASE b + 1 \in b + 1 .. j
      BY <1>1, <3>2 DEF Blank
    <3> QED  BY <1>2, <3>1, <3>2
  <2> QED  BY <1>2, <2>1, TextAt
<1>5. Parser(text)[<<"value", p>>] = Parsed(v, b + 1)
  BY <1>1, <1>4 DEF ReadTo
<1> QED  BY <1>2, <1>3, <1>5

\* No value begins with a closing bracket.
LEMMA NoneClosed ==
  ASSUME NEW text \in Texts, NEW p \in Positions(text), Parser(text)[<<"value", p>>].exc = "none"
  PROVE  At(text, whitespace(text, p)) \notin {"]", Closing}
<1> DEFINE F == Parser(text)
           q == whitespace(text, p)
<1>1. F[<<"value", p>>] = Value(text, F, p) /\ F[<<"value", p>>].exc = "none"
  BY ParsersAt
<1> HIDE DEF F
<1>2. Value(text, F, p) \notin {Throw("std::string", q), Throw("undefined", Len(text) + 1)}
  BY <1>1, ThrowOf
<1>3. /\ Closing \notin {Opening, "[", Quote, "true", "false", "null", "d", "-", End}
      /\ "]" \notin {Opening, "[", Quote, "true", "false", "null", "d", "-", End}
  <2>1. Closing \notin {Opening, "[", "true", "false", "null", "d", "-"}
    BY Zenon DEF Opening, Closing
  <2>2. "]" \notin {"[", "true", "false", "null", "d", "-"}
    OBVIOUS
  <2>3. Opening # "]" /\ Quote # "]" /\ Quote # Closing /\ "]" # End /\ Closing # End
    <3>1. Quote # "]" /\ Quote # Closing
      BY Zenon DEF Quote, Closing
    <3> QED  BY <3>1, Names
  <2> QED  BY <2>1, <2>2, <2>3
<1>4. q = Len(text) + 1 => At(text, q) = End
  BY PositionsOf
<1>5. At(text, q) # "]"
  <2> HIDE DEF q
  <2> SUFFICES ASSUME At(text, q) = "]"  PROVE FALSE
    OBVIOUS
  <2>1. At(text, q) \notin {Opening, "[", Quote, "true", "false", "null", "d", "-", End}
    BY <1>3
  <2> QED  BY <1>2, <1>4, <2>1, ValueCases DEF q
<1>6. At(text, q) # Closing
  <2> HIDE DEF q
  <2> SUFFICES ASSUME At(text, q) = Closing  PROVE FALSE
    OBVIOUS
  <2>1. At(text, q) \notin {Opening, "[", Quote, "true", "false", "null", "d", "-", End}
    BY <1>3
  <2> QED  BY <1>2, <1>4, <2>1, ValueCases DEF q
<1> QED  BY <1>5, <1>6

\* One element and what follows it.
LEMMA ArrayStep ==
  ASSUME NEW text \in Texts, NEW p \in Positions(text), NEW d \in {"[", Comma}, NEW v, NEW n, NEW rest, NEW last,
         whitespace(text, p) <= Len(text), At(text, whitespace(text, p)) = d,
         Parser(text)[<<"value", NextAt(text, p)>>] = Parsed(v, n),
         Parser(text)[<<"elements", n>>] = Parsed(rest, last)
  PROVE  Array(text, Parser(text), p, d) = Parsed(<<v>> \o rest, last)
<1> DEFINE F == Parser(text)
           val == ElementValue(text, F, p)
<1>1. val = Parsed(v, n)
  BY DEF ElementValue
<1>2. NextAt(text, p) \in Positions(text) /\ whitespace(text, NextAt(text, p)) = NextAt(text, p)
  BY ListStarts
<1>3. val.exc = "none" /\ val.value = v /\ val.at = n
  BY <1>1, ParsedOf
<1>4. ~EmptyAt(text, p, d, "[", "]")
  <2>1. At(text, NextAt(text, p)) # "]"
    <3>1. Parser(text)[<<"value", NextAt(text, p)>>].exc = "none"
      BY ParsedOf
    <3> QED  BY <1>2, <3>1, NoneClosed
  <2> QED  BY <2>1 DEF EmptyAt
<1>5. IsDelimiter(d, "]") /\ d # "]"
  BY Names DEF IsDelimiter
<1>6. ~(whitespace(text, p) = Len(text) + 1)
  BY PositionsOf
<1>7. F[<<"elements", n>>] = Parsed(rest, last)
  OBVIOUS
<1>8. Array(text, F, p, d) = Joined(val.value, F[<<"elements", val.at>>])
  <2> HIDE DEF F
  <2> QED  BY <1>3, <1>4, <1>5, <1>6, ArrayCases
<1> HIDE DEF F, val
<1>9. Array(text, F, p, d) = Parsed(<<v>> \o rest, last)
  BY <1>3, <1>7, <1>8, JoinedParsed
<1> QED  BY <1>9 DEF F

\* The end of a list.
LEMMA EndOfList ==
  ASSUME NEW text \in Texts, NEW p \in Positions(text), whitespace(text, p) <= Len(text)
  PROVE  /\ At(text, whitespace(text, p)) = "]" =>
              Parser(text)[<<"elements", p>>] = Parsed(<< >>, whitespace(text, p) + 1)
         /\ At(text, whitespace(text, p)) = Closing =>
              Parser(text)[<<"members", p>>] = Parsed(<< >>, whitespace(text, p) + 1)
<1> DEFINE F == Parser(text)
           q == whitespace(text, p)
<1>1. F[<<"elements", p>>] = Array(text, F, p, Comma) /\ F[<<"members", p>>] = Object(text, F, p, Comma)
  BY ParsersAt
<1>2. ~(q = Len(text) + 1) /\ IsDelimiter(Comma, Closing) /\ IsDelimiter(Comma, "]")
  BY PositionsOf, Names DEF IsDelimiter
<1>3. Comma # "]" /\ Closing # Comma
  BY Names
<1> HIDE DEF F
<1>4. At(text, q) = "]" => Array(text, F, p, Comma) = Parsed(<< >>, q + 1)
  BY <1>2, <1>3, ArrayCases
<1>5. At(text, q) = Closing => Object(text, F, p, Comma) = Parsed(<< >>, q + 1)
  BY <1>2, <1>3, ObjectCases
<1> QED  BY <1>1, <1>4, <1>5 DEF F

LEMMA ElemsReadAt ==
  ASSUME NEW text, NEW i, NEW j, ElemsRead(text, i, j), j + 1 <= Len(text), text[j + 1] = "]",
         NEW p \in Positions(text), NEW d \in {"[", Comma},
         whitespace(text, p) = i - 1, At(text, i - 1) = d,
         NEW e \in Grammar(text)[<<"elements", i, j>>]
  PROVE  Array(text, Parser(text), p, d) = Parsed(e, j + 2)
BY DEF ElemsRead

Before(v, r) == <<v>> \o r

\* A list by its first and the others.
LEMMA PrefixedIn ==
  ASSUME NEW S, NEW R
  PROVE  \A e \in Prefixed(S, R) : \E v \in S, r \in R : e = Before(v, r)
<1>1. Prefixed(S, R) = {Before(v, r) : v \in S, r \in R}
  BY DEF Prefixed, Before
<1> QED  BY <1>1

\* Lists of elements, by their size.
LEMMA ElementsComplete ==
  ASSUME NEW text \in Texts, NEW i \in Positions(text), NEW j \in 0 .. Len(text), AllRead(text, j - i)
  PROVE  ElemsRead(text, i, j)
<1> DEFINE L == Len(text)
           g == Grammar(text)
<1>0. L \in Nat /\ i \in 1 .. L + 1 /\ Positions(text) = 1 .. L + 1
  BY PositionsOf
<1>1. SUFFICES ASSUME j + 1 <= L, text[j + 1] = "]",
                      NEW p \in Positions(text), NEW d \in {"[", Comma},
                      whitespace(text, p) = i - 1, At(text, i - 1) = d,
                      NEW e \in Grammar(text)[<<"elements", i, j>>]
               PROVE  Array(text, Parser(text), p, d) = Parsed(e, j + 2)
  BY DEF ElemsRead
<1>2. /\ i - 1 <= L /\ At(text, whitespace(text, p)) = d /\ whitespace(text, p) + 1 = i
      /\ NextAt(text, p) = whitespace(text, i) /\ NextAt(text, p) \in Positions(text)
      /\ whitespace(text, NextAt(text, p)) = whitespace(text, i)
  <2>1. i - 1 <= L /\ i - 1 + 1 = i
    <3>1. d # End
      BY Names
    <3>2. whitespace(text, p) \in Positions(text)
      BY BlankUpTo
    <3>3. i - 1 \in 1 .. L
      BY <1>1, <3>1, <3>2, TextAt
    <3> QED  BY <1>0, <3>3
  <2> QED  BY <1>1, <2>1, ListStarts
<1>3. \/ \E v \in Values(text, g, i, j) : e = <<v>>
      \/ \E k \in Commas(text, i, j) :
           e \in Prefixed(Values(text, g, i, k - 1), g[<<"elements", k + 1, j>>])
  BY ElementsIn
<1>a. CASE \E v \in Values(text, g, i, j) : e = <<v>>
  <2>1. PICK v \in Values(text, g, i, j) : e = <<v>>
    BY <1>a
  <2>2. j - i \in Int /\ j - i <= j - i /\ text[j + 1] \notin {"d", "ws"} /\ j + 1 \in 1 .. L
    BY <1>0, <1>1
  <2>3. PICK b \in whitespace(text, i) .. j :
           /\ Parser(text)[<<"value", NextAt(text, p)>>] = Parsed(v, b + 1)
           /\ b + 1 \in Positions(text) /\ whitespace(text, b + 1) = j + 1
    BY <1>1, <1>2, <2>2, ValueComplete
  <2> DEFINE rest == << >>
  <2>4. Parser(text)[<<"elements", b + 1>>] = Parsed(rest, j + 2)
    <3>1. At(text, j + 1) = "]" /\ j + 1 + 1 = j + 2
      BY <1>1, <2>2, TextAt
    <3> QED  BY <1>1, <2>3, <3>1, EndOfList
  <2>5. <<v>> \o rest = <<v>>
    BY OneBefore
  <2> HIDE DEF rest
  <2>6. Array(text, Parser(text), p, d) = Parsed(<<v>> \o rest, j + 2)
    BY <1>1, <1>2, <2>3, <2>4, ArrayStep
  <2> QED  BY <2>1, <2>5, <2>6
<1>b. CASE \E k \in Commas(text, i, j) :
             e \in Prefixed(Values(text, g, i, k - 1), g[<<"elements", k + 1, j>>])
  <2>1. PICK k \in Commas(text, i, j) :
             e \in Prefixed(Values(text, g, i, k - 1), g[<<"elements", k + 1, j>>])
    BY <1>b
  <2>3. PICK v \in Values(text, g, i, k - 1), rest \in g[<<"elements", k + 1, j>>] : e = <<v>> \o rest
    <3> HIDE DEF g
    <3>1. PICK v \in Values(text, g, i, k - 1), rest \in g[<<"elements", k + 1, j>>] : e = Before(v, rest)
      BY <2>1, PrefixedIn
    <3> QED  BY <3>1 DEF Before
  <2>4. k \in i .. j /\ text[k] = Comma
    BY CommasAre
  <2>5. /\ j - i \in Int /\ k - 1 \in 0 .. L /\ k - 1 - i <= j - i /\ k - 1 + 1 = k /\ k <= L /\ k \in 1 .. L
        /\ k + 1 \in Positions(text) /\ j - (k + 1) < j - i /\ k + 1 - 1 = k
    BY <1>0, <1>1, <2>4
  <2>6. text[k - 1 + 1] \notin {"d", "ws"} /\ k - 1 + 1 <= L
    <3>1. Comma \notin {"d", "ws"}
      BY Zenon DEF Comma
    <3> QED  BY <2>4, <2>5, <3>1
  <2>7. PICK b \in whitespace(text, i) .. k - 1 :
           /\ Parser(text)[<<"value", NextAt(text, p)>>] = Parsed(v, b + 1)
           /\ b + 1 \in Positions(text) /\ whitespace(text, b + 1) = k - 1 + 1
    BY <1>1, <1>2, <2>5, <2>6, ValueComplete
  <2> DEFINE k1 == k + 1
  <2>8. Parser(text)[<<"elements", b + 1>>] = Parsed(rest, j + 2)
    <3>1. ElemsRead(text, k1, j)
      BY <2>5 DEF AllRead
    <3>2. whitespace(text, b + 1) = k1 - 1 /\ At(text, k1 - 1) = Comma
      BY <2>4, <2>5, <2>7, TextAt
    <3>3. rest \in Grammar(text)[<<"elements", k1, j>>] /\ Comma \in {"[", Comma}
      OBVIOUS
    <3> HIDE DEF k1
    <3>4. Array(text, Parser(text), b + 1, Comma) = Parsed(rest, j + 2)
      BY <1>1, <2>7, <3>1, <3>2, <3>3, ElemsReadAt
    <3> QED  BY <2>7, <3>4, ParsersAt
  <2>9. Array(text, Parser(text), p, d) = Parsed(<<v>> \o rest, j + 2)
    BY <1>1, <1>2, <2>7, <2>8, ArrayStep
  <2> QED  BY <2>3, <2>9
<1> QED  BY <1>3, <1>a, <1>b

\* A key with space around it, before a colon.
LEMMA KeyComplete ==
  ASSUME NEW text \in Texts, NEW m \in Int, AllRead(text, m),
         NEW i \in Positions(text), NEW j \in 0 .. Len(text), j - i <= m,
         j + 1 <= Len(text), text[j + 1] # "ws",
         NEW k \in Keys(text, Grammar(text), i, j)
  PROVE  \E b \in i .. j :
           /\ escaped_string(text, Parser(text), whitespace(text, i)) = Parsed(k, b + 1)
           /\ b + 1 \in Positions(text) /\ whitespace(text, b + 1) = j + 1
           /\ At(text, whitespace(text, i)) = Quote
<1> DEFINE q == whitespace(text, i)
           g == Grammar(text)
           F == Parser(text)
<1>0. /\ Len(text) \in Nat /\ i \in 1 .. Len(text) + 1 /\ q \in i .. Len(text) + 1
      /\ q \in Positions(text) /\ Positions(text) = 1 .. Len(text) + 1
  BY PositionsOf, BlankUpTo
<1>1. PICK a \in Heads(text, i, j), b \in Lasts(text, i, j) : k \in Strings(text, g, a, b)
  <2>1. k \in Keys(text, g, i, j)
    OBVIOUS
  <2> HIDE DEF g
  <2> QED  BY <2>1, ValuesAre
<1>2. a = q /\ a <= j
  BY HeadsAre
<1>3. b \in i .. j /\ text[b] # "ws" /\ Blank(text, b + 1, j)
  BY LastsAre
<1>4. /\ q < b /\ text[q] = Quote /\ text[b] = Quote
      /\ k \in g[<<"characters", q + 1, b - 1>>]
  <2>1. Encloses(text, q, b, Quote, Quote) /\ k \in g[<<"characters", q + 1, b - 1>>]
    BY <1>1, <1>2, ListsAre
  <2> HIDE DEF q, g
  <2> QED  BY <2>1 DEF Encloses
<1> HIDE DEF q
<1>5. /\ q \in 1 .. Len(text) /\ q + 1 \in Positions(text) /\ b - 1 \in 0 .. Len(text)
      /\ b - 1 - (q + 1) < m /\ b - 1 + 1 = b /\ b - 1 + 2 = b + 1
      /\ b + 1 \in Positions(text) /\ j + 1 \in b + 1 .. Len(text) /\ j + 1 - 1 = j
  BY <1>0, <1>2, <1>3, <1>4
<1>6. F[<<"characters", q + 1>>] = Parsed(k, b + 1)
  <2>1. CharsRead(text, q + 1, b - 1)
    BY <1>5 DEF AllRead
  <2> QED  BY <1>3, <1>4, <1>5, <2>1 DEF CharsRead
<1>7. At(text, q) = Quote
  BY <1>4, <1>5, TextAt
<1>8. escaped_string(text, F, q) = F[<<"characters", q + 1>>]
  <2> HIDE DEF F
  <2> QED  BY <1>0, <1>7, StringCases
<1>9. whitespace(text, b + 1) = j + 1
  <2>1. Blank(text, b + 1, j + 1 - 1)
    BY <1>3, <1>5
  <2> QED  BY <1>5, <2>1, SpaceTo
<1> QED  BY <1>3, <1>5, <1>6, <1>7, <1>8, <1>9 DEF q

\* One member and what follows it.
LEMMA ObjectStep ==
  ASSUME NEW text \in Texts, NEW p \in Positions(text), NEW d \in {Opening, Comma},
         NEW k, NEW v, NEW l, NEW n, NEW rest, NEW last,
         whitespace(text, p) <= Len(text), At(text, whitespace(text, p)) = d,
         At(text, NextAt(text, p)) = Quote,
         escaped_string(text, Parser(text), NextAt(text, p)) = Parsed(k, l),
         At(text, whitespace(text, l)) = ":",
         Parser(text)[<<"value", whitespace(text, l) + 1>>] = Parsed(v, n),
         Parser(text)[<<"members", n>>] = Parsed(rest, last)
  PROVE  Object(text, Parser(text), p, d) = Parsed(<<[key |-> k, value |-> v]>> \o rest, last)
<1> DEFINE F == Parser(text)
           key == KeyAt(text, F, p)
           colon == ColonAt(text, F, p)
           val == MemberValue(text, F, p)
           member == [key |-> k, value |-> v]
<1>1. key = Parsed(k, l)
  BY DEF KeyAt
<1>2. key.exc = "none" /\ key.value = k /\ key.at = l
  <2> HIDE DEF key
  <2> QED  BY <1>1, ParsedOf
<1>3. colon = whitespace(text, l)
  BY <1>2 DEF ColonAt
<1>4. val = Parsed(v, n)
  BY <1>3 DEF MemberValue
<1>5. val.exc = "none" /\ val.value = v /\ val.at = n
  <2> HIDE DEF val
  <2> QED  BY <1>4, ParsedOf
<1>6. ~EmptyAt(text, p, d, Opening, Closing)
  <2>1. Quote # Closing
    BY Zenon DEF Quote, Closing
  <2> QED  BY <2>1 DEF EmptyAt
<1>7. IsDelimiter(d, Closing) /\ d # Closing
  BY Names DEF IsDelimiter
<1>8. ~(whitespace(text, p) = Len(text) + 1)
  BY PositionsOf
<1>9. F[<<"members", n>>] = Parsed(rest, last)
  OBVIOUS
<1>10. Object(text, F, p, d) = Joined([key |-> key.value, value |-> val.value], F[<<"members", val.at>>])
  <2> HIDE DEF F
  <2> QED  BY <1>2, <1>3, <1>5, <1>6, <1>7, <1>8, ObjectCases
<1>11. [key |-> key.value, value |-> val.value] = member
  <2> HIDE DEF key, val
  <2> QED  BY <1>2, <1>5
<1> HIDE DEF F, key, val, colon, member
<1>12. Object(text, F, p, d) = Parsed(<<member>> \o rest, last)
  BY <1>5, <1>9, <1>10, <1>11, JoinedParsed
<1> QED  BY <1>12 DEF F, member

\* A member, before what follows it.
LEMMA PairComplete ==
  ASSUME NEW text \in Texts, NEW m \in Int, AllRead(text, m),
         NEW i \in Positions(text), NEW j \in 0 .. Len(text), j - i <= m,
         j + 1 <= Len(text), text[j + 1] \notin {"d", "ws"},
         NEW pair \in Pairs(text, Grammar(text), i, j),
         NEW p \in Positions(text), NEW d \in {Opening, Comma},
         whitespace(text, p) <= Len(text), At(text, whitespace(text, p)) = d,
         NextAt(text, p) = whitespace(text, i)
  PROVE  \E n \in Positions(text) :
           /\ whitespace(text, n) = j + 1
           /\ \A rest, last : Parser(text)[<<"members", n>>] = Parsed(rest, last) =>
                Object(text, Parser(text), p, d) = Parsed(Before(pair, rest), last)
<1> DEFINE g == Grammar(text)
           L == Len(text)
<1>0. L \in Nat /\ i \in 1 .. L + 1 /\ Positions(text) = 1 .. L + 1
  BY PositionsOf
<1>1. PICK c \in Colons(text, i, j) :
        \E k \in Keys(text, g, i, c - 1), v \in Values(text, g, c + 1, j) : pair = [key |-> k, value |-> v]
  <2>1. pair \in Pairs(text, g, i, j)
    OBVIOUS
  <2> HIDE DEF g
  <2> QED  BY <2>1, PairsAre
<1>2. PICK k \in Keys(text, g, i, c - 1), v \in Values(text, g, c + 1, j) : pair = [key |-> k, value |-> v]
  BY <1>1
<1>3. c \in i .. j /\ text[c] = ":"
  BY CommasAre
<1>4. /\ c - 1 \in 0 .. L /\ c - 1 - i <= m /\ c - 1 + 1 = c /\ c - 1 + 1 <= L /\ text[c - 1 + 1] # "ws"
      /\ c \in 1 .. L /\ c + 1 \in Positions(text) /\ j - (c + 1) <= m
  BY <1>0, <1>3
<1>5. PICK b0 \in i .. c - 1 :
        /\ escaped_string(text, Parser(text), whitespace(text, i)) = Parsed(k, b0 + 1)
        /\ b0 + 1 \in Positions(text) /\ whitespace(text, b0 + 1) = c - 1 + 1
        /\ At(text, whitespace(text, i)) = Quote
  BY <1>4, KeyComplete
<1>6. PICK b \in whitespace(text, c + 1) .. j :
        /\ Parser(text)[<<"value", c + 1>>] = Parsed(v, b + 1)
        /\ b + 1 \in Positions(text) /\ whitespace(text, b + 1) = j + 1
  BY <1>4, ValueComplete
<1>7. At(text, whitespace(text, b0 + 1)) = ":" /\ whitespace(text, b0 + 1) + 1 = c + 1
  BY <1>3, <1>4, <1>5, TextAt
<1>8. ASSUME NEW rest, NEW last, Parser(text)[<<"members", b + 1>>] = Parsed(rest, last)
      PROVE  Object(text, Parser(text), p, d) = Parsed(Before(pair, rest), last)
  <2>1. Parser(text)[<<"value", whitespace(text, b0 + 1) + 1>>] = Parsed(v, b + 1)
    BY <1>6, <1>7
  <2>2. /\ At(text, NextAt(text, p)) = Quote
        /\ escaped_string(text, Parser(text), NextAt(text, p)) = Parsed(k, b0 + 1)
    BY <1>5
  <2> DEFINE l == b0 + 1
             n == b + 1
  <2>3. /\ At(text, whitespace(text, l)) = ":"
        /\ Parser(text)[<<"value", whitespace(text, l) + 1>>] = Parsed(v, n)
        /\ escaped_string(text, Parser(text), NextAt(text, p)) = Parsed(k, l)
        /\ Parser(text)[<<"members", n>>] = Parsed(rest, last)
    BY <1>7, <1>8, <2>1, <2>2
  <2> HIDE DEF l, n
  <2>4. Object(text, Parser(text), p, d) = Parsed(<<[key |-> k, value |-> v]>> \o rest, last)
    BY <2>2, <2>3, ObjectStep
  <2> QED  BY <1>2, <2>4 DEF Before
<1> QED  BY <1>6, <1>8

LEMMA MembsReadAt ==
  ASSUME NEW text, NEW i, NEW j, MembsRead(text, i, j), j + 1 <= Len(text), text[j + 1] = Closing,
         NEW p \in Positions(text), NEW d \in {Opening, Comma},
         whitespace(text, p) = i - 1, At(text, i - 1) = d,
         NEW e \in Grammar(text)[<<"members", i, j>>]
  PROVE  Object(text, Parser(text), p, d) = Parsed(e, j + 2)
BY DEF MembsRead

\* Lists of members, by their size.
LEMMA MembersComplete ==
  ASSUME NEW text \in Texts, NEW i \in Positions(text), NEW j \in 0 .. Len(text), AllRead(text, j - i)
  PROVE  MembsRead(text, i, j)
<1> DEFINE L == Len(text)
           g == Grammar(text)
<1>0. L \in Nat /\ i \in 1 .. L + 1 /\ Positions(text) = 1 .. L + 1
  BY PositionsOf
<1>1. SUFFICES ASSUME j + 1 <= L, text[j + 1] = Closing,
                      NEW p \in Positions(text), NEW d \in {Opening, Comma},
                      whitespace(text, p) = i - 1, At(text, i - 1) = d,
                      NEW e \in Grammar(text)[<<"members", i, j>>]
               PROVE  Object(text, Parser(text), p, d) = Parsed(e, j + 2)
  BY DEF MembsRead
<1>n. Opening # End /\ Comma # End /\ Closing \notin {"d", "ws"} /\ Comma \notin {"d", "ws"}
  <2>1. Comma \notin {"d", "ws"}
    BY Zenon DEF Comma
  <2>2. Opening # End
    BY Zenon DEF Opening, End
  <2> QED  BY <2>1, <2>2, Names
<1>2. /\ whitespace(text, p) <= L /\ At(text, whitespace(text, p)) = d
      /\ NextAt(text, p) = whitespace(text, i)
  <2>1. i - 1 <= L /\ i - 1 + 1 = i
    <3>1. d # End
      BY <1>n
    <3>2. whitespace(text, p) \in Positions(text)
      BY BlankUpTo
    <3>3. i - 1 \in 1 .. L
      BY <1>1, <3>1, <3>2, TextAt
    <3> QED  BY <1>0, <3>3
  <2> QED  BY <1>1, <2>1, ListStarts
<1>3. \/ \E m \in Pairs(text, g, i, j) : e = <<m>>
      \/ \E k \in Commas(text, i, j) :
           e \in Prefixed(Pairs(text, g, i, k - 1), g[<<"members", k + 1, j>>])
  BY ElementsIn
<1>a. CASE \E m \in Pairs(text, g, i, j) : e = <<m>>
  <2>1. PICK m \in Pairs(text, g, i, j) : e = <<m>>
    BY <1>a
  <2>2. j - i \in Int /\ j - i <= j - i /\ text[j + 1] \notin {"d", "ws"} /\ j + 1 \in 1 .. L
    BY <1>0, <1>1, <1>n
  <2>3. PICK n \in Positions(text) :
          /\ whitespace(text, n) = j + 1
          /\ \A rest, last : Parser(text)[<<"members", n>>] = Parsed(rest, last) =>
               Object(text, Parser(text), p, d) = Parsed(Before(m, rest), last)
    BY <1>1, <1>2, <2>2, PairComplete
  <2>4. Parser(text)[<<"members", n>>] = Parsed(<< >>, j + 2)
    <3>1. At(text, j + 1) = Closing /\ j + 1 + 1 = j + 2
      BY <1>1, <2>2, TextAt
    <3> QED  BY <1>1, <2>3, <3>1, EndOfList
  <2>5. Object(text, Parser(text), p, d) = Parsed(Before(m, << >>), j + 2)
    BY <2>3, <2>4
  <2>6. Before(m, << >>) = <<m>>
    BY DEF Before
  <2> QED  BY <2>1, <2>5, <2>6
<1>b. CASE \E k \in Commas(text, i, j) :
             e \in Prefixed(Pairs(text, g, i, k - 1), g[<<"members", k + 1, j>>])
  <2>1. PICK k \in Commas(text, i, j) :
             e \in Prefixed(Pairs(text, g, i, k - 1), g[<<"members", k + 1, j>>])
    BY <1>b
  <2>2. PICK m \in Pairs(text, g, i, k - 1), r \in g[<<"members", k + 1, j>>] : e = Before(m, r)
    <3> HIDE DEF g
    <3> QED  BY <2>1, PrefixedIn
  <2>4. k \in i .. j /\ text[k] = Comma
    BY CommasAre
  <2>5. /\ j - i \in Int /\ k - 1 \in 0 .. L /\ k - 1 - i <= j - i /\ k - 1 + 1 = k /\ k <= L /\ k \in 1 .. L
        /\ k + 1 \in Positions(text) /\ j - (k + 1) < j - i /\ k + 1 - 1 = k
    BY <1>0, <1>1, <2>4
  <2>6. text[k - 1 + 1] \notin {"d", "ws"} /\ k - 1 + 1 <= L
    BY <1>n, <2>4, <2>5
  <2> DEFINE k0 == k - 1
  <2>7. PICK n \in Positions(text) :
          /\ whitespace(text, n) = k0 + 1
          /\ \A rest, last : Parser(text)[<<"members", n>>] = Parsed(rest, last) =>
               Object(text, Parser(text), p, d) = Parsed(Before(m, rest), last)
    <3> DEFINE size == j - i
    <3>1. /\ k0 \in 0 .. L /\ k0 - i <= size /\ k0 + 1 <= L /\ text[k0 + 1] \notin {"d", "ws"}
          /\ size \in Int /\ m \in Pairs(text, g, i, k0) /\ AllRead(text, size)
      BY <2>5, <2>6
    <3> HIDE DEF k0, size
    <3> QED  BY <1>1, <1>2, <3>1, PairComplete
  <2> DEFINE k1 == k + 1
  <2>8. Parser(text)[<<"members", n>>] = Parsed(r, j + 2)
    <3>1. MembsRead(text, k1, j)
      BY <2>5 DEF AllRead
    <3>2. whitespace(text, n) = k1 - 1 /\ At(text, k1 - 1) = Comma
      BY <2>4, <2>5, <2>7, TextAt
    <3>3. r \in Grammar(text)[<<"members", k1, j>>] /\ Comma \in {Opening, Comma}
      OBVIOUS
    <3> HIDE DEF k1
    <3>4. Object(text, Parser(text), n, Comma) = Parsed(r, j + 2)
      BY <1>1, <2>7, <3>1, <3>2, <3>3, MembsReadAt
    <3> QED  BY <2>7, <3>4, ParsersAt
  <2> QED  BY <2>2, <2>7, <2>8
<1> QED  BY <1>3, <1>a, <1>b

\* Whatever the grammar has, between what encloses it, is read.
LEMMA ReadsCompletely ==
  ASSUME NEW text \in Texts
  PROVE  \A m \in -1 - Len(text) .. Len(text) + 1 : AllRead(text, m)
<1> DEFINE L == Len(text)
           last == L + L + 2
           Good == {n \in 0 .. last : AllRead(text, n - L - 1)}
<1>0. L \in Nat /\ last \in Nat /\ Positions(text) = 1 .. L + 1
  BY PositionsOf
<1>1. 0 \in Good
  <2>1. \A i \in Positions(text), j \in 0 .. L : ~(j - i < 0 - L - 1)
    BY <1>0
  <2> QED  BY <1>0, <2>1 DEF AllRead
<1>2. ASSUME NEW n \in 0 .. last - 1, n \in Good
      PROVE  n + 1 \in Good
  <2>1. AllRead(text, n - L - 1) /\ n + 1 \in 0 .. last
    BY <1>0, <1>2
  <2>2. ASSUME NEW i \in Positions(text), NEW j \in 0 .. L, j - i < n + 1 - L - 1
        PROVE  CharsRead(text, i, j) /\ ElemsRead(text, i, j) /\ MembsRead(text, i, j)
    <3>1. \A k \in Positions(text), l \in 0 .. L : l - k < j - i => l - k < n - L - 1
      BY <1>0, <2>2
    <3>2. AllRead(text, j - i)
      BY <2>1, <3>1 DEF AllRead
    <3> QED  BY <3>2, CharactersComplete, ElementsComplete, MembersComplete
  <2> QED  BY <2>1, <2>2 DEF AllRead
<1>3. \A n \in 0 .. last : n \in Good
  <2> HIDE DEF Good, last
  <2> QED  BY <1>0, <1>1, <1>2, FromTheStart
<1> SUFFICES ASSUME NEW m \in -1 - L .. L + 1  PROVE AllRead(text, m)
  OBVIOUS
<1>4. m + L + 1 \in 0 .. last /\ m + L + 1 - L - 1 = m
  BY <1>0
<1> QED  BY <1>3, <1>4

\* The parser accepts just the texts that begin with a value of the grammar, or are blank; and
\* what it makes of them is what they denote, and all that they denote.
THEOREM NodeReadAsDenoted ==
  ASSUME NEW text \in Texts
  PROVE  ReadAsDenoted(text)
<1> DEFINE L == Len(text)
           g == Grammar(text)
           F == Parser(text)
           node == F[<<"value", 1>>]
           q == whitespace(text, 1)
<1>0. L \in Nat /\ Positions(text) = 1 .. L + 1 /\ 1 \in Positions(text) /\ q \in 1 .. L + 1
  BY PositionsOf, BlankUpTo
<1>1. Node(text) = node
  BY DEF Node
\* What is denoted by some part from the start is read from there.
<1>2. ASSUME NEW n \in 0 .. L, NEW v \in Denotes(text, n)
      PROVE  \E b \in q .. n : Blank(text, b + 1, n) /\ ReadTo(text, node, v, b)
  <2>1. v \in Values(text, g, 1, n)
    BY DEF Denotes
  <2>2. n - 1 \in -1 - L .. L + 1 /\ n - 1 \in Int /\ n - 1 <= n - 1
    BY <1>0
  <2>3. AllRead(text, n - 1)
    BY <2>2, ReadsCompletely
  <2> QED  BY <1>0, <2>1, <2>2, <2>3, ValuesComplete
<1>3. CASE node.exc = "none" /\ Blank(text, 1, L)
  <2>1. q = L + 1
    <3>1. q \in 1 .. L => text[q] = "ws" /\ At(text, q) # "ws"
      BY <1>0, <1>3, BlankUpTo DEF Blank
    <3>2. ~(q \in 1 .. L)
      BY <3>1, TextAt
    <3> HIDE DEF q
    <3> QED  BY <1>0, <3>2
  <2>2. node = Value(text, F, 1)
    BY <1>0, ParsersAt
  <2>3. Value(text, F, 1) = Parsed(NullValue, q)
    <3>1. ~(q <= L)
      BY <1>0, <2>1
    <3> HIDE DEF F
    <3> QED  BY <1>0, <2>1, <3>1, ValueCases
  <2>4. node.value = NullValue
    <3> HIDE DEF node
    <3> QED  BY <2>2, <2>3, ParsedOf
  <2> HIDE DEF node
  <2> QED  BY <1>1, <1>3, <2>4 DEF ReadAsDenoted
<1>4. CASE node.exc = "none" /\ ~Blank(text, 1, L)
  <2>1. q <= L
    <3>1. q = L + 1 => Blank(text, 1, L)
      <4>1. Blank(text, 1, q - 1)
        BY <1>0, BlankText
      <4>2. q = L + 1 => q - 1 = L
        BY <1>0
      <4> HIDE DEF q
      <4> QED  BY <4>1, <4>2
    <3> HIDE DEF q
    <3> QED  BY <1>0, <1>4, <3>1
  <2>2. PICK b \in q .. L : /\ node.at = b + 1 /\ text[b] # "ws"
                            /\ node.value \in Sole(text, g, q, b)
    <3>1. IsValue(text, 1, node)
      BY <1>0, ReadsSoundly DEF IsRead
    <3> HIDE DEF node
    <3> QED  BY <1>4, <2>1, <3>1 DEF IsValue
  <2>3. b \in 0 .. L /\ b \in q .. b /\ node.at - 1 = b
    <3> HIDE DEF node, q
    <3> QED  BY <1>0, <2>2
  <2>4. node.value \in Denotes(text, b)
    <3>1. Blank(text, b + 1, b)
      BY <2>3 DEF Blank
    <3> HIDE DEF node
    <3> QED  BY <1>0, <2>2, <2>3, <3>1, InValues DEF Denotes
  <2>5. ASSUME NEW v \in Denotes(text, b)
        PROVE  v = node.value
    <3>1. PICK c \in q .. b : Blank(text, c + 1, b) /\ ReadTo(text, node, v, c)
      BY <1>2, <2>3
    <3> HIDE DEF node, q
    <3>2. c = b
      <4>1. c # b => b \in c + 1 .. b
        BY <1>0, <2>3, <3>1
      <4> QED  BY <2>2, <3>1, <4>1 DEF Blank
    <3>3. ~(node.at > b + 1)
      BY <1>0, <2>2
    <3>4. node = Parsed(v, b + 1)
      BY <3>1, <3>2, <3>3 DEF ReadTo
    <3> QED  BY <3>4, ParsedOf
  <2> HIDE DEF node
  <2>6. Denotes(text, node.at - 1) = {node.value}
    BY <2>3, <2>4, <2>5
  <2> QED  BY <1>1, <1>4, <2>6 DEF ReadAsDenoted
<1>5. CASE node.exc # "none"
  <2>1. ASSUME NEW n \in 0 .. L  PROVE Denotes(text, n) = {}
    <3>1. \A v \in Denotes(text, n) : node.exc = "none"
      <4> HIDE DEF node, q
      <4> QED  BY <1>2 DEF ReadTo
    <3> HIDE DEF node
    <3> QED  BY <1>5, <3>1
  <2> HIDE DEF node
  <2> QED  BY <1>1, <1>5, <2>1 DEF ReadAsDenoted
<1> HIDE DEF node
<1> QED  BY <1>3, <1>4, <1>5
===============================================================================
