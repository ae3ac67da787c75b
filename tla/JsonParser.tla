------------------------------ MODULE JsonParser ------------------------------
(***************************************************************************)
(* The recursive descent of json_parser over a StringPointer, as a         *)
(* function of the position in a text, and the accessors of Node.          *)
(*                                                                         *)
(* A text is a sequence of characters, as far as the parser tells them     *)
(* apart.  The words true, false and null count as one, except behind a    *)
(* backslash, where their letters do; where a value is expected, "t", "f"  *)
(* and "n" begin a word that goes on in another way, or is cut off.         *)
(* Numbers are digits after a sign.  Behind the last character lies the     *)
(* terminating zero.                                                       *)
(***************************************************************************)
EXTENDS Integers, Sequences, FiniteSets

Quote == "\""
Slash == "\\"
End   == "zero"

Texts == Seq(STRING \ {End})

\* StringPointer::peek.  What is read behind the zero makes the outcome "undefined":
\* the rest of a \u, and of a word that is not there.
At(text, p) == IF p <= Len(text) THEN text[p] ELSE End

Positions(text) == 1 .. Len(text) + 1

\* Values: the subclasses of Value, with what they hold.
Plain(type, chars) == [type |-> type, chars |-> chars]   \* a string, a number, a word
ArrayOf(vector)    == [type |-> "array", vector |-> vector]
ObjectOf(map)      == [type |-> "object", map |-> map]
NullValue          == [type |-> "null"]

\* What a parser returns, with the next position, or throws, with the position of
\* the character that was not expected.
Parsed(value, p) == [exc |-> "none", at |-> p, value |-> value]
Throw(exc, p)    == [exc |-> exc, at |-> p, value |-> NullValue]

\* What was read is a part of something: its first part, or the contents of a value.
Joined(first, rest) ==
  IF rest.exc # "none" THEN rest ELSE Parsed(<<first>> \o rest.value, rest.at)
Made(value, contents) ==
  IF contents.exc # "none" THEN contents ELSE Parsed(value, contents.at)

------------------------------------------------------------------------------
(* StringPointer *)

\* The first position from p on that has another character than c.
Behind(text, p, c) ==
  CHOOSE q \in p .. Len(text) + 1 :
    At(text, q) # c /\ \A r \in p .. q - 1 : At(text, r) = c

whitespace(text, p) == Behind(text, p, "ws")

\* to_unicode of the number four characters spell in base 16, as far as they do: no
\* digit spells 0, which ends the string it is put in.
to_unicode(hex) == IF hex[1] = "d" THEN <<"codepoint">> ELSE << >>

Escapes == [n |-> "newline", t |-> "tab", r |-> "return"]

\* The loop of escaped_string.  Here and below, f is what is read from the positions
\* that lie ahead.
Characters(text, f, p) ==
  LET c == At(text, p)
      e == At(text, p + 1)
  IN  CASE c = Quote -> Parsed(<< >>, p + 1)
        [] c = End   -> Throw("ParseException", p)
        [] c = Slash /\ e \in DOMAIN Escapes ->
             Joined(Escapes[e], f[<<"characters", p + 2>>])
        [] c = Slash /\ e \in {Slash, Quote} -> Joined(e, f[<<"characters", p + 2>>])
        [] c = Slash /\ e = "u" /\ p + 5 > Len(text) -> Throw("undefined", Len(text) + 1)
        [] c = Slash /\ e = "u" /\ p + 5 <= Len(text) ->
             LET rest == f[<<"characters", p + 6>>]
             IN  IF rest.exc # "none" THEN rest
                 ELSE Parsed(to_unicode(SubSeq(text, p + 2, p + 5)) \o rest.value, rest.at)
        [] c = Slash /\ e \notin DOMAIN Escapes \cup {Slash, Quote, "u"} ->
             Throw("ParseException", p + 1)
        [] c \notin {Quote, End, Slash} -> Joined(c, f[<<"characters", p + 1>>])

escaped_string(text, f, p) ==
  IF At(text, p) = Quote THEN f[<<"characters", p + 1>>] ELSE Throw("ParseException", p)

\* number_str takes as much as strtold does.
number_str(text, p) ==
  LET first == IF At(text, p) = "-" THEN p + 1 ELSE p
      last == Behind(text, first, "d")
  IN  IF last = first THEN Throw("ParseException", first)
      ELSE Parsed(Plain("number", SubSeq(text, p, last - 1)), last)

------------------------------------------------------------------------------
(* Node::parse and the constructors of the values *)

\* What std::map::emplace makes of the members of an object, one after the other: of
\* two with one key the first stays.
Emplaced_Last(members) ==   \* mutant
  [k \in {members[i].key : i \in DOMAIN members} |->
     LET same == {i \in DOMAIN members : members[i].key = k}
     IN  members[CHOOSE i \in same : \A j \in same : j <= i].value]
Emplaced(members) ==
  [k \in {members[i].key : i \in DOMAIN members} |->
     LET same == {i \in DOMAIN members : members[i].key = k}
     IN  members[CHOOSE i \in same : \A j \in same : i <= j].value]

\* Neither a delimiter nor the closing bracket.
Unexpected_EndsQuietly(c, p) ==   \* mutant
  IF c = End THEN Parsed(<< >>, p) ELSE Throw("std::string", p)
Unexpected_AlwaysReports(c, p) == Throw("char const*", p)   \* mutant
Unexpected(c, p) == Throw(IF c = End THEN "char const*" ELSE "std::string", p)

\* Object::Object from the head of its loop, where delimiter is "{" as long as the map
\* is empty: the members from there on.
Object(text, f, p, delimiter) ==
  LET q == whitespace(text, p)
      c == At(text, q)
      next == whitespace(text, q + 1)
      key == escaped_string(text, f, next)              \* parse_kv_pair
      colon == whitespace(text, key.at)
      value == f[<<"value", colon + 1>>]
      empty == delimiter = "{" /\ At(text, next) = "}"
  IN  CASE c = delimiter /\ empty -> Parsed(<< >>, next + 1)
        [] c = delimiter /\ ~empty ->
             IF key.exc # "none" THEN key
             ELSE IF At(text, colon) # ":" THEN Throw("std::string", colon)
             ELSE IF value.exc # "none" THEN value
             ELSE Joined([key |-> key.value, value |-> value.value],
                         f[<<"members", value.at>>])
        [] c = "}" -> Parsed(<< >>, q + 1)
        [] c \notin {delimiter, "}"} -> Unexpected(c, q)

\* Array::Array, likewise.
Array(text, f, p, delimiter) ==
  LET q == whitespace(text, p)
      c == At(text, q)
      next == whitespace(text, q + 1)
      value == f[<<"value", next>>]
      empty == delimiter = "[" /\ At(text, next) = "]"
  IN  CASE c = delimiter /\ empty -> Parsed(<< >>, next + 1)
        [] c = delimiter /\ ~empty ->
             IF value.exc # "none" THEN value
             ELSE Joined(value.value, f[<<"elements", value.at>>])
        [] c = "]" -> Parsed(<< >>, q + 1)
        [] c \notin {delimiter, "]"} -> Unexpected(c, q)

Words == {"true", "false", "null"}

\* Bool and Null report as many characters as the word has that they expected, the
\* zero and those behind it included.
Misspelt(text, q, expected) ==
  IF Len(text) + 2 - q < expected /\ \A r \in q .. Len(text) : text[r] \notin Words
  THEN Throw("undefined", Len(text) + 1) ELSE Throw("std::string", q)

\* Node::parse.
Value(text, f, p) ==
  LET q == whitespace(text, p)
      c == At(text, q)
      object == Object(text, f, q, "{")
      array  == Array(text, f, q, "[")
      chars  == escaped_string(text, f, q)
  IN  CASE c = End   -> Parsed(NullValue, q)
        [] c = "{"   -> Made(ObjectOf(Emplaced(object.value)), object)
        [] c = "["   -> Made(ArrayOf(array.value), array)
        [] c = Quote -> Made(Plain("string", chars.value), chars)
        [] c \in {"true", "false"} -> Parsed(Plain("bool", <<c>>), q + 1)
        [] c = "null" -> Parsed(NullValue, q + 1)
        [] c \in {"d", "-"} -> number_str(text, q)
        [] c \in {"t", "f"} -> Misspelt(text, q, 5)
        [] c = "n" -> Misspelt(text, q, 4)
        [] OTHER -> Throw("std::string", q)

Kinds == {"value", "members", "elements", "characters"}

\* What the parser is at work on, and where.
Read(text, f, work) ==
  CASE work[1] = "value"      -> Value(text, f, work[2])
    [] work[1] = "members"    -> Object(text, f, work[2], ",")
    [] work[1] = "elements"   -> Array(text, f, work[2], ",")
    [] work[1] = "characters" -> Characters(text, f, work[2])

Parser(text) ==
  LET f[work \in Kinds \X Positions(text)] == Read(text, f, work) IN f

Node(text) == Parser(text)[<<"value", 1>>]

------------------------------------------------------------------------------
(* Accessors *)

exists(node) == node.type # "null"

\* A key of anything but an object is missing, as is a key an object has not.
object_at(node, key) ==
  IF node.type = "object" /\ key \in DOMAIN node.map THEN node.map[key] ELSE NullValue

\* What array() iterates over; it throws a char const* when there is none.
IsArray(node) == node.type = "array"

string(node) == IF node.type = "string" THEN node.chars ELSE << >>
==============================================================================
