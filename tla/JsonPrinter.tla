------------------------------ MODULE JsonPrinter ------------------------------
(* to_stream of the values, and whether the parser reads it back. *)
EXTENDS JsonParser, SequencesExt

\* The first one has no comma before it.
Separated_Bare(s) == FlattenSeq(s)   \* mutant
Separated(s) ==
  FlattenSeq([i \in DOMAIN s |-> IF i = 1 THEN s[i] ELSE <<",", "ws">> \o s[i]])

\* The order of a map's keys is left out.
RECURSIVE to_stream(_)
to_stream(node) ==
  LET Quoted(o) == <<Quote>> \o o \o <<Quote>>
  IN  CASE node.type = "object" ->
             LET keys == SetToSeq(DOMAIN node.map)
             IN  <<"{", "ws">> \o Separated([i \in DOMAIN keys |->
                   Quoted(keys[i]) \o <<":", "ws">> \o to_stream(node.map[keys[i]])])
                 \o <<"ws", "}">>
        [] node.type = "array" ->
             <<"[", "ws">> \o Separated([i \in DOMAIN node.vector |-> to_stream(node.vector[i])])
             \o <<"ws", "]">>
        [] node.type = "string" -> Quoted(node.chars)
        [] node.type = "null" -> <<"null">>
        [] OTHER -> node.chars

\* What is printed is read as what it was, as long as no string in it holds a
\* character that has to be escaped (to_stream escapes nothing).
ReadsBack(text) ==
  LET node == Node(text)
      printed == to_stream(node.value)
  IN  node.exc = "none" /\ (\A i \in DOMAIN text : text[i] # Slash) =>
        Node(printed).exc = "none" /\ Node(printed).value = node.value
===============================================================================
