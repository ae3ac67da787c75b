------------------------------- MODULE Startup -------------------------------
(***************************************************************************)
(* How the program gets its configuration, and its items from it: the      *)
(* search of main, and Statorange::apply_config.  A configuration file may  *)
(* be read at any moment of its being written, so what is in it is any text *)
(* on the way to another one.                                               *)
(*                                                                         *)
(* The parser throws three kinds of things, a char const*, a std::string    *)
(* and a ParseException; main catches the first kind, init_item the second. *)
(***************************************************************************)
EXTENDS JsonGrammar

Brackets == {"}", "]"}   \* those that close something

CONSTANTS
  Documents,     \* texts that somebody writes into a configuration file
  Tokens,        \* characters that may be typed,
  Quotable,      \* ... and those of them that may be typed into a string
  MaxText,       \* bound: characters of a file that is written from nothing
  LaterFiles     \* texts the other two configuration files may have; << >>: no file

ASSUME StartupAssumption ==
  /\ MaxText \in Nat /\ Quotable \subseteq Tokens /\ {"ws", "d"} \cup Brackets \subseteq Tokens
  /\ << >> \in LaterFiles
  /\ Tokens \subseteq STRING \ {End} /\ LaterFiles \subseteq Texts /\ Documents \subseteq Texts

VARIABLES
  path,          \* the configuration file main looks at: 1, 2, 3, and 4 behind them
  text,          \* what is in it
  room,          \* bound: characters that may still be typed into it
  config,        \* config_json
  fate,          \* what has become of the process
  created        \* the items it has created

startupVars == <<path, text, room, config, fate, created>>

Fates == {"searching",
          "failed",       \* main returned 1
          "running",
          "terminated",   \* by an exception that nobody caught, or an assertion
          "undefined"}    \* something was read that is no longer, or never was, a string

------------------------------------------------------------------------------
(* Statorange::apply_config *)

ItemClasses == {"Date", "Space", "Load", "Battery", "Net", "I3", "PulseAudio", "Weather"}
Sections    == {"left", "center", "right"}

Named(class, s) == s = <<class>>

\* init_section: what is missing is no error, what is no list is one.
Section(s)      == object_at(config, <<s>>)
SectionFails(s) == exists(Section(s)) /\ ~IsArray(Section(s))
Entries(s)      == IF IsArray(Section(s)) THEN Section(s).vector ELSE << >>
JsonItems       == Entries("left") \o Entries("center") \o Entries("right")

\* The class init_item creates: none for a name it does not know, and for no name.
Class(json_item) == string(object_at(json_item, <<"item">>))
IsKnown(json_item) == \E class \in ItemClasses : Named(class, Class(json_item))
ClassOf(json_item) == CHOOSE class \in ItemClasses : Named(class, Class(json_item))

\* Without an item string the reference init_item compares with the names is to the
\* default argument of string(), which is gone by then: what is left there may be no
\* name still, or anything.
Nameless(json_item) == object_at(json_item, <<"item">>).type # "string"

\* What a constructor throws is a char const*; that of I3 asserts that i3 answers.
Constructs(json_item, i3_answers) ==
  CASE ClassOf(json_item) = "Load"  -> IsArray(object_at(json_item, <<"temperature_files">>))
    [] ClassOf(json_item) = "Space" -> IsArray(object_at(json_item, <<"mount_points">>))
    [] ClassOf(json_item) = "Net"   ->
         string(object_at(json_item, <<"type">>)) \in {<<"ethernet">>, <<"wireless">>}
    [] ClassOf(json_item) = "I3"    -> i3_answers
    [] OTHER -> TRUE

\* The items that are created, one after the other.
Items ==
  LET made[n \in 0 .. Len(JsonItems)] ==
        IF n = 0 THEN << >>
        ELSE IF IsKnown(JsonItems[n]) THEN Append(made[n - 1], ClassOf(JsonItems[n]))
        ELSE made[n - 1]
  IN  made[Len(JsonItems)]

------------------------------------------------------------------------------
(* Writing, and reading *)

\* The parser looks at the end of the text, so what follows makes a difference; a
\* string, and a word that is none, is written with fewer characters.
Undecided == Node(text).at > Len(text)
Typable   == IF Node(text).exc \in {"ParseException", "undefined"} THEN Quotable ELSE Tokens

Type(c) ==
  /\ fate = "searching" /\ path = 1 /\ room > 0 /\ Undecided
  /\ text' = Append(text, c) /\ room' = room - 1
  /\ UNCHANGED <<path, config, fate, created>>

\* One turn of main's loop.  load_file fails for a file that is empty.
LoadFile ==
  /\ fate = "searching" /\ path < 4
  /\ LET node == Node(text)
     IN  IF text = << >> \/ node.exc = "char const*" THEN UNCHANGED <<config, fate>>
         ELSE IF node.exc = "none" THEN config' = node.value /\ UNCHANGED fate
         ELSE /\ fate' = IF node.exc = "undefined" THEN "undefined" ELSE "terminated"
              /\ UNCHANGED config
  /\ path' = path + 1 /\ room' = 0
  /\ text' \in IF path < 3 THEN LaterFiles ELSE {<< >>}
  /\ UNCHANGED created

GiveUp ==
  /\ fate = "searching" /\ path = 4 /\ ~exists(config)
  /\ fate' = "failed"
  /\ UNCHANGED <<path, text, room, config, created>>

\* Statorange::run up to its loop.  The configuration is not looked at again.
Launch ==
  /\ fate = "searching" /\ path = 4 /\ exists(config)
  /\ \/ /\ \E i \in DOMAIN JsonItems : Nameless(JsonItems[i])
        /\ fate' = "undefined" /\ UNCHANGED <<config, created>>
     \/ \E i3_answers \in BOOLEAN :
          LET fails == \/ \E s \in Sections : SectionFails(s)
                       \/ \E i \in DOMAIN JsonItems :
                            IsKnown(JsonItems[i]) /\ ~Constructs(JsonItems[i], i3_answers)
          IN  IF fails THEN fate' = "terminated" /\ UNCHANGED <<config, created>>
              ELSE fate' = "running" /\ config' = NullValue /\ created' = Items
  /\ UNCHANGED <<path, text, room>>

\* A file that is written from nothing, or one of the documents, cut anywhere and
\* with one more character.
StartupInit ==
  /\ path = 1
  /\ \/ text = << >> /\ room = MaxText
     \/ \E d \in Documents : \E n \in 1 .. Len(d) : text = SubSeq(d, 1, n) /\ room = 1
  /\ config = NullValue /\ fate = "searching" /\ created = << >>

Search == (\E c \in Typable : Type(c)) \/ LoadFile \/ GiveUp

------------------------------------------------------------------------------
(* Properties: of every text that a configuration file may hold *)

\* The parser accepts just the texts that begin with a value, or are blank, and makes
\* of them what the grammar does (Node::parse and everything below it).
ReadsTheGrammar == ReadAsDenoted(text)

\* A file that is read while it is being written is never taken for another one: what
\* is accepted of a part of it is all there will be, unless it is a number or nothing
\* at all (Array and Object end with a bracket, and with an exception before it).
CutIsRefused ==
  \A n \in DOMAIN text :
    LET part == SubSeq(text, 1, n)
        node == Node(part)
    IN  node.exc = "none" /\ (\E i \in 1 .. n : text[i] # "ws") /\ node.value.type # "number" =>
          Node(text) = node

\* A configuration that main reports and passes over is one that stops too early: a
\* value and closing brackets would complete it.  No other mistake is passed over.
ReportedMeansCut ==
  LET opened == Cardinality({i \in DOMAIN text : text[i] \in {"{", "["}})
      endings == {value \o closing :
                    value \in {<< >>, <<"d">>},
                    closing \in UNION {[1 .. n -> Brackets] : n \in 1 .. opened}}
  IN  Node(text).exc = "char const*" =>
        \E ending \in endings :
          Node(text \o ending).exc = "none" /\ Node(text \o ending).at > Len(text \o ending)

\* Errors of an item's configuration are ignored (the comment in init_item).
ItemErrorsIgnored ==
  [][path = 4 /\ exists(config) /\ (\A s \in Sections : ~SectionFails(s))
       /\ (\A i \in DOMAIN JsonItems : ~Named("I3", Class(JsonItems[i])))
     => fate' # "terminated"]_startupVars
==============================================================================
