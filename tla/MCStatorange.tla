----------------------------- MODULE MCStatorange -----------------------------
(* A small instance of Statorange for TLC. *)
EXTENDS Statorange, JsonPrinter

Str(c)       == Plain("string", <<c>>)
List(values) == ArrayOf(values)
Member(k, v) == [key |-> <<k>>, value |-> v]
Record(ms)   == ObjectOf(Emplaced(ms))
ItemOf(name) == Record(<<Member("item", Str(name))>>)

\* Every item, the large ones alone, and three in one line with one of a class that
\* is gone; the same without what their constructors ask for; sections that are no
\* lists, or there twice; and no configuration at all.
LoadItem  == Record(<<Member("item", Str("Load")), Member("temperature_files", List(<<Str("f")>>))>>)
SpaceItem == Record(<<Member("item", Str("Space")), Member("mount_points", List(<< >>))>>)
NetItem   == Record(<<Member("item", Str("Net")), Member("type", Str("ethernet"))>>)
Written ==
  {Record(<<Member("left", List(<<item>>))>>) :
     item \in {ItemOf("Battery"), LoadItem, SpaceItem, NetItem,
               ItemOf("Load"), ItemOf("Net"), Plain("number", <<"d">>)}}
  \cup {Record(<<Member("right", List(<<ItemOf("Weather"), ItemOf("Date")>>)),
                 Member("font", Str("f"))>>),
        Record(<<Member("right", List(<<ItemOf("Date"), ItemOf("Mail")>>)),
                 Member("left", List(<<ItemOf("I3")>>)),
                 Member("center", List(<<ItemOf("PulseAudio")>>))>>),
        Record(<<Member("left", Plain("bool", <<"true">>))>>),
        List(<<Plain("number", <<"-", "d">>), List(<<NullValue>>)>>)}
Twice == <<"{", Quote, "left", Quote, ":", "[", "]", ",", Quote, "left", Quote, ":", "null", "}">>
SomeDocuments == {to_stream(d) : d \in Written} \cup {Twice}

\* No file, an empty list, a blank one, and one that is wrong in each way.
SomeFiles == {<< >>, <<"{", "}">>, <<"ws">>, <<"[">>, <<"}">>, <<Quote>>}

SomeTokens == {"{", "}", "[", "]", ",", ":", "ws", "d", "-", "true", "null", "n", "r", "t", "u",
               Quote, Slash}
InStrings  == {"n", "r", "u", "d", "]", Quote, Slash}

SomeLayouts ==
  {<< >>, <<"Battery">>, <<"Load">>, <<"Space">>, <<"Net">>, <<"Weather", "Date">>,
   <<"I3">>, <<"I3", "PulseAudio">>, <<"I3", "PulseAudio", "Date">>}

\* Sunrises and sunsets of a winter and a summer, and at noon and midnight.
SomeSunTimes ==
  {[hour |-> 8, minute |-> 5, pm |-> FALSE], [hour |-> 4, minute |-> 40, pm |-> TRUE],
   [hour |-> 3, minute |-> 0, pm |-> FALSE], [hour |-> 11, minute |-> 59, pm |-> TRUE],
   [hour |-> 12, minute |-> 10, pm |-> FALSE]}

SomeWorkspaces ==
  {ws \in Workspace :
     /\ ws.focused_window # "untitled" /\ ws.last_urgent_window \in {"plain", Null}
     /\ ws.urgent_is_focused = (ws.focused_window = ws.last_urgent_window)}
  \cup {[focused |-> f, urgent |-> TRUE, urgent_is_focused |-> FALSE,
         focused_window |-> "plain", last_urgent_window |-> "plain"] : f \in BOOLEAN}
  \cup {[focused |-> TRUE, urgent |-> FALSE, urgent_is_focused |-> FALSE,
         focused_window |-> "untitled", last_urgent_window |-> Null]}

\* No workspace, any one, and any beside a quiet one.
Quiet == [focused |-> FALSE, urgent |-> FALSE, urgent_is_focused |-> FALSE,
          focused_window |-> "icon", last_urgent_window |-> Null]
SomeBars == {<< >>} \cup {<<ws>> : ws \in SomeWorkspaces}
            \cup {<<ws, Quiet>> : ws \in SomeWorkspaces}

\* What to_stream prints of a value, Node makes the same value of.
PrintedReadsBack == ReadsBack(text)
==============================================================================
