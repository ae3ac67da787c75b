------------------------------ MODULE Outputs ------------------------------
(***************************************************************************)
(* The outputs of the I3 item: a Multimap that finds each by its name and  *)
(* by an index that display_add invents when the output is added, halfway  *)
(* between the indices of its neighbours.  print_raw counts displays along *)
(* the indices, so their order is the order of the monitors.               *)
(***************************************************************************)
EXTENDS Integers, Sequences, FiniteSetsExt, SequencesExt

CONSTANT Arrivals   \* the lists in which GET_TREE may name the outputs

Named == [name : STRING, x : Int, y : Int]

ASSUME ArrivalsAssumption == Arrivals \subseteq Seq(Named)

MaxIndex == 255  \* rel_index is an uint8_t

(* Multimap: its values, and two indices into them.  The numbers next_free hands
   out are the positions of the values. *)
NoOutputs == [values |-> <<>>, index1 |-> <<>>, index2 |-> <<>>]

\* std::map's emplace and try_emplace keep what is there under a key already.
Emplace(map, key, value) ==
  [k \in DOMAIN map \cup {key} |-> IF k \in DOMAIN map THEN map[k] ELSE value]

TryEmplace(map, k1, k2, value) ==
  LET free == Len(map.values) + 1
  IN  [values |-> Append(map.values, value),
       index1 |-> Emplace(map.index1, k1, free),
       index2 |-> Emplace(map.index2, k2, free)]

FirstBeforeSecond(first, second) ==
  first.x < second.x \/ (first.x = second.x /\ first.y < second.y)

\* The outputs one comes to through the first index.
Listed(map) == {map.values[map.index1[i]] : i \in DOMAIN map.index1}

UpperIndex(map, place) ==
  Min({MaxIndex} \cup {o.rel_index : o \in {l \in Listed(map) : FirstBeforeSecond(place, l)}})

LowerIndex(map, place) ==
  Max({0} \cup {o.rel_index : o \in {l \in Listed(map) : ~FirstBeforeSecond(place, l)}})

\* DisplayAdd that looks at the x coordinate only (mutant).
DisplayAdd_Column(map, output) ==
  LET column == [x |-> output.x, y |-> 0]
      index  == (UpperIndex(map, column) + LowerIndex(map, column)) \div 2
  IN  TryEmplace(map, index, output.name,
                 [rel_index |-> index, name |-> output.name, x |-> output.x, y |-> output.y])

DisplayAdd(map, output) ==
  LET index == (UpperIndex(map, output) + LowerIndex(map, output)) \div 2
  IN  TryEmplace(map, index, output.name,
                 [rel_index |-> index, name |-> output.name, x |-> output.x, y |-> output.y])

\* query_tree skips an output it knows by name.
MeetOutput(map, output) ==
  IF output.name \in DOMAIN map.index2 THEN map ELSE DisplayAdd(map, output)

\* What query_tree makes of a list of outputs.
AddAll(arrival) == FoldLeft(MeetOutput, NoOutputs, arrival)

\* The place of an index among the indices.
Position(map, i) == 1 + Cardinality({j \in DOMAIN map.index1 : j < i})

\* The outputs in the order of iterableFromIndex1.
Displays(map) ==
  [k \in 1 .. Cardinality(DOMAIN map.index1) |->
     map.values[map.index1[CHOOSE i \in DOMAIN map.index1 : Position(map, i) = k]]]

Fitting == 8  \* outputs that fit wherever they lie: MaxIndex can be halved so often

\* Whatever the order in which GET_TREE lists the outputs, none is displayed to the
\* left of one that lies before it, and up to eight are on display once each.
LeftToRight ==
  \A arrival \in Arrivals :
    LET displays == Displays(AddAll(arrival))
    IN  /\ \A j, k \in DOMAIN displays :
             j < k => ~FirstBeforeSecond(displays[k], displays[j])
        /\ Len(arrival) <= Fitting =>
             /\ {d.name : d \in Range(displays)} = {o.name : o \in Range(arrival)}
             /\ \A j, k \in DOMAIN displays : displays[j].name = displays[k].name => j = k
=============================================================================
