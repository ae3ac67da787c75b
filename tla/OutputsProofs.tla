--------------------------- MODULE OutputsProofs ---------------------------
(***************************************************************************)
(* That display_add never puts an output on the wrong side of another,     *)
(* however many there are and wherever they lie, that it makes room for    *)
(* one as long as the indices of its neighbours are two apart, and that    *)
(* the list query_tree reads is on display in order, whole up to eight.    *)
(***************************************************************************)
EXTENDS Outputs, FiniteSetTheorems, WellFoundedInduction, TLAPS

OutputSet == [rel_index : 0 .. MaxIndex, name : STRING, x : Int, y : Int]

\* A map display_add may leave: its first index leads to outputs that carry the
\* index they are found under, and their order is that of their places.
Arranged(map) ==
  /\ map = [values |-> map.values, index1 |-> map.index1, index2 |-> map.index2]
  /\ map.values \in Seq(OutputSet)
  /\ map.index1 \in [DOMAIN map.index1 -> 1 .. Len(map.values)]
  /\ DOMAIN map.index1 \subseteq 0 .. MaxIndex
  /\ \A i \in DOMAIN map.index1 : map.values[map.index1[i]].rel_index = i
  /\ \A i, j \in DOMAIN map.index1 :
       i < j => ~FirstBeforeSecond(map.values[map.index1[j]], map.values[map.index1[i]])

------------------------------------------------------------------------------
(* Least and greatest elements *)

\* Every inhabited set of numbers has a least one.
LEMMA LeastExists ==
  ASSUME NEW S, S \subseteq Nat, S # {}
  PROVE  \E m \in S : \A n \in S : m <= n
<1>1. PICK m \in S : \A n \in S : ~(<<n, m>> \in OpToRel(<, Nat))
  BY NatLessThanWellFounded, WFMin
<1>2. \A n \in S : m <= n
  <2>1. SUFFICES ASSUME NEW n \in S, ~(m <= n)
                 PROVE  FALSE
    OBVIOUS
  <2>2. <<n, m>> \in Nat \X Nat /\ n < m
    BY <2>1
  <2>3. <<n, m>> \in OpToRel(<, Nat)
    BY <2>2 DEF OpToRel
  <2> QED
    BY <1>1, <2>3
<1> QED
  BY <1>2

\* Min is one of the numbers, and no number is smaller.
LEMMA MinIsLeast ==
  ASSUME NEW S, S \subseteq Nat, S # {}
  PROVE  Min(S) \in S /\ \A n \in S : Min(S) <= n
BY LeastExists DEF Min

\* The same of Max, for numbers with a bound.
LEMMA MaxIsGreatest ==
  ASSUME NEW b \in Nat, NEW S, S \subseteq 0 .. b, S # {}
  PROVE  Max(S) \in S /\ \A n \in S : n <= Max(S)
<1> DEFINE Mirrored == {b - n : n \in S}
<1>1. Mirrored \subseteq Nat /\ Mirrored # {}
  <2>1. \A n \in S : b - n \in Nat
    OBVIOUS
  <2>2. PICK n \in S : TRUE
    OBVIOUS
  <2>3. b - n \in Mirrored
    OBVIOUS
  <2> QED
    BY <2>1, <2>3
<1>2. PICK m \in Mirrored : \A n \in Mirrored : m <= n
  BY <1>1, LeastExists
<1>3. PICK g \in S : m = b - g
  OBVIOUS
<1>4. \A n \in S : g >= n
  <2>1. SUFFICES ASSUME NEW n \in S
                 PROVE  g >= n
    OBVIOUS
  <2>2. b - g <= b - n
    BY <1>2, <1>3
  <2>3. g \in 0 .. b /\ n \in 0 .. b
    OBVIOUS
  <2> QED
    BY <2>2, <2>3
<1> QED
  BY <1>4 DEF Max

\* The greatest of some of the first numbers, if the last of them is one.
LEMMA LastIsMax ==
  ASSUME NEW n \in Nat, NEW s \in SUBSET (1 .. n + 1), n + 1 \in s
  PROVE  Max(s) = n + 1
<1>1. \A y \in s : n + 1 >= y
  OBVIOUS
<1>2. \A x \in s : (\A y \in s : x >= y) => x = n + 1
  OBVIOUS
<1> QED  BY <1>1, <1>2 DEF Max

------------------------------------------------------------------------------
(* The index of a new output *)

\* The middle of two numbers lies between them, and short of the greater one.
LEMMA Middle ==
  ASSUME NEW a \in Int, NEW b \in Int, a <= b
  PROVE  LET m == (b + a) \div 2
         IN  m \in Int /\ a <= m /\ m <= b /\ (m = b => a = b)
<1> DEFINE m == (b + a) \div 2
<1>1. m \in Int /\ 2 * m <= b + a /\ b + a <= 2 * m + 1
  BY SMTT(30)
<1> HIDE DEF m
<1>2. m \in Int /\ a <= m /\ m <= b /\ (m = b => a = b)
  BY <1>1
<1> QED
  BY <1>2 DEF m

\* The bounds are indices, nothing at or before the place lies above the lower one,
\* nothing after the place below the upper one, and one does not exceed the other.
LEMMA IndexBounds ==
  ASSUME NEW map, Arranged(map), NEW place, place.x \in Int, place.y \in Int
  PROVE  LET lower == LowerIndex(map, place)
             upper == UpperIndex(map, place)
         IN  /\ lower \in 0 .. MaxIndex /\ upper \in 0 .. MaxIndex /\ lower <= upper
             /\ lower = upper => lower \in DOMAIN map.index1
             /\ \/ lower = 0
                \/ /\ lower \in DOMAIN map.index1
                   /\ ~FirstBeforeSecond(place, map.values[map.index1[lower]])
             /\ \/ upper = MaxIndex
                \/ /\ upper \in DOMAIN map.index1
                   /\ FirstBeforeSecond(place, map.values[map.index1[upper]])
             /\ \A i \in DOMAIN map.index1 :
                  IF FirstBeforeSecond(place, map.values[map.index1[i]])
                  THEN upper <= i ELSE i <= lower
<1> DEFINE D      == DOMAIN map.index1
           At(i)  == map.values[map.index1[i]]
           Right  == {o.rel_index : o \in {l \in Listed(map) : FirstBeforeSecond(place, l)}}
           Left   == {o.rel_index : o \in {l \in Listed(map) : ~FirstBeforeSecond(place, l)}}
           lower  == LowerIndex(map, place)
           upper  == UpperIndex(map, place)
<1>1. \A i \in D : At(i) \in OutputSet /\ At(i).rel_index = i /\ At(i) \in Listed(map)
  BY DEF Arranged, Listed
<1>2. \A o \in Listed(map) : \E i \in D : o = At(i)
  BY DEF Listed
<1>3. \A k : k \in Right <=> k \in D /\ FirstBeforeSecond(place, At(k))
  BY <1>1, <1>2
<1>4. \A k : k \in Left <=> k \in D /\ ~FirstBeforeSecond(place, At(k))
  BY <1>1, <1>2
<1>5. D \subseteq 0 .. MaxIndex
  BY DEF Arranged
<1>6. upper \in {MaxIndex} \cup Right /\ \A n \in {MaxIndex} \cup Right : upper <= n
  <2>1. {MaxIndex} \cup Right \subseteq Nat
    BY <1>3, <1>5 DEF MaxIndex
  <2> QED
    BY <2>1, MinIsLeast DEF UpperIndex
<1>7. lower \in {0} \cup Left /\ \A n \in {0} \cup Left : n <= lower
  <2>1. {0} \cup Left \subseteq 0 .. MaxIndex /\ MaxIndex \in Nat
    BY <1>4, <1>5 DEF MaxIndex
  <2> QED
    BY <2>1, MaxIsGreatest DEF LowerIndex
<1>8. lower \in 0 .. MaxIndex /\ upper \in 0 .. MaxIndex
  BY <1>3, <1>4, <1>5, <1>6, <1>7 DEF MaxIndex
<1> HIDE DEF lower, upper, Left, Right
<1>9. ASSUME lower \in Left, upper \in Right
      PROVE  lower < upper
  <2>1. lower \in D /\ upper \in D /\ lower # upper
    BY <1>3, <1>4, <1>9
  <2>2. lower \in Int /\ upper \in Int
    BY <1>8
  <2>3. upper < lower => ~FirstBeforeSecond(At(lower), At(upper))
    BY <2>1 DEF Arranged
  <2>4. FirstBeforeSecond(place, At(upper)) /\ ~FirstBeforeSecond(place, At(lower))
    BY <1>3, <1>4, <1>9
  <2>5. At(lower).x \in Int /\ At(lower).y \in Int /\ At(upper).x \in Int /\ At(upper).y \in Int
    BY <1>1, <2>1 DEF OutputSet
  <2> QED
    BY <2>1, <2>2, <2>3, <2>4, <2>5 DEF FirstBeforeSecond
<1>10. lower <= upper
  <2>1. CASE lower = 0 \/ upper = MaxIndex
    BY <2>1, <1>8 DEF MaxIndex
  <2>2. CASE lower \in Left /\ upper \in Right
    BY <2>2, <1>8, <1>9 DEF MaxIndex
  <2> QED
    BY <2>1, <2>2, <1>6, <1>7
<1>11. lower = upper => lower \in D
  BY <1>3, <1>4, <1>6, <1>7, <1>9 DEF MaxIndex
<1>12. \A i \in D : IF FirstBeforeSecond(place, At(i)) THEN upper <= i ELSE i <= lower
  BY <1>3, <1>4, <1>6, <1>7
<1>13. lower = 0 \/ (lower \in D /\ ~FirstBeforeSecond(place, At(lower)))
  BY <1>4, <1>7
<1>14. upper = MaxIndex \/ (upper \in D /\ FirstBeforeSecond(place, At(upper)))
  BY <1>3, <1>6
<1> QED
  BY <1>8, <1>10, <1>11, <1>12, <1>13, <1>14 DEF lower, upper

\* Adding an output leaves the displays in order, whatever the outputs are: where
\* there is no room for its index it is not displayed, and nothing else changes.
THEOREM DisplayAddArranges ==
  ASSUME NEW map, Arranged(map),
         NEW output, output.name \in STRING, output.x \in Int, output.y \in Int
  PROVE  Arranged(DisplayAdd(map, output))
<1> DEFINE lower == LowerIndex(map, output)
           upper == UpperIndex(map, output)
           index == (upper + lower) \div 2
           added == [rel_index |-> index, name |-> output.name,
                     x |-> output.x, y |-> output.y]
           free  == Len(map.values) + 1
           new   == DisplayAdd(map, output)
           D     == DOMAIN map.index1
           At(i) == map.values[map.index1[i]]
<1>1. /\ lower \in 0 .. MaxIndex /\ upper \in 0 .. MaxIndex /\ lower <= upper
      /\ lower = upper => lower \in D
      /\ \A i \in D : IF FirstBeforeSecond(output, At(i)) THEN upper <= i ELSE i <= lower
  BY IndexBounds
<1>2. new = [values |-> Append(map.values, added),
             index1 |-> Emplace(map.index1, index, free),
             index2 |-> Emplace(map.index2, output.name, free)]
  BY DEF DisplayAdd, TryEmplace
<1> HIDE DEF lower, upper, new
<1>3. index \in 0 .. MaxIndex /\ lower <= index /\ index <= upper
      /\ (index = upper => lower = upper)
  <2>1. lower \in Int /\ upper \in Int /\ lower <= upper
    BY <1>1 DEF MaxIndex
  <2>2. index \in Int /\ lower <= index /\ index <= upper /\ (index = upper => lower = upper)
    BY <2>1, Middle
  <2> QED
    BY <2>2, <1>1 DEF MaxIndex
<1> HIDE DEF index
<1>4. added \in OutputSet
  BY <1>3 DEF OutputSet
<1>5. /\ map.values \in Seq(OutputSet) /\ Len(map.values) \in Nat
      /\ \A i \in D : map.index1[i] \in 1 .. Len(map.values) /\ At(i) \in OutputSet
  BY DEF Arranged
<1> HIDE DEF added
<1>6. /\ new.values \in Seq(OutputSet) /\ Len(new.values) = free
      /\ new.values[free] = added
      /\ \A k \in 1 .. Len(map.values) : new.values[k] = map.values[k]
  BY <1>2, <1>4, <1>5
<1>7. DOMAIN new.index1 = D \cup {index}
  BY <1>2 DEF Emplace
<1>8. \A i \in D : new.index1[i] = map.index1[i] /\ new.values[new.index1[i]] = At(i)
  BY <1>2, <1>5, <1>6 DEF Emplace
<1>9. index \notin D => new.index1[index] = free /\ new.values[new.index1[index]] = added
  BY <1>2, <1>6 DEF Emplace
<1>10. new.index1 \in [DOMAIN new.index1 -> 1 .. Len(new.values)]
  <2>1. new.index1 = [i \in DOMAIN new.index1 |-> new.index1[i]]
    <3>1. map.index1 = [i \in DOMAIN map.index1 |-> map.index1[i]]
      BY DEF Arranged
    <3> QED
      BY <1>2, <3>1 DEF Emplace
  <2>2. free \in 1 .. free /\ \A k \in 1 .. Len(map.values) : k \in 1 .. free
    BY <1>5
  <2>3. \A i \in DOMAIN new.index1 : new.index1[i] \in 1 .. free
    BY <2>2, <1>5, <1>7, <1>8, <1>9
  <2> QED
    BY <2>1, <2>3, <1>6
<1>11. \A i \in DOMAIN new.index1 : new.values[new.index1[i]].rel_index = i
  BY <1>7, <1>8, <1>9 DEF Arranged, added
<1>12. ASSUME NEW i \in DOMAIN new.index1, NEW j \in DOMAIN new.index1, i < j
       PROVE  ~FirstBeforeSecond(new.values[new.index1[j]], new.values[new.index1[i]])
  <2>1. CASE i \in D /\ j \in D
    BY <2>1, <1>8, <1>12 DEF Arranged
  <2>2. index \in Int /\ lower \in Int /\ upper \in Int /\ D \subseteq Int
    BY <1>1, <1>3 DEF Arranged
  <2>3. CASE i = index /\ index \notin D
    <3>1. j \in D
      BY <2>2, <2>3, <1>7, <1>12
    <3>2. new.values[new.index1[j]] = At(j) /\ new.values[new.index1[i]] = added
      BY <2>3, <3>1, <1>8, <1>9
    <3>3. ~(j <= lower)
      BY <2>2, <2>3, <3>1, <1>3, <1>12
    <3>4. FirstBeforeSecond(output, At(j))
      BY <3>1, <3>3, <1>1
    <3>5. At(j).x \in Int /\ At(j).y \in Int
      BY <3>1, <1>5 DEF OutputSet
    <3>6. added.x = output.x /\ added.y = output.y
      BY DEF added
    <3> QED
      BY <3>2, <3>4, <3>5, <3>6 DEF FirstBeforeSecond
  <2>4. CASE j = index /\ index \notin D
    <3>1. i \in D
      BY <2>2, <2>4, <1>7, <1>12
    <3>2. new.values[new.index1[i]] = At(i) /\ new.values[new.index1[j]] = added
      BY <2>4, <3>1, <1>8, <1>9
    <3>3. ~(upper <= i)
      BY <2>2, <2>4, <3>1, <1>3, <1>12
    <3>4. ~FirstBeforeSecond(output, At(i))
      BY <3>1, <3>3, <1>1
    <3> QED
      BY <3>2, <3>4 DEF FirstBeforeSecond, added
  <2> QED
    BY <2>1, <2>3, <2>4, <1>7
<1>13. new = [values |-> new.values, index1 |-> new.index1, index2 |-> new.index2]
  BY <1>2
<1>14. DOMAIN new.index1 \subseteq 0 .. MaxIndex
  BY <1>3, <1>7 DEF Arranged
<1>15. Arranged(new)
  BY <1>6, <1>10, <1>11, <1>12, <1>13, <1>14 DEF Arranged
<1> QED
  BY <1>15 DEF new

\* Nothing that is displayed is lost, and an output between two neighbours whose
\* indices are two apart is displayed.
THEOREM DisplayAddDisplays ==
  ASSUME NEW map, Arranged(map),
         NEW output, output.name \in STRING, output.x \in Int, output.y \in Int
  PROVE  /\ Listed(map) \subseteq Listed(DisplayAdd(map, output))
         /\ LowerIndex(map, output) + 2 <= UpperIndex(map, output) =>
              \E o \in Listed(DisplayAdd(map, output)) : o.name = output.name
<1> DEFINE lower == LowerIndex(map, output)
           upper == UpperIndex(map, output)
           index == (upper + lower) \div 2
           added == [rel_index |-> index, name |-> output.name,
                     x |-> output.x, y |-> output.y]
           free  == Len(map.values) + 1
           new   == DisplayAdd(map, output)
           D     == DOMAIN map.index1
           At(i) == map.values[map.index1[i]]
<1>1. /\ lower \in 0 .. MaxIndex /\ upper \in 0 .. MaxIndex
      /\ \A i \in D : upper <= i \/ i <= lower
  BY IndexBounds
<1>2. new.values = Append(map.values, added) /\ new.index1 = Emplace(map.index1, index, free)
  BY DEF DisplayAdd, TryEmplace
<1> HIDE DEF lower, upper, new, added
<1>3. /\ map.values \in Seq(OutputSet) /\ Len(map.values) \in Nat
      /\ \A i \in D : map.index1[i] \in 1 .. Len(map.values)
  BY DEF Arranged
<1>4. /\ new.values[free] = added
      /\ \A k \in 1 .. Len(map.values) : new.values[k] = map.values[k]
  BY <1>2, <1>3
<1>5. D \subseteq DOMAIN new.index1
  BY <1>2 DEF Emplace
<1>6. \A i \in D : new.values[new.index1[i]] = At(i)
  BY <1>2, <1>3, <1>4 DEF Emplace
<1>7. Listed(map) \subseteq Listed(new)
  BY <1>5, <1>6 DEF Listed
<1>8. ASSUME lower + 2 <= upper
      PROVE  \E o \in Listed(new) : o.name = output.name
  <2>1. lower < index /\ index < upper
    BY <1>1, <1>8, SMTT(30) DEF MaxIndex
  <2>2. lower \in Int /\ upper \in Int
    BY <1>1 DEF MaxIndex
  <2>3. index \in 0 .. MaxIndex
    BY <1>1, SMTT(30) DEF MaxIndex
  <2> HIDE DEF index
  <2>4. index \notin D
    <3>1. D \subseteq Int
      <4>1. D \subseteq 0 .. MaxIndex
        BY DEF Arranged
      <4> QED
        BY <4>1
    <3>2. index \in Int
      BY <2>3
    <3> QED
      BY <2>1, <2>2, <3>1, <3>2, <1>1
  <2>5. index \in DOMAIN new.index1 /\ new.index1[index] = free
    BY <2>4, <1>2 DEF Emplace
  <2>6. added \in Listed(new)
    BY <2>5, <1>4 DEF Listed
  <2> QED
    BY <2>6 DEF added
<1> QED
  BY <1>7, <1>8 DEF new, lower, upper

------------------------------------------------------------------------------
(* Room for eight *)

\* The indices are so far from each other and from MaxIndex, and nearly so far from 0.
Spread(map, g) ==
  \A i \in DOMAIN map.index1 :
    /\ g - 1 <= i /\ i + g <= MaxIndex
    /\ \A j \in DOMAIN map.index1 : i < j => i + g <= j

\* A new index halves the room, and as long as there was some it is a new one.
LEMMA DisplayAddSpreads ==
  ASSUME NEW map, Arranged(map), NEW output, output.x \in Int, output.y \in Int,
         NEW h \in 1 .. 128, Spread(map, 2 * h)
  PROVE  LET index == (UpperIndex(map, output) + LowerIndex(map, output)) \div 2
         IN  /\ index \in Nat /\ index \notin DOMAIN map.index1
             /\ Spread(DisplayAdd(map, output), h)
<1> DEFINE lower == LowerIndex(map, output)
           upper == UpperIndex(map, output)
           index == (upper + lower) \div 2
           new   == DisplayAdd(map, output)
           D     == DOMAIN map.index1
           At(i) == map.values[map.index1[i]]
<1>1. /\ lower \in 0 .. MaxIndex /\ upper \in 0 .. MaxIndex /\ lower <= upper
      /\ \A i \in D : upper <= i \/ i <= lower
      /\ lower = 0 \/ (lower \in D /\ ~FirstBeforeSecond(output, At(lower)))
      /\ upper = MaxIndex \/ (upper \in D /\ FirstBeforeSecond(output, At(upper)))
  BY IndexBounds
<1>2. DOMAIN new.index1 = D \cup {index}
  BY DEF DisplayAdd, TryEmplace, Emplace
<1>3. D \subseteq 0 .. MaxIndex
  BY DEF Arranged
<1>4. index \in Int /\ 2 * index <= upper + lower /\ upper + lower <= 2 * index + 1
  <2>1. lower \in Int /\ upper \in Int
    BY <1>1
  <2> HIDE DEF lower, upper
  <2> QED  BY <2>1, SMTT(30)
<1> HIDE DEF lower, upper, index, new
<1>5. \A i \in D : /\ i \in Int /\ 2 * h - 1 <= i /\ i + 2 * h <= MaxIndex
                   /\ \A j \in D : i < j => i + 2 * h <= j
  BY <1>3 DEF Spread
<1>6. ASSUME h - 1 <= index, index + h <= MaxIndex,
             \A i \in D : index + h <= i \/ i + h <= index
      PROVE  index \in Nat /\ index \notin D /\ Spread(new, h)
  <2>1. index \in Nat /\ index \notin D
    BY <1>4, <1>5, <1>6
  <2>2. \A i \in D \cup {index} :
          /\ h - 1 <= i /\ i + h <= MaxIndex
          /\ \A j \in D \cup {index} : i < j => i + h <= j
    <3>1. ASSUME NEW i \in D
          PROVE  /\ h - 1 <= i /\ i + h <= MaxIndex
                 /\ i < index => i + h <= index
                 /\ index < i => index + h <= i
                 /\ \A j \in D : i < j => i + h <= j
      BY <1>4, <1>5, <1>6 DEF MaxIndex
    <3> QED  BY <1>4, <1>6, <3>1
  <2> QED  BY <1>2, <2>1, <2>2 DEF Spread
<1>7. CASE lower \in D
  <2>1. lower # upper
    BY <1>1, <1>5, <1>7 DEF MaxIndex
  <2>2. lower + 2 * h <= upper
    BY <1>1, <1>5, <1>7, <2>1
  <2>3. lower + h <= index /\ index + h <= upper
    BY <1>1, <1>4, <2>2 DEF MaxIndex
  <2>4. /\ h - 1 <= index /\ index + h <= MaxIndex
        /\ \A i \in D : (index + h <= i \/ i + h <= index)
    BY <1>1, <1>4, <1>5, <1>7, <2>3 DEF MaxIndex
  <2> QED  BY <1>6, <2>4 DEF index, new, lower, upper
<1>8. CASE lower \notin D
  <2>1. lower = 0 /\ 2 * h - 1 <= upper
    BY <1>1, <1>5, <1>8 DEF MaxIndex
  <2>2. h - 1 <= index /\ index + h <= upper
    BY <1>1, <1>4, <2>1 DEF MaxIndex
  <2>3. \A i \in D : index + h <= i
    BY <1>1, <1>4, <1>5, <2>1, <2>2 DEF MaxIndex
  <2>4. index + h <= MaxIndex
    BY <1>1, <1>4, <2>2 DEF MaxIndex
  <2> QED  BY <1>6, <2>2, <2>3, <2>4 DEF index, new, lower, upper
<1> QED  BY <1>7, <1>8

\* What keeps twice the distance keeps the distance.
LEMMA SpreadHalves ==
  ASSUME NEW map, Arranged(map), NEW h \in 1 .. 128, Spread(map, 2 * h)
  PROVE  Spread(map, h)
<1> DEFINE D == DOMAIN map.index1
<1>1. D \subseteq 0 .. MaxIndex
  BY DEF Arranged
<1>2. \A i \in D : /\ 2 * h - 1 <= i /\ i + 2 * h <= MaxIndex
                   /\ \A j \in D : i < j => i + 2 * h <= j
  BY DEF Spread
<1> HIDE DEF D
<1>3. \A i \in D : h - 1 <= i /\ i + h <= MaxIndex
  BY <1>1, <1>2 DEF MaxIndex
<1>4. \A i, j \in D : i < j => i + h <= j
  BY <1>1, <1>2
<1> QED  BY <1>3, <1>4 DEF Spread, D

\* Outputs of these names are known, and each is under one index.
Holds(map, names) ==
  LET Name(i) == map.values[map.index1[i]].name
  IN  /\ DOMAIN map.index2 = names
      /\ \A i \in DOMAIN map.index1 : Name(i) \in names
      /\ \A x \in names : \E i \in DOMAIN map.index1 : Name(i) = x
      /\ \A i, j \in DOMAIN map.index1 : Name(i) = Name(j) => i = j

LEMMA DisplayAddHolds ==
  ASSUME NEW map, Arranged(map), NEW names, Holds(map, names),
         NEW output, output.name \notin names,
         (UpperIndex(map, output) + LowerIndex(map, output)) \div 2
           \notin DOMAIN map.index1
  PROVE  Holds(DisplayAdd(map, output), names \cup {output.name})
<1> DEFINE index  == (UpperIndex(map, output) + LowerIndex(map, output)) \div 2
           added  == [rel_index |-> index, name |-> output.name,
                      x |-> output.x, y |-> output.y]
           new    == DisplayAdd(map, output)
           free   == Len(map.values) + 1
           D      == DOMAIN map.index1
<1>1. /\ new.values = Append(map.values, added)
      /\ new.index1 = Emplace(map.index1, index, free)
      /\ DOMAIN new.index2 = DOMAIN map.index2 \cup {output.name}
  BY DEF DisplayAdd, TryEmplace, Emplace
<1>2. index \notin D
  OBVIOUS
<1>3. added.name = output.name
  OBVIOUS
<1> HIDE DEF index, new, added
<1>4. map.values \in Seq(OutputSet) /\ \A i \in D : map.index1[i] \in 1 .. Len(map.values)
  BY DEF Arranged
<1>5. /\ new.values[free] = added
      /\ \A k \in 1 .. Len(map.values) : new.values[k] = map.values[k]
  BY <1>1, <1>4
<1>6. /\ DOMAIN new.index1 = D \cup {index} /\ new.index1[index] = free
      /\ \A i \in D : new.index1[i] = map.index1[i]
  BY <1>1, <1>2 DEF Emplace
<1>7. /\ new.values[new.index1[index]].name = output.name
      /\ \A i \in D : new.values[new.index1[i]].name = map.values[map.index1[i]].name
  BY <1>3, <1>4, <1>5, <1>6
<1> HIDE DEF D
<1>8. /\ DOMAIN map.index2 = names
      /\ \A i \in D : map.values[map.index1[i]].name \in names
      /\ \A x \in names : \E i \in D : map.values[map.index1[i]].name = x
      /\ \A i, j \in D :
           map.values[map.index1[i]].name = map.values[map.index1[j]].name => i = j
  BY DEF Holds, D
<1> HIDE DEF free
<1> DEFINE N       == D \cup {index}
           Name(i) == new.values[new.index1[i]].name
<1>9. \A i \in N : Name(i) \in names \cup {output.name}
  BY <1>7, <1>8
<1>10. \A x \in names \cup {output.name} : \E i \in N : Name(i) = x
  BY <1>7, <1>8
<1>11. \A i, j \in N : Name(i) = Name(j) => i = j
  BY <1>7, <1>8
<1>12. DOMAIN new.index1 = N /\ DOMAIN new.index2 = names \cup {output.name}
  BY <1>1, <1>6, <1>8
<1> HIDE DEF N
<1>13. Holds(new, names \cup {output.name})
  BY <1>9, <1>10, <1>11, <1>12 DEF Holds
<1> QED  BY <1>13 DEF new

\* The room that is left when so many outputs are there.
Room == <<256, 128, 64, 32, 16, 8, 4, 2, 1>>

LEMMA RoomHalves ==
  \A k \in 1 .. 8 : Room[k] = 2 * Room[k + 1] /\ Room[k + 1] \in 1 .. 128
<1>1. SUFFICES ASSUME NEW k \in 1 .. 8
               PROVE  Room[k] = 2 * Room[k + 1] /\ Room[k + 1] \in 1 .. 128
  OBVIOUS
<1>2. k = 1 \/ k = 2 \/ k = 3 \/ k = 4 \/ k = 5 \/ k = 6 \/ k = 7 \/ k = 8
  OBVIOUS
<1>3. /\ Room[1] = 256 /\ Room[2] = 128 /\ Room[3] = 64 /\ Room[4] = 32 /\ Room[5] = 16
      /\ Room[6] = 8 /\ Room[7] = 4 /\ Room[8] = 2 /\ Room[9] = 1
  BY DEF Room
<1> QED  BY <1>2, <1>3

------------------------------------------------------------------------------
(* The fold of the first query *)

\* What the fold computes of some of the first outputs, given f for fewer.
Added(seq, f, s) ==
  IF s = {} THEN NoOutputs ELSE MeetOutput(f[s \ {Max(s)}], seq[Max(s)])

LEMMA AddExtends ==
  ASSUME NEW seq, NEW n \in Nat,
         \E f : f = [s \in SUBSET (1 .. n) |-> Added(seq, f, s)]
  PROVE  \E f : f = [s \in SUBSET (1 .. n + 1) |-> Added(seq, f, s)]
<1>1. PICK f : f = [s \in SUBSET (1 .. n) |-> Added(seq, f, s)]
  OBVIOUS
<1> DEFINE g == [s \in SUBSET (1 .. n + 1) |->
                   IF n + 1 \in s THEN MeetOutput(f[s \ {n + 1}], seq[n + 1]) ELSE f[s]]
<1>2. ASSUME NEW s \in SUBSET (1 .. n + 1)
      PROVE  g[s] = Added(seq, g, s)
  <2>1. CASE n + 1 \in s
    <3>1. s \ {n + 1} \in SUBSET (1 .. n + 1) /\ n + 1 \notin s \ {n + 1} /\ s # {}
      BY <2>1
    <3>2. g[s \ {n + 1}] = f[s \ {n + 1}] /\ g[s] = MeetOutput(f[s \ {n + 1}], seq[n + 1])
      BY <2>1, <3>1
    <3>3. Max(s) = n + 1
      BY <2>1, LastIsMax
    <3> HIDE DEF g
    <3> QED  BY <3>1, <3>2, <3>3 DEF Added
  <2>2. CASE n + 1 \notin s
    <3>1. s \in SUBSET (1 .. n)
      BY <2>2
    <3>2. g[s] = f[s] /\ f[s] = Added(seq, f, s)
      BY <1>1, <2>2, <3>1
    <3>3. ASSUME NEW x PROVE g[s \ {x}] = f[s \ {x}]
      <4>1. s \ {x} \in SUBSET (1 .. n + 1) /\ n + 1 \notin s \ {x}
        BY <2>2
      <4> QED  BY <4>1
    <3> HIDE DEF g
    <3> QED  BY <3>2, <3>3 DEF Added
  <2> QED  BY <2>1, <2>2
<1>3. g = [s \in SUBSET (1 .. n + 1) |-> g[s]]
  OBVIOUS
<1> HIDE DEF g
<1>4. g = [s \in SUBSET (1 .. n + 1) |-> Added(seq, g, s)]
  BY <1>2, <1>3
<1> QED  BY <1>4

LEMMA AddExists ==
  ASSUME NEW seq, NEW n \in Nat
  PROVE  \E f : f = [s \in SUBSET (1 .. n) |-> Added(seq, f, s)]
<1> DEFINE Computed(k) == \E f : f = [s \in SUBSET (1 .. k) |-> Added(seq, f, s)]
           S           == {k \in Nat : ~Computed(k)}
<1>1. Computed(0)
  <2> DEFINE f == [s \in SUBSET (1 .. 0) |-> NoOutputs]
  <2>1. \A s \in SUBSET (1 .. 0) : s = {}
    OBVIOUS
  <2>2. f = [s \in SUBSET (1 .. 0) |-> Added(seq, f, s)]
    BY <2>1 DEF Added
  <2> HIDE DEF f
  <2> QED  BY <2>2
<1>2. ASSUME NEW k \in Nat, Computed(k)
      PROVE  Computed(k + 1)
  BY <1>2, AddExtends
<1> HIDE DEF Computed
<1>3. S = {}
  <2> SUFFICES ASSUME S # {} PROVE FALSE
    OBVIOUS
  <2>1. PICK m \in S : \A k \in S : m <= k
    <3>1. S \subseteq Nat /\ S # {}
      OBVIOUS
    <3> HIDE DEF S
    <3> QED  BY <3>1, LeastExists
  <2>2. m \in Nat /\ ~Computed(m) /\ m # 0
    BY <1>1
  <2>3. m - 1 \in Nat /\ ~(m <= m - 1) /\ (m - 1) + 1 = m
    BY <2>2
  <2>4. Computed(m - 1)
    BY <2>1, <2>3
  <2> QED  BY <1>2, <2>2, <2>3, <2>4
<1>4. Computed(n)
  BY <1>3
<1> QED  BY <1>4 DEF Computed

\* The maps query_tree comes to, output by output.
Passed(a, seq, n) ==
  /\ a[0] = NoOutputs
  /\ \A k \in 1 .. n : a[k] = MeetOutput(a[k - 1], seq[k])
  /\ AddAll(seq) = a[n]

LEMMA AddSteps ==
  ASSUME NEW seq, NEW n \in Nat, DOMAIN seq = 1 .. n
  PROVE  \E a : Passed(a, seq, n)
<1> DEFINE f == CHOOSE f : f = [s \in SUBSET (1 .. n) |-> Added(seq, f, s)]
<1>1. f = [s \in SUBSET (1 .. n) |-> Added(seq, f, s)]
  BY AddExists
<1>2. AddAll(seq) = f[1 .. n]
  BY DEF AddAll, FoldLeft, MapThenFoldSet, Added
<1> HIDE DEF f
<1> DEFINE a == [k \in 0 .. n |-> f[1 .. k]]
<1>3. a[0] = NoOutputs
  <2>1. 1 .. 0 = {} /\ {} \in SUBSET (1 .. n)
    OBVIOUS
  <2>2. f[{}] = Added(seq, f, {})
    BY <1>1, <2>1
  <2> QED  BY <2>1, <2>2 DEF Added
<1>4. ASSUME NEW k \in 1 .. n
      PROVE  a[k] = MeetOutput(a[k - 1], seq[k])
  <2>1. /\ k - 1 \in Nat /\ (k - 1) + 1 = k /\ 1 .. k \in SUBSET (1 .. n) /\ k \in 1 .. k
        /\ 1 .. k # {} /\ (1 .. k) \ {k} = 1 .. k - 1
    OBVIOUS
  <2>2. Max(1 .. k) = k
    BY <2>1, LastIsMax
  <2>3. f[1 .. k] = Added(seq, f, 1 .. k)
    BY <1>1, <2>1
  <2>4. a[k] = f[1 .. k] /\ a[k - 1] = f[1 .. k - 1]
    OBVIOUS
  <2> HIDE DEF a
  <2> QED  BY <2>1, <2>2, <2>3, <2>4 DEF Added
<1>5. a[n] = f[1 .. n]
  OBVIOUS
<1> HIDE DEF a
<1>6. Passed(a, seq, n)
  BY <1>2, <1>3, <1>4, <1>5 DEF Passed
<1> QED  BY <1>6

LEMMA NoOutputsArranged == Arranged(NoOutputs) /\ Spread(NoOutputs, 256)
<1> DEFINE none == <<>>
<1>1. NoOutputs = [values |-> none, index1 |-> none, index2 |-> none]
  BY DEF NoOutputs
<1>2. DOMAIN none = {} /\ none \in Seq(OutputSet) /\ \A V : none \in [{} -> V]
  OBVIOUS
<1> HIDE DEF none
<1> QED  BY <1>1, <1>2 DEF Arranged, Spread

\* The names of the first k outputs of a list.
NamesTo(arrival, k) == {arrival[j].name : j \in 1 .. k}

\* However many outputs there are they are arranged, and up to eight find room.
LEMMA AddAllArranges ==
  ASSUME NEW arrival \in Seq(Named)
  PROVE  /\ Arranged(AddAll(arrival))
         /\ Len(arrival) <= Fitting =>
              Holds(AddAll(arrival), NamesTo(arrival, Len(arrival)))
<1> DEFINE n == Len(arrival)
<1>1. n \in Nat /\ DOMAIN arrival = 1 .. n
  OBVIOUS
<1>2. \A k \in 1 .. n : /\ arrival[k].name \in STRING
                        /\ arrival[k].x \in Int /\ arrival[k].y \in Int
  <2>1. \A k \in 1 .. n : arrival[k] \in Named
    OBVIOUS
  <2> QED  BY <2>1 DEF Named
<1> HIDE DEF n
<1>3. PICK a : Passed(a, arrival, n)
  BY <1>1, AddSteps
<1> DEFINE Good(k) == /\ Arranged(a[k])
                      /\ k <= 8 => /\ Spread(a[k], Room[k + 1])
                                   /\ Holds(a[k], NamesTo(arrival, k))
           S       == {k \in 0 .. n : ~Good(k)}
<1>4. Good(0)
  <2>1. a[0] = NoOutputs /\ Room[0 + 1] = 256
    BY <1>3 DEF Passed, Room
  <2>2. Holds(NoOutputs, NamesTo(arrival, 0))
    <3>1. DOMAIN <<>> = {}
      OBVIOUS
    <3> QED  BY <3>1 DEF Holds, NoOutputs, NamesTo
  <2> QED  BY <2>1, <2>2, NoOutputsArranged
<1>5. ASSUME NEW k \in 1 .. n, Good(k - 1)
      PROVE  Good(k)
  <2>1. a[k] = MeetOutput(a[k - 1], arrival[k]) /\ (k - 1) + 1 = k /\ k - 1 \in Nat
    BY <1>1, <1>3 DEF Passed
  <2>2. NamesTo(arrival, k) = NamesTo(arrival, k - 1) \cup {arrival[k].name}
    <3>1. 1 .. k = (1 .. k - 1) \cup {k}
      OBVIOUS
    <3> QED  BY <3>1 DEF NamesTo
  <2> DEFINE known == arrival[k].name \in DOMAIN a[k - 1].index2
  <2>3. CASE known
    <3>1. a[k] = a[k - 1]
      BY <2>1, <2>3 DEF MeetOutput
    <3>2. ASSUME k <= 8
          PROVE  Spread(a[k], Room[k + 1]) /\ Holds(a[k], NamesTo(arrival, k))
      <4>1. k \in 1 .. 8 /\ k - 1 <= 8
        BY <1>1, <3>2
      <4>2. Spread(a[k - 1], Room[k]) /\ Holds(a[k - 1], NamesTo(arrival, k - 1))
        BY <1>5, <2>1, <4>1
      <4>3. NamesTo(arrival, k) = NamesTo(arrival, k - 1)
        BY <2>2, <2>3, <4>2 DEF Holds
      <4>4. Room[k] = 2 * Room[k + 1] /\ Room[k + 1] \in 1 .. 128
        BY <4>1, RoomHalves
      <4>5. Spread(a[k - 1], Room[k + 1])
        BY <1>5, <4>2, <4>4, SpreadHalves
      <4> QED  BY <3>1, <4>2, <4>3, <4>5
    <3> QED  BY <1>5, <3>1, <3>2
  <2>4. CASE ~known
    <3>1. a[k] = DisplayAdd(a[k - 1], arrival[k])
      BY <2>1, <2>4 DEF MeetOutput
    <3>2. Arranged(a[k])
      BY <1>2, <1>5, <3>1, DisplayAddArranges
    <3>3. ASSUME k <= 8
          PROVE  Spread(a[k], Room[k + 1]) /\ Holds(a[k], NamesTo(arrival, k))
      <4>1. k \in 1 .. 8 /\ k - 1 <= 8
        BY <1>1, <3>3
      <4>2. Room[k] = 2 * Room[k + 1] /\ Room[k + 1] \in 1 .. 128
        BY <4>1, RoomHalves
      <4>3. Spread(a[k - 1], 2 * Room[k + 1]) /\ Holds(a[k - 1], NamesTo(arrival, k - 1))
        BY <1>5, <2>1, <4>1, <4>2
      <4>4. /\ Spread(a[k], Room[k + 1])
            /\ (UpperIndex(a[k - 1], arrival[k]) + LowerIndex(a[k - 1], arrival[k])) \div 2
                 \notin DOMAIN a[k - 1].index1
        BY <1>2, <1>5, <3>1, <4>2, <4>3, DisplayAddSpreads
      <4>5. arrival[k].name \notin NamesTo(arrival, k - 1)
        BY <2>4, <4>3 DEF Holds
      <4>6. Holds(a[k], NamesTo(arrival, k))
        BY <1>5, <2>2, <3>1, <4>3, <4>4, <4>5, DisplayAddHolds
      <4> QED  BY <4>4, <4>6
    <3> QED  BY <3>2, <3>3
  <2> QED  BY <2>3, <2>4
<1>6. S = {}
  <2> SUFFICES ASSUME S # {} PROVE FALSE
    OBVIOUS
  <2>1. PICK k \in S : \A j \in S : k <= j
    <3>1. S \subseteq Nat /\ S # {}
      OBVIOUS
    <3> HIDE DEF S
    <3> QED  BY <3>1, LeastExists
  <2> HIDE DEF Good
  <2>2. k # 0
    BY <1>4
  <2>3. k \in 1 .. n /\ k - 1 \in 0 .. n /\ ~(k <= k - 1)
    BY <1>1, <2>2
  <2>4. Good(k - 1)
    BY <2>1, <2>3
  <2> QED  BY <1>5, <2>3, <2>4
<1>7. Good(n)
  <2>1. n \in 0 .. n
    BY <1>1
  <2> HIDE DEF Good
  <2> QED  BY <1>6, <2>1
<1>8. AddAll(arrival) = a[n]
  BY <1>3 DEF Passed
<1> QED  BY <1>7, <1>8 DEF Fitting, n

------------------------------------------------------------------------------
(* Displays *)

\* The positions of the indices are the numbers of the displays.
LEMMA Positions ==
  ASSUME NEW map, DOMAIN map.index1 \subseteq 0 .. MaxIndex
  PROVE  LET D == DOMAIN map.index1
         IN  /\ IsFiniteSet(D) /\ Cardinality(D) \in Nat
             /\ \A i \in D : Position(map, i) \in 1 .. Cardinality(D)
             /\ \A i, j \in D : i < j => Position(map, i) < Position(map, j)
             /\ \A k \in 1 .. Cardinality(D) : \E i \in D : Position(map, i) = k
<1> DEFINE D        == DOMAIN map.index1
           n        == Cardinality(D)
           Below(i) == {j \in D : j < i}
<1>1. IsFiniteSet(D) /\ n \in Nat
  <2>1. IsFiniteSet(0 .. MaxIndex)
    <3>1. 0 \in Int /\ MaxIndex \in Int
      BY DEF MaxIndex
    <3> QED  BY <3>1, FS_Interval
  <2> QED  BY <2>1, FS_Subset, FS_CardinalityType
<1>2. \A i \in D : i \in Int
  OBVIOUS
<1> HIDE DEF D
<1>3. ASSUME NEW i \in D
      PROVE  /\ IsFiniteSet(Below(i)) /\ Cardinality(Below(i)) \in Nat
             /\ Position(map, i) = 1 + Cardinality(Below(i))
  <2>1. Below(i) \in SUBSET D
    OBVIOUS
  <2>2. Position(map, i) = 1 + Cardinality(Below(i))
    BY DEF Position, D
  <2> HIDE DEF Below
  <2> QED  BY <1>1, <2>1, <2>2, FS_Subset, FS_CardinalityType
<1>4. ASSUME NEW i \in D, NEW T, IsFiniteSet(T), Below(i) \subseteq T, i \in T
      PROVE  Cardinality(Below(i)) < Cardinality(T)
  <2>1. i \notin Below(i) /\ Below(i) # T
    BY <1>2, <1>4
  <2> HIDE DEF Below
  <2>2. /\ Cardinality(Below(i)) <= Cardinality(T)
        /\ Cardinality(T) = Cardinality(Below(i)) => T = Below(i)
    BY <1>4, FS_Subset
  <2>3. Cardinality(T) \in Nat /\ Cardinality(Below(i)) \in Nat
    BY <1>3, <1>4, FS_CardinalityType
  <2> QED  BY <2>1, <2>2, <2>3
<1>5. \A i \in D : Position(map, i) \in 1 .. n
  <2>1. SUFFICES ASSUME NEW i \in D PROVE Position(map, i) \in 1 .. n
    OBVIOUS
  <2>2. Below(i) \subseteq D
    OBVIOUS
  <2>3. Cardinality(Below(i)) < n
    <3> HIDE DEF Below
    <3> QED  BY <1>1, <1>4, <2>2
  <2> HIDE DEF Below, n
  <2> QED  BY <1>1, <1>3, <2>3
<1>6. \A i, j \in D : i < j => Position(map, i) < Position(map, j)
  <2>1. SUFFICES ASSUME NEW i \in D, NEW j \in D, i < j
                 PROVE  Position(map, i) < Position(map, j)
    OBVIOUS
  <2>2. Below(i) \subseteq Below(j) /\ i \in Below(j)
    BY <1>2, <2>1
  <2> HIDE DEF Below
  <2> QED  BY <1>3, <1>4, <2>2
<1> DEFINE f == [i \in D |-> Position(map, i)]
<1>7. f \in Injection(D, 1 .. n)
  <2>1. f \in [D -> 1 .. n]
    BY <1>5
  <2>2. \A i, j \in D : f[i] = f[j] => i = j
    <3>1. SUFFICES ASSUME NEW i \in D, NEW j \in D, i # j PROVE f[i] # f[j]
      OBVIOUS
    <3>2. f[i] = Position(map, i) /\ f[j] = Position(map, j)
      OBVIOUS
    <3>3. i < j \/ j < i
      BY <1>2, <3>1
    <3>4. Position(map, i) \in Int /\ Position(map, j) \in Int
      BY <1>5
    <3> HIDE DEF f
    <3> QED  BY <1>6, <3>2, <3>3, <3>4
  <2> HIDE DEF f, n
  <2> QED  BY <2>1, <2>2 DEF Injection, IsInjective
<1>8. f \in Surjection(D, 1 .. n)
  <2>1. IsFiniteSet(1 .. n) /\ Cardinality(1 .. n) = n
    <3> HIDE DEF n
    <3> QED  BY <1>1, FS_Interval
  <2> HIDE DEF f
  <2> QED  BY <1>7, <2>1, FS_Injection
<1>9. \A k \in 1 .. n : \E i \in D : Position(map, i) = k
  BY <1>8 DEF Surjection
<1> QED  BY <1>1, <1>5, <1>6, <1>9 DEF D

\* The k-th display is the output under the k-th index.
LEMMA DisplayAt ==
  ASSUME NEW map, DOMAIN map.index1 \subseteq 0 .. MaxIndex
  PROVE  /\ DOMAIN Displays(map) = 1 .. Cardinality(DOMAIN map.index1)
         /\ \A k \in DOMAIN Displays(map) : \E i \in DOMAIN map.index1 :
              Position(map, i) = k /\ Displays(map)[k] = map.values[map.index1[i]]
<1>1. DOMAIN Displays(map) = 1 .. Cardinality(DOMAIN map.index1)
  BY DEF Displays
<1>2. ASSUME NEW k \in 1 .. Cardinality(DOMAIN map.index1)
      PROVE  \E i \in DOMAIN map.index1 :
               Position(map, i) = k /\ Displays(map)[k] = map.values[map.index1[i]]
  <2> DEFINE i == CHOOSE i \in DOMAIN map.index1 : Position(map, i) = k
  <2>1. i \in DOMAIN map.index1 /\ Position(map, i) = k
    BY Positions
  <2>2. Displays(map)[k] = map.values[map.index1[i]]
    BY DEF Displays
  <2> HIDE DEF i
  <2> QED  BY <2>1, <2>2
<1> QED  BY <1>1, <1>2

\* Displays come in the order of the monitors.
LEMMA DisplaysOrdered ==
  ASSUME NEW map, Arranged(map),
         NEW j \in DOMAIN Displays(map), NEW k \in DOMAIN Displays(map), j < k
  PROVE  ~FirstBeforeSecond(Displays(map)[k], Displays(map)[j])
<1>1. DOMAIN map.index1 \subseteq 0 .. MaxIndex
  BY DEF Arranged
<1>2. PICK i \in DOMAIN map.index1 :
        Position(map, i) = j /\ Displays(map)[j] = map.values[map.index1[i]]
  BY <1>1, DisplayAt
<1>3. PICK l \in DOMAIN map.index1 :
        Position(map, l) = k /\ Displays(map)[k] = map.values[map.index1[l]]
  BY <1>1, DisplayAt
<1>4. i < l
  <2>1. i \in Int /\ l \in Int /\ j \in Int /\ k \in Int
    <3>1. i \in Int /\ l \in Int
      BY <1>1
    <3>2. Cardinality(DOMAIN map.index1) \in Nat
      BY <1>1, Positions
    <3> QED  BY <1>1, <3>1, <3>2, DisplayAt
  <2>2. l < i => k < j
    BY <1>1, <1>2, <1>3, Positions
  <2>3. i # l
    BY <1>2, <1>3, <2>1
  <2> QED  BY <2>1, <2>2, <2>3
<1> QED  BY <1>2, <1>3, <1>4 DEF Arranged

\* Every output that is under an index is displayed once.
LEMMA DisplaysComplete ==
  ASSUME NEW map, Arranged(map), NEW names, Holds(map, names)
  PROVE  /\ {d.name : d \in Range(Displays(map))} = names
         /\ \A j, k \in DOMAIN Displays(map) :
              Displays(map)[j].name = Displays(map)[k].name => j = k
<1> DEFINE D       == DOMAIN map.index1
           K       == DOMAIN Displays(map)
           Name(i) == map.values[map.index1[i]].name
<1>1. D \subseteq 0 .. MaxIndex
  BY DEF Arranged
<1>2. /\ \A i \in D : Name(i) \in names
      /\ \A x \in names : \E i \in D : Name(i) = x
      /\ \A i, j \in D : Name(i) = Name(j) => i = j
  BY DEF Holds
<1>3. \A k \in K : \E i \in D : Position(map, i) = k /\ Displays(map)[k].name = Name(i)
  <2>1. SUFFICES ASSUME NEW k \in K
                 PROVE  \E i \in D : Position(map, i) = k /\ Displays(map)[k].name = Name(i)
    OBVIOUS
  <2>2. PICK i \in D : Position(map, i) = k /\ Displays(map)[k] = map.values[map.index1[i]]
    BY <1>1, DisplayAt
  <2> QED  BY <2>2
<1>4. \A i \in D : Position(map, i) \in K
  BY <1>1, Positions, DisplayAt
<1>5. \A i, j \in D : Position(map, i) = Position(map, j) => i = j
  <2>1. SUFFICES ASSUME NEW i \in D, NEW j \in D, Position(map, i) = Position(map, j)
                 PROVE  i = j
    OBVIOUS
  <2>2. i \in Int /\ j \in Int
    BY <1>1
  <2>3. Position(map, i) \in Int
    BY <1>1, Positions
  <2>4. ~(i < j) /\ ~(j < i)
    BY <1>1, <2>1, <2>3, Positions
  <2> QED  BY <2>2, <2>4
<1>6. {d.name : d \in Range(Displays(map))} = {Displays(map)[k].name : k \in K}
  BY DEF Range
<1> HIDE DEF D, K, Name
<1>7. \A k \in K : Displays(map)[k].name \in names
  BY <1>2, <1>3
<1>8. \A x \in names : \E k \in K : Displays(map)[k].name = x
  BY <1>2, <1>3, <1>4, <1>5
<1>9. {Displays(map)[k].name : k \in K} = names
  BY <1>7, <1>8
<1>10. \A j, k \in K : Displays(map)[j].name = Displays(map)[k].name => j = k
  BY <1>2, <1>3
<1> QED  BY <1>6, <1>9, <1>10 DEF K

\* Wherever the monitors lie and in whatever order GET_TREE lists them, the displays
\* print_raw counts along the indices display_add invents are never out of order, and
\* with up to eight outputs each is displayed once.
THEOREM EightFit == LeftToRight
<1>1. SUFFICES ASSUME NEW arrival \in Arrivals
      PROVE  LET displays == Displays(AddAll(arrival))
             IN  /\ \A j, k \in DOMAIN displays :
                      j < k => ~FirstBeforeSecond(displays[k], displays[j])
                 /\ Len(arrival) <= Fitting =>
                      /\ {d.name : d \in Range(displays)} = {o.name : o \in Range(arrival)}
                      /\ \A j, k \in DOMAIN displays :
                           displays[j].name = displays[k].name => j = k
  BY DEF LeftToRight
<1>2. arrival \in Seq(Named)
  BY ArrivalsAssumption
<1>3. /\ Arranged(AddAll(arrival))
      /\ Len(arrival) <= Fitting =>
           Holds(AddAll(arrival), NamesTo(arrival, Len(arrival)))
  BY <1>2, AddAllArranges
<1>4. {o.name : o \in Range(arrival)} = NamesTo(arrival, Len(arrival))
  BY <1>2 DEF Range, NamesTo
<1> QED  BY <1>3, <1>4, DisplaysOrdered, DisplaysComplete
=============================================================================
