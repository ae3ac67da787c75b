-------------------------------- MODULE MCI3 --------------------------------
(* Small instances of I3 and its outputs for TLC. *)
EXTENDS I3

WindowSymmetry == Permutations(Windows)

\* The numbers 1 .. n in any order.
Orders(n) ==
  FoldLeft(LAMBDA orders, k : {InsertAt(o, i, k) : o \in orders, i \in 1 .. k},
           {<<>>}, [k \in 1 .. n |-> k])

Monitor(k, x, y) == [name |-> ToString(k), x |-> x, y |-> y]

\* Eight monitors in a row, in any order; four that are stacked or mirrored; ten from
\* left to right, which is more than fit; and one that is listed twice.
Row     == {[k \in 1 .. 8 |-> Monitor(k, o[k], 0)] : o \in Orders(8)}
Stacked == {[k \in 1 .. 4 |-> Monitor(k, p[k][1], p[k][2])] :
              p \in [1 .. 4 -> {0, 1} \X {0, 1, 2}]}
Crowded == {[k \in 1 .. 10 |-> Monitor(k, k, 0)]}
Repeated == {<<Monitor(1, 0, 0), Monitor(2, 1, 0), Monitor(1, 2, 0)>>}

SomeArrivals == Row \cup Stacked \cup Crowded \cup Repeated
=============================================================================
