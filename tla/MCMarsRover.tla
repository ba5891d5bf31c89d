----------------------------- MODULE MCMarsRover -----------------------------
(***************************************************************************)
(* MarsRover with ints of 3 bits, -4 to 3: every plateau, place and route  *)
(* for one rover, so that every coordinate overflows both ways, and files  *)
(* of two rovers, with bad lines, bad letters and a missing route.         *)
(***************************************************************************)
EXTENDS MarsRover

RoutesUpTo(n, letters) == UNION {[1..k -> letters] : k \in 0..n}

One(at, dirs) == [at |-> at, dirs |-> dirs]
FileOf(x, y, rs, last) ==
  [empty |-> FALSE, max |-> [x |-> x, y |-> y], rovers |-> rs, noRoute |-> last]

Alone ==
  {FileOf(m, 3, <<One([x |-> x, y |-> y, orient |-> o], d)>>, FALSE) :
     m \in {0, 2, 3}, x \in 0..3, y \in {0, 3}, o \in Orient,
     d \in RoutesUpTo(MaxInt, {"L", "R", "M"})}

Places == {[x |-> 0, y |-> 1, orient |-> "N"], [x |-> 1, y |-> 1, orient |-> "E"],
           [x |-> 2, y |-> 0, orient |-> "N"], [x |-> 0, y |-> 0, orient |-> "?"], Malformed}
Two ==
  {FileOf(1, 1, <<One(p, d), One(q, e)>>, last) :
     p \in Places, q \in Places, last \in BOOLEAN,
     d \in RoutesUpTo(2, {"R", "M", "?"}), e \in RoutesUpTo(1, {"L", "M", "?"})}

Others ==
  {FileOf(-1, 2, <<>>, FALSE), FileOf(2, 2, <<>>, FALSE),
   [FileOf(0, 0, <<>>, FALSE) EXCEPT !.max = Malformed],
   [FileOf(0, 0, <<>>, FALSE) EXCEPT !.empty = TRUE]}

MCFiles == Alone \cup Two \cup Others
=============================================================================
