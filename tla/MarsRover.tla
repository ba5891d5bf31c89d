------------------------------ MODULE MarsRover ------------------------------
(***************************************************************************)
(* The Mars rover (marsRover): Driver reads the plateau and the rovers     *)
(* from a file, then drives one rover after the other, one direction a     *)
(* step, and compares its place with the plateau at the end of the route.  *)
(*                                                                         *)
(* A coordinate is a Java int, here of 2 * HALF values.  A line is what    *)
(* the program makes of it: a place, a route, or Malformed.                *)
(***************************************************************************)
EXTENDS Integers, Sequences, FiniteSets

CONSTANTS
  HALF,          \* 2^31
  Files,         \* the files that may be read
  Malformed      \* a line with the wrong fields, or that has no number in it

MaxInt == HALF - 1                     \* Integer.MAX_VALUE
Int32 == (-HALF)..MaxInt
Orient == {"N", "E", "S", "W"}

\* A route is a list, and no list is longer than MaxInt.  "?" is any other letter.
Routes == {r \in Seq({"L", "R", "M", "?"}) : Len(r) <= MaxInt}

\* The first line is the greatest coordinates; then a line for the place of a
\* rover and a line for its route, which the last rover may miss (noRoute).
Place == [x : Int32, y : Int32, orient : Orient \cup {"?"}]
File == [empty : BOOLEAN,
         max : [x : Int32, y : Int32] \cup {Malformed},
         rovers : Seq([at : Place \cup {Malformed}, dirs : Routes]),
         noRoute : BOOLEAN]

ASSUME WidthAssumption == HALF \in Nat \ {0}
ASSUME FilesAssumption == Files \subseteq File

VARIABLES
  file, line,         \* the file, and how many rovers have been read from it
  phase,              \* "max", "rovers", "next", "drive", "check", "exit"
  code,               \* exit code
  rovers,             \* the rovers to drive
  r,                  \* the rover in hand
  trueX, trueY        \* history: where it would be if an int had no limit

vars == <<file, line, phase, code, rovers, r, trueX, trueY>>

Wrap(n) == ((n + HALF) % (2 * HALF)) - HALF

Init ==
  /\ file \in Files /\ line = 0 /\ phase = "max" /\ code = 0
  /\ rovers = <<>> /\ r = 1 /\ trueX = 0 /\ trueY = 0

-----------------------------------------------------------------------------
(* Reading.                                                                *)

Exit(c) ==
  /\ phase' = "exit" /\ code' = c
  /\ UNCHANGED <<file, line, rovers, r, trueX, trueY>>

Within(p, x, y) == p.x \in 0..x /\ p.y \in 0..y

\* readMaxcoords: from 0 to MaxInt.
MaxRead == file.max # Malformed /\ Within(file.max, MaxInt, MaxInt)

ReadMax ==
  /\ phase = "max" /\ ~file.empty /\ MaxRead
  /\ phase' = "rovers"
  /\ UNCHANGED <<file, line, code, rovers, r, trueX, trueY>>

\* An empty file is no failure; a bad first line is.
MaxFails == phase = "max" /\ (file.empty \/ ~MaxRead) /\ Exit(IF file.empty THEN 0 ELSE 1)

\* readPosition, readCoords and the constructor of Position.
PositionRead(p) == p # Malformed /\ Within(p, file.max.x, file.max.y) /\ p.orient # "?"

\* The last line of a file may be a place without a route: its rover is left out.
RouteMissing == file.noRoute /\ line + 1 = Len(file.rovers)

\* Mistake: the last letter of a route is left out.
LandedShort(k) ==
  [x |-> file.rovers[k].at.x, y |-> file.rovers[k].at.y, orient |-> file.rovers[k].at.orient,
   dirs |-> SubSeq(file.rovers[k].dirs, 1, Len(file.rovers[k].dirs) - 1)]

\* The rover made of a place and a route.
Landed(k) ==
  [x |-> file.rovers[k].at.x, y |-> file.rovers[k].at.y, orient |-> file.rovers[k].at.orient,
   dirs |-> file.rovers[k].dirs]

ReadRover ==
  /\ phase = "rovers" /\ line < Len(file.rovers)
  /\ PositionRead(file.rovers[line + 1].at)
  /\ line' = line + 1
  /\ rovers' = IF RouteMissing THEN rovers ELSE Append(rovers, Landed(line + 1))
  /\ UNCHANGED <<file, phase, code, r, trueX, trueY>>

RoverFails ==
  /\ phase = "rovers" /\ line < Len(file.rovers)
  /\ ~PositionRead(file.rovers[line + 1].at)
  /\ Exit(1)

AllRead ==
  /\ phase = "rovers" /\ line = Len(file.rovers)
  /\ phase' = "next"
  /\ UNCHANGED <<file, line, code, rovers, r, trueX, trueY>>

-----------------------------------------------------------------------------
(* Driving.                                                                *)

Begin ==
  /\ phase = "next" /\ r <= Len(rovers)
  /\ phase' = "drive" /\ trueX' = rovers[r].x /\ trueY' = rovers[r].y
  /\ UNCHANGED <<file, line, code, rovers, r>>

\* All rovers are driven, or there is none.
End == phase = "next" /\ r > Len(rovers) /\ Exit(0)

Direction == Head(rovers[r].dirs)

\* Mistake: west and east lead back to north.
LeftHalfway == [N |-> "W", W |-> "N", S |-> "E", E |-> "N"]

Left == [N |-> "W", W |-> "S", S |-> "E", E |-> "N"]
Right == [N |-> "E", E |-> "S", S |-> "W", W |-> "N"]

Turn ==
  /\ phase = "drive" /\ rovers[r].dirs # <<>> /\ Direction \in {"L", "R"}
  /\ rovers' = [rovers EXCEPT ![r].dirs = Tail(@),
                              ![r].orient = IF Direction = "L" THEN Left[@] ELSE Right[@]]
  /\ UNCHANGED <<file, line, phase, code, r, trueX, trueY>>

\* What a move adds to x and to y.
East(o) == CASE o = "E" -> 1 [] o = "W" -> -1 [] OTHER -> 0
North(o) == CASE o = "N" -> 1 [] o = "S" -> -1 [] OTHER -> 0

\* Mistake: a coordinate that would overflow stays, as in saturating arithmetic.
MoveSaturating ==
  LET o == rovers[r].orient
      kept(n, d) == IF n + d \in Int32 THEN n + d ELSE n
  IN  /\ phase = "drive" /\ rovers[r].dirs # <<>> /\ Direction = "M"
      /\ rovers' = [rovers EXCEPT ![r].dirs = Tail(@),
                                  ![r].x = kept(@, East(o)), ![r].y = kept(@, North(o))]
      /\ trueX' = trueX + East(o) /\ trueY' = trueY + North(o)
      /\ UNCHANGED <<file, line, phase, code, r>>

Move ==
  LET o == rovers[r].orient
  IN  /\ phase = "drive" /\ rovers[r].dirs # <<>> /\ Direction = "M"
      /\ rovers' = [rovers EXCEPT ![r].dirs = Tail(@),
                                  ![r].x = Wrap(@ + East(o)), ![r].y = Wrap(@ + North(o))]
      /\ trueX' = trueX + East(o) /\ trueY' = trueY + North(o)
      /\ UNCHANGED <<file, line, phase, code, r>>

BadDirection ==
  /\ phase = "drive" /\ rovers[r].dirs # <<>> /\ Direction = "?"
  /\ Exit(1)

Arrive ==
  /\ phase = "drive" /\ rovers[r].dirs = <<>>
  /\ phase' = "check"
  /\ UNCHANGED <<file, line, code, rovers, r, trueX, trueY>>

\* Mistake: only the greatest coordinates are a limit.
OnPlateauAbove == rovers[r].x <= file.max.x /\ rovers[r].y <= file.max.y

OnPlateau == Within(rovers[r], file.max.x, file.max.y)

Accept ==
  /\ phase = "check" /\ OnPlateau
  /\ phase' = "next" /\ r' = r + 1
  /\ UNCHANGED <<file, line, code, rovers, trueX, trueY>>

OffPlateau == phase = "check" /\ ~OnPlateau /\ Exit(1)

Exited == phase = "exit" /\ UNCHANGED vars

Read == ReadMax \/ MaxFails \/ ReadRover \/ RoverFails \/ AllRead
Drive == Begin \/ Turn \/ Move \/ BadDirection \/ Arrive \/ Accept \/ OffPlateau \/ End

Next == Read \/ Drive \/ Exited

Spec == Init /\ [][Next]_vars

-----------------------------------------------------------------------------
\* The variables have their types; a rover that is not driven yet, whatever the
\* rovers before it did, is where its line of the file puts it, heads as the line
\* says, on the plateau, and has every letter of its route before it.
TypeOK ==
  /\ file \in Files /\ line \in 0..Len(file.rovers)
  /\ phase \in {"max", "rovers", "next", "drive", "check", "exit"} /\ code \in {0, 1}
  /\ rovers \in Seq([x : Int32, y : Int32, orient : Orient, dirs : Routes])
  /\ r \in 1..(Len(rovers) + 1) /\ trueX \in Int /\ trueY \in Int
  /\ \A k \in 1..Len(rovers) :
       k > r \/ (k = r /\ phase \in {"rovers", "next"})
         => /\ rovers[k].x = file.rovers[k].at.x /\ rovers[k].y = file.rovers[k].at.y
            /\ rovers[k].orient = file.rovers[k].at.orient
            /\ rovers[k].dirs = file.rovers[k].dirs
            /\ Within(rovers[k], file.max.x, file.max.y)

\* Overflow of an int hides nothing: whatever the plateau and the route, a rover
\* passes the test at its end (Driver.java:34) exactly if it is on the plateau.
TestIsExact ==
  phase = "check" => (OnPlateau <=> trueX \in 0..file.max.x /\ trueY \in 0..file.max.y)

\* Quarter turns clockwise from north.
Clock == [N |-> 0, E |-> 1, S |-> 2, W |-> 3]

\* How many of the first i directions are c.
Times(dirs, i, c) == Cardinality({k \in 1..i : dirs[k] = c})

\* Where a rover that starts at p heads after i directions, and how many of them
\* move it towards o.
Turned(p, dirs, i) == (Clock[p.orient] + Times(dirs, i, "R") - Times(dirs, i, "L")) % 4
Heading(p, dirs, i) == CHOOSE o \in Orient : Clock[o] = Turned(p, dirs, i)
Moves(p, dirs, i, o) ==
  Cardinality({k \in 1..i : dirs[k] = "M" /\ Heading(p, dirs, k) = o})

\* And where it is then.
XAfter(p, dirs, i) == p.x + Moves(p, dirs, i, "E") - Moves(p, dirs, i, "W")
YAfter(p, dirs, i) == p.y + Moves(p, dirs, i, "N") - Moves(p, dirs, i, "S")

\* Rovers keep to their own routes: each that has been driven stands where its own
\* place and route take it, computed at once, and heads as its turns say.
EndsWhereRouteLeads ==
  \A k \in 1..(r - 1) :
    LET p == file.rovers[k].at
        dirs == file.rovers[k].dirs
    IN  /\ rovers[k].x = XAfter(p, dirs, Len(dirs))
        /\ rovers[k].y = YAfter(p, dirs, Len(dirs))
        /\ rovers[k].orient = Heading(p, dirs, Len(dirs))

\* What a file deserves: 0 if it is empty or every place in it is good and every
\* route that is there is and ends on the plateau.
Good(k) ==
  LET p == file.rovers[k].at
      dirs == file.rovers[k].dirs
  IN  /\ PositionRead(p)
      /\ \/ file.noRoute /\ k = Len(file.rovers)
         \/ /\ \A i \in 1..Len(dirs) : dirs[i] # "?"
            /\ XAfter(p, dirs, Len(dirs)) \in 0..file.max.x
            /\ YAfter(p, dirs, Len(dirs)) \in 0..file.max.y

\* The exit code is 0 exactly for a file that deserves it, and a bad place anywhere
\* keeps every rover from being driven.
CodeTellsAll ==
  phase = "exit" =>
    /\ code = 0 <=> file.empty \/ (MaxRead /\ \A k \in 1..Len(file.rovers) : Good(k))
    /\ (\E k \in 1..Len(file.rovers) : MaxRead /\ ~PositionRead(file.rovers[k].at))
         => r = 1 /\ \A k \in 1..Len(rovers) : rovers[k].dirs = file.rovers[k].dirs
=============================================================================
