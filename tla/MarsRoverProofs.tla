--------------------------- MODULE MarsRoverProofs ---------------------------
(***************************************************************************)
(* For every width of int, every plateau and every route: the test at the  *)
(* end of a route tells whether the rover is on the plateau, although the  *)
(* coordinates it compares may have overflowed on the way.                 *)
(*                                                                         *)
(* The argument: a route is a list, so it has at most MaxInt directions,   *)
(* and a coordinate that starts in 0..MaxInt is less than a whole turn of  *)
(* the int away from the plateau when the route ends.  So a rover that     *)
(* passes stands where its letters, counted over the whole route, lead it, *)
(* and the exit code says of every file whether it was good.               *)
(***************************************************************************)
EXTENDS MarsRover, FiniteSetTheorems, TLAPS

LEMMA Width == HALF \in Nat /\ HALF > 0 /\ MaxInt = HALF - 1 /\ MaxInt \in Nat
BY WidthAssumption DEF MaxInt

\* Within one turn of the int, Wrap adds or takes away one turn.
LEMMA WrapOnce ==
  ASSUME NEW n \in Int, -HALF - 1 <= n, n <= HALF + MaxInt
  PROVE  Wrap(n) = IF n < -HALF THEN n + 2 * HALF
                   ELSE IF n < HALF THEN n ELSE n - 2 * HALF
<1>. DEFINE a == n + HALF
            m == 2 * HALF
<1>1. a \in Int /\ m \in Nat /\ m > 0 /\ a < m + m  BY Width
<1>2. CASE a < 0
  <2>1. a = -1 /\ m - 1 \in 0..(m - 1)  BY <1>1, <1>2, Width
  <2>2. (-1) % m = m - 1  BY <1>1
  <2>. QED  BY <2>1, <2>2, <1>2, Width DEF Wrap
<1>3. CASE 0 <= a /\ a < m
  <2>1. a % m = a  BY <1>1, <1>3
  <2>. QED  BY <2>1, <1>3, Width DEF Wrap
<1>4. CASE a >= m
  <2>1. a - m \in 0..(m - 1)  BY <1>1, <1>4
  <2>2. a % m = a - m  BY <1>1, <1>4, <2>1
  <2>. QED  BY <2>2, <1>4, Width DEF Wrap
<1>. QED  BY <1>1, <1>2, <1>3, <1>4

LEMMA WrapStep ==
  ASSUME NEW n \in Int, NEW d \in {-1, 0, 1},
         -MaxInt <= n, n <= MaxInt + MaxInt, -MaxInt <= n + d, n + d <= MaxInt + MaxInt
  PROVE  Wrap(Wrap(n) + d) = Wrap(n + d) /\ Wrap(n + d) \in Int32
<1>1. Wrap(n) = IF n < HALF THEN n ELSE n - 2 * HALF  BY WrapOnce, Width
<1>2. n + d \in Int /\ Wrap(n + d) = IF n + d < HALF THEN n + d ELSE n + d - 2 * HALF
  BY WrapOnce, Width
<1>3. Wrap(n + d) \in Int32  BY <1>2, Width DEF Int32
<1>. DEFINE w == Wrap(n) + d
<1>4. w \in Int /\ -HALF - 1 <= w /\ w <= HALF + MaxInt
  BY <1>1, Width
<1>. HIDE DEF w
<1>5. Wrap(w) = IF w < -HALF THEN w + 2 * HALF ELSE IF w < HALF THEN w ELSE w - 2 * HALF
  BY <1>4, WrapOnce
<1>6. Wrap(w) = Wrap(n + d)
  BY <1>1, <1>2, <1>5, Width DEF w
<1>. QED  BY <1>3, <1>6 DEF w

LEMMA NearStep ==
  ASSUME NEW n \in Int, NEW top \in 0..MaxInt, NEW len \in 1..MaxInt, NEW d \in {-1, 0, 1},
         -(MaxInt - len) <= n, n <= top + (MaxInt - len)
  PROVE  /\ -MaxInt <= n /\ n <= MaxInt + MaxInt
         /\ -MaxInt <= n + d /\ n + d <= MaxInt + MaxInt
         /\ -(MaxInt - (len - 1)) <= n + d /\ n + d <= top + (MaxInt - (len - 1))
BY Width

LEMMA RouteTail ==
  ASSUME NEW s \in Routes, s # <<>>
  PROVE  /\ Tail(s) \in Routes /\ Len(Tail(s)) = Len(s) - 1 /\ Len(s) \in Nat
         /\ Head(s) \in {"L", "R", "M", "?"}
BY Width DEF Routes

-----------------------------------------------------------------------------
(* The inductive invariant.                                                *)

\* The types, and that rovers not driven yet are on the plateau.
Shape ==
  /\ file \in Files /\ line \in 0..Len(file.rovers)
  /\ phase \in {"max", "rovers", "next", "drive", "check", "exit"} /\ code \in {0, 1}
  /\ rovers \in Seq([x : Int32, y : Int32, orient : Orient, dirs : Routes])
  /\ r \in 1..(Len(rovers) + 1) /\ trueX \in Int /\ trueY \in Int
  /\ \A k \in 1..Len(rovers) :
       k > r \/ (k = r /\ phase \in {"rovers", "next"})
         => Within(rovers[k], file.max.x, file.max.y)

\* A plateau has been read before any rover; reading is over before any drives.
Stages ==
  /\ phase \in {"rovers", "next", "drive", "check"} => ~file.empty /\ MaxRead
  /\ phase \in {"max", "rovers"} => r = 1
  /\ phase = "max" => rovers = <<>>
  /\ phase \in {"drive", "check"} => r <= Len(rovers)

\* How far one true coordinate may be from where it started, 0..top.
Near(n, top) ==
  LET used == MaxInt - Len(rovers[r].dirs) IN -used <= n /\ n <= top + used

\* The rover in hand has the true coordinates, wrapped.
Tracked ==
  phase \in {"drive", "check"} =>
    /\ rovers[r].x = Wrap(trueX) /\ Near(trueX, file.max.x)
    /\ rovers[r].y = Wrap(trueY) /\ Near(trueY, file.max.y)

\* At the end of the route, all of it is used.
Used == phase = "check" => rovers[r].dirs = <<>>

IInv == Shape /\ Stages /\ Tracked /\ Used

Rover == [x : Int32, y : Int32, orient : Orient, dirs : Routes]

LEMMA FileType ==
  ASSUME Shape
  PROVE  /\ file \in File /\ Len(file.rovers) \in Nat
         /\ \A k \in 1..Len(file.rovers) :
              /\ file.rovers[k].dirs \in Routes
              /\ PositionRead(file.rovers[k].at) =>
                   /\ file.rovers[k].at.x \in Int32 /\ file.rovers[k].at.y \in Int32
                   /\ file.rovers[k].at.orient \in Orient
         /\ MaxRead => file.max.x \in 0..MaxInt /\ file.max.y \in 0..MaxInt
<1>1. file \in File  BY FilesAssumption DEF Shape
<1>2. file.rovers \in Seq([at : Place \cup {Malformed}, dirs : Routes])
  BY <1>1 DEF File
<1>3. \A k \in 1..Len(file.rovers) :
        file.rovers[k].at \in Place \cup {Malformed} /\ file.rovers[k].dirs \in Routes
  <2>. DEFINE S == [at : Place \cup {Malformed}, dirs : Routes]
              q == file.rovers
  <2>1. q \in Seq(S)  BY <1>2
  <2>2. \A e \in S : e.at \in Place \cup {Malformed} /\ e.dirs \in Routes  OBVIOUS
  <2>. HIDE DEF S, q
  <2>3. \A k \in 1..Len(q) : q[k] \in S  BY <2>1
  <2>. QED  BY <2>2, <2>3 DEF q
<1>. QED  BY <1>1, <1>2, <1>3 DEF PositionRead, Place, MaxRead, Within

\* The rover in hand, changed and with a shorter route.
LEMMA OneRover ==
  ASSUME NEW rs \in Seq(Rover), NEW k \in 1..Len(rs), NEW e \in Rover, NEW rs2,
         rs2 = [rs EXCEPT ![k] = e]
  PROVE  /\ rs2 \in Seq(Rover) /\ Len(rs2) = Len(rs) /\ rs2[k] = e
         /\ \A j \in 1..Len(rs) : j # k => rs2[j] = rs[j]
<1>. DEFINE S == Rover
<1>1. rs \in Seq(S) /\ e \in S  OBVIOUS
<1>. HIDE DEF S
<1>2. /\ rs2 \in Seq(S) /\ Len(rs2) = Len(rs) /\ rs2[k] = e
      /\ \A j \in 1..Len(rs) : j # k => rs2[j] = rs[j]
  BY <1>1
<1>. QED  BY <1>2 DEF S

LEMMA InHand ==
  ASSUME Shape, Stages, phase \in {"drive", "check"}
  PROVE  /\ r \in 1..Len(rovers) /\ rovers \in Seq(Rover) /\ rovers[r] \in Rover
         /\ rovers[r].dirs \in Routes /\ rovers[r].orient \in Orient
         /\ rovers[r].x \in Int32 /\ rovers[r].y \in Int32
         /\ file.max.x \in 0..MaxInt /\ file.max.y \in 0..MaxInt
<1>1. r \in 1..Len(rovers) /\ rovers \in Seq(Rover)
  BY DEF Shape, Stages, Rover
<1>2. rovers[r] \in Rover
  <2>. DEFINE S == Rover
  <2>1. rovers \in Seq(S)  BY <1>1
  <2>. HIDE DEF S
  <2>2. rovers[r] \in S  BY <2>1, <1>1
  <2>. QED  BY <2>2 DEF S
<1>3. file.max.x \in 0..MaxInt /\ file.max.y \in 0..MaxInt
  BY FileType DEF Stages
<1>. QED  BY <1>1, <1>2, <1>3 DEF Rover

-----------------------------------------------------------------------------
(* The steps.                                                              *)

LEMMA Start == Init => IInv
<1>. SUFFICES ASSUME Init PROVE IInv  OBVIOUS
<1>1. file \in File  BY FilesAssumption DEF Init
<1>2. Len(file.rovers) \in Nat  BY <1>1 DEF File
<1>3. rovers \in Seq(Rover) /\ Len(rovers) = 0  BY DEF Init
<1>4. Shape  BY <1>2, <1>3 DEF Init, Shape, Rover
<1>. QED  BY <1>4 DEF Init, IInv, Stages, Tracked, Used

LEMMA ExitStep == \A c \in {0, 1} : IInv /\ Exit(c) => IInv'
<1>. SUFFICES ASSUME NEW c \in {0, 1}, IInv, Exit(c) PROVE IInv'  OBVIOUS
<1>1. Shape'
  BY DEF IInv, Shape, Exit
<1>. QED  BY <1>1 DEF IInv, Exit, Stages, Tracked, Used

LEMMA ReadMaxStep == IInv /\ ReadMax => IInv'
<1>. SUFFICES ASSUME IInv, ReadMax PROVE IInv'  OBVIOUS
<1>1. Shape'
  BY DEF IInv, Shape, Stages, ReadMax
<1>2. Stages' /\ Tracked' /\ Used'
  BY DEF IInv, Stages, Tracked, Used, ReadMax, MaxRead
<1>. QED  BY <1>1, <1>2 DEF IInv

LEMMA ReadRoverStep == IInv /\ ReadRover => IInv'
<1>. SUFFICES ASSUME IInv, ReadRover PROVE IInv'  OBVIOUS
<1>. DEFINE p == file.rovers[line + 1].at
            e == [x |-> p.x, y |-> p.y, orient |-> p.orient,
                  dirs |-> file.rovers[line + 1].dirs]
<1>1. /\ line + 1 \in 1..Len(file.rovers) /\ line + 1 \in 0..Len(file.rovers)
      /\ Len(file.rovers) \in Nat
  BY FileType DEF IInv, Shape, ReadRover
<1>2. /\ rovers \in Seq(Rover) /\ Len(rovers) \in Nat /\ r = 1
  <2>1. rovers \in Seq(Rover)  BY DEF IInv, Shape, Rover
  <2>. QED  BY <2>1 DEF IInv, Stages, ReadRover
<1>3. PositionRead(p)  BY DEF ReadRover
<1>4. e \in Rover /\ Within(e, file.max.x, file.max.y)
  <2>1. /\ p.x \in Int32 /\ p.y \in Int32 /\ p.orient \in Orient
        /\ file.rovers[line + 1].dirs \in Routes
    BY <1>1, <1>3, FileType DEF IInv
  <2>2. Within(p, file.max.x, file.max.y)  BY <1>3 DEF PositionRead
  <2>. QED  BY <2>1, <2>2 DEF Rover, Within
<1>5. CASE RouteMissing
  <2>1. Shape'
    BY <1>1, <1>5 DEF IInv, Shape, ReadRover
  <2>. QED  BY <2>1, <1>5 DEF IInv, Stages, Tracked, Used, ReadRover, MaxRead
<1>6. CASE ~RouteMissing
  <2>1. rovers' = Append(rovers, e)  BY <1>6 DEF ReadRover, Landed
  <2>. HIDE DEF e
  <2>2. /\ rovers' \in Seq(Rover) /\ Len(rovers') = Len(rovers) + 1
        /\ \A k \in 1..Len(rovers) : rovers'[k] = rovers[k]
        /\ rovers'[Len(rovers) + 1] = e
    <3>. DEFINE S == Rover
    <3>1. rovers \in Seq(S) /\ e \in S  BY <1>2, <1>4
    <3>. HIDE DEF S
    <3>2. /\ rovers' \in Seq(S) /\ Len(rovers') = Len(rovers) + 1
          /\ \A k \in 1..Len(rovers) : rovers'[k] = rovers[k]
          /\ rovers'[Len(rovers) + 1] = e
      BY <2>1, <3>1
    <3>. QED  BY <3>2 DEF S
  <2>3. \A k \in 1..Len(rovers') : Within(rovers'[k], file.max.x, file.max.y)
    <3>1. \A k \in 1..Len(rovers) : Within(rovers[k], file.max.x, file.max.y)
      BY <1>2 DEF IInv, Shape, ReadRover
    <3>. QED  BY <3>1, <2>2, <1>2, <1>4
  <2>4. Shape'
    BY <1>1, <1>2, <2>2, <2>3 DEF IInv, Shape, ReadRover, Rover
  <2>. QED  BY <2>4 DEF IInv, Stages, Tracked, Used, ReadRover, MaxRead
<1>. QED  BY <1>5, <1>6

LEMMA AllReadStep == IInv /\ AllRead => IInv'
<1>. SUFFICES ASSUME IInv, AllRead PROVE IInv'  OBVIOUS
<1>1. Shape'
  BY DEF IInv, Shape, Stages, AllRead
<1>. QED  BY <1>1 DEF IInv, Stages, Tracked, Used, AllRead, MaxRead

LEMMA BeginStep == IInv /\ Begin => IInv'
<1>. SUFFICES ASSUME IInv, Begin PROVE IInv'  OBVIOUS
<1>1. /\ r \in 1..Len(rovers) /\ rovers \in Seq(Rover)
      /\ Within(rovers[r], file.max.x, file.max.y)
  BY DEF IInv, Shape, Begin, Rover
<1>2. rovers[r] \in Rover
  <2>. DEFINE S == Rover
  <2>1. rovers \in Seq(S)  BY <1>1
  <2>. HIDE DEF S
  <2>2. rovers[r] \in S  BY <2>1, <1>1
  <2>. QED  BY <2>2 DEF S
<1>3. file.max.x \in 0..MaxInt /\ file.max.y \in 0..MaxInt
  BY FileType DEF IInv, Stages, Begin
<1>4. /\ rovers[r].x \in 0..file.max.x /\ rovers[r].y \in 0..file.max.y
      /\ Len(rovers[r].dirs) \in 0..MaxInt
  BY <1>1, <1>2, Width DEF Within, Rover, Routes
<1>5. Wrap(rovers[r].x) = rovers[r].x /\ Wrap(rovers[r].y) = rovers[r].y
  BY <1>3, <1>4, WrapOnce, Width
<1>6. Shape'
  BY <1>4 DEF IInv, Shape, Begin
<1>7. Tracked'
  <2>1. /\ r' = r /\ rovers' = rovers /\ file' = file
        /\ trueX' = rovers[r].x /\ trueY' = rovers[r].y
    BY DEF Begin
  <2>. DEFINE used == MaxInt - Len(rovers[r].dirs)
  <2>2. used \in Nat  BY <1>4, Width
  <2>. HIDE DEF used
  <2>3. /\ -used <= rovers[r].x /\ rovers[r].x <= file.max.x + used
        /\ -used <= rovers[r].y /\ rovers[r].y <= file.max.y + used
    BY <1>3, <1>4, <2>2, Width
  <2>4. Near(trueX, file.max.x)' /\ Near(trueY, file.max.y)'
    BY <2>1, <2>3 DEF Near, used
  <2>. QED  BY <2>1, <2>4, <1>5 DEF Tracked, Wrap
<1>. QED  BY <1>1, <1>6, <1>7 DEF IInv, Stages, Used, Begin, MaxRead

LEMMA TurnStep == IInv /\ Turn => IInv'
<1>. SUFFICES ASSUME IInv, Turn PROVE IInv'  OBVIOUS
<1>. DEFINE old == rovers[r]
            o == IF Direction = "L" THEN Left[old.orient] ELSE Right[old.orient]
            e == [old EXCEPT !.dirs = Tail(old.dirs), !.orient = o]
<1>1. /\ r \in 1..Len(rovers) /\ rovers \in Seq(Rover) /\ old \in Rover
      /\ old.dirs \in Routes /\ old.orient \in Orient /\ old.dirs # <<>>
  BY InHand DEF IInv, Turn
<1>2. Tail(old.dirs) \in Routes /\ Len(Tail(old.dirs)) = Len(old.dirs) - 1 /\ Len(old.dirs) \in Nat
  BY <1>1, RouteTail
<1>3. o \in Orient
  BY <1>1 DEF Left, Right, Orient
<1>4. /\ e \in Rover /\ e.x = old.x /\ e.y = old.y /\ e.dirs = Tail(old.dirs)
  BY <1>1, <1>2, <1>3 DEF Rover
<1>5. rovers' = [rovers EXCEPT ![r] = e]
  BY <1>1 DEF Turn, Rover
<1>. HIDE DEF e
<1>6. /\ rovers' \in Seq(Rover) /\ Len(rovers') = Len(rovers) /\ rovers'[r] = e
      /\ \A k \in 1..Len(rovers) : k # r => rovers'[k] = rovers[k]
  BY <1>1, <1>4, <1>5, OneRover
<1>7. Shape'
  BY <1>1, <1>6 DEF IInv, Shape, Turn, Rover
<1>8. Tracked'
  <2>1. r' = r /\ trueX' = trueX /\ trueY' = trueY /\ file' = file /\ phase' = phase
    BY DEF Turn
  <2>2. Near(trueX, file.max.x)' /\ Near(trueY, file.max.y)'
    <3>1. Near(trueX, file.max.x) /\ Near(trueY, file.max.y)
      BY DEF IInv, Tracked, Turn
    <3>2. /\ trueX \in Int /\ trueY \in Int
          /\ file.max.x \in 0..MaxInt /\ file.max.y \in 0..MaxInt
      BY InHand DEF IInv, Shape, Turn
    <3>3. Len(rovers'[r'].dirs) = Len(old.dirs) - 1
      <4>1. rovers'[r'].dirs = Tail(old.dirs)  BY <1>4, <1>6, <2>1
      <4>. QED  BY <4>1, <1>2
    <3>. DEFINE len == Len(old.dirs)
    <3>4. len \in 1..MaxInt  BY <1>1, <1>2 DEF Routes
    <3>5. /\ -(MaxInt - len) <= trueX /\ trueX <= file.max.x + (MaxInt - len)
          /\ -(MaxInt - len) <= trueY /\ trueY <= file.max.y + (MaxInt - len)
      BY <3>1 DEF Near
    <3>. HIDE DEF len
    <3>6. /\ -(MaxInt - (len - 1)) <= trueX + 0 /\ trueX + 0 <= file.max.x + (MaxInt - (len - 1))
          /\ -(MaxInt - (len - 1)) <= trueY + 0 /\ trueY + 0 <= file.max.y + (MaxInt - (len - 1))
      BY <3>2, <3>4, <3>5, NearStep
    <3>. QED  BY <2>1, <3>2, <3>3, <3>6 DEF Near, len
  <2>. QED  BY <2>1, <2>2, <1>4, <1>6 DEF IInv, Tracked, Turn, Wrap
<1>. QED  BY <1>1, <1>6, <1>7, <1>8 DEF IInv, Stages, Used, Turn, MaxRead

LEMMA MoveStep == IInv /\ Move => IInv'
<1>. SUFFICES ASSUME IInv, Move PROVE IInv'  OBVIOUS
<1>. DEFINE old == rovers[r]
            dx == East(old.orient)
            dy == North(old.orient)
            e == [old EXCEPT !.dirs = Tail(old.dirs),
                             !.x = Wrap(old.x + dx), !.y = Wrap(old.y + dy)]
<1>1. /\ r \in 1..Len(rovers) /\ rovers \in Seq(Rover) /\ old \in Rover
      /\ old.dirs \in Routes /\ old.orient \in Orient /\ old.dirs # <<>>
      /\ file.max.x \in 0..MaxInt /\ file.max.y \in 0..MaxInt
  BY InHand DEF IInv, Move
<1>2. Tail(old.dirs) \in Routes /\ Len(Tail(old.dirs)) = Len(old.dirs) - 1 /\ Len(old.dirs) \in Nat
  BY <1>1, RouteTail
<1>3. dx \in {-1, 0, 1} /\ dy \in {-1, 0, 1}
  BY DEF East, North
<1>4. /\ old.x = Wrap(trueX) /\ old.y = Wrap(trueY) /\ trueX \in Int /\ trueY \in Int
      /\ Near(trueX, file.max.x) /\ Near(trueY, file.max.y)
  BY DEF IInv, Shape, Tracked, Move
<1>. HIDE DEF dx, dy
<1>n. /\ -MaxInt <= trueX /\ trueX <= MaxInt + MaxInt
      /\ -MaxInt <= trueX + dx /\ trueX + dx <= MaxInt + MaxInt
      /\ -MaxInt <= trueY /\ trueY <= MaxInt + MaxInt
      /\ -MaxInt <= trueY + dy /\ trueY + dy <= MaxInt + MaxInt
      /\ LET used == MaxInt - (Len(old.dirs) - 1)
         IN  /\ -used <= trueX + dx /\ trueX + dx <= file.max.x + used
             /\ -used <= trueY + dy /\ trueY + dy <= file.max.y + used
  <2>. DEFINE len == Len(old.dirs)
  <2>1. len \in 1..MaxInt
    BY <1>1, <1>2 DEF Routes
  <2>2. /\ -(MaxInt - len) <= trueX /\ trueX <= file.max.x + (MaxInt - len)
        /\ -(MaxInt - len) <= trueY /\ trueY <= file.max.y + (MaxInt - len)
    BY <1>4 DEF Near
  <2>. HIDE DEF len
  <2>3. /\ -MaxInt <= trueX /\ trueX <= MaxInt + MaxInt
        /\ -MaxInt <= trueX + dx /\ trueX + dx <= MaxInt + MaxInt
        /\ -(MaxInt - (len - 1)) <= trueX + dx /\ trueX + dx <= file.max.x + (MaxInt - (len - 1))
    BY <2>1, <2>2, <1>1, <1>3, <1>4, NearStep
  <2>4. /\ -MaxInt <= trueY /\ trueY <= MaxInt + MaxInt
        /\ -MaxInt <= trueY + dy /\ trueY + dy <= MaxInt + MaxInt
        /\ -(MaxInt - (len - 1)) <= trueY + dy /\ trueY + dy <= file.max.y + (MaxInt - (len - 1))
    BY <2>1, <2>2, <1>1, <1>3, <1>4, NearStep
  <2>. QED  BY <2>3, <2>4 DEF len
<1>5. /\ Wrap(old.x + dx) = Wrap(trueX + dx) /\ Wrap(old.x + dx) \in Int32
      /\ Wrap(old.y + dy) = Wrap(trueY + dy) /\ Wrap(old.y + dy) \in Int32
  <2>. QED  BY <1>n, <1>3, <1>4, WrapStep
<1>6. /\ e \in Rover /\ e.dirs = Tail(old.dirs)
      /\ e.x = Wrap(trueX + dx) /\ e.y = Wrap(trueY + dy)
  BY <1>1, <1>2, <1>5 DEF Rover
<1>7. rovers' = [rovers EXCEPT ![r] = e]
  BY <1>1 DEF Move, Rover, dx, dy
<1>. HIDE DEF e
<1>8. /\ rovers' \in Seq(Rover) /\ Len(rovers') = Len(rovers) /\ rovers'[r] = e
      /\ \A k \in 1..Len(rovers) : k # r => rovers'[k] = rovers[k]
  BY <1>1, <1>6, <1>7, OneRover
<1>9. /\ r' = r /\ trueX' = trueX + dx /\ trueY' = trueY + dy
      /\ file' = file /\ phase' = phase /\ phase = "drive"
  BY DEF Move, dx, dy
<1>10. Shape'
  <2>1. trueX' \in Int /\ trueY' \in Int  BY <1>3, <1>4, <1>9
  <2>. QED  BY <2>1, <1>1, <1>8, <1>9 DEF IInv, Shape, Move, Rover
<1>11. Tracked'
  <2>1. Near(trueX, file.max.x)' /\ Near(trueY, file.max.y)'
    <3>1. r' = r /\ rovers'[r].dirs = Tail(old.dirs) /\ Len(Tail(old.dirs)) = Len(old.dirs) - 1
      BY <1>2, <1>6, <1>8, <1>9
    <3>2. Len(rovers'[r'].dirs) = Len(old.dirs) - 1  BY <3>1
    <3>. QED  BY <1>n, <1>9, <3>2 DEF Near
  <2>2. rovers'[r'].x = Wrap(trueX') /\ rovers'[r'].y = Wrap(trueY')
    BY <1>6, <1>8, <1>9
  <2>. QED  BY <2>1, <2>2 DEF Tracked, Wrap
<1>. QED  BY <1>1, <1>8, <1>9, <1>10, <1>11 DEF IInv, Stages, Used, Move, MaxRead

LEMMA ArriveStep == IInv /\ Arrive => IInv'
<1>. SUFFICES ASSUME IInv, Arrive PROVE IInv'  OBVIOUS
<1>1. Shape'
  BY DEF IInv, Shape, Arrive
<1>. QED  BY <1>1 DEF IInv, Stages, Tracked, Near, Wrap, Used, Arrive, MaxRead

LEMMA AcceptStep == IInv /\ Accept => IInv'
<1>. SUFFICES ASSUME IInv, Accept PROVE IInv'  OBVIOUS
<1>1. r \in 1..Len(rovers)  BY InHand DEF IInv, Accept
<1>2. Shape'
  BY <1>1 DEF IInv, Shape, Accept
<1>. QED  BY <1>2 DEF IInv, Stages, Tracked, Used, Accept, MaxRead

LEMMA Inductive == IInv /\ [Next]_vars => IInv'
<1>. SUFFICES ASSUME IInv, [Next]_vars PROVE IInv'  OBVIOUS
<1>1. CASE UNCHANGED vars
  BY <1>1 DEF vars, IInv, Shape, Stages, Tracked, Near, Wrap, Used, MaxRead
<1>2. CASE MaxFails \/ RoverFails \/ End \/ BadDirection \/ OffPlateau
  BY <1>2, ExitStep DEF MaxFails, RoverFails, End, BadDirection, OffPlateau
<1>. QED
  BY <1>1, <1>2, ReadMaxStep, ReadRoverStep, AllReadStep, BeginStep, TurnStep, MoveStep,
     ArriveStep, AcceptStep DEF Next, Read, Drive, Exited

\* At the end of a route the test is about the true coordinates.
LEMMA Exact == IInv => TestIsExact
<1>. SUFFICES ASSUME IInv, phase = "check"
              PROVE  OnPlateau <=> trueX \in 0..file.max.x /\ trueY \in 0..file.max.y
  BY DEF TestIsExact
<1>1. /\ rovers[r].x = Wrap(trueX) /\ rovers[r].y = Wrap(trueY)
      /\ Near(trueX, file.max.x) /\ Near(trueY, file.max.y)
      /\ rovers[r].dirs = <<>> /\ trueX \in Int /\ trueY \in Int
  BY DEF IInv, Shape, Tracked, Used
<1>2. file.max.x \in 0..MaxInt /\ file.max.y \in 0..MaxInt
  BY InHand DEF IInv
<1>3. /\ -MaxInt <= trueX /\ trueX <= file.max.x + MaxInt
      /\ -MaxInt <= trueY /\ trueY <= file.max.y + MaxInt
  <2>1. Len(rovers[r].dirs) = 0  BY <1>1
  <2>. QED  BY <1>1, <1>2, <2>1, Width DEF Near
<1>4. /\ Wrap(trueX) = IF trueX < HALF THEN trueX ELSE trueX - 2 * HALF
      /\ Wrap(trueY) = IF trueY < HALF THEN trueY ELSE trueY - 2 * HALF
  BY <1>1, <1>2, <1>3, WrapOnce, Width
<1>. QED  BY <1>1, <1>2, <1>3, <1>4, Width DEF OnPlateau, Within

-----------------------------------------------------------------------------
(* Where a route leads: what one more direction adds.                      *)

\* One more number to count among.
LEMMA CountNext ==
  ASSUME NEW S, NEW n \in Nat
  PROVE  /\ Cardinality(S \cap 1..n) \in Nat
         /\ Cardinality(S \cap 1..(n + 1)) =
              Cardinality(S \cap 1..n) + IF n + 1 \in S THEN 1 ELSE 0
<1>1. IsFiniteSet(S \cap 1..n)
  <2>1. IsFiniteSet(1..n) /\ S \cap 1..n \subseteq 1..n
    BY FS_Interval
  <2>. QED  BY <2>1, FS_Subset
<1>2. n + 1 \notin S \cap 1..n
  OBVIOUS
<1>3. Cardinality(S \cap 1..n) \in Nat
  BY <1>1, FS_CardinalityType
<1>4. CASE n + 1 \in S
  <2>1. S \cap 1..(n + 1) = (S \cap 1..n) \cup {n + 1}
    BY <1>4
  <2>. QED  BY <1>1, <1>2, <1>3, <1>4, <2>1, FS_AddElement
<1>5. CASE n + 1 \notin S
  <2>1. S \cap 1..(n + 1) = S \cap 1..n
    BY <1>5
  <2>. QED  BY <1>3, <1>5, <2>1
<1>. QED  BY <1>3, <1>4, <1>5

LEMMA TimesNext ==
  ASSUME NEW dirs, NEW n \in Nat, NEW c
  PROVE  /\ Times(dirs, n, c) \in Nat /\ Times(dirs, 0, c) = 0
         /\ Times(dirs, n + 1, c) = Times(dirs, n, c) + IF dirs[n + 1] = c THEN 1 ELSE 0
<1>. DEFINE S == {k \in Nat : k > 0 /\ dirs[k] = c}
<1>1. \A m \in Nat : {k \in 1..m : dirs[k] = c} = S \cap 1..m
  OBVIOUS
<1>2. n + 1 \in S <=> dirs[n + 1] = c
  OBVIOUS
<1>. HIDE DEF S
<1>3. Times(dirs, n, c) = Cardinality(S \cap 1..n)
      /\ Times(dirs, n + 1, c) = Cardinality(S \cap 1..(n + 1))
  BY <1>1 DEF Times
<1>4. Times(dirs, 0, c) = 0
  <2>1. {k \in 1..0 : dirs[k] = c} = {}  OBVIOUS
  <2>. QED  BY <2>1, FS_EmptySet DEF Times
<1>. QED  BY <1>2, <1>3, <1>4, CountNext

LEMMA MovesNext ==
  ASSUME NEW p, NEW dirs, NEW n \in Nat, NEW o
  PROVE  /\ Moves(p, dirs, n, o) \in Nat /\ Moves(p, dirs, 0, o) = 0
         /\ Moves(p, dirs, n + 1, o) =
              Moves(p, dirs, n, o)
                + IF dirs[n + 1] = "M" /\ Heading(p, dirs, n + 1) = o THEN 1 ELSE 0
<1>. DEFINE S == {k \in Nat : k > 0 /\ dirs[k] = "M" /\ Heading(p, dirs, k) = o}
<1>1. \A m \in Nat : {k \in 1..m : dirs[k] = "M" /\ Heading(p, dirs, k) = o} = S \cap 1..m
  OBVIOUS
<1>2. n + 1 \in S <=> dirs[n + 1] = "M" /\ Heading(p, dirs, n + 1) = o
  OBVIOUS
<1>. HIDE DEF S
<1>3. Moves(p, dirs, n, o) = Cardinality(S \cap 1..n)
      /\ Moves(p, dirs, n + 1, o) = Cardinality(S \cap 1..(n + 1))
  BY <1>1 DEF Moves
<1>4. Moves(p, dirs, 0, o) = 0
  <2>1. {k \in 1..0 : dirs[k] = "M" /\ Heading(p, dirs, k) = o} = {}  OBVIOUS
  <2>. QED  BY <2>1, FS_EmptySet DEF Moves
<1>. QED  BY <1>2, <1>3, <1>4, CountNext

\* The place of the hand on the clock tells the heading.
LEMMA HeadingIs ==
  ASSUME NEW p, NEW dirs, NEW n, NEW o \in Orient, Clock[o] = Turned(p, dirs, n)
  PROVE  Heading(p, dirs, n) = o
<1>1. \A q \in Orient : Clock[q] = Clock[o] => q = o
  BY DEF Clock, Orient
<1>. QED  BY <1>1 DEF Heading

LEMMA ClockRange == \A o \in Orient : Clock[o] \in 0..3
BY DEF Clock, Orient

\* One quarter turn more, or less, on the clock.
LEMMA QuarterTurn ==
  ASSUME NEW n \in Int, NEW c \in 0..3, c = n % 4
  PROVE  (n + 1) % 4 = (IF c = 3 THEN 0 ELSE c + 1) /\ (n - 1) % 4 = (IF c = 0 THEN 3 ELSE c - 1)
OBVIOUS

\* At the start nothing is turned or moved.
LEMMA AtStart ==
  ASSUME NEW p, NEW dirs, p.orient \in Orient, p.x \in Int, p.y \in Int
  PROVE  /\ Turned(p, dirs, 0) = Clock[p.orient]
         /\ XAfter(p, dirs, 0) = p.x /\ YAfter(p, dirs, 0) = p.y
<1>1. \A c \in {"L", "R"} : Times(dirs, 0, c) = 0
  BY TimesNext
<1>2. \A o \in Orient : Moves(p, dirs, 0, o) = 0
  BY MovesNext
<1>3. Clock[p.orient] \in 0..3
  BY ClockRange
<1>4. Turned(p, dirs, 0) = Clock[p.orient]
  BY <1>1, <1>3 DEF Turned
<1>. QED  BY <1>2, <1>4 DEF XAfter, YAfter, Orient

\* A turn takes the hand on, and moves nothing.
LEMMA AfterTurn ==
  ASSUME NEW p, NEW dirs, NEW n \in Nat, NEW o \in Orient,
         p.orient \in Orient, p.x \in Int, p.y \in Int,
         dirs[n + 1] \in {"L", "R"}, Clock[o] = Turned(p, dirs, n)
  PROVE  /\ Clock[IF dirs[n + 1] = "L" THEN Left[o] ELSE Right[o]] = Turned(p, dirs, n + 1)
         /\ XAfter(p, dirs, n + 1) = XAfter(p, dirs, n)
         /\ YAfter(p, dirs, n + 1) = YAfter(p, dirs, n)
<1>1. /\ Times(dirs, n, "L") \in Nat /\ Times(dirs, n, "R") \in Nat
      /\ Times(dirs, n + 1, "L") = Times(dirs, n, "L") + IF dirs[n + 1] = "L" THEN 1 ELSE 0
      /\ Times(dirs, n + 1, "R") = Times(dirs, n, "R") + IF dirs[n + 1] = "R" THEN 1 ELSE 0
  BY TimesNext
<1>2. Clock[p.orient] \in 0..3 /\ Clock[o] \in 0..3
  BY ClockRange
<1>. DEFINE m == Clock[p.orient] + Times(dirs, n, "R") - Times(dirs, n, "L")
<1>3. m \in Int /\ Clock[o] = m % 4
  BY <1>1, <1>2 DEF Turned
<1>4. Turned(p, dirs, n + 1) = IF dirs[n + 1] = "L" THEN (m - 1) % 4 ELSE (m + 1) % 4
  <2>1. CASE dirs[n + 1] = "L"
    <3>1. Clock[p.orient] + Times(dirs, n + 1, "R") - Times(dirs, n + 1, "L") = m - 1
      BY <2>1, <1>1, <1>2
    <3>. QED  BY <2>1, <3>1 DEF Turned
  <2>2. CASE dirs[n + 1] = "R"
    <3>1. Clock[p.orient] + Times(dirs, n + 1, "R") - Times(dirs, n + 1, "L") = m + 1
      BY <2>2, <1>1, <1>2
    <3>. QED  BY <2>2, <3>1 DEF Turned
  <2>. QED  BY <2>1, <2>2
<1>. HIDE DEF m
<1>5. /\ (m + 1) % 4 = IF Clock[o] = 3 THEN 0 ELSE Clock[o] + 1
      /\ (m - 1) % 4 = IF Clock[o] = 0 THEN 3 ELSE Clock[o] - 1
  BY <1>2, <1>3, QuarterTurn
<1>6. /\ Clock[Right[o]] = IF Clock[o] = 3 THEN 0 ELSE Clock[o] + 1
      /\ Clock[Left[o]] = IF Clock[o] = 0 THEN 3 ELSE Clock[o] - 1
  BY DEF Clock, Left, Right, Orient
<1>7. Clock[IF dirs[n + 1] = "L" THEN Left[o] ELSE Right[o]] = Turned(p, dirs, n + 1)
  BY <1>4, <1>5, <1>6
<1>8. \A q \in Orient : Moves(p, dirs, n + 1, q) = Moves(p, dirs, n, q)
  BY MovesNext
<1>. QED  BY <1>7, <1>8 DEF XAfter, YAfter, Orient

\* A move goes where the rover heads, and turns nothing.
LEMMA AfterMove ==
  ASSUME NEW p, NEW dirs, NEW n \in Nat, NEW o \in Orient,
         p.orient \in Orient, p.x \in Int, p.y \in Int,
         dirs[n + 1] = "M", Clock[o] = Turned(p, dirs, n)
  PROVE  /\ Clock[o] = Turned(p, dirs, n + 1)
         /\ XAfter(p, dirs, n + 1) = XAfter(p, dirs, n) + East(o)
         /\ YAfter(p, dirs, n + 1) = YAfter(p, dirs, n) + North(o)
<1>1. \A c \in {"L", "R"} :
        Times(dirs, n + 1, c) = Times(dirs, n, c) /\ Times(dirs, n, c) \in Nat
  BY TimesNext
<1>2. Clock[o] = Turned(p, dirs, n + 1)
  BY <1>1 DEF Turned
<1>3. Heading(p, dirs, n + 1) = o
  BY <1>2, HeadingIs
<1>4. \A q \in Orient :
        /\ Moves(p, dirs, n, q) \in Nat
        /\ Moves(p, dirs, n + 1, q) = Moves(p, dirs, n, q) + IF o = q THEN 1 ELSE 0
  BY <1>3, MovesNext
<1>5. /\ "N" \in Orient /\ "E" \in Orient /\ "S" \in Orient /\ "W" \in Orient
      /\ o = "N" \/ o = "E" \/ o = "S" \/ o = "W"
  BY DEF Orient
<1>6. XAfter(p, dirs, n + 1) = XAfter(p, dirs, n) + East(o)
  BY <1>4, <1>5 DEF XAfter, East
<1>7. YAfter(p, dirs, n + 1) = YAfter(p, dirs, n) + North(o)
  BY <1>4, <1>5 DEF YAfter, North
<1>. QED  BY <1>2, <1>6, <1>7

-----------------------------------------------------------------------------
(* The file, and what has become of it.                                    *)

At(k) == file.rovers[k].at
Dirs(k) == file.rovers[k].dirs

\* Rover k is as the file has it.
AsRead(k) ==
  rovers[k] = [x |-> At(k).x, y |-> At(k).y, orient |-> At(k).orient, dirs |-> Dirs(k)]

Undriven(k) ==
  k > r \/ (k = r /\ (phase \in {"max", "rovers", "next"} \/ line < Len(file.rovers)))

\* The rovers are those of the lines read, in their order.
Copied ==
  /\ phase \in {"next", "drive", "check"} => line = Len(file.rovers)
  /\ \A k \in 1..line : PositionRead(At(k))
  /\ Len(rovers) = IF file.noRoute /\ line > 0 /\ line = Len(file.rovers)
                   THEN line - 1 ELSE line
  /\ \A k \in 1..Len(rovers) : Undriven(k) => AsRead(k)

\* Directions the rover in hand has taken.
Taken == Len(Dirs(r)) - Len(rovers[r].dirs)

\* It has the rest of its route before it, and is where the first part leads.
OnRoute ==
  phase \in {"drive", "check"} =>
    /\ Taken \in Nat
    /\ \A i \in 1..Len(rovers[r].dirs) : rovers[r].dirs[i] = Dirs(r)[Taken + i]
    /\ \A i \in 1..Taken : Dirs(r)[i] # "?"
    /\ Clock[rovers[r].orient] = Turned(At(r), Dirs(r), Taken)
    /\ trueX = XAfter(At(r), Dirs(r), Taken) /\ trueY = YAfter(At(r), Dirs(r), Taken)

\* The rovers driven were accepted.
GoodSoFar == \A k \in 1..(r - 1) : Good(k)

RouteInv == IInv /\ Copied /\ OnRoute /\ EndsWhereRouteLeads /\ GoodSoFar /\ CodeTellsAll

\* Rovers in the list have their line, and it has a good place and a route.
LEMMA LineOf ==
  ASSUME IInv, Copied, NEW k \in 1..Len(rovers)
  PROVE  /\ k \in 1..line /\ k \in 1..Len(file.rovers) /\ PositionRead(At(k))
         /\ At(k).x \in Int /\ At(k).y \in Int /\ At(k).orient \in Orient
         /\ Dirs(k) \in Routes /\ Len(Dirs(k)) \in Nat
         /\ ~(file.noRoute /\ k = Len(file.rovers))
<1>1. /\ Len(file.rovers) \in Nat /\ line \in 0..Len(file.rovers)
      /\ Len(rovers) \in Nat
  BY FileType DEF IInv, Shape
<1>2. k \in 1..line /\ k \in 1..Len(file.rovers) /\ PositionRead(At(k))
      /\ ~(file.noRoute /\ k = Len(file.rovers))
  BY <1>1 DEF Copied
<1>3. /\ Dirs(k) \in Routes /\ At(k).x \in Int32 /\ At(k).y \in Int32
      /\ At(k).orient \in Orient
  BY <1>2, FileType DEF IInv, At, Dirs
<1>4. Int32 \subseteq Int  BY Width DEF Int32
<1>5. Len(Dirs(k)) \in Nat  BY <1>3 DEF Routes
<1>. QED  BY <1>2, <1>3, <1>4, <1>5

\* What holds of a file holds while it is the file.
LEMMA SameFile ==
  file' = file => /\ \A k : At(k)' = At(k) /\ Dirs(k)' = Dirs(k)
                  /\ \A k : Good(k)' <=> Good(k)
                  /\ MaxRead' <=> MaxRead
                  /\ \A p : PositionRead(p)' <=> PositionRead(p)
BY DEF At, Dirs, Good, MaxRead, PositionRead, Within, XAfter, YAfter

LEMMA RouteStart == Init => RouteInv
<1>. SUFFICES ASSUME Init PROVE RouteInv  OBVIOUS
<1>1. IInv  BY Start
<1>2. r = 1 /\ line = 0 /\ phase = "max" /\ Len(rovers) = 0  BY DEF Init
<1>3. 1..(r - 1) = {} /\ 1..line = {} /\ 1..Len(rovers) = {}  BY <1>2
<1>. QED
  BY <1>1, <1>2, <1>3 DEF RouteInv, Copied, OnRoute, EndsWhereRouteLeads, GoodSoFar, CodeTellsAll

-----------------------------------------------------------------------------
(* The steps.                                                              *)

\* Where the file and the rovers driven stay as they are, so do their ends.
LEMMA DrivenStay ==
  ASSUME RouteInv, file' = file, r' = r, rovers' \in Seq(Rover),
         \A k \in 1..(r - 1) : rovers'[k] = rovers[k]
  PROVE  EndsWhereRouteLeads' /\ GoodSoFar'
<1>1. GoodSoFar'
  BY SameFile DEF RouteInv, GoodSoFar
<1>2. EndsWhereRouteLeads'
  BY DEF RouteInv, EndsWhereRouteLeads, XAfter, YAfter
<1>. QED  BY <1>1, <1>2

LEMMA RouteReadRover == RouteInv /\ ReadRover => RouteInv'
<1>. SUFFICES ASSUME RouteInv, ReadRover PROVE RouteInv'  OBVIOUS
<1>1. IInv'  BY ReadRoverStep DEF RouteInv
<1>2. /\ r = 1 /\ r' = r /\ file' = file /\ phase = "rovers" /\ phase' = phase
      /\ line < Len(file.rovers) /\ line' = line + 1
      /\ line \in Nat /\ Len(file.rovers) \in Nat
  BY FileType DEF RouteInv, IInv, Shape, Stages, ReadRover
<1>3. \A k : /\ At(k)' = At(k) /\ Dirs(k)' = Dirs(k)
             /\ PositionRead(At(k))' <=> PositionRead(At(k))
  BY <1>2, SameFile DEF PositionRead
<1>. DEFINE new == [x |-> At(line + 1).x, y |-> At(line + 1).y,
                    orient |-> At(line + 1).orient, dirs |-> Dirs(line + 1)]
<1>4. \A k \in 1..line' : PositionRead(At(k))
  <2>. SUFFICES ASSUME NEW k \in 1..line' PROVE PositionRead(At(k))  OBVIOUS
  <2>1. CASE k = line + 1  BY <2>1 DEF ReadRover, At
  <2>2. CASE k # line + 1  BY <2>2, <1>2 DEF RouteInv, Copied
  <2>. QED  BY <2>1, <2>2
<1>5. /\ rovers \in Seq(Rover) /\ Len(rovers) = line
      /\ \A k \in 1..line : AsRead(k)
  <2>1. rovers \in Seq(Rover)  BY DEF RouteInv, IInv, Shape, Rover
  <2>2. Len(rovers) = line  BY <1>2 DEF RouteInv, Copied
  <2>3. \A k \in 1..line : Undriven(k)  BY <1>2 DEF Undriven
  <2>. QED  BY <2>1, <2>2, <2>3 DEF RouteInv, Copied
<1>6. CASE RouteMissing
  <2>1. rovers' = rovers /\ file.noRoute /\ line' = Len(file.rovers)
    BY <1>2, <1>6 DEF ReadRover, RouteMissing
  <2>2. (Len(rovers) = IF file.noRoute /\ line > 0 /\ line = Len(file.rovers)
                       THEN line - 1 ELSE line)'
    BY <1>2, <1>5, <2>1
  <2>3. \A k \in 1..Len(rovers') : AsRead(k)'
    BY <1>3, <1>5, <2>1 DEF AsRead
  <2>. QED  BY <1>1, <1>2, <1>3, <1>4, <2>2, <2>3
            DEF RouteInv, Copied, OnRoute, EndsWhereRouteLeads, GoodSoFar, CodeTellsAll
<1>7. CASE ~RouteMissing
  <2>1. rovers' = Append(rovers, new)
    BY <1>7 DEF ReadRover, Landed, At, Dirs
  <2>. HIDE DEF new
  <2>2. /\ Len(rovers') = line + 1 /\ rovers'[line + 1] = new
        /\ \A k \in 1..line : rovers'[k] = rovers[k]
    BY <1>2, <1>5, <2>1
  <2>3. (Len(rovers) = IF file.noRoute /\ line > 0 /\ line = Len(file.rovers)
                       THEN line - 1 ELSE line)'
    BY <1>2, <1>7, <2>2 DEF RouteMissing
  <2>4. \A k \in 1..Len(rovers') : AsRead(k)'
    <3>. SUFFICES ASSUME NEW k \in 1..(line + 1) PROVE AsRead(k)'
      BY <2>2
    <3>1. CASE k = line + 1  BY <3>1, <1>3, <2>2 DEF AsRead, new
    <3>2. CASE k # line + 1
      <4>1. k \in 1..line  BY <3>2, <1>2
      <4>. QED  BY <4>1, <1>3, <1>5, <2>2 DEF AsRead
    <3>. QED  BY <3>1, <3>2
  <2>. QED  BY <1>1, <1>2, <1>3, <1>4, <2>3, <2>4
            DEF RouteInv, Copied, OnRoute, EndsWhereRouteLeads, GoodSoFar, CodeTellsAll
<1>. QED  BY <1>6, <1>7

\* Steps that read or leave a line, and change no rover.
LEMMA RouteSameRovers ==
  ASSUME RouteInv, IInv',
         file' = file, line' = line, rovers' = rovers, r' = r, phase' # "exit",
         phase' \in {"next", "drive", "check"} => line = Len(file.rovers),
         \A k \in 1..Len(rovers) : Undriven(k)' => Undriven(k),
         OnRoute'
  PROVE  RouteInv'
<1>1. EndsWhereRouteLeads' /\ GoodSoFar'
  <2>1. rovers' \in Seq(Rover)  BY DEF IInv, Shape, Rover
  <2>. QED  BY <2>1, DrivenStay
<1>2. Copied'
  BY SameFile DEF RouteInv, Copied, AsRead
<1>. QED  BY <1>1, <1>2 DEF RouteInv, CodeTellsAll

LEMMA RouteReadMax == RouteInv /\ ReadMax => RouteInv'
<1>. SUFFICES ASSUME RouteInv, ReadMax PROVE RouteInv'  OBVIOUS
<1>1. IInv'  BY ReadMaxStep DEF RouteInv
<1>2. \A k \in 1..Len(rovers) : Undriven(k)' => Undriven(k)
  BY DEF ReadMax, Undriven
<1>3. OnRoute'  BY DEF ReadMax, OnRoute
<1>. QED  BY <1>1, <1>2, <1>3, RouteSameRovers DEF ReadMax

LEMMA RouteAllRead == RouteInv /\ AllRead => RouteInv'
<1>. SUFFICES ASSUME RouteInv, AllRead PROVE RouteInv'  OBVIOUS
<1>1. IInv'  BY AllReadStep DEF RouteInv
<1>2. \A k \in 1..Len(rovers) : Undriven(k)' => Undriven(k)
  BY DEF AllRead, Undriven
<1>3. OnRoute'  BY DEF AllRead, OnRoute
<1>. QED  BY <1>1, <1>2, <1>3, RouteSameRovers DEF AllRead

LEMMA RouteBegin == RouteInv /\ Begin => RouteInv'
<1>. SUFFICES ASSUME RouteInv, Begin PROVE RouteInv'  OBVIOUS
<1>1. IInv'  BY BeginStep DEF RouteInv
<1>2. /\ r \in 1..Len(rovers) /\ file' = file /\ line' = line /\ rovers' = rovers /\ r' = r
      /\ phase = "next" /\ phase' = "drive"
      /\ trueX' = rovers[r].x /\ trueY' = rovers[r].y
  BY DEF RouteInv, IInv, Shape, Begin
<1>3. AsRead(r)
  BY <1>2 DEF RouteInv, Copied, Undriven
<1>4. /\ At(r).x \in Int /\ At(r).y \in Int /\ At(r).orient \in Orient
      /\ Dirs(r) \in Routes /\ Len(Dirs(r)) \in Nat
  BY <1>2, LineOf DEF RouteInv
<1>5. \A k : At(k)' = At(k) /\ Dirs(k)' = Dirs(k)
  BY <1>2, SameFile
<1>6. /\ rovers[r].dirs = Dirs(r) /\ rovers[r].orient = At(r).orient
      /\ rovers[r].x = At(r).x /\ rovers[r].y = At(r).y
  BY <1>3 DEF AsRead
<1>7. Taken' = 0
  BY <1>2, <1>4, <1>5, <1>6 DEF Taken
<1>8. OnRoute'
  <2>1. /\ Turned(At(r), Dirs(r), 0) = Clock[At(r).orient]
        /\ XAfter(At(r), Dirs(r), 0) = At(r).x /\ YAfter(At(r), Dirs(r), 0) = At(r).y
    BY <1>4, AtStart
  <2>2. \A i \in 1..Len(Dirs(r)) : i = 0 + i
    BY <1>4
  <2>3. 1..0 = {}  OBVIOUS
  <2>4. /\ \A i \in 1..Len(rovers'[r'].dirs) : rovers'[r'].dirs[i] = Dirs(r)'[Taken' + i]
        /\ \A i \in 1..Taken' : Dirs(r)'[i] # "?"
    BY <1>2, <1>5, <1>6, <1>7, <2>2, <2>3
  <2>5. /\ Clock[rovers'[r'].orient] = Turned(At(r)', Dirs(r)', Taken')
        /\ trueX' = XAfter(At(r)', Dirs(r)', Taken') /\ trueY' = YAfter(At(r)', Dirs(r)', Taken')
    BY <1>2, <1>5, <1>6, <1>7, <2>1
  <2>. QED  BY <1>2, <1>7, <2>4, <2>5 DEF OnRoute, XAfter, YAfter
<1>9. line = Len(file.rovers) /\ \A k \in 1..Len(rovers) : Undriven(k)' => Undriven(k)
  <2>1. line = Len(file.rovers)  BY <1>2 DEF RouteInv, Copied
  <2>. QED  BY <1>2, <2>1 DEF Undriven
<1>. QED  BY <1>1, <1>2, <1>8, <1>9, RouteSameRovers

LEMMA RouteArrive == RouteInv /\ Arrive => RouteInv'
<1>. SUFFICES ASSUME RouteInv, Arrive PROVE RouteInv'  OBVIOUS
<1>1. IInv'  BY ArriveStep DEF RouteInv
<1>2. /\ file' = file /\ line' = line /\ rovers' = rovers /\ r' = r
      /\ phase = "drive" /\ phase' = "check" /\ trueX' = trueX /\ trueY' = trueY
  BY DEF Arrive
<1>3. \A k : At(k)' = At(k) /\ Dirs(k)' = Dirs(k)
  BY <1>2, SameFile
<1>4. Taken' = Taken
  BY <1>2, <1>3 DEF Taken
<1>5. OnRoute'
  BY <1>2, <1>3, <1>4 DEF RouteInv, OnRoute, Turned, XAfter, YAfter
<1>6. line = Len(file.rovers) /\ \A k \in 1..Len(rovers) : Undriven(k)' => Undriven(k)
  <2>1. line = Len(file.rovers)  BY <1>2 DEF RouteInv, Copied
  <2>. QED  BY <1>2, <2>1 DEF Undriven
<1>. QED  BY <1>1, <1>2, <1>5, <1>6, RouteSameRovers

\* A step by one direction: what is left of the route is one shorter, and the next
\* direction of the file's route is the one taken.
LEMMA OneDirection ==
  ASSUME RouteInv, phase = "drive", rovers[r].dirs # <<>>
  PROVE  /\ r \in 1..Len(rovers) /\ rovers[r] \in Rover /\ line = Len(file.rovers)
         /\ Taken \in Nat /\ Dirs(r)[Taken + 1] = Direction
         /\ At(r).x \in Int /\ At(r).y \in Int /\ At(r).orient \in Orient
         /\ Len(Tail(rovers[r].dirs)) = Len(rovers[r].dirs) - 1
         /\ Len(rovers[r].dirs) \in Nat /\ Len(Dirs(r)) \in Nat
         /\ Taken + 1 <= Len(Dirs(r))
         /\ \A i \in 1..(Len(rovers[r].dirs) - 1) :
              Tail(rovers[r].dirs)[i] = Dirs(r)[Taken + 1 + i]
<1>1. r \in 1..Len(rovers) /\ rovers[r] \in Rover /\ rovers[r].dirs \in Routes
  BY InHand DEF RouteInv, IInv
<1>2. /\ At(r).x \in Int /\ At(r).y \in Int /\ At(r).orient \in Orient
      /\ Len(Dirs(r)) \in Nat /\ line = Len(file.rovers)
  BY <1>1, LineOf DEF RouteInv, Copied
<1>. DEFINE s == rovers[r].dirs
<1>3. s \in Seq({"L", "R", "M", "?"}) /\ s # <<>>
  BY <1>1 DEF Routes
<1>. HIDE DEF s
<1>4. /\ Len(s) \in Nat /\ Len(s) >= 1 /\ Len(Tail(s)) = Len(s) - 1 /\ Head(s) = s[1]
      /\ \A i \in 1..(Len(s) - 1) : Tail(s)[i] = s[i + 1]
  BY <1>3
<1>5. Taken \in Nat /\ \A i \in 1..Len(s) : s[i] = Dirs(r)[Taken + i]
  BY DEF RouteInv, OnRoute, s
<1>6. Dirs(r)[Taken + 1] = Head(s)
  BY <1>4, <1>5
<1>7. \A i \in 1..(Len(s) - 1) : Tail(s)[i] = Dirs(r)[Taken + 1 + i]
  <2>. SUFFICES ASSUME NEW i \in 1..(Len(s) - 1)
                PROVE  Tail(s)[i] = Dirs(r)[Taken + 1 + i]
    OBVIOUS
  <2>1. i + 1 \in 1..Len(s) /\ Taken + (i + 1) = Taken + 1 + i  BY <1>4, <1>5
  <2>. QED  BY <2>1, <1>4, <1>5
<1>8. Taken + 1 <= Len(Dirs(r))
  BY <1>2, <1>4 DEF Taken, s
<1>. QED  BY <1>1, <1>2, <1>4, <1>5, <1>6, <1>7, <1>8 DEF Direction, s

\* What a step by one direction other than "?" leaves to show.
LEMMA RouteOneDirection ==
  ASSUME RouteInv, IInv', phase = "drive", rovers[r].dirs # <<>>, Direction # "?",
         file' = file, line' = line, r' = r, phase' = phase,
         rovers' \in Seq(Rover), Len(rovers') = Len(rovers),
         \A k \in 1..Len(rovers) : k # r => rovers'[k] = rovers[k],
         rovers'[r].dirs = Tail(rovers[r].dirs),
         Clock[rovers'[r].orient] = Turned(At(r), Dirs(r), Taken + 1),
         trueX' = XAfter(At(r), Dirs(r), Taken + 1),
         trueY' = YAfter(At(r), Dirs(r), Taken + 1)
  PROVE  RouteInv'
<1>1. /\ r \in 1..Len(rovers) /\ Taken \in Nat /\ Dirs(r)[Taken + 1] = Direction
      /\ Len(Tail(rovers[r].dirs)) = Len(rovers[r].dirs) - 1
      /\ Len(rovers[r].dirs) \in Nat /\ Len(Dirs(r)) \in Nat /\ line = Len(file.rovers)
      /\ \A i \in 1..(Len(rovers[r].dirs) - 1) :
           Tail(rovers[r].dirs)[i] = Dirs(r)[Taken + 1 + i]
  BY OneDirection
<1>2. \A k : At(k)' = At(k) /\ Dirs(k)' = Dirs(k)
  BY SameFile
<1>3. Taken' = Taken + 1
  <2>1. Len(rovers'[r].dirs) = Len(rovers[r].dirs) - 1  BY <1>1
  <2>2. Taken' = Len(Dirs(r)) - (Len(rovers[r].dirs) - 1)  BY <2>1 DEF Taken, Dirs
  <2>3. Taken = Len(Dirs(r)) - Len(rovers[r].dirs)  BY DEF Taken
  <2>. QED  BY <1>1, <2>2, <2>3
<1>4. \A i \in 1..Len(rovers'[r'].dirs) : rovers'[r'].dirs[i] = Dirs(r)'[Taken' + i]
  BY <1>1, <1>2, <1>3
<1>5. \A i \in 1..Taken' : Dirs(r)'[i] # "?"
  <2>. SUFFICES ASSUME NEW i \in 1..(Taken + 1) PROVE Dirs(r)[i] # "?"
    BY <1>2, <1>3
  <2>1. CASE i = Taken + 1  BY <2>1, <1>1
  <2>2. CASE i # Taken + 1
    <3>1. i \in 1..Taken  BY <2>2, <1>1
    <3>. QED  BY <3>1 DEF RouteInv, OnRoute
  <2>. QED  BY <2>1, <2>2
<1>6. OnRoute'
  <2>1. Taken' \in Nat  BY <1>1, <1>3
  <2>2. /\ Clock[rovers'[r'].orient] = Turned(At(r)', Dirs(r)', Taken')
        /\ trueX' = XAfter(At(r)', Dirs(r)', Taken') /\ trueY' = YAfter(At(r)', Dirs(r)', Taken')
    BY <1>2, <1>3
  <2>. QED  BY <2>1, <2>2, <1>4, <1>5 DEF OnRoute, Turned, XAfter, YAfter
<1>7. EndsWhereRouteLeads' /\ GoodSoFar'
  <2>1. \A k \in 1..(r - 1) : k \in 1..Len(rovers) /\ k # r
    <3>1. Len(rovers) \in Nat /\ r \in Nat  BY <1>1 DEF RouteInv, IInv, Shape
    <3>. QED  BY <1>1, <3>1
  <2>. QED  BY <2>1, DrivenStay
<1>8. Copied'
  <2>1. \A k \in 1..Len(rovers') : Undriven(k)' => AsRead(k)'
    <3>. SUFFICES ASSUME NEW k \in 1..Len(rovers), Undriven(k)' PROVE AsRead(k)'
      OBVIOUS
    <3>1. k > r /\ Undriven(k)
      BY <1>1 DEF Undriven, RouteInv, IInv, Shape
    <3>2. k # r  BY <1>1, <3>1
    <3>. QED  BY <1>2, <3>1, <3>2 DEF RouteInv, Copied, AsRead
  <2>. QED  BY <1>1, <1>2, <2>1, SameFile DEF RouteInv, Copied
<1>. QED  BY <1>6, <1>7, <1>8 DEF RouteInv, CodeTellsAll

LEMMA RouteTurn == RouteInv /\ Turn => RouteInv'
<1>. SUFFICES ASSUME RouteInv, Turn PROVE RouteInv'  OBVIOUS
<1>1. IInv'  BY TurnStep DEF RouteInv
<1>. DEFINE old == rovers[r]
            o == IF Direction = "L" THEN Left[old.orient] ELSE Right[old.orient]
            e == [old EXCEPT !.dirs = Tail(old.dirs), !.orient = o]
<1>2. /\ r \in 1..Len(rovers) /\ old \in Rover /\ Taken \in Nat
      /\ Dirs(r)[Taken + 1] = Direction
      /\ At(r).x \in Int /\ At(r).y \in Int /\ At(r).orient \in Orient
  BY OneDirection DEF Turn
<1>3. rovers' = [rovers EXCEPT ![r] = e] /\ rovers \in Seq(Rover) /\ rovers' \in Seq(Rover)
  <2>1. rovers \in Seq(Rover) /\ rovers' \in Seq(Rover)
    BY <1>1 DEF RouteInv, IInv, Shape, Rover
  <2>. QED  BY <1>2, <2>1 DEF Turn, Rover
<1>4. e.dirs = Tail(old.dirs) /\ e.orient = o
  BY <1>2 DEF Rover
<1>. HIDE DEF e
<1>5. /\ Len(rovers') = Len(rovers) /\ rovers'[r] = e
      /\ \A k \in 1..Len(rovers) : k # r => rovers'[k] = rovers[k]
  <2>1. r \in DOMAIN rovers  BY <1>2, <1>3
  <2>. QED  BY <1>2, <1>3, <2>1
<1>6. /\ old.orient \in Orient /\ Clock[old.orient] = Turned(At(r), Dirs(r), Taken)
      /\ trueX = XAfter(At(r), Dirs(r), Taken) /\ trueY = YAfter(At(r), Dirs(r), Taken)
      /\ Direction \in {"L", "R"} /\ old.dirs # <<>>
  BY <1>2 DEF RouteInv, OnRoute, Turn, Rover
<1>7. /\ Clock[o] = Turned(At(r), Dirs(r), Taken + 1)
      /\ XAfter(At(r), Dirs(r), Taken + 1) = trueX
      /\ YAfter(At(r), Dirs(r), Taken + 1) = trueY
  BY <1>2, <1>6, AfterTurn
<1>8. /\ phase = "drive" /\ phase' = phase /\ file' = file /\ line' = line /\ r' = r
      /\ trueX' = trueX /\ trueY' = trueY
  BY DEF Turn
<1>. HIDE DEF o
<1>9. Direction # "?" /\ rovers[r].dirs # <<>>
  BY <1>6
<1>. QED  BY <1>1, <1>3, <1>4, <1>5, <1>7, <1>8, <1>9, RouteOneDirection

LEMMA RouteMove == RouteInv /\ Move => RouteInv'
<1>. SUFFICES ASSUME RouteInv, Move PROVE RouteInv'  OBVIOUS
<1>1. IInv'  BY MoveStep DEF RouteInv
<1>. DEFINE old == rovers[r]
            o == old.orient
            e == [old EXCEPT !.dirs = Tail(old.dirs),
                             !.x = Wrap(old.x + East(o)), !.y = Wrap(old.y + North(o))]
<1>2. /\ r \in 1..Len(rovers) /\ old \in Rover /\ Taken \in Nat
      /\ Dirs(r)[Taken + 1] = Direction
      /\ At(r).x \in Int /\ At(r).y \in Int /\ At(r).orient \in Orient
  BY OneDirection DEF Move
<1>3. rovers' = [rovers EXCEPT ![r] = e] /\ rovers \in Seq(Rover) /\ rovers' \in Seq(Rover)
  <2>1. rovers \in Seq(Rover) /\ rovers' \in Seq(Rover)
    BY <1>1 DEF RouteInv, IInv, Shape, Rover
  <2>. QED  BY <1>2, <2>1 DEF Move, Rover
<1>4. e.dirs = Tail(old.dirs) /\ e.orient = o
  BY <1>2 DEF Rover
<1>. HIDE DEF e
<1>5. /\ Len(rovers') = Len(rovers) /\ rovers'[r] = e
      /\ \A k \in 1..Len(rovers) : k # r => rovers'[k] = rovers[k]
  <2>1. r \in DOMAIN rovers  BY <1>2, <1>3
  <2>. QED  BY <1>2, <1>3, <2>1
<1>6. /\ o \in Orient /\ Clock[o] = Turned(At(r), Dirs(r), Taken)
      /\ trueX = XAfter(At(r), Dirs(r), Taken) /\ trueY = YAfter(At(r), Dirs(r), Taken)
      /\ Direction = "M" /\ old.dirs # <<>>
  BY <1>2 DEF RouteInv, OnRoute, Move, Rover
<1>7. /\ Clock[o] = Turned(At(r), Dirs(r), Taken + 1)
      /\ XAfter(At(r), Dirs(r), Taken + 1) = trueX + East(o)
      /\ YAfter(At(r), Dirs(r), Taken + 1) = trueY + North(o)
  BY <1>2, <1>6, AfterMove
<1>8. /\ phase = "drive" /\ phase' = phase /\ file' = file /\ line' = line /\ r' = r
      /\ trueX' = trueX + East(o) /\ trueY' = trueY + North(o)
  BY DEF Move
<1>9. Direction # "?" /\ rovers[r].dirs # <<>> /\ rovers'[r].orient = o
  BY <1>4, <1>5, <1>6
<1>. HIDE DEF o
<1>. QED  BY <1>1, <1>3, <1>4, <1>5, <1>7, <1>8, <1>9, RouteOneDirection

\* At the end of its route, the rover in hand is where the whole route leads.
LEMMA RouteOver ==
  ASSUME RouteInv, phase = "check"
  PROVE  /\ r \in 1..Len(rovers) /\ Taken = Len(Dirs(r))
         /\ \A i \in 1..Len(Dirs(r)) : Dirs(r)[i] # "?"
         /\ Heading(At(r), Dirs(r), Len(Dirs(r))) = rovers[r].orient
         /\ trueX = XAfter(At(r), Dirs(r), Len(Dirs(r)))
         /\ trueY = YAfter(At(r), Dirs(r), Len(Dirs(r)))
         /\ OnPlateau <=> trueX \in 0..file.max.x /\ trueY \in 0..file.max.y
         /\ Good(r) <=> OnPlateau
<1>1. r \in 1..Len(rovers) /\ rovers[r].orient \in Orient
  BY InHand DEF RouteInv, IInv
<1>2. Len(Dirs(r)) \in Nat /\ PositionRead(At(r)) /\ ~(file.noRoute /\ r = Len(file.rovers))
  BY <1>1, LineOf DEF RouteInv
<1>3. Taken = Len(Dirs(r))
  <2>1. Len(rovers[r].dirs) = 0  BY DEF RouteInv, IInv, Used
  <2>. QED  BY <1>2, <2>1 DEF Taken
<1>4. /\ \A i \in 1..Len(Dirs(r)) : Dirs(r)[i] # "?"
      /\ Clock[rovers[r].orient] = Turned(At(r), Dirs(r), Len(Dirs(r)))
      /\ trueX = XAfter(At(r), Dirs(r), Len(Dirs(r)))
      /\ trueY = YAfter(At(r), Dirs(r), Len(Dirs(r)))
  BY <1>3 DEF RouteInv, OnRoute
<1>5. OnPlateau <=> trueX \in 0..file.max.x /\ trueY \in 0..file.max.y
  BY Exact DEF RouteInv, TestIsExact
<1>6. Good(r) <=> OnPlateau
  BY <1>2, <1>4, <1>5 DEF Good, At, Dirs
<1>. QED  BY <1>1, <1>3, <1>4, <1>5, <1>6, HeadingIs

LEMMA RouteAccept == RouteInv /\ Accept => RouteInv'
<1>. SUFFICES ASSUME RouteInv, Accept PROVE RouteInv'  OBVIOUS
<1>1. IInv'  BY AcceptStep DEF RouteInv
<1>2. /\ phase = "check" /\ phase' = "next" /\ r' = r + 1 /\ OnPlateau
      /\ file' = file /\ line' = line /\ rovers' = rovers
      /\ trueX' = trueX /\ trueY' = trueY
  BY DEF Accept
<1>3. /\ r \in 1..Len(rovers) /\ Good(r)
      /\ Heading(At(r), Dirs(r), Len(Dirs(r))) = rovers[r].orient
      /\ trueX = XAfter(At(r), Dirs(r), Len(Dirs(r)))
      /\ trueY = YAfter(At(r), Dirs(r), Len(Dirs(r)))
      /\ trueX \in 0..file.max.x /\ trueY \in 0..file.max.y
  BY <1>2, RouteOver
<1>4. \A k : /\ At(k)' = At(k) /\ Dirs(k)' = Dirs(k)
             /\ PositionRead(At(k))' <=> PositionRead(At(k))
             /\ Good(k)' <=> Good(k)
  BY <1>2, SameFile DEF PositionRead
<1>5. rovers[r].x = trueX /\ rovers[r].y = trueY
  <2>1. file.max.x \in 0..MaxInt /\ file.max.y \in 0..MaxInt
    BY <1>2, InHand DEF RouteInv, IInv
  <2>2. rovers[r].x = Wrap(trueX) /\ rovers[r].y = Wrap(trueY)
    BY <1>2 DEF RouteInv, IInv, Tracked
  <2>3. Wrap(trueX) = trueX /\ Wrap(trueY) = trueY
    BY <1>3, <2>1, WrapOnce, Width
  <2>. QED  BY <2>2, <2>3
<1>6. \A k \in 1..(r' - 1) : k \in 1..(r - 1) \/ k = r
  BY <1>2, <1>3
<1>7. GoodSoFar'
  BY <1>2, <1>3, <1>4, <1>6 DEF RouteInv, GoodSoFar
<1>8. EndsWhereRouteLeads'
  <2>1. ASSUME NEW k \in 1..(r' - 1)
        PROVE  /\ rovers[k].x = XAfter(At(k), Dirs(k), Len(Dirs(k)))
               /\ rovers[k].y = YAfter(At(k), Dirs(k), Len(Dirs(k)))
               /\ rovers[k].orient = Heading(At(k), Dirs(k), Len(Dirs(k)))
    <3>1. CASE k = r  BY <3>1, <1>3, <1>5
    <3>2. CASE k \in 1..(r - 1)  BY <3>2 DEF RouteInv, EndsWhereRouteLeads, At, Dirs
    <3>. QED  BY <3>1, <3>2, <1>6
  <2>. QED  BY <1>2, <2>1 DEF EndsWhereRouteLeads, At, Dirs, XAfter, YAfter
<1>9. Copied'
  <2>1. \A k \in 1..Len(rovers) : Undriven(k)' => Undriven(k)
    <3>1. line = Len(file.rovers)  BY <1>2 DEF RouteInv, Copied
    <3>. QED  BY <1>2, <1>3, <3>1 DEF Undriven
  <2>. QED  BY <1>2, <1>4, <2>1 DEF RouteInv, Copied, AsRead
<1>10. OnRoute' /\ CodeTellsAll'
  BY <1>2 DEF OnRoute, CodeTellsAll
<1>. QED  BY <1>1, <1>7, <1>8, <1>9, <1>10 DEF RouteInv

-----------------------------------------------------------------------------
(* The ends.                                                               *)

\* Whoever exits: the rovers and the file stay, so all but the code does.
LEMMA RouteExit ==
  ASSUME RouteInv, NEW c \in {0, 1}, Exit(c), CodeTellsAll'
  PROVE  RouteInv'
<1>1. IInv'  BY ExitStep DEF RouteInv
<1>2. /\ file' = file /\ line' = line /\ rovers' = rovers /\ r' = r /\ phase' = "exit"
  BY DEF Exit
<1>3. EndsWhereRouteLeads' /\ GoodSoFar'
  <2>1. rovers' \in Seq(Rover)  BY <1>1 DEF IInv, Shape, Rover
  <2>. QED  BY <1>2, <2>1, DrivenStay
<1>4. \A k : /\ At(k)' = At(k) /\ Dirs(k)' = Dirs(k)
             /\ PositionRead(At(k))' <=> PositionRead(At(k))
  BY <1>2, SameFile DEF PositionRead
<1>5. Copied'
  <2>1. \A k \in 1..Len(rovers) : Undriven(k)' => Undriven(k)
    BY <1>2 DEF Undriven
  <2>. QED  BY <1>2, <1>4, <2>1 DEF RouteInv, Copied, AsRead
<1>6. OnRoute'  BY <1>2 DEF OnRoute
<1>. QED  BY <1>1, <1>3, <1>5, <1>6 DEF RouteInv

\* What the exit code has to say, in terms of the state before.
LEMMA CodeTells ==
  ASSUME NEW c, Exit(c),
         c = 0 <=> file.empty \/ (MaxRead /\ \A k \in 1..Len(file.rovers) : Good(k)),
         (\E k \in 1..Len(file.rovers) : MaxRead /\ ~PositionRead(At(k)))
           => r = 1 /\ \A k \in 1..Len(rovers) : rovers[k].dirs = Dirs(k)
  PROVE  CodeTellsAll'
<1>1. file' = file /\ rovers' = rovers /\ r' = r /\ code' = c
  BY DEF Exit
<1>2. /\ \A k : Good(k)' <=> Good(k)
      /\ MaxRead' <=> MaxRead
      /\ \A k : PositionRead(file.rovers[k].at)' <=> PositionRead(file.rovers[k].at)
  BY <1>1, SameFile DEF PositionRead
<1>. QED  BY <1>1, <1>2 DEF CodeTellsAll, At, Dirs

LEMMA RouteMaxFails == RouteInv /\ MaxFails => RouteInv'
<1>. SUFFICES ASSUME RouteInv, MaxFails PROVE RouteInv'  OBVIOUS
<1>. DEFINE c == IF file.empty THEN 0 ELSE 1
<1>1. Exit(c) /\ (file.empty \/ ~MaxRead) /\ c \in {0, 1} /\ phase = "max"
  BY DEF MaxFails
<1>2. c = 0 <=> file.empty \/ (MaxRead /\ \A k \in 1..Len(file.rovers) : Good(k))
  BY <1>1
<1>3. r = 1 /\ \A k \in 1..Len(rovers) : rovers[k].dirs = Dirs(k)
  <2>1. r = 1 /\ rovers = <<>>  BY <1>1 DEF RouteInv, IInv, Stages
  <2>. QED  BY <2>1
<1>. HIDE DEF c
<1>4. CodeTellsAll'
  BY <1>1, <1>2, <1>3, CodeTells
<1>. QED  BY <1>1, <1>4, RouteExit

LEMMA RouteRoverFails == RouteInv /\ RoverFails => RouteInv'
<1>. SUFFICES ASSUME RouteInv, RoverFails PROVE RouteInv'  OBVIOUS
<1>1. /\ Exit(1) /\ ~PositionRead(At(line + 1)) /\ phase = "rovers" /\ r = 1
      /\ line + 1 \in 1..Len(file.rovers) /\ ~file.empty /\ line < Len(file.rovers)
  BY FileType DEF RoverFails, At, RouteInv, IInv, Shape, Stages
<1>2. ~Good(line + 1)
  BY <1>1 DEF Good, At
<1>3. r = 1 /\ \A k \in 1..Len(rovers) : rovers[k].dirs = Dirs(k)
  <2>. SUFFICES ASSUME NEW k \in 1..Len(rovers) PROVE rovers[k].dirs = Dirs(k)
    BY <1>1
  <2>1. Undriven(k)  BY <1>1 DEF Undriven, RouteInv, IInv, Shape
  <2>2. AsRead(k)  BY <2>1 DEF RouteInv, Copied
  <2>. QED  BY <2>2 DEF AsRead
<1>4. CodeTellsAll'
  BY <1>1, <1>2, <1>3, CodeTells
<1>. QED  BY <1>1, <1>4, RouteExit

\* Once all lines are read, all places are good.
LEMMA AllPlacesGood ==
  ASSUME RouteInv, phase \in {"next", "drive", "check"}
  PROVE  /\ ~file.empty /\ MaxRead /\ line = Len(file.rovers)
         /\ \A k \in 1..Len(file.rovers) : PositionRead(At(k))
BY DEF RouteInv, Copied, IInv, Stages

\* A rover that is not good, driven after all lines were read, is a failure.
LEMMA RouteFails ==
  ASSUME RouteInv, phase \in {"drive", "check"}, Exit(1), ~Good(r)
  PROVE  RouteInv'
<1>1. /\ ~file.empty /\ MaxRead
      /\ \A k \in 1..Len(file.rovers) : PositionRead(At(k))
  BY AllPlacesGood
<1>2. r \in 1..Len(file.rovers)
  BY InHand, LineOf DEF RouteInv, IInv
<1>3. CodeTellsAll'
  BY <1>1, <1>2, CodeTells
<1>. QED  BY <1>3, RouteExit

LEMMA RouteBadDirection == RouteInv /\ BadDirection => RouteInv'
<1>. SUFFICES ASSUME RouteInv, BadDirection PROVE RouteInv'  OBVIOUS
<1>1. /\ phase = "drive" /\ rovers[r].dirs # <<>> /\ Direction = "?" /\ Exit(1)
  BY DEF BadDirection
<1>2. /\ r \in 1..Len(rovers) /\ Taken \in Nat /\ Dirs(r)[Taken + 1] = "?"
      /\ Taken + 1 \in 1..Len(Dirs(r))
  BY <1>1, OneDirection
<1>3. ~(file.noRoute /\ r = Len(file.rovers))
  BY <1>2, LineOf DEF RouteInv
<1>4. ~Good(r)
  BY <1>2, <1>3 DEF Good, Dirs
<1>. QED  BY <1>1, <1>4, RouteFails

LEMMA RouteOffPlateau == RouteInv /\ OffPlateau => RouteInv'
<1>. SUFFICES ASSUME RouteInv, OffPlateau PROVE RouteInv'  OBVIOUS
<1>1. phase = "check" /\ ~OnPlateau /\ Exit(1)
  BY DEF OffPlateau
<1>2. ~Good(r)
  BY <1>1, RouteOver
<1>. QED  BY <1>1, <1>2, RouteFails

LEMMA RouteEnd == RouteInv /\ End => RouteInv'
<1>. SUFFICES ASSUME RouteInv, End PROVE RouteInv'  OBVIOUS
<1>1. phase = "next" /\ r > Len(rovers) /\ Exit(0)
  BY DEF End
<1>2. /\ ~file.empty /\ MaxRead /\ line = Len(file.rovers)
      /\ \A k \in 1..Len(file.rovers) : PositionRead(At(k))
  BY <1>1, AllPlacesGood
<1>3. \A k \in 1..Len(file.rovers) : Good(k)
  <2>. SUFFICES ASSUME NEW k \in 1..Len(file.rovers) PROVE Good(k)  OBVIOUS
  <2>0. Len(rovers) \in Nat /\ r \in Nat /\ Len(file.rovers) \in Nat
    BY FileType DEF RouteInv, IInv, Shape
  <2>1. CASE file.noRoute /\ k = Len(file.rovers)
    BY <2>1, <1>2 DEF Good, At
  <2>2. CASE ~(file.noRoute /\ k = Len(file.rovers))
    <3>1. k \in 1..(r - 1)
      <4>1. Len(rovers) = IF file.noRoute /\ line > 0 /\ line = Len(file.rovers)
                          THEN line - 1 ELSE line
        BY DEF RouteInv, Copied
      <4>. QED  BY <2>0, <2>2, <4>1, <1>1, <1>2
    <3>. QED  BY <3>1 DEF RouteInv, GoodSoFar
  <2>. QED  BY <2>1, <2>2
<1>4. CodeTellsAll'
  BY <1>1, <1>2, <1>3, CodeTells
<1>. QED  BY <1>1, <1>4, RouteExit

LEMMA RouteInductive == RouteInv /\ [Next]_vars => RouteInv'
<1>. SUFFICES ASSUME RouteInv, [Next]_vars PROVE RouteInv'  OBVIOUS
<1>1. CASE UNCHANGED vars
  <2>1. IInv'  BY <1>1, Inductive DEF RouteInv
  <2>2. /\ file' = file /\ line' = line /\ rovers' = rovers /\ r' = r /\ phase' = phase
        /\ code' = code /\ trueX' = trueX /\ trueY' = trueY
    BY <1>1 DEF vars
  <2>3. EndsWhereRouteLeads' /\ GoodSoFar'
    <3>1. rovers' \in Seq(Rover)  BY <2>1 DEF IInv, Shape, Rover
    <3>. QED  BY <2>2, <3>1, DrivenStay
  <2>4. /\ \A k : At(k)' = At(k) /\ Dirs(k)' = Dirs(k)
        /\ \A k : PositionRead(At(k))' <=> PositionRead(At(k))
        /\ \A k : Good(k)' <=> Good(k)
        /\ MaxRead' <=> MaxRead
    BY <2>2, SameFile DEF PositionRead
  <2>5. Copied'
    BY <2>2, <2>4 DEF RouteInv, Copied, Undriven, AsRead
  <2>6. OnRoute'
    <3>1. Taken' = Taken  BY <2>2, <2>4 DEF Taken
    <3>. QED  BY <2>2, <2>4, <3>1 DEF RouteInv, OnRoute, Turned, XAfter, YAfter
  <2>7. CodeTellsAll'
    BY <2>2, <2>4 DEF RouteInv, CodeTellsAll, At
  <2>. QED  BY <2>1, <2>3, <2>5, <2>6, <2>7 DEF RouteInv
<1>. QED
  BY <1>1, RouteReadMax, RouteMaxFails, RouteReadRover, RouteRoverFails, RouteAllRead,
     RouteBegin, RouteTurn, RouteMove, RouteBadDirection, RouteArrive, RouteAccept,
     RouteOffPlateau, RouteEnd DEF Next, Read, Drive, Exited

-----------------------------------------------------------------------------
(* The theorems.                                                           *)

THEOREM Invariance == Spec => []IInv
BY Start, Inductive, PTL DEF Spec

\* Overflow hides nothing from the test at the end of a route.
THEOREM TestExact == Spec => []TestIsExact
BY Exact, Invariance, PTL

LEMMA RouteInvariance == Spec => []RouteInv
BY RouteStart, RouteInductive, PTL DEF Spec

\* The state has its types, and a rover not driven yet is as its line of the file
\* has it, with its place on the plateau and with all of its route.
THEOREM TypeCorrect == Spec => []TypeOK
<1>1. RouteInv => TypeOK
  <2>. SUFFICES ASSUME RouteInv PROVE TypeOK  OBVIOUS
  <2>1. Shape  BY DEF RouteInv, IInv
  <2>2. ASSUME NEW k \in 1..Len(rovers), k > r \/ (k = r /\ phase \in {"rovers", "next"})
        PROVE  /\ rovers[k].x = file.rovers[k].at.x /\ rovers[k].y = file.rovers[k].at.y
               /\ rovers[k].orient = file.rovers[k].at.orient
               /\ rovers[k].dirs = file.rovers[k].dirs
    <3>1. AsRead(k)  BY <2>2 DEF RouteInv, Copied, Undriven
    <3>. QED  BY <3>1 DEF AsRead, At, Dirs
  <2>. QED  BY <2>1, <2>2 DEF Shape, TypeOK
<1>. QED  BY <1>1, RouteInvariance, PTL

\* Every rover ends where its own place and route lead.
THEOREM RouteFollowed == Spec => []EndsWhereRouteLeads
<1>1. RouteInv => EndsWhereRouteLeads  BY DEF RouteInv
<1>. QED  BY <1>1, RouteInvariance, PTL

\* The exit code is 0 exactly for the files that deserve it, and all lines are read
\* before any rover is driven.
THEOREM CodeTrue == Spec => []CodeTellsAll
<1>1. RouteInv => CodeTellsAll  BY DEF RouteInv
<1>. QED  BY <1>1, RouteInvariance, PTL

=============================================================================
