-------------------------- MODULE VnsFramingProofs --------------------------
(***************************************************************************)
(* Theorems about VnsFraming: however the stream is cut, whatever the      *)
(* commands' lengths and the greatest length are.                          *)
(*                                                                         *)
(* The positions in the stream, Start, are defined recursively.  That such *)
(* a function exists and grows is proved with LeastNumber, by looking at   *)
(* the least position for which it would not.                              *)
(*                                                                         *)
(* At the end, that VnsFraming implements CommandFeed: which commands have *)
(* ended in the bytes written, and which step of reading is which of its.  *)
(***************************************************************************)
EXTENDS VnsFraming, WellFoundedInduction, TLAPS

-----------------------------------------------------------------------------
(* Where commands start.                                                   *)

N == Len(Lengths)

\* A set of natural numbers that is not empty has a least element.
LEMMA LeastNumber ==
  ASSUME NEW S \in SUBSET Nat, NEW n \in S
  PROVE  \E m \in S : \A k \in S : m <= k
<1> DEFINE R == {ss \in Nat \X Nat : ss[1] < ss[2]}
<1>1. IsWellFoundedOn(R, Nat)
  BY NatLessThanWellFounded, Zenon DEF OpToRel
<1> HIDE DEF R
<1>2. PICK m \in S : \A k \in S : <<k, m>> \notin R
  BY <1>1, WFMin
<1>3. \A k \in S : ~(k < m)
  BY <1>2 DEF R
<1> QED
  BY <1>3

\* The equation Start is defined by, on 1..m.
StartOn(f, m) ==
  f = [i \in 1..m |-> IF i = 1 THEN 0 ELSE f[i - 1] + Lengths[i - 1]]

\* There is such a function, up to every m.
LEMMA StartExists == \A m \in 1..(N + 1) : \E f \in [1..m -> Nat] : StartOn(f, m)
<1> DEFINE Bad == {m \in 1..(N + 1) : ~ \E f \in [1..m -> Nat] : StartOn(f, m)}
<1>0. N \in Nat
  BY LengthsAssumption DEF N
<1> SUFFICES ASSUME NEW n \in Bad PROVE FALSE
  OBVIOUS
<1>1. PICK m \in Bad : \A k \in Bad : m <= k
  <2> HIDE DEF Bad
  <2>1. Bad \in SUBSET Nat
    BY <1>0 DEF Bad
  <2> QED
    BY <2>1, LeastNumber
<1>2. m # 1
  <2> DEFINE g == [i \in 1..1 |-> 0]
  <2>1. g \in [1..1 -> Nat] /\ StartOn(g, 1)
    BY DEF StartOn
  <2> QED
    BY <2>1
<1>3. m \in 2..(N + 1) /\ m - 1 \in 1..(N + 1) /\ m - 1 \notin Bad
  BY <1>0, <1>1, <1>2
<1>4. PICK f \in [1..(m - 1) -> Nat] : StartOn(f, m - 1)
  BY <1>3
<1> DEFINE g == [i \in 1..m |-> IF i = m THEN f[m - 1] + Lengths[m - 1] ELSE f[i]]
<1>5. Lengths[m - 1] \in Nat /\ f[m - 1] \in Nat
  BY <1>0, <1>3, LengthsAssumption DEF N
<1>6. g \in [1..m -> Nat]
  BY <1>3, <1>5
<1>7. ASSUME NEW i \in 1..m
      PROVE  g[i] = IF i = 1 THEN 0 ELSE g[i - 1] + Lengths[i - 1]
  <2>1. \A k \in 1..(m - 1) : f[k] = IF k = 1 THEN 0 ELSE f[k - 1] + Lengths[k - 1]
    BY <1>4 DEF StartOn
  <2>2. m \in Nat /\ m >= 2
    BY <1>0, <1>3
  <2> HIDE DEF Bad
  <2>3. CASE i = m
    BY <2>2, <2>3
  <2>4. CASE i # m
    <3>1. i \in 1..(m - 1) /\ i - 1 # m
      BY <2>2, <2>4
    <3>2. g[i] = f[i] /\ (i # 1 => g[i - 1] = f[i - 1])
      BY <2>2, <2>4, <3>1
    <3> QED
      BY <2>1, <3>1, <3>2
  <2> QED
    BY <2>3, <2>4
<1>8. StartOn(g, m)
  <2> HIDE DEF g
  <2>1. g = [i \in 1..m |-> g[i]]
    BY <1>6
  <2> QED
    BY <2>1, <1>7 DEF StartOn
<1> QED
  <2> HIDE DEF g
  <2> QED
    BY <1>6, <1>8

LEMMA StartEquation ==
  /\ N \in Nat /\ Start[1] = 0
  /\ \A i \in 1..N : Start[i + 1] = Start[i] + Lengths[i]
<1>0. N \in Nat
  BY LengthsAssumption DEF N
<1>1. PICK f \in [1..(N + 1) -> Nat] : StartOn(f, N + 1)
  BY <1>0, StartExists
<1>2. StartOn(Start, N + 1)
  BY <1>1 DEF StartOn, Start, N
<1>3. Start[1] = 0
  BY <1>0, <1>2 DEF StartOn
<1>4. \A i \in 1..N : Start[i + 1] = Start[i] + Lengths[i]
  <2> TAKE i \in 1..N
  <2>1. i + 1 \in 1..(N + 1) /\ i + 1 # 1 /\ (i + 1) - 1 = i
    BY <1>0
  <2> QED
    BY <1>2, <2>1 DEF StartOn
<1> QED
  BY <1>0, <1>3, <1>4

\* A command starts at least 8 bytes after the one before it.
LEMMA StartGrows ==
  \A j \in 1..(N + 1) : Start[j] \in Nat /\ \A i \in 1..(j - 1) : Start[i] + 8 <= Start[j]
<1> DEFINE Good(j) == Start[j] \in Nat /\ \A i \in 1..(j - 1) : Start[i] + 8 <= Start[j]
           Bad == {j \in 1..(N + 1) : ~Good(j)}
<1>0. N \in Nat
  BY StartEquation
<1> SUFFICES ASSUME NEW n \in Bad PROVE FALSE
  OBVIOUS
<1>1. PICK j \in Bad : \A k \in Bad : j <= k
  <2> HIDE DEF Bad
  <2>1. Bad \in SUBSET Nat
    BY <1>0 DEF Bad
  <2> QED
    BY <2>1, LeastNumber
<1>2. j # 1
  BY StartEquation
<1>3. j - 1 \in 1..N /\ j - 1 \in 1..(N + 1) /\ j - 1 \notin Bad
  BY <1>0, <1>1, <1>2
<1>4. Good(j - 1)
  BY <1>3
<1>5. Start[j] = Start[j - 1] + Lengths[j - 1]
  <2>1. Start[(j - 1) + 1] = Start[j - 1] + Lengths[j - 1]
    BY <1>3, StartEquation
  <2> QED
    BY <1>3, <2>1
<1>6. Lengths[j - 1] \in Nat /\ Lengths[j - 1] >= 8
  BY <1>3, LengthsAssumption DEF N
<1>7. \A i \in 1..(j - 1) : Start[i] + 8 <= Start[j]
  <2> TAKE i \in 1..(j - 1)
  <2>1. CASE i = j - 1
    BY <1>4, <1>5, <1>6, <2>1
  <2>2. CASE i # j - 1
    <3>1. i \in 1..((j - 1) - 1)
      BY <2>2, <1>3
    <3>2. Start[i] + 8 <= Start[j - 1]
      BY <1>4, <3>1
    <3>3. i \in 1..(N + 1) /\ i \notin Bad
      BY <1>0, <1>1, <1>3, <3>1
    <3>4. Start[i] \in Nat
      BY <3>3
    <3> QED
      BY <1>4, <1>5, <1>6, <3>2, <3>4
  <2> QED
    BY <2>1, <2>2
<1>8. Good(j)
  BY <1>4, <1>5, <1>6, <1>7
<1> QED
  BY <1>8

\* What is read at the end of a length field is the length of its command.
LEMMA LengthRead ==
  ASSUME NEW k \in 1..N
  PROVE  /\ LengthAt(Start[k] + 4) = Lengths[k] /\ Lengths[k] \in Nat /\ Lengths[k] >= 8
         /\ Start[k] + Lengths[k] = Start[k + 1] /\ Start[k] \in Nat /\ Start[k + 1] \in Nat
         /\ Start[k + 1] <= Total /\ Total \in Nat
<1>0. N \in Nat
  BY StartEquation
<1>1. k \in 1..(N + 1) /\ k + 1 \in 1..(N + 1) /\ N + 1 \in 1..(N + 1)
  BY <1>0
<1>2. \A i \in 1..N : Start[i] + 4 = Start[k] + 4 => i = k
  <2> TAKE i \in 1..N
  <2>1. i \in 1..(N + 1) /\ Start[i] \in Nat /\ Start[k] \in Nat
    BY <1>0, <1>1, StartGrows
  <2>2. i < k => Start[i] + 8 <= Start[k]
    BY <1>1, StartGrows
  <2>3. k < i => Start[k] + 8 <= Start[i]
    BY <2>1, StartGrows
  <2> QED
    BY <2>1, <2>2, <2>3
<1> DEFINE starts == {i \in 1..N : Start[i] + 4 = Start[k] + 4}
<1>3. starts = {k}
  BY <1>2
<1>4. LengthAt(Start[k] + 4) = Lengths[CHOOSE i \in starts : TRUE]
  BY <1>3 DEF LengthAt, N
<1>5. (CHOOSE i \in starts : TRUE) = k
  BY <1>3
<1>6. Lengths[k] \in Nat /\ Lengths[k] >= 8
  BY LengthsAssumption DEF N
<1>7. Total \in Nat /\ Start[k + 1] <= Total
  <2>1. Total = Start[N + 1]
    BY DEF Total, N
  <2>2. k + 1 # N + 1 => k + 1 \in 1..((N + 1) - 1)
    BY <1>0
  <2> QED
    BY <1>1, <2>1, <2>2, StartGrows
<1> QED
  BY <1>1, <1>4, <1>5, <1>6, <1>7, StartGrows, StartEquation

-----------------------------------------------------------------------------
(* The invariant.                                                          *)

D == Len(dispatched)

\* In the body of command D + 1, its length is known, within the limit, and its
\* first bytes read.
InBody ==
  phase = "body" =>
    /\ D < N /\ len = Lengths[D + 1]
    /\ pos = Start[D + 1] + 4 + bytes_read
    /\ len <= MaxLength

IInv == TypeOK /\ InStep /\ InBody /\ RefusesOnlyLong

\* The facts about the stream that a step of the client uses.
LEMMA Stream ==
  ASSUME IInv
  PROVE  /\ N \in Nat /\ Total \in Nat /\ D \in 0..N /\ Start[D + 1] \in Nat
         /\ written \in Nat /\ pos \in Nat /\ pos <= written /\ written <= Total
         /\ D = N => Start[D + 1] = Total
         /\ D < N => D + 1 \in 1..N
<1>1. N \in Nat
  BY StartEquation
<1>2. D \in 0..N /\ D + 1 \in 1..(N + 1)
  BY <1>1 DEF IInv, InStep, TypeOK, D, N
<1>3. Start[D + 1] \in Nat /\ Start[N + 1] \in Nat /\ Total = Start[N + 1]
  BY <1>1, <1>2, StartGrows DEF Total, N
<1> QED
  BY <1>1, <1>2, <1>3 DEF IInv, TypeOK

LEMMA InitInv == Init => IInv
<1> SUFFICES ASSUME Init PROVE IInv
  OBVIOUS
<1>1. N \in Nat /\ 1 \in 1..(N + 1) /\ N + 1 \in 1..(N + 1)
  BY StartEquation
<1>2. Total \in Nat /\ Start[1] = 0
  BY <1>1, StartGrows, StartEquation DEF Total, N
<1>3. TypeOK
  <2>1. dispatched \in Seq(Int)
    BY DEF Init
  <2>2. written = 0 /\ pos = 0 /\ 0 \in 0..Total /\ 0 \in 0..0
    BY <1>2 DEF Init
  <2>3. closed \in BOOLEAN /\ phase = "length" /\ len = 0 /\ bytes_read = 0
    BY DEF Init
  <2> QED
    BY <2>1, <2>2, <2>3 DEF TypeOK
<1>4. InStep
  BY <1>1, <1>2 DEF Init, InStep, N
<1> QED
  BY <1>3, <1>4 DEF Init, IInv, InBody, RefusesOnlyLong

LEMMA ServerKeeps == ASSUME IInv, Write \/ Close PROVE IInv'
<1>1. /\ UNCHANGED <<pos, phase, bytes_read, len, dispatched>>
      /\ written' \in written..Total /\ closed' \in BOOLEAN
  <2>1. CASE Write
    <3>1. PICK n \in (written + 1)..Total : written' = n
      BY <2>1 DEF Write
    <3>2. n \in written..Total
      BY Stream
    <3> QED
      BY <2>1, <3>1, <3>2 DEF Write, IInv, TypeOK
  <2>2. CASE Close
    <3>1. written \in written..Total
      BY Stream
    <3> QED
      BY <2>2, <3>1 DEF Close
  <2> QED
    BY <2>1, <2>2
<1>2. TypeOK'
  BY <1>1, Stream DEF IInv, TypeOK
<1> QED
  BY <1>1, <1>2 DEF IInv, InStep, InBody, RefusesOnlyLong, D

LEMMA ReadLengthKeeps == ASSUME IInv, ReadLength PROVE IInv'
<1>1. PICK n \in 1..(4 - bytes_read) : pos + n <= written /\ pos' = pos + n /\ bytes_read' = bytes_read + n
  BY DEF ReadLength, Take
<1>2. bytes_read \in Nat /\ n \in Nat /\ UNCHANGED <<written, closed, phase, len, dispatched>> /\ phase = "length"
  BY <1>1 DEF IInv, TypeOK, ReadLength
<1>3. TypeOK'
  BY <1>1, <1>2, Stream DEF IInv, TypeOK
<1>4. InStep'
  BY <1>1, <1>2, Stream DEF IInv, InStep, D
<1> QED
  BY <1>2, <1>3, <1>4 DEF IInv, InBody, RefusesOnlyLong

LEMMA LengthDoneKeeps == ASSUME IInv, LengthDone PROVE IInv'
<1>1. /\ bytes_read = 4 /\ pos = Start[D + 1] + 4 /\ phase = "length"
      /\ UNCHANGED <<written, pos, closed, dispatched>> /\ D' = D
      /\ len' = LengthAt(pos) /\ bytes_read' = 0
      /\ phase' = IF len' > MaxLength THEN "failed" ELSE "body"
  BY DEF IInv, TypeOK, InStep, LengthDone, D
<1>2. D < N
  BY <1>1, Stream
<1>3. /\ len' = Lengths[D + 1] /\ len' \in Nat /\ len' >= 8
  BY <1>1, <1>2, Stream, LengthRead
<1>4. TypeOK'
  BY <1>1, <1>3, Stream DEF IInv, TypeOK
<1>5. InStep'
  BY <1>1 DEF IInv, InStep
<1>6. InBody'
  <2>1. D' = D
    BY <1>1 DEF D
  <2>2. phase' = "body" => len' <= MaxLength
    BY <1>1, <1>3, LengthsAssumption
  <2>3. pos' = Start[D + 1] + 4 + bytes_read'
    BY <1>1, <1>2, Stream
  <2> QED
    BY <1>2, <1>3, <2>1, <2>2, <2>3 DEF InBody
<1>7. RefusesOnlyLong'
  BY <1>1, <1>2, <1>3, LengthsAssumption DEF RefusesOnlyLong, D, N
<1> QED
  BY <1>4, <1>5, <1>6, <1>7 DEF IInv

LEMMA ReadBodyKeeps == ASSUME IInv, ReadBody PROVE IInv'
<1>1. PICK n \in 1..(len - 4 - bytes_read) : pos + n <= written /\ pos' = pos + n /\ bytes_read' = bytes_read + n
  BY DEF ReadBody, Take
<1>2. /\ bytes_read \in Nat /\ len \in Nat /\ n \in Nat /\ phase = "body"
      /\ UNCHANGED <<written, closed, phase, len, dispatched>>
  BY <1>1 DEF IInv, TypeOK, ReadBody
<1>3. TypeOK'
  BY <1>1, <1>2, Stream DEF IInv, TypeOK
<1>4. InStep'
  BY <1>2 DEF IInv, InStep
<1>5. InBody'
  <2>1. /\ D < N /\ len = Lengths[D + 1] /\ len <= MaxLength
        /\ pos = Start[D + 1] + 4 + bytes_read
    BY <1>2 DEF IInv, InBody
  <2>2. Start[D + 1] \in Nat
    BY <2>1, Stream
  <2>3. pos' = Start[D + 1] + 4 + bytes_read'
    BY <1>1, <1>2, <2>1, <2>2
  <2>4. D' = D /\ len' = len
    BY <1>2 DEF D
  <2> QED
    BY <2>1, <2>3, <2>4 DEF InBody
<1> QED
  BY <1>2, <1>3, <1>4, <1>5 DEF IInv, RefusesOnlyLong

LEMMA DispatchKeeps == ASSUME IInv, Dispatch PROVE IInv'
<1>1. /\ phase = "body" /\ bytes_read = len - 4 /\ D < N /\ len = Lengths[D + 1]
      /\ pos = Start[D + 1] + 4 + bytes_read
      /\ UNCHANGED <<written, pos, closed, len>>
      /\ Outcome /\ bytes_read' = 0
  BY DEF IInv, TypeOK, InBody, Dispatch
<1>2. /\ len \in Nat /\ len >= 8 /\ Start[D + 1] + len = Start[D + 2]
      /\ D + 1 \in 1..N
  <2>1. D + 1 \in 1..N /\ D + 2 = (D + 1) + 1
    BY <1>1, Stream
  <2> QED
    BY <1>1, <2>1, LengthRead
<1>3. pos - len = Start[D + 1] /\ pos = Start[D + 2]
  <2>1. Start[D + 1] \in Nat
    BY Stream
  <2>2. pos = Start[D + 1] + 4 + (len - 4)
    BY <1>1
  <2> QED
    BY <1>2, <2>1, <2>2
<1>4. dispatched \in Seq(Int) /\ pos - len \in Int
  BY <1>3, Stream DEF IInv, TypeOK
<1>5. CASE UNCHANGED dispatched /\ phase' = "stopped"
  BY <1>1, <1>5 DEF IInv, TypeOK, InStep, InBody, RefusesOnlyLong
<1>6. CASE dispatched' = Append(dispatched, pos - len) /\ phase' \in {"length", "stopped"}
  <2>1. /\ dispatched' \in Seq(Int) /\ D' = D + 1
        /\ dispatched'[D + 1] = Start[D + 1] /\ \A i \in 1..D : dispatched'[i] = dispatched[i]
    BY <1>3, <1>4, <1>6 DEF D
  <2>2. TypeOK'
    BY <1>1, <1>6, <2>1 DEF IInv, TypeOK
  <2>3. InStep'
    <3>1. D' <= N /\ D' + 1 = D + 2
      BY <1>1, <2>1, Stream
    <3>2. \A i \in 1..D' : dispatched'[i] = Start[i]
      <4>1. \A i \in 1..D : dispatched[i] = Start[i]
        BY DEF IInv, InStep, D
      <4>2. \A i \in 1..D' : i = D + 1 \/ i \in 1..D
        BY <2>1, Stream
      <4> QED
        BY <2>1, <4>1, <4>2
    <3>3. pos' = Start[D' + 1] + bytes_read'
      BY <1>1, <1>3, <3>1, Stream
    <3> QED
      BY <3>1, <3>2, <3>3 DEF InStep, D, N
  <2> QED
    BY <1>6, <2>2, <2>3 DEF IInv, InBody, RefusesOnlyLong
<1> QED
  BY <1>1, <1>5, <1>6 DEF Outcome

LEMMA OtherStepsKeep == ASSUME IInv, ReadFails \/ ReadNothing \/ Idle \/ UNCHANGED vars PROVE IInv'
<1>1. CASE ReadFails
  BY <1>1 DEF ReadFails, IInv, TypeOK, InStep, InBody, RefusesOnlyLong, D
<1>2. CASE UNCHANGED vars
  BY <1>2 DEF vars, IInv, TypeOK, InStep, InBody, RefusesOnlyLong, D
<1> QED
  BY <1>1, <1>2 DEF ReadNothing, Idle

LEMMA Invariance == Spec => []IInv
<1>1. IInv /\ [Next]_vars => IInv'
  <2> SUFFICES ASSUME IInv, [Next]_vars PROVE IInv'
    OBVIOUS
  <2> QED
    BY ServerKeeps, ReadLengthKeeps, LengthDoneKeeps, ReadBodyKeeps, DispatchKeeps,
       OtherStepsKeep DEF Next, Read
<1> QED
  BY InitInv, <1>1, PTL DEF Spec

\* The variables have their types, and no read is asked to go past the length
\* field or past the end of the command's buffer.
THEOREM ReadsStayInBuffer == Spec => []TypeOK
BY Invariance, PTL DEF IInv

\* The client dispatches the commands the server wrote, whole, in order and each
\* once, and is at the start of the next one in between.
THEOREM StaysInStep == Spec => []InStep
BY Invariance, PTL DEF IInv

\* The client refuses a command only if it is too long.
THEOREM RefusesTheLong == Spec => []RefusesOnlyLong
BY Invariance, PTL DEF IInv

-----------------------------------------------------------------------------
(* The refinement of CommandFeed.                                          *)

\* The command that ends last in the first n bytes: the greatest start within n,
\* which is the least number of commands after it.
LEMMA EndedAt ==
  ASSUME NEW n \in Nat
  PROVE  /\ EndedIn(n) \in 0..N /\ Start[EndedIn(n) + 1] <= n
         /\ \A i \in (EndedIn(n) + 2)..(N + 1) : n < Start[i]
<1> DEFINE Left == {m \in 0..N : Start[(N - m) + 1] <= n}
<1>1. N \in Nat /\ Start[1] = 0
  BY StartEquation
<1>2. N \in Left
  BY <1>1
<1>3. PICK m \in Left : \A l \in Left : m <= l
  <2> HIDE DEF Left
  <2>1. Left \in SUBSET Nat
    BY <1>1 DEF Left
  <2> QED
    BY <1>2, <2>1, LeastNumber
<1> DEFINE k == N - m
<1>4. k \in 0..N /\ Start[k + 1] <= n
  BY <1>1
<1>5. ASSUME NEW i \in (k + 2)..(N + 1) PROVE n < Start[i]
  <2>1. /\ N - (i - 1) \in 0..N /\ N - (i - 1) < m /\ (N - (N - (i - 1))) + 1 = i
        /\ i \in 1..(N + 1)
    BY <1>1
  <2>2. N - (i - 1) \notin Left
    BY <1>1, <1>3, <2>1
  <2>3. Start[i] \in Nat
    BY <2>1, StartGrows
  <2> QED
    BY <2>1, <2>2, <2>3
<1> HIDE DEF k
<1>6. \E l \in 0..N : Start[l + 1] <= n /\ \A i \in (l + 2)..(N + 1) : n < Start[i]
  BY <1>4, <1>5
<1> QED
  BY <1>6 DEF EndedIn, N

\* If command k ends within n bytes, at least k commands do.
LEMMA EndedWithin ==
  ASSUME NEW n \in Nat, NEW k \in 0..N, Start[k + 1] <= n
  PROVE  k <= EndedIn(n)
<1>1. N \in Nat /\ k + 1 \in 1..(N + 1)
  BY StartEquation
<1>2. EndedIn(n) \in 0..N /\ \A i \in (EndedIn(n) + 2)..(N + 1) : n < Start[i]
  BY EndedAt
<1>3. Start[k + 1] \in Nat
  BY <1>1, StartGrows
<1> HIDE DEF EndedIn
<1>4. ASSUME k > EndedIn(n) PROVE FALSE
  <2>1. k + 1 \in (EndedIn(n) + 2)..(N + 1)
    BY <1>1, <1>2, <1>4
  <2> QED
    BY <1>2, <1>3, <2>1
<1> QED
  BY <1>1, <1>2, <1>4

\* Commands are known by where they start.
LEMMA CommandStarting == ASSUME NEW k \in 1..N PROVE CommandAt(Start[k]) = k
<1>1. N \in Nat /\ k \in 1..(N + 1)
  BY StartEquation
<1>2. ASSUME NEW i \in 1..N, Start[i] = Start[k] PROVE i = k
  <2>1. i \in 1..(N + 1) /\ Start[i] \in Nat /\ Start[k] \in Nat
    BY <1>1, StartGrows
  <2>2. i < k => Start[i] + 8 <= Start[k]
    BY <1>1, StartGrows
  <2>3. k < i => Start[k] + 8 <= Start[i]
    BY <1>1, <2>1, StartGrows
  <2> QED
    BY <1>2, <2>1, <2>2, <2>3
<1> QED
  BY <1>2 DEF CommandAt, N

\* Commands dispatched in step are those numbered from 1.
LEMMA HandledSoFar ==
  ASSUME NEW s \in Seq(Int), Len(s) <= N, \A i \in 1..Len(s) : s[i] = Start[i]
  PROVE  [i \in 1..Len(s) |-> CommandAt(s[i])] = [i \in 1..Len(s) |-> i]
<1>1. N \in Nat /\ Len(s) \in Nat
  BY StartEquation
<1>2. ASSUME NEW i \in 1..Len(s) PROVE CommandAt(s[i]) = i
  <2>1. i \in 1..N /\ s[i] = Start[i]
    BY <1>1
  <2> QED
    BY <2>1, CommandStarting
<1> QED
  BY <1>2

LEMMA FeedInit == Init => Feed!Init
<1> SUFFICES ASSUME Init PROVE Feed!Init
  OBVIOUS
<1>1. EndedIn(0) = 0
  <2>1. EndedIn(0) \in 0..N /\ Start[EndedIn(0) + 1] <= 0 /\ N \in Nat
    BY EndedAt, StartEquation
  <2>2. EndedIn(0) # 0 => Start[1] + 8 <= Start[EndedIn(0) + 1]
    BY <2>1, StartGrows
  <2>3. Start[1] = 0 /\ Start[EndedIn(0) + 1] \in Nat
    BY <2>1, StartEquation, StartGrows
  <2> QED
    BY <2>1, <2>2, <2>3
<1> QED
  BY <1>1 DEF Init, Feed!Init

\* Steps that write nothing and hand nothing on.
LEMMA FeedStutter ==
  ASSUME UNCHANGED <<written, dispatched, phase>> PROVE UNCHANGED Feed!vars
BY DEF Feed!vars

LEMMA FeedWrite == ASSUME IInv, Write PROVE Feed!Next \/ UNCHANGED Feed!vars
<1>1. PICK n \in (written + 1)..Total : written' = n
  BY DEF Write
<1>2. UNCHANGED <<phase, dispatched>> /\ written \in Nat /\ n \in Nat /\ written < n
  BY <1>1, Stream DEF Write
<1>3. /\ EndedIn(written) \in 0..N /\ Start[EndedIn(written) + 1] <= written
      /\ EndedIn(n) \in 0..N /\ N \in Nat
  BY <1>2, EndedAt, Stream
<1>4. EndedIn(written) <= EndedIn(n)
  <2>1. Start[EndedIn(written) + 1] \in Nat
    BY <1>3, StartGrows
  <2> QED
    BY <1>2, <1>3, <2>1, EndedWithin
<1>5. CASE EndedIn(n) = EndedIn(written)
  BY <1>1, <1>2, <1>5 DEF Feed!vars
<1>6. CASE EndedIn(n) # EndedIn(written)
  <2>1. EndedIn(n) \in (EndedIn(written) + 1)..N
    BY <1>3, <1>4, <1>6
  <2> QED
    BY <1>1, <1>2, <2>1 DEF Feed!Next, Feed!Complete, N
<1> QED
  BY <1>5, <1>6

LEMMA FeedLength == ASSUME IInv, LengthDone PROVE Feed!Next \/ UNCHANGED Feed!vars
<1>1. /\ bytes_read = 4 /\ pos = Start[D + 1] + 4 /\ phase = "length"
      /\ UNCHANGED <<written, pos, closed, dispatched>>
      /\ len' = LengthAt(pos)
      /\ phase' = IF len' > MaxLength THEN "failed" ELSE "body"
  BY DEF IInv, TypeOK, InStep, LengthDone, D
<1>2. D < N
  BY <1>1, Stream
<1>3. len' = Lengths[D + 1] /\ D + 1 \in 1..N
  BY <1>1, <1>2, Stream, LengthRead
<1>4. CASE len' > MaxLength
  <2>1. Feed!NextCommand = D + 1
    BY Stream DEF Feed!NextCommand, D
  <2>2. Lengths[D + 1] > MaxLength /\ D + 1 <= N /\ phase' = "failed"
    BY <1>1, <1>3, <1>4, Stream
  <2> QED
    BY <1>1, <2>1, <2>2 DEF Feed!Next, Feed!Refuse, N
<1>5. CASE ~(len' > MaxLength)
  BY <1>1, <1>5 DEF Feed!vars
<1> QED
  BY <1>4, <1>5

LEMMA FeedDispatch == ASSUME IInv, IInv', Dispatch PROVE Feed!Next
<1>1. /\ phase = "body" /\ UNCHANGED <<written, pos>> /\ pos = Start[D + 1] + 4 + bytes_read
      /\ bytes_read = len - 4 /\ Outcome
      /\ D < N /\ len = Lengths[D + 1] /\ len <= MaxLength /\ dispatched \in Seq(Int)
  BY DEF Dispatch, IInv, InBody, TypeOK
<1>2. D + 1 \in 1..N /\ D \in Nat
  BY <1>1, Stream DEF D
<1>3. Start[(D + 1) + 1] = pos /\ pos <= written /\ written \in Nat
  <2>1. /\ Start[D + 1] \in Nat /\ Start[D + 1] + len = Start[(D + 1) + 1]
        /\ len \in Nat /\ pos = Start[D + 1] + 4 + (len - 4)
    BY <1>1, <1>2, LengthRead
  <2>2. pos = Start[D + 1] + len
    BY <2>1
  <2> QED
    BY <2>1, <2>2, Stream
<1>4. D + 1 <= EndedIn(written)
  <2>1. D + 1 \in 0..N
    BY <1>2
  <2> QED
    BY <1>3, <2>1, EndedWithin
<1>5. Feed!NextCommand = D + 1
  BY <1>2 DEF Feed!NextCommand, D
<1>6. CASE UNCHANGED dispatched /\ phase' = "stopped"
  BY <1>1, <1>4, <1>5, <1>6 DEF Feed!Next, Feed!Handle
<1>7. CASE dispatched' = Append(dispatched, pos - len) /\ phase' \in {"length", "stopped"}
  <2> DEFINE before == [i \in 1..Len(dispatched) |-> CommandAt(dispatched[i])]
  <2>1. before = [i \in 1..D |-> i]
    <3>1. /\ dispatched \in Seq(Int) /\ Len(dispatched) <= N
          /\ \A i \in 1..Len(dispatched) : dispatched[i] = Start[i]
      BY DEF IInv, TypeOK, InStep, N
    <3> QED
      BY <3>1, HandledSoFar DEF D
  <2>2. before' = [i \in 1..(D + 1) |-> i]
    <3>1. /\ dispatched' \in Seq(Int) /\ Len(dispatched') <= N
          /\ \A i \in 1..Len(dispatched') : dispatched'[i] = Start[i]
      BY DEF IInv, TypeOK, InStep, N
    <3>2. [i \in 1..Len(dispatched') |-> CommandAt(dispatched'[i])]
            = [i \in 1..Len(dispatched') |-> i]
      BY <3>1, HandledSoFar
    <3>3. Len(dispatched') = D + 1
      BY <1>1, <1>7 DEF D
    <3> QED
      BY <3>2, <3>3
  <2>3. before' = Append(before, D + 1)
    <3> HIDE DEF before
    <3>1. Append([i \in 1..D |-> i], D + 1) = [i \in 1..(D + 1) |-> i]
      BY <1>2
    <3> QED
      BY <2>1, <2>2, <3>1
  <2>4. Feed!Handle
    BY <1>1, <1>4, <1>5, <1>7, <2>3 DEF Feed!Handle
  <2> QED
    BY <2>4 DEF Feed!Next
<1> QED
  BY <1>1, <1>6, <1>7 DEF Outcome

\* The client hands on whole commands, in order, none that is too long and none
\* after a failure: each of its steps is a step of CommandFeed or none.
THEOREM Implements == Spec => ImplementsFeed
<1>1. IInv /\ IInv' /\ [Next]_vars => [Feed!Next]_(Feed!vars)
  <2> SUFFICES ASSUME IInv, IInv', [Next]_vars PROVE Feed!Next \/ UNCHANGED Feed!vars
    OBVIOUS
  <2>1. CASE Close \/ ReadLength \/ ReadBody \/ ReadNothing \/ Idle \/ UNCHANGED vars
    <3>1. UNCHANGED <<written, dispatched, phase>>
      BY <2>1 DEF Close, ReadLength, ReadBody, ReadNothing, Idle, vars
    <3> QED
      BY <3>1, FeedStutter
  <2>2. CASE ReadFails
    BY <2>2 DEF ReadFails, Feed!Next, Feed!Break
  <2> QED
    BY <2>1, <2>2, FeedWrite, FeedLength, FeedDispatch DEF Next, Read
<1> QED
  BY <1>1, FeedInit, Invariance, PTL DEF Spec, ImplementsFeed, Feed!Spec
=============================================================================
