-------------------------- MODULE RtFindMatchProofs --------------------------
(***************************************************************************)
(* For every size of byte and address, and every routing table whose masks *)
(* end at a byte: after any number of rows, the search of rt_findmatch     *)
(* stands at the longest match among them.                                 *)
(*                                                                         *)
(* The argument: of an aligned row, the inner loop counts the bytes of the *)
(* mask if the row matches, and ends in a mismatch if it does not (Counts).*)
(* So what the outer loop keeps, the row with the most bytes counted and   *)
(* the first default route (Kept), is the longest match.                   *)
(***************************************************************************)
EXTENDS RtFindMatch, FiniteSetTheorems, WellFoundedInduction, TLAPS

-----------------------------------------------------------------------------
(* Bytes and masks.                                                        *)

\* A set of natural numbers that is not empty has a least element.
LEMMA LeastNumber ==
  ASSUME NEW S \in SUBSET Nat, NEW n \in S
  PROVE  \E m \in S : \A k \in S : m <= k
<1>. DEFINE R == {ss \in Nat \X Nat : ss[1] < ss[2]}
<1>1. IsWellFoundedOn(R, Nat)
  BY NatLessThanWellFounded, Zenon DEF OpToRel
<1>. HIDE DEF R
<1>2. PICK m \in S : \A k \in S : <<k, m>> \notin R
  BY <1>1, WFMin
<1>3. \A k \in S : ~(k < m)
  BY <1>2 DEF R
<1>. QED  BY <1>3

LEMMA PowerPositive == ASSUME NEW n \in Nat PROVE 2^n \in Nat /\ 2^n > 0
<1>1. IsFiniteSet(1..n) /\ Cardinality(1..n) = n
  BY FS_Interval
<1>2. IsFiniteSet(SUBSET (1..n)) /\ Cardinality(SUBSET (1..n)) = 2^n
  BY <1>1, FS_SUBSET
<1>3. SUBSET (1..n) # {}
  OBVIOUS
<1>. QED  BY <1>2, <1>3, FS_CardinalityType, FS_EmptySet

\* Nothing is left of a byte under no ones, and all of it under Bits ones.
LEMMA MaskedByte ==
  ASSUME NEW x \in 0..(2^Bits - 1)
  PROVE  Masked(x, 0) = 0 /\ Masked(x, Bits) = x
<1>1. Bits \in Nat /\ 2^Bits \in Nat /\ 2^Bits > 0
  BY WidthAssumption, PowerPositive
<1>2. x % 2^Bits = x
  <2>. DEFINE m == 2^Bits
  <2>1. m \in Nat /\ m > 0 /\ x \in 0..(m - 1)  BY <1>1
  <2>. HIDE DEF m
  <2>2. x % m = x  BY <2>1
  <2>. QED  BY <2>2 DEF m
<1>3. 2^(Bits - Bits) = 1 /\ Bits - 0 = Bits
  <2>1. Bits - Bits = 0 /\ 2^0 = 1  BY <1>1
  <2>. QED  BY <2>1, <1>1
<1>4. x % 1 = 0
  OBVIOUS
<1>. QED  BY <1>2, <1>3, <1>4 DEF Masked

\* Of a mask that ends at a byte, the bytes before have Bits ones, and the others none.
LEMMA AlignedOnes ==
  ASSUME NEW len \in 0..(Bytes * Bits), len % Bits = 0
  PROVE  \E full \in 0..Bytes :
           /\ len = full * Bits
           /\ \A i \in 1..Bytes : OnesIn(len, i) = IF i <= full THEN Bits ELSE 0
<1>. DEFINE full == len \div Bits
<1>1. Bits \in Nat /\ Bits > 0 /\ Bytes \in Nat /\ Bytes > 0
  BY WidthAssumption
<1>2. len \in Nat /\ len = full * Bits + (len % Bits) /\ full \in Nat
  BY <1>1
<1>. HIDE DEF full
<1>3. len = full * Bits
  BY <1>1, <1>2
<1>4. full <= Bytes
  <2>1. ASSUME full >= Bytes + 1 PROVE FALSE
    <3>1. full * Bits >= (Bytes + 1) * Bits
      BY <2>1, <1>1, <1>2
    <3>. QED  BY <3>1, <1>1, <1>3
  <2>. QED  BY <2>1, <1>1, <1>2
<1>5. ASSUME NEW i \in 1..Bytes
      PROVE  OnesIn(len, i) = IF i <= full THEN Bits ELSE 0
  <2>. DEFINE left == len - Bits * (i - 1)
  <2>1. left = Bits * (full - (i - 1)) /\ left \in Int
    BY <1>1, <1>2, <1>3
  <2>. HIDE DEF left
  <2>2. CASE i <= full
    <3>1. full - (i - 1) >= 1  BY <2>2, <1>1, <1>2
    <3>2. left >= Bits  BY <3>1, <2>1, <1>1, <1>2
    <3>. QED  BY <3>2, <2>1, <2>2, <1>1 DEF OnesIn, left
  <2>3. CASE i > full
    <3>1. full - (i - 1) <= 0  BY <2>3, <1>1, <1>2
    <3>2. left <= 0  BY <3>1, <2>1, <1>1, <1>2
    <3>. QED  BY <3>2, <2>1, <2>3, <1>1, <1>2 DEF OnesIn, left
  <2>. QED  BY <2>2, <2>3, <1>1, <1>2
<1>. QED  BY <1>1, <1>2, <1>3, <1>4, <1>5

-----------------------------------------------------------------------------
(* The inner loop.                                                         *)

\* It ends, and Count is the number of bytes before its end.
LEMMA CountDefined ==
  ASSUME NEW row
  PROVE  /\ Count(row) \in 0..Bytes
         /\ \A i \in 1..Count(row) : ~Ends(row, i)
         /\ Count(row) < Bytes => Ends(row, Count(row) + 1)
<1>. DEFINE Stop == {n \in 0..Bytes : n < Bytes => Ends(row, n + 1)}
<1>1. Bytes \in Nat /\ Bytes > 0
  BY WidthAssumption
<1>2. PICK n \in Stop : \A k \in Stop : n <= k
  <2>1. Bytes \in Stop /\ Stop \in SUBSET Nat  BY <1>1
  <2>. HIDE DEF Stop
  <2>. QED  BY <2>1, LeastNumber
<1>3. \A i \in 1..n : ~Ends(row, i)
  <2>. SUFFICES ASSUME NEW i \in 1..n, Ends(row, i) PROVE FALSE
    OBVIOUS
  <2>1. n \in 0..Bytes /\ i - 1 \in 0..Bytes /\ (i - 1) + 1 = i
    BY <1>1, <1>2
  <2>2. i - 1 \in Stop
    BY <2>1
  <2>. QED  BY <1>2, <2>1, <2>2
<1>4. n \in 0..Bytes /\ (n < Bytes => Ends(row, n + 1))
  BY <1>2
<1>. QED  BY <1>3, <1>4 DEF Count

IsAligned(row) == row.len % Bits = 0
NoZeroByte == \A i \in 1..Bytes : addr[i] # 0

\* Of an aligned row that matches, the bytes of its mask are counted; one that
\* does not match is a mismatch.
LEMMA Counts ==
  ASSUME NEW row \in Row, IsAligned(row), addr \in Address, NoZeroByte
  PROVE  /\ Matches(row) => ~Mismatch(row) /\ row.len = Count(row) * Bits
         /\ ~Matches(row) => Mismatch(row)
<1>1. /\ Bits \in Nat /\ Bytes \in Nat /\ row.len \in 0..(Bytes * Bits)
      /\ row.dest \in Address
  BY WidthAssumption DEF Row
<1>2. PICK full \in 0..Bytes :
        /\ row.len = full * Bits
        /\ \A i \in 1..Bytes : OnesIn(row.len, i) = IF i <= full THEN Bits ELSE 0
  BY <1>1, AlignedOnes DEF IsAligned
<1>3. \A i \in 1..Bytes : addr[i] \in 0..(2^Bits - 1) /\ row.dest[i] \in 0..(2^Bits - 1)
  BY <1>1 DEF Address
<1>4. \A i \in 1..Bytes : ToMatch(row, i) = IF i <= full THEN addr[i] ELSE 0
  BY <1>2, <1>3, MaskedByte DEF ToMatch
<1>5. \A i \in 1..Bytes : Ends(row, i) <=> (i > full \/ addr[i] # row.dest[i])
  <2>. SUFFICES ASSUME NEW i \in 1..Bytes
                PROVE  Ends(row, i) <=> (i > full \/ addr[i] # row.dest[i])
    OBVIOUS
  <2>1. CASE i <= full  BY <2>1, <1>1, <1>4 DEF Ends, NoZeroByte
  <2>2. CASE i > full  BY <2>2, <1>1, <1>4 DEF Ends
  <2>. QED  BY <2>1, <2>2, <1>1
<1>6. Matches(row) <=> \A i \in 1..full : addr[i] = row.dest[i]
  <2>1. \A i \in 1..Bytes :
          LET n == OnesIn(row.len, i)
          IN  /\ Masked(addr[i], n) = IF i <= full THEN addr[i] ELSE 0
              /\ Masked(row.dest[i], n) = IF i <= full THEN row.dest[i] ELSE 0
    BY <1>2, <1>3, MaskedByte
  <2>2. Matches(row) <=> \A i \in 1..Bytes : i <= full => addr[i] = row.dest[i]
    BY <2>1 DEF Matches
  <2>. QED  BY <2>2, <1>1
<1>. DEFINE n == Count(row)
<1>7. /\ n \in 0..Bytes /\ \A i \in 1..n : ~Ends(row, i)
      /\ n < Bytes => Ends(row, n + 1)
  BY CountDefined
<1>. HIDE DEF n
<1>8. CASE Matches(row)
  <2>1. n <= full
    BY <1>1, <1>5, <1>7
  <2>2. ~(n < full)
    <3>. SUFFICES ASSUME n < full PROVE FALSE  OBVIOUS
    <3>1. n + 1 \in 1..full /\ n + 1 \in 1..Bytes /\ n < Bytes  BY <1>1, <1>7
    <3>. QED  BY <3>1, <1>1, <1>5, <1>6, <1>7, <1>8
  <2>3. n = full  BY <2>1, <2>2, <1>1, <1>7
  <2>4. n < Bytes => ToMatch(row, n + 1) = 0
    BY <2>3, <1>1, <1>4
  <2>. QED  BY <2>3, <2>4, <1>2, <1>8 DEF Mismatch, n
<1>9. CASE ~Matches(row)
  <2>1. PICK i \in 1..full : addr[i] # row.dest[i]
    BY <1>6, <1>9
  <2>2. i \in 1..Bytes /\ Ends(row, i)
    BY <2>1, <1>1, <1>5
  <2>3. n < i
    BY <2>2, <1>1, <1>7
  <2>4. n < Bytes /\ n + 1 <= full /\ n + 1 \in 1..Bytes
    BY <2>2, <2>3, <1>1, <1>7
  <2>5. ToMatch(row, n + 1) # 0
    BY <2>4, <1>1, <1>4 DEF NoZeroByte
  <2>. QED  BY <2>4, <2>5, <1>9 DEF Mismatch, n
<1>. QED  BY <1>8, <1>9

-----------------------------------------------------------------------------
(* The outer loop.                                                         *)

\* The default route is a row with destination 0, if there is one; the best match is
\* a row that is no mismatch, with as many bytes counted as any such row.
Kept ==
  /\ IF defaultr = 0 THEN \A j \in 1..(curr - 1) : table[j].dest # Zero
     ELSE defaultr \in 1..(curr - 1) /\ table[defaultr].dest = Zero
  /\ IF bestmatch = 0 THEN longest = 0
     ELSE /\ bestmatch \in 1..(curr - 1) /\ ~Mismatch(table[bestmatch])
          /\ longest = Count(table[bestmatch])
  /\ \A j \in 1..(curr - 1) : ~Mismatch(table[j]) => Count(table[j]) <= longest

IInv ==
  /\ table \in Seq(Row) /\ addr \in Address /\ curr \in 1..(Len(table) + 1)
  /\ longest \in Nat
  /\ Kept

LEMMA Start == Init => IInv
<1>. SUFFICES ASSUME Init PROVE IInv  OBVIOUS
<1>1. table \in Seq(Row) /\ addr \in Address  BY TablesAssumption DEF Init
<1>2. Len(table) \in Nat  BY <1>1
<1>3. 1..(curr - 1) = {}  BY DEF Init
<1>. QED  BY <1>1, <1>2, <1>3 DEF Init, IInv, Kept

\* What the inner loop finds in a row depends on the address alone.
LEMMA SameAddress ==
  addr' = addr => \A rw : Count(rw)' = Count(rw) /\ (Mismatch(rw)' <=> Mismatch(rw))
BY DEF Mismatch, Count, Ends, ToMatch

LEMMA ScanRowStep == IInv /\ ScanRow => IInv'
<1>. SUFFICES ASSUME IInv, ScanRow PROVE IInv'  OBVIOUS
<1>. DEFINE row == table[curr]
            better == ~Mismatch(row) /\ Count(row) > longest
<1>1. /\ Len(table) \in Nat /\ curr \in 1..Len(table) /\ curr' = curr + 1
      /\ table' = table /\ addr' = addr
  BY DEF IInv, ScanRow
<1>2. /\ defaultr' = IF defaultr = 0 /\ row.dest = Zero THEN curr ELSE defaultr
      /\ bestmatch' = IF better THEN curr ELSE bestmatch
      /\ longest' = IF better THEN Count(row) ELSE longest
  BY DEF ScanRow
<1>3. \A rw : Count(rw)' = Count(rw) /\ (Mismatch(rw)' <=> Mismatch(rw))
  BY <1>1, SameAddress
<1>4. 1..(curr' - 1) = 1..(curr - 1) \cup {curr} /\ curr \notin 1..(curr - 1) /\ curr # 0
  BY <1>1
<1>5. Count(row) \in Nat /\ longest \in Nat
  BY CountDefined, WidthAssumption DEF IInv
<1>6. IF defaultr' = 0 THEN \A j \in 1..(curr' - 1) : table[j].dest # Zero
      ELSE defaultr' \in 1..(curr' - 1) /\ table[defaultr'].dest = Zero
  BY <1>2, <1>4 DEF IInv, Kept
<1>. HIDE DEF better
<1>7. IF bestmatch' = 0 THEN longest' = 0
      ELSE /\ bestmatch' \in 1..(curr' - 1) /\ ~Mismatch(table[bestmatch'])
           /\ longest' = Count(table[bestmatch'])
  <2>1. CASE better  BY <2>1, <1>2, <1>4 DEF better
  <2>2. CASE ~better  BY <2>2, <1>2, <1>4 DEF IInv, Kept
  <2>. QED  BY <2>1, <2>2
<1>8. \A j \in 1..(curr' - 1) : ~Mismatch(table[j]) => Count(table[j]) <= longest'
  <2>. SUFFICES ASSUME NEW j \in 1..(curr' - 1), ~Mismatch(table[j])
                PROVE  Count(table[j]) <= longest'
    OBVIOUS
  <2>1. longest <= longest' /\ longest' \in Nat
    BY <1>2, <1>5 DEF better
  <2>2. CASE j = curr  BY <2>2, <1>2, <1>5 DEF better
  <2>3. CASE j # curr
    <3>1. j \in 1..(curr - 1) /\ Count(table[j]) <= longest  BY <2>3, <1>4 DEF IInv, Kept
    <3>2. Count(table[j]) \in Nat  BY CountDefined, WidthAssumption
    <3>. QED  BY <2>1, <3>1, <3>2, <1>5
  <2>. QED  BY <2>2, <2>3
<1>9. Kept'
  BY <1>1, <1>3, <1>6, <1>7, <1>8 DEF Kept
<1>10. longest' \in Nat  BY <1>2, <1>5
<1>. QED  BY <1>1, <1>9, <1>10 DEF IInv

LEMMA Inductive == IInv /\ [Next]_vars => IInv'
<1>. SUFFICES ASSUME IInv, [Next]_vars PROVE IInv'  OBVIOUS
<1>1. CASE UNCHANGED vars
  <2>1. \A rw : Count(rw)' = Count(rw) /\ (Mismatch(rw)' <=> Mismatch(rw))
    BY <1>1, SameAddress DEF vars
  <2>2. Kept'
    BY <1>1, <2>1 DEF vars, IInv, Kept
  <2>. QED  BY <1>1, <2>2 DEF vars, IInv
<1>. QED  BY <1>1, ScanRowStep DEF Next

THEOREM Invariance == Spec => []IInv
BY Start, Inductive, PTL DEF Spec

-----------------------------------------------------------------------------
(* The longest match.                                                      *)

\* A mask with at least as many bytes is at least as long.
LEMMA MoreBytes ==
  ASSUME NEW a \in Nat, NEW b \in Nat, a <= b
  PROVE  a * Bits <= b * Bits
<1>1. Bits \in Nat  BY WidthAssumption
<1>2. PICK d \in Nat : b = a + d  BY b - a \in Nat
<1>3. b * Bits = a * Bits + d * Bits  BY <1>1, <1>2
<1>. QED  BY <1>1, <1>3

\* With masks that end at a byte, rt_findmatch has the longest match among the
\* rows it has seen, or 0 if none matches.
THEOREM LongestAligned == Spec => []FindsLongestAlignedPrefix
<1>1. IInv => FindsLongestAlignedPrefix
  <2>. SUFFICES ASSUME IInv, ByteAligned
                PROVE  IsLongestMatch(1..(curr - 1), Result)
    BY DEF FindsLongestAlignedPrefix, FindsLongestPrefix
  <2>0. Bits \in Nat /\ Bits > 0 /\ Bytes \in Nat /\ Len(table) \in Nat
    BY WidthAssumption DEF IInv
  <2>1. 1..(curr - 1) \subseteq 1..Len(table) /\ 0 \notin 1..(curr - 1)
    BY <2>0 DEF IInv
  <2>2. \A j \in 1..(curr - 1) :
          /\ Matches(table[j]) => ~Mismatch(table[j]) /\ table[j].len = Count(table[j]) * Bits
          /\ ~Matches(table[j]) => Mismatch(table[j])
          /\ (table[j].dest = Zero <=> table[j].len = 0)
          /\ Count(table[j]) \in Nat
    <3>. SUFFICES ASSUME NEW j \in 1..Len(table)
                  PROVE /\ Matches(table[j]) => ~Mismatch(table[j])
                                                  /\ table[j].len = Count(table[j]) * Bits
                        /\ ~Matches(table[j]) => Mismatch(table[j])
                        /\ (table[j].dest = Zero <=> table[j].len = 0)
                        /\ Count(table[j]) \in Nat
      BY <2>1
    <3>1. table[j] \in Row  BY DEF IInv
    <3>2. IsAligned(table[j]) /\ NoZeroByte /\ addr \in Address
      BY DEF ByteAligned, IsAligned, NoZeroByte, IInv
    <3>3. Count(table[j]) \in Nat  BY CountDefined, <2>0
    <3>. QED  BY <3>1, <3>2, <3>3, Counts DEF ByteAligned
  <2>3. CASE bestmatch # 0
    <3>1. /\ bestmatch \in 1..(curr - 1) /\ Matches(table[bestmatch])
          /\ longest = Count(table[bestmatch])
      BY <2>2, <2>3 DEF IInv, Kept
    <3>2. ASSUME NEW j \in 1..(curr - 1), Matches(table[j])
          PROVE  table[j].len <= table[bestmatch].len
      <4>1. Count(table[j]) <= Count(table[bestmatch])
        BY <2>2, <3>1, <3>2 DEF IInv, Kept
      <4>. QED  BY <2>2, <3>1, <3>2, <4>1, MoreBytes
    <3>. QED  BY <2>1, <2>3, <3>1, <3>2 DEF IsLongestMatch, Result
  <2>4. CASE bestmatch = 0
    <3>1. \A j \in 1..(curr - 1) : Matches(table[j]) => table[j].len = 0
      <4>. SUFFICES ASSUME NEW j \in 1..(curr - 1), Matches(table[j])
                    PROVE  table[j].len = 0
        OBVIOUS
      <4>1. Count(table[j]) <= 0  BY <2>2, <2>4 DEF IInv, Kept
      <4>2. Count(table[j]) = 0  BY <2>2, <4>1
      <4>. QED  BY <2>0, <2>2, <4>2
    <3>2. CASE defaultr = 0
      <4>1. \A j \in 1..(curr - 1) : ~Matches(table[j])
        BY <2>2, <3>1, <3>2 DEF IInv, Kept
      <4>. QED  BY <2>4, <3>2, <4>1 DEF IsLongestMatch, Result
    <3>3. CASE defaultr # 0
      <4>1. defaultr \in 1..(curr - 1) /\ table[defaultr].len = 0
        BY <2>2, <3>3 DEF IInv, Kept
      <4>2. Matches(table[defaultr])
        <5>1. \A i \in 1..Bytes : OnesIn(0, i) = 0
          <6>. SUFFICES ASSUME NEW i \in 1..Bytes PROVE OnesIn(0, i) = 0  OBVIOUS
          <6>1. Bits * (i - 1) \in Nat  BY <2>0
          <6>2. 0 - Bits * (i - 1) <= 0  BY <6>1
          <6>. QED  BY <6>2 DEF OnesIn
        <5>2. table[defaultr] \in Row  BY <2>1, <4>1 DEF IInv
        <5>3. \A i \in 1..Bytes :
                addr[i] \in 0..(2^Bits - 1) /\ table[defaultr].dest[i] \in 0..(2^Bits - 1)
          BY <5>2 DEF Row, Address, IInv
        <5>. QED  BY <4>1, <5>1, <5>3, MaskedByte DEF Matches
      <4>3. \A j \in 1..(curr - 1) : Matches(table[j]) => table[j].len <= table[defaultr].len
        BY <3>1, <4>1
      <4>. QED  BY <2>1, <2>4, <3>3, <4>1, <4>2, <4>3 DEF IsLongestMatch, Result
    <3>. QED  BY <3>2, <3>3
  <2>. QED  BY <2>3, <2>4
<1>. QED  BY <1>1, Invariance, PTL

=============================================================================
