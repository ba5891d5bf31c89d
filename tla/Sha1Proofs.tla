----------------------------- MODULE Sha1Proofs -----------------------------
(***************************************************************************)
(* For every size of byte, word and block: what SHA-1 has hashed when      *)
(* SHA1Result returns 1 is the padding of the bytes that were input, and   *)
(* only a message of WORD * WORD bits, or late input, is refused.          *)
(*                                                                         *)
(* The inductive invariant says what the context is worth between two      *)
(* bytes: the digest and the used part of the block are the message so     *)
(* far, and the two length words are its length in bits.                   *)
(***************************************************************************)
EXTENDS Sha1, TLAPS

-----------------------------------------------------------------------------
(* Sizes and arithmetic.                                                   *)

LEMMA Sizes ==
  /\ ByteBits \in Nat /\ ByteBits > 0 /\ WordBytes \in Nat /\ WordBytes > 0
  /\ Block \in Nat /\ PadTo \in Nat /\ PadTo > 0 /\ Block = PadTo + WordBytes + WordBytes
  /\ BASE \in Nat /\ BASE >= 2 /\ WORD \in Nat /\ WORD > 0
  /\ Mark \in Byte /\ 0 \in Byte
  /\ \E q \in Nat : WORD = ByteBits * q
<1>1. /\ ByteBits \in Nat /\ ByteBits > 0 /\ WordBytes \in Nat /\ WordBytes > 0
      /\ Block \in Nat /\ BASE \in Nat /\ BASE >= 2
  BY SizesAssumption
<1>2. PadTo \in Nat /\ PadTo > 0 /\ Block = PadTo + WordBytes + WordBytes
  BY SizesAssumption, <1>1 DEF PadTo
<1>3. WORD \in Nat /\ WORD > 0
  <2>1. WordBytes \in 0..WordBytes  BY <1>1
  <2>2. \A k \in 0..WordBytes : BASE^k \in Nat \ {0}  BY SizesAssumption
  <2>. QED  BY <2>1, <2>2 DEF WORD
<1>4. Mark \in Byte /\ 0 \in Byte
  BY <1>1 DEF Mark, Byte
<1>5. \E q \in Nat : WORD = ByteBits * q
  BY SizesAssumption, <1>3
<1>. QED  BY <1>1, <1>2, <1>3, <1>4, <1>5

LEMMA NextMultiple ==
  ASSUME NEW b \in Nat, b > 0, NEW x \in Nat, NEW y \in Nat, b * x < b * y
  PROVE  b * x + b <= b * y /\ b * x + b = b * (x + 1)
<1>1. b * x + b = b * (x + 1)  OBVIOUS
<1>2. x < y
  <2>. SUFFICES ASSUME y <= x PROVE FALSE  OBVIOUS
  <2>1. PICK d \in Nat : x = y + d  BY SMT
  <2>2. b * x = b * y + b * d  BY <2>1
  <2>3. b * d \in Nat  OBVIOUS
  <2>. QED  BY <2>2, <2>3
<1>3. PICK e \in Nat : y = (x + 1) + e  BY <1>2
<1>4. b * y = b * (x + 1) + b * e  BY <1>3
<1>5. b * e \in Nat  OBVIOUS
<1>. QED  BY <1>1, <1>4, <1>5

LEMMA OctetsType ==
  ASSUME NEW w \in Nat
  PROVE  Octets(w) \in Seq(Byte) /\ Len(Octets(w)) = WordBytes
<1>1. \A i \in 1..WordBytes : (w \div BASE^(WordBytes - i)) % BASE \in Byte
  <2>. TAKE i \in 1..WordBytes
  <2>1. WordBytes - i \in 0..WordBytes  BY Sizes
  <2>2. BASE^(WordBytes - i) \in Nat \ {0}  BY <2>1, SizesAssumption
  <2>. DEFINE p == BASE^(WordBytes - i)
  <2>3. w \div p \in Nat  BY <2>2
  <2>. HIDE DEF p
  <2>. DEFINE r == w \div p
  <2>. HIDE DEF r
  <2>4. r % BASE \in 0..(BASE - 1)  BY <2>3, Sizes DEF r
  <2>. QED  BY <2>4 DEF r, p, Byte
<1>. QED  BY <1>1, Sizes DEF Octets

-----------------------------------------------------------------------------
(* The inductive invariant.                                                *)

\* The digest is whole blocks.
Blocks == \E n \in Nat : Len(Message_Digest) = n * Block

\* The digest and the used part of the block are the message so far.
Holds ==
  ~Computed =>
    /\ Len(Message_Digest) + Message_Block_Index = taken
    /\ \A i \in 1..Len(Message_Digest) : Message_Digest[i] = message[i]
    /\ \A i \in 1..Message_Block_Index :
         Message_Block[i] = message[Len(Message_Digest) + i]

\* The two words are its length in bits.
Counted ==
  /\ \E q \in Nat : Length_Low = ByteBits * q
  /\ Length_High * WORD + Length_Low =
       IF Corrupted /\ ~Computed THEN 0 ELSE ByteBits * taken
  /\ Corrupted /\ ~Computed => ByteBits * taken = WORD * WORD

\* What SHA1Input and SHA1Result have said.
Said ==
  /\ length > 0 => ~Computed /\ ~Corrupted
  /\ result = 1 => Computed
  /\ result = 0 => Corrupted
  /\ Computed => IsPadded(Message_Digest, SubSeq(message, 1, taken))

IInv == TypeOK /\ Blocks /\ Holds /\ Counted /\ Said

-----------------------------------------------------------------------------
(* Padding.                                                                *)

\* r is s and then t, byte by byte.
InTwo(r, s, t) ==
  /\ r \in Seq(Byte) /\ Len(r) = Len(s) + Len(t)
  /\ Len(s) \in Nat /\ Len(t) \in Nat
  /\ \A i \in 1..Len(s) : r[i] = s[i]
  /\ \A i \in 1..Len(t) : r[Len(s) + i] = t[i]

LEMMA Joined ==
  ASSUME NEW s \in Seq(Byte), NEW t \in Seq(Byte)
  PROVE  InTwo(s \o t, s, t)
BY DEF InTwo

LEMMA SameBytes ==
  ASSUME NEW S, NEW s \in Seq(S), NEW t \in Seq(S), Len(s) = Len(t),
         \A i \in 1..Len(s) : s[i] = t[i]
  PROVE  s = t
OBVIOUS

\* d is m, the mark, z zeros, h and l, byte by byte.
InParts(d, m, z, h, l) ==
  /\ d \in Seq(Byte) /\ Len(d) = Len(m) + 1 + z + Len(h) + Len(l)
  /\ \A i \in 1..Len(m) : d[i] = m[i]
  /\ d[Len(m) + 1] = Mark
  /\ \A i \in 1..z : d[Len(m) + 1 + i] = 0
  /\ \A i \in 1..Len(h) : d[Len(m) + 1 + z + i] = h[i]
  /\ \A i \in 1..Len(l) : d[Len(m) + 1 + z + Len(h) + i] = l[i]

LEMMA PaddedParts ==
  ASSUME NEW m \in Seq(Byte), NEW z \in Nat, NEW h \in Seq(Byte), NEW l \in Seq(Byte),
         NEW a, a = m \o <<Mark>>, NEW b, b = a \o [i \in 1..z |-> 0],
         NEW c, c = b \o h, NEW d, d = c \o l
  PROVE  InParts(d, m, z, h, l)
<1>1. PICK zs \in Seq(Byte) :
        zs = [i \in 1..z |-> 0] /\ Len(zs) = z /\ \A i \in 1..z : zs[i] = 0
  <2>. DEFINE s == [i \in 1..z |-> 0]
  <2>1. s \in Seq(Byte) /\ Len(s) = z /\ \A i \in 1..z : s[i] = 0  BY Sizes
  <2>. HIDE DEF s
  <2>2. s = [i \in 1..z |-> 0]  BY DEF s
  <2>. QED  BY <2>1, <2>2
<1>2. PICK mk \in Seq(Byte) : mk = <<Mark>> /\ Len(mk) = 1 /\ mk[1] = Mark
  <2>. DEFINE s == <<Mark>>
  <2>1. s \in Seq(Byte) /\ Len(s) = 1 /\ s[1] = Mark  BY Sizes
  <2>. HIDE DEF s
  <2>2. s = <<Mark>>  BY DEF s
  <2>. QED  BY <2>1, <2>2
<1>3. /\ a \in Seq(Byte) /\ Len(a) = Len(m) + 1 /\ Len(m) \in Nat
      /\ \A i \in 1..Len(m) : a[i] = m[i]
      /\ a[Len(m) + 1] = Mark
  <2>1. InTwo(a, m, mk)  BY <1>2, Joined
  <2>. QED  BY <1>2, <2>1 DEF InTwo
<1>4. /\ b \in Seq(Byte) /\ Len(b) = Len(a) + z
      /\ \A i \in 1..Len(a) : b[i] = a[i]
      /\ \A i \in 1..z : b[Len(a) + i] = 0
  <2>1. InTwo(b, a, zs)  BY <1>1, <1>3, Joined
  <2>. QED  BY <1>1, <2>1 DEF InTwo
<1>5. /\ c \in Seq(Byte) /\ Len(c) = Len(b) + Len(h) /\ Len(h) \in Nat
      /\ \A i \in 1..Len(b) : c[i] = b[i]
      /\ \A i \in 1..Len(h) : c[Len(b) + i] = h[i]
  <2>1. InTwo(c, b, h)  BY <1>4, Joined
  <2>. QED  BY <2>1 DEF InTwo
<1>6. /\ d \in Seq(Byte) /\ Len(d) = Len(c) + Len(l) /\ Len(l) \in Nat
      /\ \A i \in 1..Len(c) : d[i] = c[i]
      /\ \A i \in 1..Len(l) : d[Len(c) + i] = l[i]
  <2>1. InTwo(d, c, l)  BY <1>5, Joined
  <2>. QED  BY <2>1 DEF InTwo
<1>. QED  BY <1>3, <1>4, <1>5, <1>6 DEF InParts

\* Padding by parts: what is in the block, the mark, zeros, the two words.
LEMMA PaddingParts ==
  ASSUME TypeOK,
         NEW e, e = Len(Padding) - WordBytes - WordBytes,
         NEW h, h = Octets(Length_High), NEW l, l = Octets(Length_Low)
  PROVE  /\ Padding \in Seq(Byte) /\ LastBlock \in [1..Block -> Byte]
         /\ Len(Padding) = Block \/ Len(Padding) = Block + Block
         /\ Message_Block_Index + 1 <= e /\ e - Message_Block_Index <= Block
         /\ \A i \in 1..Message_Block_Index : Padding[i] = Message_Block[i]
         /\ Padding[Message_Block_Index + 1] = Mark
         /\ \A i \in (Message_Block_Index + 2)..e : Padding[i] = 0
         /\ \A i \in 1..WordBytes : Padding[e + i] = h[i]
         /\ \A i \in 1..WordBytes : Padding[e + WordBytes + i] = l[i]
<1>. DEFINE first == [i \in 1..Block |-> Marked(i)]
            last == [i \in 1..Block |-> IF i <= PadTo THEN 0 ELSE LengthByte(i)]
            only == [i \in 1..Block |-> IF i <= PadTo THEN Marked(i) ELSE LengthByte(i)]
<1>1. /\ Message_Block_Index \in 0..(Block - 1)
      /\ \A i \in 1..Block : Message_Block[i] \in Byte
      /\ Length_High \in Nat /\ Length_Low \in Nat
  BY Sizes DEF TypeOK
<1>2. /\ h \in Seq(Byte) /\ Len(h) = WordBytes /\ l \in Seq(Byte) /\ Len(l) = WordBytes
  BY <1>1, OctetsType
<1>3. /\ \A i \in 1..WordBytes : h[i] \in Byte /\ LengthByte(PadTo + i) = h[i]
      /\ \A i \in 1..WordBytes : l[i] \in Byte /\ LengthByte(PadTo + WordBytes + i) = l[i]
  BY <1>2, Sizes DEF LengthByte
<1>4. \A i \in 1..Block : i > PadTo => LengthByte(i) \in Byte
  <2>. SUFFICES ASSUME NEW i \in 1..Block, i > PadTo PROVE LengthByte(i) \in Byte
    OBVIOUS
  <2>1. CASE i <= PadTo + WordBytes
    <3>1. i - PadTo \in 1..WordBytes  BY <2>1, Sizes
    <3>. QED  BY <2>1, <3>1, <1>3, Sizes DEF LengthByte
  <2>2. CASE i > PadTo + WordBytes
    <3>1. i - PadTo - WordBytes \in 1..WordBytes  BY <2>2, Sizes
    <3>. QED  BY <2>2, <3>1, <1>3, Sizes DEF LengthByte
  <2>. QED  BY <2>1, <2>2, Sizes
<1>5. \A i \in 1..Block : Marked(i) \in Byte
  BY <1>1, Sizes DEF Marked
<1>6. /\ first \in Seq(Byte) /\ Len(first) = Block /\ \A i \in 1..Block : first[i] = Marked(i)
      /\ last \in Seq(Byte) /\ Len(last) = Block
      /\ \A i \in 1..Block : last[i] = IF i <= PadTo THEN 0 ELSE LengthByte(i)
      /\ only \in Seq(Byte) /\ Len(only) = Block
      /\ \A i \in 1..Block : only[i] = IF i <= PadTo THEN Marked(i) ELSE LengthByte(i)
  BY <1>4, <1>5, Sizes
<1>9. \A i \in 1..Block : (i > PadTo) <=> ~(i <= PadTo)  BY Sizes
<1>7. CASE Message_Block_Index > PadTo - 1
  <2>0. LastBlock = last  BY <1>7, <1>9, SMT DEF LastBlock, TwoBlocks
  <2>1. Padding = first \o last  BY <1>7, <2>0 DEF Padding, TwoBlocks
  <2>9. LastBlock \in [1..Block -> Byte]  BY <1>4, <2>0, Sizes
  <2>. HIDE DEF first, last, only
  <2>2. /\ Padding \in Seq(Byte) /\ Len(Padding) = Block + Block
        /\ \A i \in 1..Block : Padding[i] = first[i]
        /\ \A i \in 1..Block : Padding[Block + i] = last[i]
    <3>1. first \in Seq(Byte) /\ last \in Seq(Byte) /\ Len(first) = Block /\ Len(last) = Block
      BY <1>6
    <3>2. InTwo(Padding, first, last)  BY <2>1, <3>1, Joined
    <3>. QED  BY <3>1, <3>2 DEF InTwo
  <2>3. e = Block + PadTo  BY <2>2, Sizes
  <2>4. \A i \in 1..WordBytes : Padding[e + i] = h[i]
    <3>. TAKE i \in 1..WordBytes
    <3>1. PadTo + i \in 1..Block /\ ~(PadTo + i <= PadTo) /\ e + i = Block + (PadTo + i)
      BY <2>3, Sizes
    <3>. QED  BY <3>1, <2>2, <1>6, <1>3
  <2>5. \A i \in 1..WordBytes : Padding[e + WordBytes + i] = l[i]
    <3>. TAKE i \in 1..WordBytes
    <3>1. /\ PadTo + WordBytes + i \in 1..Block /\ ~(PadTo + WordBytes + i <= PadTo)
          /\ e + WordBytes + i = Block + (PadTo + WordBytes + i)
      BY <2>3, Sizes
    <3>. QED  BY <3>1, <2>2, <1>6, <1>3
  <2>6. \A i \in (Message_Block_Index + 2)..e : Padding[i] = 0
    <3>. TAKE i \in (Message_Block_Index + 2)..e
    <3>1. CASE i <= Block
      BY <3>1, <2>2, <1>6, <1>1, Sizes DEF Marked
    <3>2. CASE i > Block
      <4>1. i - Block \in 1..Block /\ i - Block <= PadTo /\ i = Block + (i - Block)
        BY <3>2, <2>3, Sizes, <1>1
      <4>. QED  BY <4>1, <2>2, <1>6
    <3>. QED  BY <3>1, <3>2, Sizes, <1>1, <2>3
  <2>7. /\ \A i \in 1..Message_Block_Index : Padding[i] = Message_Block[i]
        /\ Padding[Message_Block_Index + 1] = Mark
    BY <2>2, <1>6, <1>1, Sizes DEF Marked
  <2>8. Message_Block_Index + 1 <= e /\ e - Message_Block_Index <= Block
    BY <2>3, <1>1, <1>7, Sizes
  <2>. QED  BY <2>2, <2>4, <2>5, <2>6, <2>7, <2>8, <2>9
<1>8. CASE ~(Message_Block_Index > PadTo - 1)
  <2>0. LastBlock = only  BY <1>8, <1>9, SMT DEF LastBlock, TwoBlocks
  <2>1. Padding = only  BY <1>8, <2>0 DEF Padding, TwoBlocks
  <2>9. LastBlock \in [1..Block -> Byte]  BY <1>4, <1>5, <2>0, Sizes
  <2>. HIDE DEF first, last, only
  <2>2. /\ Padding \in Seq(Byte) /\ Len(Padding) = Block
        /\ \A i \in 1..Block : Padding[i] = only[i]
    BY <2>1, <1>6
  <2>3. e = PadTo  BY <2>2, Sizes
  <2>4. \A i \in 1..WordBytes : Padding[e + i] = h[i]
    <3>. TAKE i \in 1..WordBytes
    <3>1. PadTo + i \in 1..Block /\ ~(PadTo + i <= PadTo)
      BY Sizes
    <3>. QED  BY <3>1, <2>2, <2>3, <1>6, <1>3
  <2>5. \A i \in 1..WordBytes : Padding[e + WordBytes + i] = l[i]
    <3>. TAKE i \in 1..WordBytes
    <3>1. PadTo + WordBytes + i \in 1..Block /\ ~(PadTo + WordBytes + i <= PadTo)
      BY Sizes
    <3>. QED  BY <3>1, <2>2, <2>3, <1>6, <1>3
  <2>6. \A i \in (Message_Block_Index + 2)..e : Padding[i] = 0
    BY <2>2, <2>3, <1>6, <1>1, Sizes DEF Marked
  <2>7. /\ \A i \in 1..Message_Block_Index : Padding[i] = Message_Block[i]
        /\ Padding[Message_Block_Index + 1] = Mark
    BY <2>2, <1>6, <1>1, <1>8, Sizes DEF Marked
  <2>8. Message_Block_Index + 1 <= e /\ e - Message_Block_Index <= Block
    BY <2>3, <1>1, <1>8, Sizes
  <2>. QED  BY <2>2, <2>4, <2>5, <2>6, <2>7, <2>8, <2>9
<1>. QED  BY <1>7, <1>8

\* Where SHA1Result pads, digest and padding are the padded message.
LEMMA PaddingCompletes ==
  ASSUME IInv, ~Computed, ~Corrupted
  PROVE  /\ Message_Digest \o Padding \in Seq(Byte)
         /\ \E n \in Nat : Len(Message_Digest \o Padding) = n * Block
         /\ IsPadded(Message_Digest \o Padding, SubSeq(message, 1, taken))
<1>. DEFINE e == Len(Padding) - WordBytes - WordBytes
            z == e - Message_Block_Index - 1
            d == Message_Digest \o Padding
            m == SubSeq(message, 1, taken)
            h == Octets(Length_High)
            l == Octets(Length_Low)
            a == m \o <<Mark>>
            b == a \o [i \in 1..z |-> 0]
            c == b \o h
            p == c \o l
<1>1. /\ message \in Seq(Byte) /\ taken \in 0..Len(message)
      /\ Message_Block_Index \in 0..(Block - 1) /\ Message_Digest \in Seq(Byte)
      /\ Length_High \in 0..(WORD - 1) /\ Length_Low \in 0..(WORD - 1)
      /\ Len(Message_Digest) + Message_Block_Index = taken
      /\ \A i \in 1..Len(Message_Digest) : Message_Digest[i] = message[i]
      /\ \A i \in 1..Message_Block_Index :
           Message_Block[i] = message[Len(Message_Digest) + i]
      /\ Length_High * WORD + Length_Low = ByteBits * taken
  BY MessageAssumption DEF IInv, TypeOK, Holds, Counted
<1>2. /\ m \in Seq(Byte) /\ Len(m) = taken /\ \A i \in 1..taken : m[i] = message[i]
  BY <1>1
<1>3. /\ h \in Seq(Byte) /\ Len(h) = WordBytes /\ l \in Seq(Byte) /\ Len(l) = WordBytes
  <2>1. Length_High \in Nat /\ Length_Low \in Nat  BY <1>1, Sizes
  <2>. QED  BY <2>1, OctetsType
<1>. HIDE DEF m, h, l
<1>4. /\ Padding \in Seq(Byte)
      /\ Len(Padding) = Block \/ Len(Padding) = Block + Block
      /\ Message_Block_Index + 1 <= e /\ e - Message_Block_Index <= Block
      /\ \A i \in 1..Message_Block_Index : Padding[i] = Message_Block[i]
      /\ Padding[Message_Block_Index + 1] = Mark
      /\ \A i \in (Message_Block_Index + 2)..e : Padding[i] = 0
      /\ \A i \in 1..WordBytes : Padding[e + i] = h[i]
      /\ \A i \in 1..WordBytes : Padding[e + WordBytes + i] = l[i]
  BY PaddingParts DEF IInv, h, l
<1>5. z \in 0..(Block - 1)
  BY <1>1, <1>4, Sizes
<1>e. e = Message_Block_Index + 1 + z /\ Len(Padding) = e + WordBytes + WordBytes
  BY <1>1, <1>4, <1>5, Sizes
<1>. HIDE DEF e, z
<1>6. /\ p \in Seq(Byte) /\ Len(p) = taken + 1 + z + WordBytes + WordBytes
      /\ \A i \in 1..taken : p[i] = message[i]
      /\ p[taken + 1] = Mark
      /\ \A i \in 1..z : p[taken + 1 + i] = 0
      /\ \A i \in 1..WordBytes : p[taken + 1 + z + i] = h[i]
      /\ \A i \in 1..WordBytes : p[taken + 1 + z + WordBytes + i] = l[i]
  <2>1. z \in Nat  BY <1>5
  <2>. HIDE DEF a, b, c, p
  <2>2. a = m \o <<Mark>> /\ b = a \o [i \in 1..z |-> 0] /\ c = b \o h /\ p = c \o l
    BY DEF a, b, c, p
  <2>3. InParts(p, m, z, h, l)
    <3>1. m \in Seq(Byte) /\ h \in Seq(Byte) /\ l \in Seq(Byte)  BY <1>2, <1>3
    <3>. QED  BY <2>1, <2>2, <3>1, PaddedParts
  <2>. QED  BY <1>2, <1>3, <2>3 DEF InParts
<1>7. /\ d \in Seq(Byte) /\ Len(d) = Len(Message_Digest) + Len(Padding)
      /\ Len(Message_Digest) \in Nat
      /\ \A i \in 1..Len(Message_Digest) : d[i] = Message_Digest[i]
      /\ \A i \in 1..Len(Padding) : d[Len(Message_Digest) + i] = Padding[i]
  <2>1. InTwo(d, Message_Digest, Padding)  BY <1>1, <1>4, Joined
  <2>. QED  BY <2>1 DEF InTwo
<1>i. /\ Len(Message_Digest) \in Nat /\ Message_Block_Index \in Nat /\ taken \in Nat
      /\ z \in Nat /\ WordBytes \in Nat /\ e \in Nat /\ Len(Padding) \in Nat
      /\ e = Message_Block_Index + 1 + z /\ Len(Padding) = e + WordBytes + WordBytes
      /\ Len(Message_Digest) + Message_Block_Index = taken
  BY <1>1, <1>5, <1>7, <1>e, Sizes
<1>. HIDE DEF p, d
<1>8. d = p
  <2>1. Len(d) = Len(p)
    <3>1. /\ Len(d) = Len(Message_Digest) + Len(Padding)
          /\ Len(p) = taken + 1 + z + WordBytes + WordBytes
      BY <1>6, <1>7
    <3>. QED  BY <3>1, <1>i
  <2>2. ASSUME NEW i \in 1..Len(d) PROVE d[i] = p[i]
    <3>. DEFINE j == i - Len(Message_Digest)
    <3>1. CASE i <= Len(Message_Digest)
      BY <3>1, <1>1, <1>6, <1>7
    <3>2. CASE i > Len(Message_Digest)
      <4>1. /\ j \in 1..Len(Padding) /\ i = Len(Message_Digest) + j
            /\ d[i] = Padding[j]
        BY <3>2, <1>7, <1>e, <1>5, <1>1, Sizes
      <4>j. j \in 1..Len(Padding) /\ i = Len(Message_Digest) + j
        BY <4>1
      <4>. HIDE DEF j
      <4>2. CASE j <= Message_Block_Index
        BY <4>1, <4>2, <1>1, <1>4, <1>6
      <4>3. CASE j = Message_Block_Index + 1
        BY <4>1, <4>3, <1>1, <1>4, <1>6
      <4>4. CASE j > Message_Block_Index + 1 /\ j <= e
        <5>1. /\ j - Message_Block_Index - 1 \in 1..z
              /\ i = taken + 1 + (j - Message_Block_Index - 1)
          BY <4>j, <4>4, <1>i
        <5>2. p[i] = 0  BY <5>1, <1>6
        <5>3. Padding[j] = 0  BY <4>1, <4>4, <1>1, <1>4, <1>e, <1>5
        <5>. QED  BY <4>1, <5>2, <5>3
      <4>5. CASE j > e /\ j <= e + WordBytes
        <5>1. /\ j - e \in 1..WordBytes /\ j = e + (j - e)
              /\ i = taken + 1 + z + (j - e)
          BY <4>j, <4>5, <1>i
        <5>2. p[i] = h[j - e]  BY <5>1, <1>6
        <5>3. Padding[j] = h[j - e]  BY <5>1, <1>4
        <5>. QED  BY <4>1, <5>2, <5>3
      <4>6. CASE j > e + WordBytes
        <5>1. /\ j - e - WordBytes \in 1..WordBytes /\ j = e + WordBytes + (j - e - WordBytes)
              /\ i = taken + 1 + z + WordBytes + (j - e - WordBytes)
          BY <4>j, <4>6, <1>i
        <5>2. p[i] = l[j - e - WordBytes]  BY <5>1, <1>6
        <5>3. Padding[j] = l[j - e - WordBytes]  BY <5>1, <1>4
        <5>. QED  BY <4>1, <5>2, <5>3
      <4>7. e \in Int /\ Message_Block_Index \in Int /\ WordBytes \in Int
        BY <1>1, <1>e, <1>5, Sizes
      <4>. QED  BY <4>j, <4>2, <4>3, <4>4, <4>5, <4>6, <4>7
    <3>. QED  BY <3>1, <3>2, <1>7
  <2>. QED  BY <2>1, <2>2, <1>6, <1>7, SameBytes
<1>9. \E n \in Nat : Len(d) = n * Block
  <2>1. PICK n \in Nat : Len(Message_Digest) = n * Block  BY DEF IInv, Blocks
  <2>2. n * Block + Block = (n + 1) * Block /\ n * Block + Block + Block = (n + 2) * Block
    BY Sizes
  <2>3. Len(d) = n * Block + Block \/ Len(d) = n * Block + Block + Block
    <3>1. /\ Len(d) = Len(Message_Digest) + Len(Padding)
          /\ Len(Padding) = Block \/ Len(Padding) = Block + Block
      BY <1>4, <1>7
    <3>. QED  BY <2>1, <3>1, Sizes
  <2>. QED  BY <2>2, <2>3
<1>10. IsPadded(d, m)
  <2>1. \E n \in 0..Len(d) : Len(d) = n * Block
    <3>1. PICK n \in Nat : Len(d) = n * Block  BY <1>9
    <3>2. Len(d) = n + n * (Block - 1) /\ n * (Block - 1) >= 0  BY <3>1, Sizes
    <3>3. n * (Block - 1) \in Int  BY Sizes
    <3>. QED  BY <3>1, <3>2, <3>3
  <2>2. d = m \o <<Mark>> \o [i \in 1..z |-> 0] \o h \o l
    BY <1>8 DEF p, c, b, a
  <2>3. Length_High * WORD + Length_Low = ByteBits * Len(m)
    BY <1>1, <1>2
  <2>. QED  BY <1>1, <1>5, <2>1, <2>2, <2>3 DEF IsPadded, h, l
<1>. QED  BY <1>7, <1>9, <1>10 DEF d, m

-----------------------------------------------------------------------------
(* The steps.                                                              *)

LEMMA Start == Init => IInv
<1>. SUFFICES ASSUME Init PROVE IInv  OBVIOUS
<1>1. TypeOK
  <2>1. message \in Message /\ Len(message) \in Nat  BY MessageAssumption DEF Init
  <2>2. Message_Block \in [1..Block -> Byte] /\ Message_Digest \in Seq(Byte)
    BY Sizes DEF Init
  <2>3. 0 \in 0..(Block - 1) /\ 0 \in 0..(WORD - 1)  BY Sizes
  <2>4. taken \in 0..Len(message) /\ length \in 0..(Len(message) - taken) /\ result \in 0..2
    BY <2>1 DEF Init
  <2>. QED  BY <2>1, <2>2, <2>3, <2>4 DEF Init, TypeOK
<1>2. Blocks
  BY Sizes DEF Init, Blocks
<1>3. Holds /\ Said
  BY Sizes DEF Init, Holds, Said
<1>4. Counted
  BY Sizes DEF Init, Counted
<1>. QED  BY <1>1, <1>2, <1>3, <1>4 DEF IInv

LEMMA ResetStep == IInv /\ SHA1Reset => IInv'
<1>. SUFFICES ASSUME IInv, SHA1Reset PROVE IInv'  OBVIOUS
<1>1. TypeOK'
  <2>1. message' \in Message /\ Len(message') \in Nat  BY MessageAssumption DEF SHA1Reset
  <2>2. Message_Digest' \in Seq(Byte)  BY DEF SHA1Reset
  <2>3. 0 \in 0..(Block - 1) /\ 0 \in 0..(WORD - 1)  BY Sizes
  <2>4. /\ taken' \in 0..Len(message') /\ length' \in 0..(Len(message') - taken')
        /\ result' \in 0..2
    BY <2>1 DEF SHA1Reset, Returned
  <2>. QED  BY <2>1, <2>2, <2>3, <2>4 DEF SHA1Reset, IInv, TypeOK
<1>2. Blocks'
  BY Sizes DEF SHA1Reset, Blocks
<1>3. Holds' /\ Said'
  BY Sizes DEF SHA1Reset, Returned, Holds, Said
<1>4. Counted'
  BY Sizes DEF SHA1Reset, Counted
<1>. QED  BY <1>1, <1>2, <1>3, <1>4 DEF IInv

LEMMA InputStep == \A n \in 0..Len(message) : IInv /\ SHA1Input(n) => IInv'
<1>. SUFFICES ASSUME NEW n \in 0..Len(message), IInv, SHA1Input(n) PROVE IInv'  OBVIOUS
<1>1. TypeOK'
  BY MessageAssumption DEF SHA1Input, IInv, TypeOK
<1>2. Blocks' /\ Holds' /\ Counted'
  BY DEF SHA1Input, IInv, Blocks, Holds, Counted
<1>3. Said'
  BY DEF SHA1Input, IInv, Said, IsPadded
<1>. QED  BY <1>1, <1>2, <1>3 DEF IInv

LEMMA LateStep == IInv /\ InputTooLate => IInv'
<1>. SUFFICES ASSUME IInv, InputTooLate PROVE IInv'  OBVIOUS
<1>1. TypeOK' /\ Blocks' /\ Holds'
  BY DEF InputTooLate, IInv, TypeOK, Blocks, Holds
<1>2. Counted'
  BY DEF InputTooLate, IInv, Counted
<1>3. Said'
  BY DEF InputTooLate, Returned, IInv, TypeOK, Said, IsPadded
<1>. QED  BY <1>1, <1>2, <1>3 DEF IInv

LEMMA KnownStep == IInv /\ ResultKnown => IInv'
<1>. SUFFICES ASSUME IInv, ResultKnown PROVE IInv'  OBVIOUS
<1>1. TypeOK'
  <2>1. result' \in 0..2  BY DEF ResultKnown
  <2>. QED  BY <2>1 DEF ResultKnown, IInv, TypeOK
<1>2. Blocks' /\ Holds' /\ Counted'
  BY DEF ResultKnown, IInv, Blocks, Holds, Counted
<1>3. Said'
  <2>1. Computed => IsPadded(Message_Digest', SubSeq(message', 1, taken'))
    <3>1. message' = message /\ taken' = taken /\ Message_Digest' = Message_Digest
      BY DEF ResultKnown
    <3>. QED  BY <3>1 DEF IInv, Said
  <2>2. Computed => IsPadded(Message_Digest, SubSeq(message, 1, taken))'
    BY <2>1 DEF IsPadded
  <2>3. (result' = 1 => Computed) /\ (result' = 0 => Corrupted)  BY DEF ResultKnown
  <2>. QED  BY <2>2, <2>3 DEF ResultKnown, Returned, IInv, Said
<1>. QED  BY <1>1, <1>2, <1>3 DEF IInv

LEMMA ResultStep == IInv /\ SHA1Result => IInv'
<1>. SUFFICES ASSUME IInv, SHA1Result PROVE IInv'  OBVIOUS
<1>1. /\ Message_Digest \o Padding \in Seq(Byte)
      /\ \E n \in Nat : Len(Message_Digest \o Padding) = n * Block
      /\ IsPadded(Message_Digest \o Padding, SubSeq(message, 1, taken))
  BY PaddingCompletes DEF SHA1Result
<1>2. Message_Digest' = Message_Digest \o Padding
  BY DEF SHA1Result
<1>3. TypeOK'
  <2>1. LastBlock \in [1..Block -> Byte]  BY PaddingParts DEF IInv
  <2>. QED  BY <1>1, <1>2, <2>1, Sizes DEF SHA1Result, IInv, TypeOK
<1>4. Blocks'
  BY <1>1, <1>2 DEF Blocks
<1>5. Holds' /\ Counted'
  BY DEF SHA1Result, IInv, Holds, Counted
<1>6. Said'
  <2>1. IsPadded(Message_Digest', SubSeq(message', 1, taken'))
    <3>1. message' = message /\ taken' = taken  BY DEF SHA1Result
    <3>. QED  BY <1>1, <1>2, <3>1
  <2>2. IsPadded(Message_Digest, SubSeq(message, 1, taken))'
    BY <2>1 DEF IsPadded
  <2>. QED  BY <2>2 DEF SHA1Result, Returned, Said
<1>. QED  BY <1>3, <1>4, <1>5, <1>6 DEF IInv

\* One byte counted: the words stay the length in bits, or overflow together.
LEMMA CountStep ==
  ASSUME NEW low \in 0..(WORD - 1), NEW high \in 0..(WORD - 1), NEW t \in Nat,
         \E q \in Nat : low = ByteBits * q,
         high * WORD + low = ByteBits * t,
         NEW low2, low2 = (low + ByteBits) % WORD,
         NEW high2, high2 = IF low2 = 0 THEN (high + 1) % WORD ELSE high
  PROVE  /\ low2 \in 0..(WORD - 1) /\ high2 \in 0..(WORD - 1)
         /\ \E q \in Nat : low2 = ByteBits * q
         /\ IF low2 = 0 /\ high2 = 0 THEN ByteBits * (t + 1) = WORD * WORD
            ELSE high2 * WORD + low2 = ByteBits * (t + 1)
<1>1. PICK q \in Nat : low = ByteBits * q  OBVIOUS
<1>2. PICK w \in Nat : WORD = ByteBits * w  BY Sizes
<1>3. low + ByteBits <= WORD /\ low + ByteBits = ByteBits * (q + 1)
  <2>1. ByteBits * q < ByteBits * w  BY <1>1, <1>2, Sizes
  <2>. QED  BY <2>1, <1>1, <1>2, NextMultiple, Sizes
<1>4. ByteBits * (t + 1) = high * WORD + (low + ByteBits)
  <2>1. ByteBits * (t + 1) = ByteBits * t + ByteBits  BY Sizes
  <2>2. high * WORD \in Nat  BY Sizes
  <2>. QED  BY <2>1, <2>2, Sizes
<1>5. CASE low + ByteBits = WORD
  <2>1. low2 = 0  BY <1>5, Sizes
  <2>2. high2 = (high + 1) % WORD  BY <2>1
  <2>3. ByteBits * (t + 1) = (high + 1) * WORD
    <3>1. (high + 1) * WORD = high * WORD + WORD  BY Sizes
    <3>. QED  BY <3>1, <1>4, <1>5
  <2>4. CASE high + 1 = WORD
    <3>1. high2 = 0  BY <2>2, <2>4, Sizes
    <3>. QED  BY <3>1, <2>1, <2>3, <2>4, Sizes
  <2>5. CASE high + 1 < WORD
    <3>1. high2 = high + 1  BY <2>2, <2>5, Sizes
    <3>2. high2 # 0  BY <3>1
    <3>3. high2 * WORD + low2 = (high + 1) * WORD
      <4>1. (high + 1) * WORD \in Int  BY Sizes
      <4>. QED  BY <3>1, <2>1, <4>1
    <3>4. low2 = ByteBits * 0  BY <2>1, Sizes
    <3>. QED  BY <3>1, <3>2, <3>3, <3>4, <2>1, <2>3, <2>5, Sizes
  <2>. QED  BY <2>4, <2>5, Sizes
<1>6. CASE low + ByteBits < WORD
  <2>1. low2 = low + ByteBits /\ low2 # 0  BY <1>6, Sizes
  <2>2. high2 = high  BY <2>1
  <2>3. low2 = ByteBits * (q + 1) /\ q + 1 \in Nat  BY <2>1, <1>3
  <2>4. high2 * WORD + low2 = ByteBits * (t + 1)  BY <2>1, <2>2, <1>4
  <2>5. low2 \in 0..(WORD - 1)  BY <2>1, <1>6, Sizes
  <2>. QED  BY <2>1, <2>2, <2>3, <2>4, <2>5
<1>. QED  BY <1>3, <1>5, <1>6, Sizes

LEMMA ByteStep == IInv /\ TakeByte => IInv'
<1>. SUFFICES ASSUME IInv, TakeByte PROVE IInv'  OBVIOUS
<1>1. /\ message \in Message /\ message \in Seq(Byte) /\ length > 0
      /\ taken \in 0..Len(message) /\ length \in 0..(Len(message) - taken)
      /\ Message_Block_Index \in 0..(Block - 1) /\ Message_Digest \in Seq(Byte)
      /\ Message_Block \in [1..Block -> Byte]
      /\ Length_High \in 0..(WORD - 1) /\ Length_Low \in 0..(WORD - 1)
      /\ ~Computed /\ ~Corrupted /\ result \in 0..2
      /\ Len(Message_Digest) + Message_Block_Index = taken
      /\ \A i \in 1..Len(Message_Digest) : Message_Digest[i] = message[i]
      /\ \A i \in 1..Message_Block_Index :
           Message_Block[i] = message[Len(Message_Digest) + i]
      /\ Length_High * WORD + Length_Low = ByteBits * taken
      /\ \E q \in Nat : Length_Low = ByteBits * q
  BY MessageAssumption DEF TakeByte, IInv, TypeOK, Holds, Counted, Said
<1>2. taken + 1 \in 1..Len(message) /\ message[taken + 1] \in Byte
  BY <1>1
<1>i. /\ Len(Message_Digest) \in Nat /\ Message_Block_Index \in Nat /\ taken \in Nat
      /\ Message_Block_Index < Block /\ Block \in Nat
      /\ Len(Message_Digest) + Message_Block_Index = taken
  BY <1>1, Sizes
<1>3. /\ Message_Block' = [Message_Block EXCEPT ![Message_Block_Index + 1] = message[taken + 1]]
      /\ taken' = taken + 1 /\ message' = message
      /\ Computed' = Computed /\ result' = result
      /\ length' = IF Corrupted' THEN 0 ELSE length - 1
  BY DEF TakeByte
<1>4. Message_Block' \in [1..Block -> Byte]
  BY <1>1, <1>2, <1>3
<1>5. \A i \in 1..(Message_Block_Index + 1) : Message_Block'[i] = message[Len(Message_Digest) + i]
  <2>1. Message_Block_Index + 1 \in 1..Block  BY <1>1, Sizes
  <2>. QED  BY <2>1, <1>1, <1>3
<1>6. /\ Length_Low' \in 0..(WORD - 1) /\ Length_High' \in 0..(WORD - 1)
      /\ \E q \in Nat : Length_Low' = ByteBits * q
      /\ Corrupted' = (Length_Low' = 0 /\ Length_High' = 0)
      /\ IF Corrupted' THEN ByteBits * (taken + 1) = WORD * WORD
         ELSE Length_High' * WORD + Length_Low' = ByteBits * (taken + 1)
  <2>1. /\ Length_Low' = (Length_Low + ByteBits) % WORD
        /\ Length_High' = IF Length_Low' = 0 THEN (Length_High + 1) % WORD ELSE Length_High
        /\ Corrupted' = (Length_Low' = 0 /\ Length_High' = 0)
    BY DEF TakeByte, Count
  <2>2. taken \in Nat  BY <1>1
  <2>3. /\ Length_Low' \in 0..(WORD - 1) /\ Length_High' \in 0..(WORD - 1)
        /\ \E q \in Nat : Length_Low' = ByteBits * q
        /\ IF Length_Low' = 0 /\ Length_High' = 0 THEN ByteBits * (taken + 1) = WORD * WORD
           ELSE Length_High' * WORD + Length_Low' = ByteBits * (taken + 1)
    <3>1. /\ Length_Low \in 0..(WORD - 1) /\ Length_High \in 0..(WORD - 1)
          /\ \E q \in Nat : Length_Low = ByteBits * q
          /\ Length_High * WORD + Length_Low = ByteBits * taken
      BY <1>1
    <3>. QED  BY <2>1, <2>2, <3>1, CountStep
  <2>. QED  BY <2>1, <2>3
<1>7. Counted'
  <2>1. CASE Corrupted'
    <3>0. Length_Low' = 0 /\ Length_High' = 0  BY <2>1, <1>6
    <3>1. Length_High' * WORD + Length_Low' = 0  BY <3>0, Sizes
    <3>. QED  BY <2>1, <3>1, <1>1, <1>3, <1>6 DEF Counted
  <2>2. CASE ~Corrupted'
    BY <2>2, <1>1, <1>3, <1>6 DEF Counted
  <2>. QED  BY <2>1, <2>2
<1>8. Said'
  BY <1>1, <1>3, <1>6 DEF IInv, Said
<1>t. /\ message' \in Message /\ taken' \in 0..Len(message')
      /\ length' \in 0..(Len(message') - taken') /\ result' \in 0..2
      /\ Computed' \in BOOLEAN /\ Corrupted' \in BOOLEAN
  <2>1. Len(message) \in Nat  BY <1>1
  <2>2. length' \in 0..(Len(message) - (taken + 1))
    BY <2>1, <1>i, <1>1, <1>3
  <2>3. Computed' \in BOOLEAN  BY <1>3 DEF IInv, TypeOK
  <2>4. Corrupted' \in BOOLEAN  BY <1>6
  <2>5. taken + 1 \in 0..Len(message)  BY <1>2, <2>1
  <2>. QED  BY <2>2, <2>3, <2>4, <2>5, <1>1, <1>3
<1>9. CASE Message_Block_Index + 1 = Block
  <2>1. Message_Block_Index' = 0 /\ Message_Digest' = Message_Digest \o Message_Block'
    BY <1>9 DEF TakeByte
  <2>2. Message_Block' \in Seq(Byte) /\ Len(Message_Block') = Block
    BY <1>4, Sizes
  <2>3. InTwo(Message_Digest', Message_Digest, Message_Block')
    BY <1>1, <2>1, <2>2, Joined
  <2>4. Blocks'
    <3>1. PICK n \in Nat : Len(Message_Digest) = n * Block  BY DEF IInv, Blocks
    <3>2. Len(Message_Digest') = (n + 1) * Block
      <4>1. Len(Message_Digest') = n * Block + Block  BY <3>1, <2>2, <2>3 DEF InTwo
      <4>. QED  BY <4>1, Sizes
    <3>. QED  BY <3>2 DEF Blocks
  <2>5. Holds'
    <3>1. Len(Message_Digest') = Len(Message_Digest) + Block  BY <2>2, <2>3 DEF InTwo
    <3>2. Len(Message_Digest') + Message_Block_Index' = taken'
      BY <3>1, <2>1, <1>i, <1>3, <1>9
    <3>3. ASSUME NEW i \in 1..Len(Message_Digest') PROVE Message_Digest'[i] = message'[i]
      <4>1. CASE i <= Len(Message_Digest)
        BY <4>1, <1>1, <1>3, <2>3 DEF InTwo
      <4>2. CASE i > Len(Message_Digest)
        <5>. DEFINE j == i - Len(Message_Digest)
        <5>1. j \in 1..Block /\ i = Len(Message_Digest) + j
          BY <4>2, <3>1, <1>1, Sizes
        <5>. HIDE DEF j
        <5>2. Message_Digest'[i] = Message_Block'[j]
          BY <5>1, <2>2, <2>3 DEF InTwo
        <5>. QED  BY <5>1, <5>2, <1>3, <1>5, <1>9
      <4>. QED  BY <4>1, <4>2, <1>1
    <3>. QED  BY <2>1, <3>2, <3>3 DEF Holds
  <2>6. TypeOK'
    BY <1>t, <1>4, <1>6, <2>1, <2>3, <1>i, <1>9 DEF TypeOK, InTwo
  <2>. QED  BY <1>7, <1>8, <2>4, <2>5, <2>6 DEF IInv
<1>10. CASE Message_Block_Index + 1 # Block
  <2>1. Message_Block_Index' = Message_Block_Index + 1 /\ Message_Digest' = Message_Digest
    BY <1>10 DEF TakeByte
  <2>2. Blocks'
    BY <2>1 DEF IInv, Blocks
  <2>3. Holds'
    <3>1. Len(Message_Digest) + (Message_Block_Index + 1) = taken + 1  BY <1>i
    <3>. QED  BY <3>1, <2>1, <1>1, <1>3, <1>5 DEF Holds
  <2>4. TypeOK'
    <3>1. Message_Digest' \in Seq(Byte)  BY <2>1, <1>1
    <3>. QED  BY <1>t, <1>4, <1>6, <1>10, <2>1, <3>1, <1>i DEF TypeOK
  <2>. QED  BY <1>7, <1>8, <2>2, <2>3, <2>4 DEF IInv
<1>. QED  BY <1>9, <1>10

LEMMA Inductive == IInv /\ [Next]_vars => IInv'
<1>. SUFFICES ASSUME IInv, [Next]_vars PROVE IInv'  OBVIOUS
<1>1. CASE UNCHANGED vars
  BY <1>1 DEF vars, IInv, TypeOK, Blocks, Holds, Counted, Said, IsPadded
<1>. QED
  BY <1>1, ResetStep, InputStep, LateStep, ByteStep, ResultStep, KnownStep DEF Next

-----------------------------------------------------------------------------
(* The theorems.                                                           *)

THEOREM Invariance == Spec => []IInv
BY Start, Inductive, PTL DEF Spec

\* The context keeps its shape: no byte is written outside Message_Block.
THEOREM TypeCorrect == Spec => []TypeOK
<1>1. IInv => TypeOK  BY DEF IInv
<1>. QED  BY <1>1, Invariance, PTL

\* What has been hashed when SHA1Result returns 1 is the padding of what was input.
THEOREM HashesThePaddedMessage == Spec => []DigestOfMessage
<1>1. IInv => DigestOfMessage  BY DEF IInv, Said, DigestOfMessage
<1>. QED  BY <1>1, Invariance, PTL

\* Only a message of WORD * WORD bits, or late input, makes SHA1Result return 0.
THEOREM RefusesOnlyThen == Spec => []RefusesOnlyLongOrLate
<1>1. IInv => RefusesOnlyLongOrLate
  BY DEF IInv, Said, Counted, RefusesOnlyLongOrLate
<1>. QED  BY <1>1, Invariance, PTL

\* The digest, once computed, is never computed over.
THEOREM DigestStays == Spec => DigestIsFinal
<1>1. IInv /\ [Next]_vars => [Computed /\ Computed' => Message_Digest' = Message_Digest]_vars
  BY DEF IInv, Said, Next, SHA1Reset, SHA1Input, InputTooLate, TakeByte, SHA1Result,
         ResultKnown, vars
<1>. QED  BY <1>1, Invariance, PTL DEF Spec, DigestIsFinal

=============================================================================
