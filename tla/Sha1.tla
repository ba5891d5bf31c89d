-------------------------------- MODULE Sha1 --------------------------------
(***************************************************************************)
(* SHA-1 as the session uses it (sha1.c): SHA1Reset, SHA1Input for a       *)
(* message that comes in pieces, SHA1Result, in any order.  The loop of    *)
(* SHA1Input takes one byte a step.                                        *)
(*                                                                         *)
(* Of the hash itself only the order of its input is kept: Message_Digest  *)
(* is the bytes SHA1ProcessMessageBlock has been given, block after block; *)
(* the digest is a function of them.  Sizes are parameters, 8 bits a byte, *)
(* 4 bytes a word and 64 bytes a block in the code.                        *)
(***************************************************************************)
EXTENDS Integers, Sequences

CONSTANTS
  ByteBits, WordBytes, Block,
  Message        \* the messages that may be hashed

BASE == 2^ByteBits            \* values of a byte
WORD == BASE^WordBytes        \* values of Length_Low and of Length_High
Byte == 0..(BASE - 1)
PadTo == Block - 2 * WordBytes

ASSUME SizesAssumption ==
  /\ ByteBits \in Nat \ {0} /\ WordBytes \in Nat \ {0}
  /\ Block \in Nat /\ PadTo > 0
  /\ \A k \in 0..WordBytes : BASE^k \in Nat \ {0}
  /\ BASE \in Nat /\ BASE >= 2
  /\ \E q \in 0..WORD : WORD = ByteBits * q
ASSUME MessageAssumption == Message \subseteq Seq(Byte)

VARIABLES
  Message_Block, Message_Block_Index, Length_Low, Length_High,
  Computed, Corrupted,
  Message_Digest,    \* the bytes hashed so far
  length,            \* bytes the running call of SHA1Input has yet to take
  message,           \* the message being hashed
  taken,             \* history: bytes of it that are in the context
  result             \* history: what SHA1Result last returned, 2 if nothing yet

vars == <<Message_Block, Message_Block_Index, Length_Low, Length_High, Computed,
          Corrupted, Message_Digest, length, message, taken, result>>

-----------------------------------------------------------------------------
\* A word as bytes, the highest first.
Octets(w) == [i \in 1..WordBytes |-> (w \div BASE^(WordBytes - i)) % BASE]

Mark == BASE \div 2           \* 0x80

\* Byte i of the last block, counted from 1, in the field for the length.
LengthByte(i) ==
  IF i <= PadTo + WordBytes THEN Octets(Length_High)[i - PadTo]
  ELSE Octets(Length_Low)[i - PadTo - WordBytes]

\* What is in the block, and the mark, and zeros.
Marked(i) == IF i <= Message_Block_Index THEN Message_Block[i]
             ELSE IF i = Message_Block_Index + 1 THEN Mark ELSE 0

\* Mistake: a block with room for the mark and not for the length is the last.
PaddingTight ==
  IF Message_Block_Index > PadTo
  THEN [i \in 1..Block |-> Marked(i)] \o
       [i \in 1..Block |-> IF i <= PadTo THEN 0 ELSE LengthByte(i)]
  ELSE [i \in 1..Block |-> IF i <= PadTo THEN Marked(i) ELSE LengthByte(i)]

\* The length does not fit in the block any more.
TwoBlocks == Message_Block_Index > PadTo - 1

LastBlock ==
  [i \in 1..Block |-> IF i > PadTo THEN LengthByte(i) ELSE IF TwoBlocks THEN 0 ELSE Marked(i)]

\* SHA1PadMessage: what it hashes.
Padding == IF TwoBlocks THEN [i \in 1..Block |-> Marked(i)] \o LastBlock ELSE LastBlock

-----------------------------------------------------------------------------
\* The state after the first SHA1Reset: callers begin with it.
Init ==
  /\ Message_Block_Index = 0 /\ Length_Low = 0 /\ Length_High = 0
  /\ Computed = FALSE /\ Corrupted = FALSE /\ Message_Digest = <<>>
  /\ Message_Block \in {[i \in 1..Block |-> 0]}
  /\ length = 0 /\ message \in Message /\ taken = 0 /\ result = 2

Returned == length = 0        \* no call of SHA1Input is running

SHA1Reset ==
  /\ Returned
  /\ Message_Block_Index' = 0 /\ Length_Low' = 0 /\ Length_High' = 0
  /\ Computed' = FALSE /\ Corrupted' = FALSE /\ Message_Digest' = <<>>
  /\ message' \in Message /\ taken' = 0 /\ result' = 2
  /\ UNCHANGED <<Message_Block, length>>

\* The caller passes the next n bytes of the message.
SHA1Input(n) ==
  /\ Returned /\ ~Computed /\ ~Corrupted
  /\ n <= Len(message) - taken
  /\ length' = n
  /\ UNCHANGED <<Message_Block, Message_Block_Index, Length_Low, Length_High, Computed,
                 Corrupted, Message_Digest, message, taken, result>>

\* More input for a digest that is computed, or that cannot be.
InputTooLate ==
  /\ Returned /\ (Computed \/ Corrupted)
  /\ Corrupted' = TRUE
  /\ UNCHANGED <<Message_Block, Message_Block_Index, Length_Low, Length_High, Computed,
                 Message_Digest, length, message, taken, result>>

\* Mistake: too long as soon as the low word overflows.
CountOneWord ==
  /\ Length_Low' = (Length_Low + ByteBits) % WORD
  /\ Length_High' = IF Length_Low' = 0 THEN (Length_High + 1) % WORD ELSE Length_High
  /\ Corrupted' = (Length_Low' = 0)

\* The length of the message in bits, in two words; too long if both overflow.
Count ==
  /\ Length_Low' = (Length_Low + ByteBits) % WORD
  /\ Length_High' = IF Length_Low' = 0 THEN (Length_High + 1) % WORD ELSE Length_High
  /\ Corrupted' = (Length_Low' = 0 /\ Length_High' = 0)

\* Mistake: the block is hashed one byte after it is full.
TakeByteLate ==
  /\ length > 0
  /\ Message_Block' = [Message_Block EXCEPT ![Message_Block_Index + 1] = message[taken + 1]]
  /\ taken' = taken + 1
  /\ Count
  /\ length' = IF Corrupted' THEN 0 ELSE length - 1
  /\ IF Message_Block_Index = Block
     THEN Message_Block_Index' = 0 /\ Message_Digest' = Message_Digest \o Message_Block'
     ELSE Message_Block_Index' = Message_Block_Index + 1 /\ UNCHANGED Message_Digest
  /\ UNCHANGED <<Computed, message, result>>

\* One turn of the loop of SHA1Input.
TakeByte ==
  /\ length > 0
  /\ Message_Block' = [Message_Block EXCEPT ![Message_Block_Index + 1] = message[taken + 1]]
  /\ taken' = taken + 1
  /\ Count
  /\ length' = IF Corrupted' THEN 0 ELSE length - 1
  /\ IF Message_Block_Index + 1 = Block
     THEN Message_Block_Index' = 0 /\ Message_Digest' = Message_Digest \o Message_Block'
     ELSE Message_Block_Index' = Message_Block_Index + 1 /\ UNCHANGED Message_Digest
  /\ UNCHANGED <<Computed, message, result>>

\* Mistake: a second call pads again.
ResultAgain ==
  /\ Returned /\ ~Corrupted
  /\ Len(Message_Digest) < Len(message) + 4 * Block
  /\ Message_Digest' = Message_Digest \o Padding /\ Message_Block' = LastBlock
  /\ Message_Block_Index' = 0 /\ Computed' = TRUE /\ result' = 1
  /\ UNCHANGED <<Length_Low, Length_High, Corrupted, length, message, taken>>

SHA1Result ==
  /\ Returned /\ ~Corrupted /\ ~Computed
  /\ Message_Digest' = Message_Digest \o Padding /\ Message_Block' = LastBlock
  /\ Message_Block_Index' = 0 /\ Computed' = TRUE /\ result' = 1
  /\ UNCHANGED <<Length_Low, Length_High, Corrupted, length, message, taken>>

\* Nothing is left to do, or nothing can be done.
ResultKnown ==
  /\ Returned /\ (Corrupted \/ Computed)
  /\ result' = IF Corrupted THEN 0 ELSE 1
  /\ UNCHANGED <<Message_Block, Message_Block_Index, Length_Low, Length_High, Computed,
                 Corrupted, Message_Digest, length, message, taken>>

Next ==
  \/ SHA1Reset \/ InputTooLate \/ TakeByte \/ SHA1Result \/ ResultKnown
  \/ \E n \in 0..Len(message) : SHA1Input(n)

Spec == Init /\ [][Next]_vars

-----------------------------------------------------------------------------
\* The context has its shape; between two bytes the block is never full, so that
\* SHA1Input and SHA1PadMessage stay inside it.
TypeOK ==
  /\ Message_Block \in [1..Block -> Byte] /\ Message_Block_Index \in 0..(Block - 1)
  /\ Length_Low \in 0..(WORD - 1) /\ Length_High \in 0..(WORD - 1)
  /\ Computed \in BOOLEAN /\ Corrupted \in BOOLEAN
  /\ Message_Digest \in Seq(Byte)
  /\ message \in Message /\ taken \in 0..Len(message)
  /\ length \in 0..(Len(message) - taken)
  /\ result \in 0..2

\* FIPS 180-1: d is the message m padded "to an even 512 bits": m, the first
\* padding bit, the fewest zeros, and the length of m in bits in two words.
IsPadded(d, m) ==
  /\ \E n \in 0..Len(d) : Len(d) = n * Block
  /\ \E zeros \in 0..(Block - 1), high, low \in 0..(WORD - 1) :
       /\ high * WORD + low = ByteBits * Len(m)
       /\ d = m \o <<Mark>> \o [i \in 1..zeros |-> 0] \o Octets(high) \o Octets(low)

\* Once SHA1Result has returned 1, what was hashed is the padding of the bytes
\* input since SHA1Reset, in whatever pieces they came and wherever the last one
\* ended in its block; nothing but SHA1Reset changes that.
DigestOfMessage ==
  result = 1 => IsPadded(Message_Digest, SubSeq(message, 1, taken))

\* SHA1Result returns 0 only for a message of 2^64 bits, or if input came after
\* the digest was computed.
RefusesOnlyLongOrLate ==
  result = 0 => Computed \/ ByteBits * taken = WORD * WORD

\* A digest that is computed stays as it is until SHA1Reset, whatever is called.
DigestIsFinal ==
  [][Computed /\ Computed' => Message_Digest' = Message_Digest]_vars
=============================================================================
