------------------------------- MODULE MCSha1 -------------------------------
(***************************************************************************)
(* Sha1 with bytes of 2 bits, words of 2 bytes and blocks of 6 bytes, so   *)
(* that 2 bytes of a block are left beside the length: messages that end   *)
(* at every byte of the first, second and third block, and messages just   *)
(* shorter than the limit of 2 words (127 bytes), as long and longer.      *)
(***************************************************************************)
EXTENDS Sha1

Content(n) == [i \in 1..n |-> (i + i \div 3) % 4]

MCMessage == {Content(n) : n \in (0..14) \cup {127, 128, 130}}
=============================================================================
