----------------------------- MODULE RtFindMatch -----------------------------
(***************************************************************************)
(* rt_findmatch (sr_router.c): the search of the routing table for the     *)
(* longest prefix match of an address, one row of the table a step.        *)
(*                                                                         *)
(* Addresses are sequences of Bytes bytes of Bits bits, in network order.  *)
(* The ones of a netmask are contiguous, as the code assumes, so a mask is *)
(* its length.                                                             *)
(***************************************************************************)
EXTENDS Integers, Sequences

CONSTANTS Bytes, Bits,
          Tables, Addrs    \* the routing tables and addresses to search with

ASSUME WidthAssumption == Bytes \in Nat \ {0} /\ Bits \in Nat \ {0}

VARIABLES
  table,       \* sr->routing_table
  addr,        \* the address looked for
  curr,        \* index of the row the loop is at
  defaultr,    \* index of the default route, 0 if none was met
  bestmatch,   \* index of the best row so far, 0 if none
  longest      \* bytes it matches

vars == <<table, addr, curr, defaultr, bestmatch, longest>>

Address == [1..Bytes -> 0..(2^Bits - 1)]
Row     == [dest : Address, len : 0..(Bytes * Bits)]

ASSUME TablesAssumption == Tables \subseteq Seq(Row) /\ Addrs \subseteq Address

Zero == [i \in 1..Bytes |-> 0]

\* Ones in byte i of a mask of length len.
OnesIn(len, i) ==
  LET left == len - Bits * (i - 1)
  IN  IF left <= 0 THEN 0 ELSE IF left >= Bits THEN Bits ELSE left

\* Byte x under a mask byte that starts with n ones.
Masked(x, n) == x - (x % 2^(Bits - n))

\* tomatch, for byte i.
ToMatch(row, i) == Masked(addr[i], OnesIn(row.len, i))

\* The inner loop ends at the first byte with nothing to match or a difference.
Ends(row, i) == ToMatch(row, i) = 0 \/ ToMatch(row, i) # row.dest[i]

\* Bytes matched before that.
Count(row) ==
  CHOOSE n \in 0..Bytes :
    /\ \A i \in 1..n : ~Ends(row, i)
    /\ n < Bytes => Ends(row, n + 1)

\* Mistake: a byte under a zero mask is compared like any other.
MismatchAlways(row) == Count(row) < Bytes

Mismatch(row) == Count(row) < Bytes /\ ToMatch(row, Count(row) + 1) # 0

Init ==
  /\ table \in Tables
  /\ addr \in Addrs
  /\ curr = 1 /\ defaultr = 0 /\ bestmatch = 0 /\ longest = 0

ScanRow ==
  /\ curr <= Len(table)
  /\ LET row == table[curr]
         better == ~Mismatch(row) /\ Count(row) > longest
     IN  /\ defaultr' = IF defaultr = 0 /\ row.dest = Zero THEN curr ELSE defaultr
         /\ bestmatch' = IF better THEN curr ELSE bestmatch
         /\ longest' = IF better THEN Count(row) ELSE longest
  /\ curr' = curr + 1
  /\ UNCHANGED <<table, addr>>

Next == ScanRow

Spec == Init /\ [][Next]_vars

Result == IF bestmatch # 0 THEN bestmatch ELSE defaultr

-----------------------------------------------------------------------------
\* Longest prefix match, by its definition.

Matches(row) ==
  \A i \in 1..Bytes :
    LET n == OnesIn(row.len, i) IN Masked(addr[i], n) = Masked(row.dest[i], n)

IsLongestMatch(rows, k) ==
  IF k = 0 THEN \A j \in rows : ~Matches(table[j])
  ELSE /\ k \in rows /\ Matches(table[k])
       /\ \A j \in rows : Matches(table[j]) => table[j].len <= table[k].len

\* "Returns pointer to entry corresponding to the longest prefix match": after
\* any number of rows, the search stands at the longest match among them.
FindsLongestPrefix == IsLongestMatch(1..(curr - 1), Result)

\* The tables and addresses for which that is so: masks end at a byte, destination
\* 0 is that of default routes, and no byte of the address is 0.
ByteAligned ==
  /\ \A j \in 1..Len(table) :
       /\ table[j].len % Bits = 0
       /\ table[j].dest = Zero <=> table[j].len = 0
  /\ \A i \in 1..Bytes : addr[i] # 0
FindsLongestAlignedPrefix == ByteAligned => FindsLongestPrefix
=============================================================================
