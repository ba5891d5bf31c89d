---------------------------- MODULE MCRtFindMatch ---------------------------
(***************************************************************************)
(* RtFindMatch with addresses of two bytes of two bits, and every table of *)
(* one to three rows of a family.                                          *)
(***************************************************************************)
EXTENDS RtFindMatch

\* Networks: no bit of the destination is set beyond the mask, and only the
\* default route has destination 0.
Networks ==
  {r \in Row : /\ \A i \in 1..Bytes : r.dest[i] = Masked(r.dest[i], OnesIn(r.len, i))
               /\ r.dest = Zero => r.len = 0}
AlignedNetworks == {r \in Networks : r.len % Bits = 0}
NonZeroAddrs == {x \in Address : \A i \in 1..Bytes : x[i] # 0}

\* Masks of any length, and masks that end at a byte.
AnyTables == UNION {[1..n -> Networks] : n \in 1..2}
AlignedTables ==
  UNION {[1..n -> {r \in AlignedNetworks : r.dest[1] < 3 /\ r.dest[2] < 3}] : n \in 1..3}
=============================================================================
