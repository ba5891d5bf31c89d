---------------------------- MODULE MCVnsFraming ----------------------------
(***************************************************************************)
(* VnsFraming for a few commands: the shortest one there is, one as long   *)
(* as may be, one that is longer, and one that comes too late.             *)
(***************************************************************************)
EXTENDS VnsFraming

MCLengths == <<8, 12, 9, 13, 8>>
=============================================================================
