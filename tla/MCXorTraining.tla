---------------------------- MODULE MCXorTraining ----------------------------
(***************************************************************************)
(* XorTraining with a sample every 3 epochs: trainings of one sample just  *)
(* reached, of two samples with epochs left over, and of as many epochs as *)
(* samples need; every number of inputs there may be, and bad arguments.   *)
(***************************************************************************)
EXTENDS XorTraining

Arg(e, n, v) == [epochs |-> e, inputs |-> n, valid |-> v]

MCArgs ==
  {Arg(e, n, TRUE) : e \in {3, 4}, n \in 1..4}
  \cup {Arg(e, n, TRUE) : e \in {6, 8}, n \in 1..2}
  \cup {Arg(2, 1, TRUE), Arg(3, 0, TRUE), Arg(3, 5, TRUE), Arg(3, 1, FALSE)}
=============================================================================
