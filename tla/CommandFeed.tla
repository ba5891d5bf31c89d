---------------------------- MODULE CommandFeed -----------------------------
(***************************************************************************)
(* What reading from the VNS server promises, told without bytes, reads or *)
(* length fields: the commands the server has written are handed on whole, *)
(* one at a time and in order, up to the first one that is too long, until *)
(* a read fails or one of them is the last that is wanted.  VnsFraming     *)
(* implements this specification.                                          *)
(***************************************************************************)
EXTENDS Naturals, Sequences

CONSTANTS Lengths, MaxLength

VARIABLES
  complete,    \* how many commands the server has written to their end
  handled,     \* the numbers of the commands handed on
  connection   \* "open", "refused" (the next command is too long), "broken", or
               \* "ended" by a command

vars == <<complete, handled, connection>>

Init == complete = 0 /\ handled = <<>> /\ connection = "open"

NextCommand == Len(handled) + 1

\* The server writes the end of one command or of several.
Complete ==
  /\ complete' \in (complete + 1)..Len(Lengths)
  /\ UNCHANGED <<handled, connection>>

\* The last one may be handed on, or turned away because it was not expected.
Handle ==
  /\ connection = "open" /\ NextCommand <= complete
  /\ Lengths[NextCommand] <= MaxLength
  /\ \/ handled' = Append(handled, NextCommand) /\ connection' \in {"open", "ended"}
     \/ UNCHANGED handled /\ connection' = "ended"
  /\ UNCHANGED complete

\* A command may be refused before its end has been written.
Refuse ==
  /\ connection = "open" /\ NextCommand <= Len(Lengths)
  /\ Lengths[NextCommand] > MaxLength
  /\ connection' = "refused"
  /\ UNCHANGED <<complete, handled>>

Break ==
  /\ connection = "open" /\ connection' = "broken"
  /\ UNCHANGED <<complete, handled>>

Next == Complete \/ Handle \/ Refuse \/ Break

Spec == Init /\ [][Next]_vars
=============================================================================
