----------------------------- MODULE VnsFraming -----------------------------
(***************************************************************************)
(* How sr_read_from_server_expect (sr_vns_comm.c) cuts the byte stream of  *)
(* the VNS server into commands: four bytes of length, then the rest, each *)
(* read in as many pieces as the socket returns them.                      *)
(*                                                                         *)
(* The stream is counted, not spelled out: the server writes commands      *)
(* 1, 2, ... of the lengths in Lengths, and the client knows where it is   *)
(* only from what it has read.  A read broken by a signal is repeated and  *)
(* changes nothing.                                                        *)
(***************************************************************************)
EXTENDS Integers, Sequences

CONSTANTS Lengths,       \* length of every command, its length field included
          MaxLength      \* 10000: longer commands are refused

\* A command has a header of two words (c_base, vnscommand.h).
ASSUME LengthsAssumption ==
  /\ Lengths \in Seq(Nat) /\ \A i \in 1..Len(Lengths) : Lengths[i] >= 8
  /\ MaxLength \in Nat

VARIABLES
  written,      \* bytes the server has written
  pos,          \* bytes the client has read
  closed,       \* the server has closed its side
  phase,        \* "length", "body", and when no call follows "failed" (the command
                \* is too long), "broken" (a read has failed) or "stopped"
  bytes_read,   \* of the length, or of the body
  len,          \* length of the command being read
  dispatched    \* positions in the stream of the commands dispatched

vars == <<written, pos, closed, phase, bytes_read, len, dispatched>>

\* Command i starts after the commands before it.
Start[i \in 1..(Len(Lengths) + 1)] ==
  IF i = 1 THEN 0 ELSE Start[i - 1] + Lengths[i - 1]

Total == Start[Len(Lengths) + 1]

\* The length field read before position p of the stream: if p is past the
\* length field of a command, its length; other bytes are no length at all.
LengthAt(p) ==
  LET starts == {i \in 1..Len(Lengths) : Start[i] + 4 = p}
  IN  IF starts = {} THEN MaxLength + 1 ELSE Lengths[CHOOSE i \in starts : TRUE]

Init ==
  /\ written = 0 /\ pos = 0 /\ closed = FALSE
  /\ phase = "length" /\ bytes_read = 0 /\ len = 0
  /\ dispatched = <<>>

-----------------------------------------------------------------------------
\* The server.
Write ==
  /\ ~closed /\ written < Total
  /\ \E n \in (written + 1)..Total : written' = n
  /\ UNCHANGED <<pos, closed, phase, bytes_read, len, dispatched>>

Close ==
  /\ ~closed
  /\ closed' = TRUE
  /\ UNCHANGED <<written, pos, phase, bytes_read, len, dispatched>>

-----------------------------------------------------------------------------
\* The client.

\* Mistake: the bytes asked for are counted, not the bytes returned.
TakeAsked(wanted) ==
  \E n \in 1..wanted :
    /\ pos + n <= written
    /\ pos' = pos + n
    /\ bytes_read' = bytes_read + wanted

\* recv and read return between one byte and what was asked for.
Take(wanted) ==
  \E n \in 1..wanted :
    /\ pos + n <= written
    /\ pos' = pos + n
    /\ bytes_read' = bytes_read + n

\* Mistake: four bytes are asked for however many are there already.
ReadLengthGreedy ==
  /\ phase = "length" /\ bytes_read < 4
  /\ Take(4)
  /\ UNCHANGED <<written, closed, phase, len, dispatched>>

ReadLength ==
  /\ phase = "length" /\ bytes_read < 4
  /\ Take(4 - bytes_read)
  /\ UNCHANGED <<written, closed, phase, len, dispatched>>

\* Mistake: a command of just the greatest length is refused.
LengthDoneAtLimit ==
  /\ phase = "length" /\ bytes_read >= 4
  /\ len' = LengthAt(pos)
  /\ phase' = IF len' >= MaxLength THEN "failed" ELSE "body"
  /\ bytes_read' = 0
  /\ UNCHANGED <<written, pos, closed, dispatched>>

\* Mistake: there is no limit.
LengthDoneUnlimited ==
  /\ phase = "length" /\ bytes_read >= 4
  /\ len' = LengthAt(pos)
  /\ phase' = "body" /\ bytes_read' = 0
  /\ UNCHANGED <<written, pos, closed, dispatched>>

LengthDone ==
  /\ phase = "length" /\ bytes_read >= 4
  /\ len' = LengthAt(pos)
  /\ phase' = IF len' > MaxLength THEN "failed" ELSE "body"
  /\ bytes_read' = 0
  /\ UNCHANGED <<written, pos, closed, dispatched>>

ReadBody ==
  /\ phase = "body" /\ bytes_read < len - 4
  /\ Take(len - 4 - bytes_read)
  /\ UNCHANGED <<written, closed, phase, len, dispatched>>

\* What comes of a command: it is dispatched, 1 is returned and the main loop calls
\* again; or it is the last, because it closes the session or its handling fails;
\* or it is not the one that was expected, and is not dispatched.
Outcome ==
  \/ dispatched' = Append(dispatched, pos - len) /\ phase' \in {"length", "stopped"}
  \/ UNCHANGED dispatched /\ phase' = "stopped"

\* Mistake: the next call goes on counting from this one.
DispatchCounting ==
  /\ phase = "body" /\ bytes_read >= len - 4
  /\ Outcome
  /\ UNCHANGED <<written, pos, closed, len, bytes_read>>

Dispatch ==
  /\ phase = "body" /\ bytes_read >= len - 4
  /\ Outcome
  /\ bytes_read' = 0
  /\ UNCHANGED <<written, pos, closed, len>>

\* recv or read fails, and not because of a signal.
ReadFails ==
  /\ phase \in {"length", "body"}
  /\ phase' = "broken"
  /\ UNCHANGED <<written, pos, closed, bytes_read, len, dispatched>>

\* The stream has ended: recv and read return 0, which is added to the bytes
\* read, and the loop goes on.
ReadNothing ==
  /\ closed /\ pos = written
  /\ \/ phase = "length" /\ bytes_read < 4
     \/ phase = "body" /\ bytes_read < len - 4
  /\ UNCHANGED vars

Read == ReadLength \/ LengthDone \/ ReadBody \/ Dispatch

\* The calls are over, or wait for a server that has nothing more to write.
Idle ==
  /\ phase \in {"failed", "broken", "stopped"} \/ (pos = Total /\ phase = "length" /\ bytes_read = 0)
  /\ UNCHANGED vars

Next == Write \/ Close \/ Read \/ ReadFails \/ ReadNothing \/ Idle

Spec == Init /\ [][Next]_vars

\* The client reads what is there; the server writes what it has begun.
FairSpec == Spec /\ WF_vars(Read) /\ WF_vars(Write)

-----------------------------------------------------------------------------
\* The variables have their types, and no read goes past the four bytes of len
\* or past the end of the buffer allocated for the command.
TypeOK ==
  /\ written \in 0..Total /\ pos \in 0..written /\ closed \in BOOLEAN
  /\ phase \in {"length", "body", "failed", "broken", "stopped"}
  /\ len \in Nat /\ bytes_read \in Nat
  /\ phase = "length" => bytes_read <= 4
  /\ phase = "body" => bytes_read <= len - 4
  /\ dispatched \in Seq(Int)

\* However the stream is cut by recv and read, the client dispatches the
\* commands the server wrote, whole, in order, and each once; and between two
\* commands it is at the start of the next one.
InStep ==
  /\ Len(dispatched) <= Len(Lengths)
  /\ \A i \in 1..Len(dispatched) : dispatched[i] = Start[i]
  /\ phase = "length" => pos = Start[Len(dispatched) + 1] + bytes_read

\* A command is refused if it is too long and for no other reason: no bytes of
\* another command are taken for its length.
RefusesOnlyLong ==
  phase = "failed" =>
    /\ Len(dispatched) < Len(Lengths)
    /\ Lengths[Len(dispatched) + 1] > MaxLength

\* While the connection stands and main goes on calling, every command the server
\* writes is dispatched, up to the first one that is too long.
EveryCommandDispatched ==
  \A i \in 1..Len(Lengths) :
    (\A j \in 1..i : Lengths[j] <= MaxLength)
      => <>(Len(dispatched) >= i \/ closed \/ phase \in {"broken", "stopped"})

\* The command that starts at position p of the stream, or 0.
CommandAt(p) ==
  IF \E i \in 1..Len(Lengths) : Start[i] = p
  THEN CHOOSE i \in 1..Len(Lengths) : Start[i] = p ELSE 0

\* How many commands end in the first n bytes of the stream.
EndedIn(n) ==
  CHOOSE k \in 0..Len(Lengths) :
    Start[k + 1] <= n /\ \A i \in (k + 2)..(Len(Lengths) + 1) : n < Start[i]

\* The client hands on commands as CommandFeed says, however the stream is cut: a
\* command only once the server has written all of it, none that is too long, and
\* none after a refusal, a failed read or a command that ends the calls.
Feed == INSTANCE CommandFeed WITH
  complete   <- EndedIn(written),
  handled    <- [i \in 1..Len(dispatched) |-> CommandAt(dispatched[i])],
  connection <- CASE phase = "failed" -> "refused"
                  [] phase = "broken" -> "broken"
                  [] phase = "stopped" -> "ended"
                  [] OTHER -> "open"

ImplementsFeed == Feed!Spec

\* "0 on success, something other than zero on error" (sr_connect_to_server): a
\* read that cannot go on returns.  At the end of the stream it never does.
ReadReturnsAtEnd == (closed /\ pos = written) ~> (phase \in {"failed", "broken", "stopped"})
=============================================================================
