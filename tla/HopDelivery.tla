---------------------------- MODULE HopDelivery -----------------------------
(***************************************************************************)
(* What the router's ARP cache and ARP queue together promise, told        *)
(* without clocks, requests, sweeps or calls: a packet for a next hop      *)
(* whose address is known is delivered at once; otherwise it waits, and    *)
(* all the packets that wait for a hop are delivered together, in order,   *)
(* in the step that makes the hop known, or leave together unanswered or   *)
(* refused.  SrRouter implements this specification.                       *)
(***************************************************************************)
EXTENDS Naturals, Sequences

CONSTANTS Packet, Hop

VARIABLES
  known,       \* next hops whose hardware address is known
  waiting,     \* hop -> packets that wait for it, in order
  sent,        \* the packets delivered, refused (host unreachable) or answered
               \* in another way, in order
  up           \* the process is running

vars == <<known, waiting, sent, up>>

\* The first n packets of s, all of them sent as this.
FirstAs(s, n, as) == [i \in 1..n |-> [packet |-> s[i], as |-> as]]

Fresh(p) ==
  /\ \A i \in 1..Len(sent) : sent[i].packet # p
  /\ \A h \in Hop : \A i \in 1..Len(waiting[h]) : waiting[h][i] # p

Init ==
  /\ known = {}
  /\ waiting = [h \in Hop |-> <<>>]
  /\ sent = <<>>
  /\ up = TRUE

Deliver(h, p) ==
  /\ up /\ h \in known /\ Fresh(p)
  /\ sent' = Append(sent, [packet |-> p, as |-> "delivered"])
  /\ UNCHANGED <<known, waiting, up>>

Wait(h, p) ==
  /\ up /\ h \notin known /\ Fresh(p)
  /\ waiting' = [waiting EXCEPT ![h] = Append(@, p)]
  /\ UNCHANGED <<known, sent, up>>

Resolve(h) ==
  /\ up /\ h \notin known
  /\ known' = known \cup {h}
  /\ sent' = sent \o FirstAs(waiting[h], Len(waiting[h]), "delivered")
  /\ waiting' = [waiting EXCEPT ![h] = <<>>]
  /\ UNCHANGED up

Forget(h) ==
  /\ up /\ h \in known
  /\ known' = known \ {h}
  /\ UNCHANGED <<waiting, sent, up>>

\* The hop does not answer.  Its first packets are refused, in order, and then
\* the packet, if any, that has just come and found out; the process may stop
\* while it answers them.
GiveUp(h) ==
  /\ up /\ waiting[h] # <<>>
  /\ \E n \in 0..Len(waiting[h]) :
       LET refused == sent \o FirstAs(waiting[h], n, "refused")
       IN  \/ sent' = refused
           \/ \E p \in Packet : /\ Fresh(p)
                                /\ sent' = Append(refused, [packet |-> p, as |-> "refused"])
  /\ waiting' = [waiting EXCEPT ![h] = <<>>]
  /\ up' \in BOOLEAN
  /\ UNCHANGED known

\* A packet that never waits is answered by the router itself.
Answer(p) ==
  /\ up /\ Fresh(p)
  /\ sent' = Append(sent, [packet |-> p, as |-> "answered"])
  /\ UNCHANGED <<known, waiting, up>>

Stop ==
  /\ up /\ up' = FALSE
  /\ UNCHANGED <<known, waiting, sent>>

Next ==
  \/ \E h \in Hop : Resolve(h) \/ Forget(h) \/ GiveUp(h)
  \/ \E h \in Hop, p \in Packet : Deliver(h, p) \/ Wait(h, p)
  \/ \E p \in Packet : Answer(p)
  \/ Stop

Spec == Init /\ [][Next]_vars
=============================================================================
