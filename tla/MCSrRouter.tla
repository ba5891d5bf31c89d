----------------------------- MODULE MCSrRouter -----------------------------
(***************************************************************************)
(* SrRouter on a small network: a router with interfaces a and b.  Behind  *)
(* b are the gateway h1 of host d and the host h2, which is its own next   *)
(* hop; packets come in by a.  No route leads to nowhere.                  *)
(*                                                                         *)
(* A behaviour has only some of the packets and ARP frames: a set of       *)
(* Traffic, chosen at the start and kept.                                  *)
(***************************************************************************)
EXTENDS SrRouter, TLC

CONSTANTS a, b,                \* interfaces
          ra, rb,              \* the router's addresses on them
          d, h1, h2, nowhere,  \* other addresses
          m1, m2,              \* hardware addresses
          p1, p2, p3, p4, p5, p6, p7, p8, p9, p10, p11, p12
                               \* packets

MCIP    == {ra, rb, d, h1, h2, nowhere}
MCIfIP  == a :> ra @@ b :> rb
MCRoute == [ip \in MCIP |-> IF ip \in {ra, rb, nowhere} THEN NoRoute
                            ELSE [gw |-> IF ip = d THEN h1 ELSE ip, iface |-> b]]

\* A packet that is forwarded, and its variants.
To(ip) == [iif |-> a, dhost |-> a, sumOK |-> TRUE, icmpSumOK |-> TRUE,
           ttl |-> 64, proto |-> "tcp_udp", dst |-> ip, hl |-> 5]
ErrorTo(ip) == [To(ip) EXCEPT !.proto = "icmp_error"]
OptionsTo(ip) == [To(ip) EXCEPT !.hl = 6]
EchoTo(ip) == [To(ip) EXCEPT !.proto = "icmp_echoreq"]

\* An ARP frame to the router, by interface b.
FromHop(op, sip, sha) == [iif |-> b, ether |-> TRUE, op |-> op, sip |-> sip,
                          sha |-> sha, tip |-> rb]

\* A frame the dispatch ignores: it only makes the handler run.
Noise == [FromHop("reply", h1, m1) EXCEPT !.ether = FALSE]

MCPacket == {p1, p2, p3, p4, p5, p6, p7, p8, p9, p10, p11, p12}
MCHdr == p1  :> To(d)
      @@ p2  :> ErrorTo(d)
      @@ p3  :> To(h1)
      @@ p4  :> To(h2)
      @@ p5  :> OptionsTo(h2)
      @@ p6  :> [To(d) EXCEPT !.sumOK = FALSE]
      @@ p7  :> [To(d) EXCEPT !.ttl = 1]
      @@ p8  :> [ErrorTo(d) EXCEPT !.ttl = 1]
      @@ p9  :> [EchoTo(rb) EXCEPT !.ttl = 0]
      @@ p10 :> [EchoTo(ra) EXCEPT !.icmpSumOK = FALSE]
      @@ p11 :> [To(ra) EXCEPT !.dhost = None]
      @@ p12 :> To(nowhere)

Reply1     == FromHop("reply", h1, m1)
Request1   == FromHop("request", h1, m2)         \* h1 under another address
Reply2     == FromHop("reply", h2, m2)
Overheard1 == [Reply1 EXCEPT !.tip = h2]         \* not for the router
WrongSide1 == [Request1 EXCEPT !.tip = ra]       \* for its other interface
MCArp == {Noise, Reply1, Request1, Reply2, Overheard1, WrongSide1}

\* Three packets through the gateway h1, one of them an ICMP error; h1 under two
\* hardware addresses; two hops, one of them asked by a packet with options; two
\* packets for one hop, the second with options; every other branch of the
\* dispatch.
Traffic ==
  {{p1, p2, p3, Noise, Reply1, WrongSide1},
   {p1, p3, Noise, Reply1, Request1},
   {p1, p5, Reply1, Reply2},
   {p4, p5, Noise, Reply2},
   {p1, Noise, Reply1, Overheard1}}
    \cup {{p, Noise, Request1} : p \in {p6, p7, p8, p9, p10, p11, p12}}

VARIABLE coming

mcvars == <<vars, coming>>

Kept(A) == A /\ UNCHANGED coming

MCInit == Init /\ coming \in Traffic

\* SrRouter's Next, one action a line, for the frames that are coming.
MCNext ==
  \/ Kept(Tick)
  \/ \E p \in Packet \cap coming : Kept(ReceivePacket(p))
  \/ \E f \in Arp \cap coming : Kept(ReceiveArp(f))
  \/ \E ip \in IP : Kept(SweepCache(ip))
  \/ \E e \in sr_arpqueue : Kept(SweepKeep(e))
  \/ \E e \in sr_arpqueue : Kept(SweepResend(e))
  \/ \E e \in sr_arpqueue : Kept(SweepGiveUp(e))
  \/ \E e \in sr_arpqueue : Kept(SweepFreed(e))
  \/ \E p \in Packet : Kept(DropBadChecksum(p))
  \/ \E p \in Packet : Kept(TtlOver(p))
  \/ \E p \in Packet : Kept(EchoReply(p))
  \/ \E p \in Packet : Kept(PortUnreachable(p))
  \/ \E p \in Packet : Kept(IgnoreLocal(p))
  \/ \E p \in Packet : Kept(NoRouteFound(p))
  \/ \E p \in Packet : Kept(QueueNew(p))
  \/ \E p \in Packet, e \in sr_arpcache : Kept(ForwardCached(p, e))
  \/ \E p \in Packet, e \in sr_arpqueue : Kept(QueueBehind(p, e))
  \/ \E p \in Packet, e \in sr_arpqueue : Kept(QueueGiveUp(p, e))
  \/ \E f \in Arp : Kept(IgnoreArp(f))
  \/ \E f \in Arp : Kept(ArpRefresh(f))
  \/ \E f \in Arp : Kept(ArpLearn(f))
  \/ \E f \in Arp, e \in sr_arpqueue : Kept(ArpFlush(f, e))
  \/ \E f \in Arp : Kept(ArpOverheard(f))
  \/ Kept(Stopped)

MCFairSpec ==
  /\ MCInit /\ [][MCNext]_mcvars
  /\ WF_vars(Sweep \/ HandleFrame) /\ WF_vars(Tick)

MCSpec == MCInit /\ [][MCNext]_mcvars
=============================================================================
