------------------------------ MODULE SrRouter ------------------------------
(***************************************************************************)
(* The packet handler of the simple router, src/simple_router/sr_router.c: *)
(* sr_handlepacket with the ARP cache, the queue of packets that wait for  *)
(* an ARP reply, forwarding, and the ICMP and ARP answers of the router.   *)
(*                                                                         *)
(* Frames arrive in any order and at any time.  One call of the handler    *)
(* first walks the ARP cache and the ARP queue for timeouts, one entry a   *)
(* step, and then dispatches its frame in one step.  The router is single  *)
(* threaded, but the clock is not its own: time() is read again at every   *)
(* entry and once more while the frame is dispatched.                      *)
(*                                                                         *)
(* Time is relative.  A cache entry carries the seconds left until         *)
(* arpc_timeout, a queue entry the seconds since arpq_lastreq (2 stands    *)
(* for "2 or more": the code only asks whether now - 1 > arpq_lastreq), so *)
(* that the clock may run for ever over finitely many states.  Allocation  *)
(* and writes to the server's socket succeed.                              *)
(***************************************************************************)
EXTENDS Integers, Sequences, FiniteSets

CONSTANTS
  Packet,            \* IP packets; each arrives at most once
  Hdr,               \* Packet -> what the handler reads in the packet
  Arp,               \* ARP frames that may arrive, any number of times
  IP, MAC,           \* addresses
  Iface, IfIP,       \* interfaces, and the IP address of each (sr->if_list)
  Route, NoRoute,    \* rt_findmatch: next hop and interface of a destination
  ARP_MAXREQS, ARPCACHE_TIMEOUT,
  None

VARIABLES
  sr_arpcache,       \* entries of the ARP cache
  sr_arpqueue,       \* entries of the ARP queue
  frame,             \* the frame being handled, None between two calls
  cacheLeft,         \* next hops whose cache entry this call has yet to visit
  queueLeft,         \* next hops whose queue entry this call has yet to visit
  status,            \* "running", "exited" or "undefined" (undefined behaviour)
  wire,              \* IP frames the router has sent, in order
  replies,           \* ARP replies the router has handed to sr_send_packet
  ticked,            \* history: has a second passed since the call in hand began?
  rcvd,              \* history: IP packets in order of arrival
  reqs,              \* history: ARP requests sent for each next hop
  heard              \* history: last ARP frame heard from each address

vars == <<sr_arpcache, sr_arpqueue, frame, cacheLeft, queueLeft, status,
          wire, replies, ticked, rcvd, reqs, heard>>

-----------------------------------------------------------------------------
\* What the handler reads in a frame.

\* "icmp_error": an ICMP destination unreachable or time exceeded message.
Proto == {"icmp_error", "icmp_echoreq", "icmp_other", "tcp_udp", "other"}

Header == [iif : Iface,               \* interface the packet arrived on
           dhost : Iface \cup {None}, \* whose address its ether_dhost is
           sumOK : BOOLEAN, icmpSumOK : BOOLEAN,
           ttl : 0..255, proto : Proto, dst : IP, hl : 5..15]

ArpFrame == [iif : Iface, ether : BOOLEAN, op : {"request", "reply"},
             sip : IP, sha : MAC, tip : IP]

RouteEntry == [gw : IP, iface : Iface]

ASSUME FramesAssumption ==
  /\ Hdr \in [Packet -> Header]
  /\ Arp \subseteq ArpFrame
  /\ Packet \cap Arp = {}
  /\ None \notin Packet \cup Arp \cup Iface
ASSUME TopologyAssumption ==
  /\ IfIP \in [Iface -> IP]
  /\ \A i, j \in Iface : IfIP[i] = IfIP[j] => i = j
  /\ Route \in [IP -> RouteEntry \cup {NoRoute}]
  /\ NoRoute \notin RouteEntry
ASSUME LimitsAssumption ==
  /\ ARP_MAXREQS \in Nat /\ ARP_MAXREQS >= 3
  /\ ARPCACHE_TIMEOUT \in Nat /\ ARPCACHE_TIMEOUT >= 2

-----------------------------------------------------------------------------
\* The data of the handler.

CacheEntry == [ip : IP, mac : MAC, left : 0..ARPCACHE_TIMEOUT]

QueueEntry == [ip : IP, iface : Iface, packets : Seq(Packet),
               age : 0..2, numreqs : 1..ARP_MAXREQS, freed : BOOLEAN]

IpFrame == [kind : {"forward", "unreach", "timex", "echoreply", "portunreach"},
            packet : Packet,               \* the packet sent, or answered
            iface : Iface,                 \* interface it leaves by
            src : Iface \cup {None},       \* whose address its ether_shost is
            dst : MAC \cup {None},         \* ether_dhost when forwarded
            ttl : 0..255]                  \* TTL forwarded, or quoted by an ICMP

IsRouterIP(ip) == \E i \in Iface : IfIP[i] = ip

\* sr_handlepacket: ip_ttl -= 1 on an unsigned byte.
TtlLessOne(p) == (Hdr[p].ttl + 255) % 256

IsIcmpError(p) == Hdr[p].proto = "icmp_error"

NextHop(p) == Route[Hdr[p].dst].gw

Cached(ip) == \E e \in sr_arpcache : e.ip = ip

InQueue(ip) == \E e \in sr_arpqueue : e.ip = ip

\* Mistake: >= where the code has >.
OverdueTooSoon(e) == e.age >= 1

\* time(&now) - 1 > arpq_lastreq
Overdue(e) == e.age = 2

\* Mistakes: one request too few, and one too many.
SpentEarly(e) == e.numreqs >= ARP_MAXREQS - 1
SpentLate(e) == e.numreqs > ARP_MAXREQS

Spent(e) == e.numreqs >= ARP_MAXREQS

-----------------------------------------------------------------------------
\* Frames the router makes.

ForwardFrame(p, out, mac) ==
  [kind |-> "forward", packet |-> p, iface |-> out, src |-> out, dst |-> mac,
   ttl |-> TtlLessOne(p)]

\* An ICMP message about p, sent back by the interface p came from, with the
\* header of p as its data: the TTL in it is ttl.
IcmpFrame(kind, p, src, ttl) ==
  [kind |-> kind, packet |-> p, iface |-> Hdr[p].iif, src |-> src,
   dst |-> None, ttl |-> ttl]

\* The header quoted here is that of the packet as it was queued.
UnreachFrame(p) == IcmpFrame("unreach", p, Hdr[p].iif, TtlLessOne(p))

\* sr_send_packet hands a frame to the server only if its source address is
\* that of the interface it leaves by.
SentOne(f) == IF f.src = f.iface THEN Append(wire, f) ELSE wire

\* Mistake: ICMP errors that wait are answered like other packets.
StopsAtOptions(p) == Hdr[p].hl # 5

\* arpq_packets_icmpsend answers the packets of an entry in order.  It returns
\* at the first one that is an ICMP error, and it exits at the first one whose
\* header is not 5 words long: the test of realloc's result is inverted.
StopsAt(p) == IsIcmpError(p) \/ Hdr[p].hl # 5

Answered(packets) ==
  {i \in 1..Len(packets) : \A j \in 1..i : ~StopsAt(packets[j])}

ExitsOn(packets) ==
  \E i \in 1..Len(packets) :
    /\ Hdr[packets[i]].hl # 5 /\ ~IsIcmpError(packets[i])
    /\ \A j \in 1..(i - 1) : ~StopsAt(packets[j])

Unreachables(packets) ==
  [i \in 1..Cardinality(Answered(packets)) |-> UnreachFrame(packets[i])]

\* Mistakes: from the last packet to the first, and all but the last.
FlushedLastFirst(e, mac) ==
  [i \in 1..Len(e.packets) |->
     ForwardFrame(e.packets[Len(e.packets) + 1 - i], e.iface, mac)]
FlushedAllButLast(e, mac) ==
  [i \in 1..(Len(e.packets) - 1) |-> ForwardFrame(e.packets[i], e.iface, mac)]

\* arpq_entry_clear: the packets of an entry, forwarded in order.
Flushed(e, mac) ==
  [i \in 1..Len(e.packets) |-> ForwardFrame(e.packets[i], e.iface, mac)]

-----------------------------------------------------------------------------
\* ARP requests: arpreq_gen_send stamps the entry and counts the request.
Requested(e) == [e EXCEPT !.age = 0, !.numreqs = @ + 1]

\* Mistake: the entry is made without its first packet.
NewEntryEmpty(p) ==
  Requested([ip |-> NextHop(p), iface |-> Route[Hdr[p].dst].iface,
             packets |-> <<>>, age |-> 0, numreqs |-> 1, freed |-> FALSE])

NewEntry(p) ==
  Requested([ip |-> NextHop(p), iface |-> Route[Hdr[p].dst].iface,
             packets |-> <<p>>, age |-> 0, numreqs |-> 1, freed |-> FALSE])

\* History of the requests for one next hop: how many since its queue entry was
\* made, seconds since the last one, and seconds between the last two (2: two
\* or more).
LogRequest(ip, count) ==
  reqs' = [reqs EXCEPT ![ip] = [count |-> count, quiet |-> 0, gap |-> @.quiet]]

-----------------------------------------------------------------------------
Init ==
  /\ sr_arpcache = {} /\ sr_arpqueue = {}
  /\ frame = None /\ cacheLeft = {} /\ queueLeft = {}
  /\ status = "running"
  /\ wire = <<>> /\ replies = {}
  /\ ticked = FALSE /\ rcvd = <<>>
  /\ reqs = [ip \in IP |-> [count |-> 0, quiet |-> 2, gap |-> 2]]
  /\ heard = [ip \in IP |-> [mac |-> None, ago |-> ARPCACHE_TIMEOUT]]

\* A second passes, between two calls or within one.
Tick ==
  /\ status = "running"
  /\ sr_arpcache' = {[e EXCEPT !.left = IF @ = 0 THEN 0 ELSE @ - 1] : e \in sr_arpcache}
  /\ sr_arpqueue' = {[e EXCEPT !.age = IF @ = 2 THEN 2 ELSE @ + 1] : e \in sr_arpqueue}
  /\ reqs' = [ip \in IP |-> [reqs[ip] EXCEPT !.quiet = IF @ = 2 THEN 2 ELSE @ + 1]]
  /\ heard' = [ip \in IP |-> [heard[ip] EXCEPT
                 !.ago = IF @ = ARPCACHE_TIMEOUT THEN @ ELSE @ + 1]]
  /\ ticked' = (frame # None)
  /\ UNCHANGED <<frame, cacheLeft, queueLeft, status, wire, replies, rcvd>>

-----------------------------------------------------------------------------
\* A call of sr_handlepacket begins.  The session drops an ARP request for an
\* address other than that of the interface it came in by.

\* Mistake: no filter.
NotForUsNever(a) == FALSE

NotForUs(a) == a.op = "request" /\ a.tip # IfIP[a.iif]

StartCall(f) ==
  /\ status = "running" /\ frame = None
  /\ frame' = f
  /\ cacheLeft' = {e.ip : e \in sr_arpcache}
  /\ queueLeft' = {e.ip : e \in sr_arpqueue}
  /\ UNCHANGED <<sr_arpcache, sr_arpqueue, status, wire, replies, ticked, reqs, heard>>

ReceivePacket(p) ==
  /\ \A i \in 1..Len(rcvd) : rcvd[i] # p
  /\ StartCall(p)
  /\ rcvd' = Append(rcvd, p)

ReceiveArp(a) ==
  /\ ~NotForUs(a)
  /\ StartCall(a)
  /\ UNCHANGED rcvd

-----------------------------------------------------------------------------
\* Mistake: the walk removes nothing.
SweepCacheLate(ip) ==
  /\ status = "running" /\ ip \in cacheLeft
  /\ cacheLeft' = cacheLeft \ {ip}
  /\ UNCHANGED <<sr_arpcache, sr_arpqueue, frame, queueLeft, status, wire,
                 replies, ticked, rcvd, reqs, heard>>

\* arp_cache_clear_invalids, one entry a step: an entry whose time is over goes.
SweepCache(ip) ==
  /\ status = "running" /\ ip \in cacheLeft
  /\ cacheLeft' = cacheLeft \ {ip}
  /\ sr_arpcache' = {e \in sr_arpcache : e.ip # ip \/ e.left > 0}
  /\ UNCHANGED <<sr_arpqueue, frame, queueLeft, status, wire, replies,
                 ticked, rcvd, reqs, heard>>

\* arpq_clear_invalids, one entry a step.
Sweeping(e) ==
  /\ status = "running" /\ cacheLeft = {}
  /\ e.ip \in queueLeft
  /\ queueLeft' = queueLeft \ {e.ip}
  /\ UNCHANGED <<sr_arpcache, frame, cacheLeft, replies, ticked, rcvd, heard>>

SweepKeep(e) ==
  /\ Sweeping(e)
  /\ ~e.freed /\ ~Overdue(e)
  /\ UNCHANGED <<sr_arpqueue, status, wire, reqs>>

\* Mistake: the request is not counted.
SweepResendUncounted(e) ==
  /\ Sweeping(e)
  /\ ~e.freed /\ Overdue(e) /\ ~Spent(e)
  /\ sr_arpqueue' = (sr_arpqueue \ {e}) \cup {[e EXCEPT !.age = 0]}
  /\ LogRequest(e.ip, reqs[e.ip].count)
  /\ UNCHANGED <<status, wire>>

SweepResend(e) ==
  /\ Sweeping(e)
  /\ ~e.freed /\ Overdue(e) /\ ~Spent(e)
  /\ sr_arpqueue' = (sr_arpqueue \ {e}) \cup {Requested(e)}
  /\ LogRequest(e.ip, reqs[e.ip].count + 1)
  /\ UNCHANGED <<status, wire>>

\* Mistake: the entry stays in the queue with its packets.
SweepGiveUpKept(e) ==
  /\ Sweeping(e)
  /\ ~e.freed /\ Overdue(e) /\ Spent(e)
  /\ wire' = wire \o Unreachables(e.packets)
  /\ status' = IF ExitsOn(e.packets) THEN "exited" ELSE status
  /\ UNCHANGED <<sr_arpqueue, reqs>>

SweepGiveUp(e) ==
  /\ Sweeping(e)
  /\ ~e.freed /\ Overdue(e) /\ Spent(e)
  /\ sr_arpqueue' = sr_arpqueue \ {e}
  /\ wire' = wire \o Unreachables(e.packets)
  /\ status' = IF ExitsOn(e.packets) THEN "exited" ELSE status
  /\ UNCHANGED reqs

\* The walk reads an entry that an earlier call freed and left in the list.
SweepFreed(e) ==
  /\ Sweeping(e)
  /\ e.freed
  /\ status' = "undefined"
  /\ UNCHANGED <<sr_arpqueue, wire, reqs>>

-----------------------------------------------------------------------------
\* The frame is dispatched once both walks are over, and the call returns.
Dispatching(f) ==
  /\ status = "running"
  /\ frame = f /\ cacheLeft = {} /\ queueLeft = {}
  /\ frame' = None /\ ticked' = FALSE
  /\ UNCHANGED <<cacheLeft, queueLeft, rcvd>>

DropBadChecksum(p) ==
  /\ Dispatching(p)
  /\ ~Hdr[p].sumOK
  /\ UNCHANGED <<sr_arpcache, sr_arpqueue, status, wire, replies, reqs, heard>>

\* The TTL is 0 once decremented: time exceeded, unless p is an ICMP error.
\* The TTL it quotes is the one p came with.
TtlOver(p) ==
  /\ Dispatching(p)
  /\ Hdr[p].sumOK /\ TtlLessOne(p) = 0
  /\ wire' = IF IsIcmpError(p)
             THEN wire
             ELSE SentOne(IcmpFrame("timex", p, Hdr[p].iif, Hdr[p].ttl))
  /\ UNCHANGED <<sr_arpcache, sr_arpqueue, status, replies, reqs, heard>>

\* The packet is for an interface of the router.  Answers swap the Ethernet
\* addresses of the packet, so their source is its destination.
ForRouter(p) ==
  /\ Dispatching(p)
  /\ Hdr[p].sumOK /\ TtlLessOne(p) # 0
  /\ IsRouterIP(Hdr[p].dst)
  /\ UNCHANGED <<sr_arpcache, sr_arpqueue, status, replies, reqs, heard>>

EchoReply(p) ==
  /\ ForRouter(p)
  /\ Hdr[p].proto = "icmp_echoreq" /\ Hdr[p].icmpSumOK
  /\ wire' = SentOne(IcmpFrame("echoreply", p, Hdr[p].dhost, TtlLessOne(p)))

PortUnreachable(p) ==
  /\ ForRouter(p)
  /\ Hdr[p].proto = "tcp_udp"
  /\ wire' = SentOne(IcmpFrame("portunreach", p, Hdr[p].dhost, Hdr[p].ttl))

IgnoreLocal(p) ==
  /\ ForRouter(p)
  /\ Hdr[p].proto # "tcp_udp"
  /\ Hdr[p].proto = "icmp_echoreq" => ~Hdr[p].icmpSumOK
  /\ UNCHANGED wire

-----------------------------------------------------------------------------
\* The packet is for another host.
ToForward(p) ==
  /\ Dispatching(p)
  /\ Hdr[p].sumOK /\ TtlLessOne(p) # 0
  /\ ~IsRouterIP(Hdr[p].dst)
  /\ UNCHANGED <<sr_arpcache, replies, heard>>

\* rt_findmatch found no route and its null result is read.
NoRouteFound(p) ==
  /\ ToForward(p)
  /\ Route[Hdr[p].dst] = NoRoute
  /\ status' = "undefined"
  /\ UNCHANGED <<sr_arpqueue, wire, reqs>>

HasRoute(p) ==
  /\ ToForward(p)
  /\ Route[Hdr[p].dst] # NoRoute

ForwardCached(p, e) ==
  /\ HasRoute(p)
  /\ e.ip = NextHop(p)
  /\ wire' = SentOne(ForwardFrame(p, Route[Hdr[p].dst].iface, e.mac))
  /\ UNCHANGED <<sr_arpqueue, status, reqs>>

\* A request is outstanding: ask again if the last one is overdue, and wait
\* behind the packets already there.
QueueBehind(p, e) ==
  /\ HasRoute(p)
  /\ ~Cached(NextHop(p)) /\ e.ip = NextHop(p)
  /\ ~(Overdue(e) /\ Spent(e))
  /\ sr_arpqueue' = (sr_arpqueue \ {e}) \cup
       {[(IF Overdue(e) THEN Requested(e) ELSE e) EXCEPT !.packets = Append(@, p)]}
  /\ IF Overdue(e) THEN LogRequest(e.ip, reqs[e.ip].count + 1) ELSE UNCHANGED reqs
  /\ UNCHANGED <<status, wire>>

\* The last request became overdue after this call's walk: the packets are
\* answered and the entry is freed, but it stays linked in the queue.  p itself
\* is answered whatever it is, unless the process has exited before.
QueueGiveUp(p, e) ==
  /\ HasRoute(p)
  /\ ~Cached(NextHop(p)) /\ e.ip = NextHop(p)
  /\ Overdue(e) /\ Spent(e)
  /\ sr_arpqueue' = (sr_arpqueue \ {e}) \cup {[e EXCEPT !.packets = <<>>, !.freed = TRUE]}
  /\ IF ExitsOn(e.packets)
     THEN /\ wire' = wire \o Unreachables(e.packets)
          /\ status' = "exited"
     ELSE /\ wire' = Append(wire \o Unreachables(e.packets), UnreachFrame(p))
          /\ UNCHANGED status
  /\ UNCHANGED reqs

QueueNew(p) ==
  /\ HasRoute(p)
  /\ ~Cached(NextHop(p)) /\ ~InQueue(NextHop(p))
  /\ sr_arpqueue' = sr_arpqueue \cup {NewEntry(p)}
  /\ LogRequest(NextHop(p), 1)
  /\ UNCHANGED <<status, wire>>

-----------------------------------------------------------------------------
\* ARP frames.

Learnt(a) == [ip |-> a.sip, mac |-> a.sha, left |-> ARPCACHE_TIMEOUT]

IgnoreArp(a) ==
  /\ Dispatching(a)
  /\ ~a.ether
  /\ UNCHANGED <<sr_arpcache, sr_arpqueue, status, wire, replies, reqs, heard>>

\* isdst_check finds the interface the reply speaks for; its address is the
\* source of the reply, which leaves by the interface the request came in by.
HandleArp(a) ==
  /\ Dispatching(a)
  /\ a.ether
  /\ replies' = IF a.op = "request" /\ IsRouterIP(a.tip)
                THEN replies \cup {[iface |-> a.iif, to |-> a.sha,
                                    src |-> CHOOSE i \in Iface : IfIP[i] = a.tip]}
                ELSE replies
  /\ heard' = [heard EXCEPT ![a.sip] = [mac |-> a.sha, ago |-> 0]]
  /\ UNCHANGED <<status, reqs>>

\* arp_cache_update, whoever the frame is for.
ArpRefresh(a) ==
  /\ HandleArp(a)
  /\ Cached(a.sip)
  /\ sr_arpcache' = {IF e.ip = a.sip THEN Learnt(a) ELSE e : e \in sr_arpcache}
  /\ UNCHANGED <<sr_arpqueue, wire>>

\* Mistakes: an entry is added for an address that has one; the queue entry of
\* the address is forgotten, and is flushed but not unlinked.
ArpLearnTwice(a) ==
  /\ HandleArp(a)
  /\ IsRouterIP(a.tip) /\ ~InQueue(a.sip)
  /\ sr_arpcache' = sr_arpcache \cup {Learnt(a)}
  /\ UNCHANGED <<sr_arpqueue, wire>>
ArpFlushForgotten(a, e) ==
  /\ HandleArp(a)
  /\ ~Cached(a.sip) /\ IsRouterIP(a.tip) /\ e.ip = a.sip
  /\ sr_arpcache' = sr_arpcache \cup {Learnt(a)}
  /\ UNCHANGED <<sr_arpqueue, wire>>
ArpFlushLinked(a, e) ==
  /\ HandleArp(a)
  /\ ~Cached(a.sip) /\ IsRouterIP(a.tip) /\ e.ip = a.sip
  /\ sr_arpcache' = sr_arpcache \cup {Learnt(a)}
  /\ wire' = wire \o Flushed(e, a.sha)
  /\ UNCHANGED sr_arpqueue

\* arp_cache_add, when the router is the target.
ArpLearn(a) ==
  /\ HandleArp(a)
  /\ ~Cached(a.sip) /\ IsRouterIP(a.tip) /\ ~InQueue(a.sip)
  /\ sr_arpcache' = sr_arpcache \cup {Learnt(a)}
  /\ UNCHANGED <<sr_arpqueue, wire>>

\* arp_cache_add and arpq_entry_clear.
ArpFlush(a, e) ==
  /\ HandleArp(a)
  /\ ~Cached(a.sip) /\ IsRouterIP(a.tip) /\ e.ip = a.sip
  /\ sr_arpcache' = sr_arpcache \cup {Learnt(a)}
  /\ sr_arpqueue' = sr_arpqueue \ {e}
  /\ wire' = wire \o Flushed(e, a.sha)

ArpOverheard(a) ==
  /\ HandleArp(a)
  /\ ~Cached(a.sip) /\ ~IsRouterIP(a.tip)
  /\ UNCHANGED <<sr_arpcache, sr_arpqueue, wire>>

-----------------------------------------------------------------------------
Receive ==
  \/ \E p \in Packet : ReceivePacket(p)
  \/ \E a \in Arp : ReceiveArp(a)

Sweep ==
  \/ \E ip \in IP : SweepCache(ip)
  \/ \E e \in sr_arpqueue : SweepKeep(e) \/ SweepResend(e) \/ SweepGiveUp(e) \/ SweepFreed(e)

HandlePacket(p) ==
  \/ DropBadChecksum(p) \/ TtlOver(p)
  \/ EchoReply(p) \/ PortUnreachable(p) \/ IgnoreLocal(p)
  \/ NoRouteFound(p) \/ QueueNew(p)
  \/ \E e \in sr_arpcache : ForwardCached(p, e)
  \/ \E e \in sr_arpqueue : QueueBehind(p, e) \/ QueueGiveUp(p, e)

HandleFrame ==
  \/ \E p \in Packet : HandlePacket(p)
  \/ \E a \in Arp : \/ IgnoreArp(a) \/ ArpRefresh(a) \/ ArpLearn(a) \/ ArpOverheard(a)
                    \/ \E e \in sr_arpqueue : ArpFlush(a, e)

\* The process has exited, or the C standard says nothing of it any more.
Stopped == status # "running" /\ UNCHANGED vars

Next == Tick \/ Receive \/ Sweep \/ HandleFrame \/ Stopped

Spec == Init /\ [][Next]_vars

\* The handler runs to its end once called, and time passes.  Nothing is
\* assumed of the frames that arrive.
FairSpec == Spec /\ WF_vars(Sweep \/ HandleFrame) /\ WF_vars(Tick)
-----------------------------------------------------------------------------
(***************************************************************************)
(* Properties.                                                             *)
(***************************************************************************)

\* The shape of the state: every entry and every frame on the wire is of its
\* kind, and the sweeps have only known next hops left to visit.
TypeOK ==
  /\ sr_arpcache \subseteq CacheEntry
  /\ sr_arpqueue \subseteq QueueEntry
  /\ frame \in Packet \cup Arp \cup {None}
  /\ cacheLeft \subseteq IP /\ queueLeft \subseteq IP
  /\ status \in {"running", "exited", "undefined"}
  /\ wire \in Seq(IpFrame)
  /\ replies \subseteq [iface : Iface, to : MAC, src : Iface]
  /\ ticked \in BOOLEAN
  /\ rcvd \in Seq(Packet)
  /\ reqs \in [IP -> [count : 0..(ARP_MAXREQS - 1), quiet : 0..2, gap : 0..2]]
  /\ heard \in [IP -> [mac : MAC \cup {None}, ago : 0..ARPCACHE_TIMEOUT]]

\* arp_cache_search and arp_queue_search return the first entry they find: no
\* two entries of the cache, and no two of the queue, are for one next hop.
UniqueEntries ==
  /\ \A d, e \in sr_arpcache : d.ip = e.ip => d = e
  /\ \A d, e \in sr_arpqueue : d.ip = e.ip => d = e

\* Packets never wait for an address the router knows: learning an address
\* (arp_cache_add) and clearing its queue entry (arpq_entry_clear) go together.
CacheQueueDisjoint == \A d \in sr_arpcache, e \in sr_arpqueue : d.ip # e.ip

\* "arpq_packets should be non-empty" (the assertion where a packet joins an
\* entry, and the comment on arpq_packets_icmpsend): no entry that is linked in
\* the queue is without a packet.
QueueEntriesNonEmpty == \A e \in sr_arpqueue : e.packets # <<>>

\* The code keeps that promise in every call within which the second does not
\* change: only then can an entry pass the walk and be spent when its packet is
\* dispatched.
NonEmptyUnlessTicked ==
  [][QueueEntriesNonEmpty /\ ~ticked => QueueEntriesNonEmpty']_vars

\* p arrived before q.
Before(p, q) == \E m, n \in 1..Len(rcvd) : m < n /\ rcvd[m] = p /\ rcvd[n] = q

\* Where on the wire a packet was forwarded to next hop ip.
ForwardedAt(ip) ==
  {i \in 1..Len(wire) : wire[i].kind = "forward" /\ NextHop(wire[i].packet) = ip}

\* Packets to one next hop leave in the order they came, whichever of them had
\* to wait for an ARP reply: the queue is emptied in order and before any later
\* packet can be forwarded from the cache.
NoOvertaking ==
  \A ip \in IP :
    /\ \A i, j \in ForwardedAt(ip) : i < j => Before(wire[i].packet, wire[j].packet)
    /\ \A e \in sr_arpqueue : e.ip = ip =>
         /\ \A i \in ForwardedAt(ip), k \in 1..Len(e.packets) :
              Before(wire[i].packet, e.packets[k])
         /\ \A k, l \in 1..Len(e.packets) : k < l => Before(e.packets[k], e.packets[l])

OnWire(p) == {i \in 1..Len(wire) : wire[i].packet = p}

\* The places in the queue where p waits.
Waits(p) ==
  UNION {{e} \X {k \in 1..Len(e.packets) : e.packets[k] = p} : e \in sr_arpqueue}

\* A packet is forwarded, answered or kept waiting, and only one of these, once:
\* clearing an entry, giving it up and answering its packets never repeat.
OneFate == \A p \in Packet : Cardinality(OnWire(p)) + Cardinality(Waits(p)) <= 1

\* A packet that could be forwarded has come, its call is over, and it is
\* neither on the wire nor in the queue.
Forwardable(p) ==
  /\ Hdr[p].sumOK /\ TtlLessOne(p) # 0
  /\ ~IsRouterIP(Hdr[p].dst) /\ Route[Hdr[p].dst] # NoRoute

Vanished(p) ==
  /\ status = "running" /\ frame # p
  /\ \E i \in 1..Len(rcvd) : rcvd[i] = p
  /\ Forwardable(p)
  /\ OnWire(p) = {} /\ Waits(p) = {}

\* No packet is lost without an answer, but for an ICMP error and for packets
\* that came after an ICMP error for the same next hop: arpq_packets_icmpsend
\* returns when it meets one and leaves the rest of the entry unanswered.
VanishesOnlyBehindIcmpError ==
  \A p \in Packet : Vanished(p) =>
    \E i, j \in 1..Len(rcvd) :
      /\ i <= j /\ rcvd[j] = p
      /\ IsIcmpError(rcvd[i]) /\ NextHop(rcvd[i]) = NextHop(p)

\* "made over a second ago": for every next hop, two ARP requests in a row are
\* two or more seconds apart, even when the entry was given up, or answered and
\* its cache entry expired, between the two.
RequestsSpaced == \A ip \in IP : reqs[ip].gap = 2

\* sr_send_packet refuses a frame whose source is not the interface it leaves
\* by; no ARP reply is refused, although the handler takes the source from the
\* interface whose address was asked for and not from the receiving one.
ReplySourceIsInterface == \A r \in replies : r.src = r.iface

NewFrames(kind) ==
  {wire'[i] : i \in {j \in (Len(wire) + 1)..Len(wire') : wire'[j].kind = kind}}

\* A packet is answered with host unreachable only when its next hop has no
\* address in the cache, was asked for it and asked again, and the last of these
\* requests was made over a second ago; by the walk, in the dispatch, and with the
\* second changing between the two.
UnreachableOnlyAfterRetry ==
  [][\A f \in NewFrames("unreach") :
       LET hop == NextHop(f.packet)
       IN  ~Cached(hop) /\ reqs[hop].count >= 2 /\ reqs[hop].quiet = 2]_vars

\* "entries with five or more requests" (the comment on arpq_clear_invalids;
\* ARP_MAXREQS is 5): a packet is answered with host unreachable only after
\* ARP_MAXREQS requests for its next hop.
UnreachableOnlyAfterFiveRequests ==
  [][\A f \in NewFrames("unreach") : reqs[NextHop(f.packet)].count >= ARP_MAXREQS]_vars

\* A packet is forwarded to the hardware address last heard from its next hop,
\* and only if that was less than ARPCACHE_TIMEOUT seconds ago, unless the second
\* changed within the call.
FreshMac ==
  [][~ticked =>
       \A f \in NewFrames("forward") :
         LET h == heard'[NextHop(f.packet)]
         IN  f.dst = h.mac /\ h.ago < ARPCACHE_TIMEOUT]_vars

\* The router answers an ICMP error with an ICMP error on one path only, and only
\* in a call within which the second changes: the packet in hand finds its entry
\* overdue and spent after the walk has passed it by, and the entry is then left
\* in the list, freed.  None is answered from the queue, or when its TTL is over.
AnswersIcmpErrorOnlyLate ==
  [][\A f \in NewFrames("unreach") \cup NewFrames("timex") :
       IsIcmpError(f.packet) =>
         /\ ticked /\ f.kind = "unreach" /\ frame = f.packet
         /\ \E e \in sr_arpqueue : e.ip = NextHop(frame) /\ Overdue(e) /\ Spent(e)
         /\ \E e \in sr_arpqueue' : e.ip = NextHop(f.packet) /\ e.freed]_vars

Gateways == {r.gw : r \in {Route[ip] : ip \in IP} \ {NoRoute}}

\* While frames keep arriving, no entry stays in the queue: the packets that wait
\* in it are sooner or later forwarded or given up.  Timeouts are noticed only when
\* a frame arrives (both walks are in sr_handlepacket), so without traffic nothing
\* is promised.
EveryWaitEnds ==
  []<>(<<Receive>>_vars) =>
    \A ip \in Gateways : InQueue(ip) ~> (~InQueue(ip) \/ status # "running")

\* The packets that wait for a next hop.
WaitingFor(ip) ==
  IF InQueue(ip) THEN (CHOOSE e \in sr_arpqueue : e.ip = ip).packets ELSE <<>>

\* What a frame on the wire does with its packet.
SentAs(f) ==
  [packet |-> f.packet,
   as     |-> IF f.kind = "forward" THEN "delivered"
              ELSE IF f.kind = "unreach" THEN "refused" ELSE "answered"]

\* The cache and the queue deliver as HopDelivery says, whatever the calls, the
\* requests and the clock do.
Delivery == INSTANCE HopDelivery WITH
  Hop     <- IP,
  known   <- {e.ip : e \in sr_arpcache},
  waiting <- [ip \in IP |-> WaitingFor(ip)],
  sent    <- [i \in 1..Len(wire) |-> SentAs(wire[i])],
  up      <- status = "running"

ImplementsDelivery == Delivery!Spec
=============================================================================
