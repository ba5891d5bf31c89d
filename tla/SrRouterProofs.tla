--------------------------- MODULE SrRouterProofs ---------------------------
(***************************************************************************)
(* Theorems about SrRouter for every set of packets, ARP frames, addresses *)
(* and interfaces, and every value of the limits: an inductive invariant   *)
(* that ties the entries of the cache and of the queue to each other and   *)
(* to the requests on the wire, and what follows from it.                  *)
(***************************************************************************)
EXTENDS SrRouter, FiniteSetTheorems, SequenceTheorems, TLAPS

-----------------------------------------------------------------------------
\* The inductive invariant.

\* An entry counts one more than the requests sent for it, and its clock is
\* that of its last request.
EntriesMatchRequests ==
  \A e \in sr_arpqueue :
    /\ reqs[e.ip].count = e.numreqs - 1
    /\ reqs[e.ip].quiet = e.age

\* A next hop without an entry has been quiet; one with a cache entry will have
\* been by the time the entry expires.
QuietHops ==
  /\ \A ip \in IP : ~Cached(ip) /\ ~InQueue(ip) => reqs[ip].quiet = 2
  /\ \A d \in sr_arpcache : d.left + reqs[d.ip].quiet >= 2

IInv ==
  /\ TypeOK
  /\ UniqueEntries
  /\ CacheQueueDisjoint
  /\ EntriesMatchRequests
  /\ QuietHops
  /\ RequestsSpaced

-----------------------------------------------------------------------------
\* Frames the router makes have their type.

LEMMA TtlType == ASSUME NEW p \in Packet PROVE TtlLessOne(p) \in 0..255
<1>1. Hdr[p].ttl \in 0..255
  BY FramesAssumption DEF Header
<1> QED
  BY <1>1 DEF TtlLessOne

LEMMA IcmpFrameType ==
  ASSUME NEW p \in Packet, NEW kind \in {"unreach", "timex", "echoreply", "portunreach"},
         NEW src \in Iface \cup {None}, NEW ttl \in 0..255
  PROVE  IcmpFrame(kind, p, src, ttl) \in IpFrame
<1>1. Hdr[p].iif \in Iface
  BY FramesAssumption DEF Header
<1> QED
  BY <1>1 DEF IcmpFrame, IpFrame

LEMMA ForwardFrameType ==
  ASSUME NEW p \in Packet, NEW out \in Iface, NEW mac \in MAC
  PROVE  ForwardFrame(p, out, mac) \in IpFrame
BY TtlType DEF ForwardFrame, IpFrame

LEMMA UnreachFrameType == ASSUME NEW p \in Packet PROVE UnreachFrame(p) \in IpFrame
<1>1. Hdr[p].iif \in Iface
  BY FramesAssumption DEF Header
<1> QED
  BY <1>1, TtlType, IcmpFrameType DEF UnreachFrame

LEMMA SentOneType ==
  ASSUME wire \in Seq(IpFrame), NEW f \in IpFrame
  PROVE  SentOne(f) \in Seq(IpFrame)
BY DEF SentOne

\* The packets that arpq_packets_icmpsend answers are packets of the entry.
LEMMA UnreachablesType ==
  ASSUME NEW packets \in Seq(Packet)
  PROVE  Unreachables(packets) \in Seq(IpFrame)
<1>1. Len(packets) \in Nat
  OBVIOUS
<1>2. IsFiniteSet(1..Len(packets)) /\ Cardinality(1..Len(packets)) = Len(packets)
  BY <1>1, FS_Interval
<1>3. Answered(packets) \subseteq 1..Len(packets)
  BY DEF Answered
<1>4. Cardinality(Answered(packets)) \in Nat /\ Cardinality(Answered(packets)) <= Len(packets)
  BY <1>2, <1>3, FS_Subset, FS_CardinalityType
<1>5. \A i \in 1..Cardinality(Answered(packets)) : UnreachFrame(packets[i]) \in IpFrame
  BY <1>4, UnreachFrameType
<1> QED
  BY <1>4, <1>5 DEF Unreachables

LEMMA FlushedType ==
  ASSUME NEW e \in QueueEntry, NEW mac \in MAC
  PROVE  Flushed(e, mac) \in Seq(IpFrame)
<1>1. e.packets \in Seq(Packet) /\ e.iface \in Iface
  BY DEF QueueEntry
<1>2. \A i \in 1..Len(e.packets) : ForwardFrame(e.packets[i], e.iface, mac) \in IpFrame
  BY <1>1, ForwardFrameType
<1> QED
  BY <1>1, <1>2 DEF Flushed

LEMMA RouteType ==
  ASSUME NEW p \in Packet, Route[Hdr[p].dst] # NoRoute
  PROVE  NextHop(p) \in IP /\ Route[Hdr[p].dst].iface \in Iface
<1>1. Hdr[p].dst \in IP
  BY FramesAssumption DEF Header
<1> QED
  BY <1>1, TopologyAssumption DEF NextHop, RouteEntry

\* A request refreshes an entry without losing its type.
LEMMA RequestedType ==
  ASSUME NEW e \in QueueEntry, ~Spent(e)
  PROVE  /\ Requested(e) \in QueueEntry
         /\ Requested(e).ip = e.ip
         /\ Requested(e).packets = e.packets
         /\ Requested(e).freed = e.freed
         /\ Requested(e).age = 0
         /\ Requested(e).numreqs = e.numreqs + 1
<1>1. e.numreqs + 1 \in 1..ARP_MAXREQS
  BY LimitsAssumption DEF QueueEntry, Spent
<1>2. Requested(e) \in QueueEntry
  <2>1. [e EXCEPT !.age = 0] \in QueueEntry
    BY DEF QueueEntry
  <2>2. Requested(e) = [[e EXCEPT !.age = 0] EXCEPT !.numreqs = e.numreqs + 1]
    BY DEF Requested, QueueEntry
  <2> QED
    BY <1>1, <2>1, <2>2 DEF QueueEntry
<1>3. /\ Requested(e).ip = e.ip
      /\ Requested(e).packets = e.packets
      /\ Requested(e).freed = e.freed
      /\ Requested(e).age = 0
      /\ Requested(e).numreqs = e.numreqs + 1
  BY DEF Requested, QueueEntry
<1> QED
  BY <1>2, <1>3

LEMMA NewEntryType ==
  ASSUME NEW p \in Packet, Route[Hdr[p].dst] # NoRoute
  PROVE  /\ NewEntry(p) \in QueueEntry
         /\ NewEntry(p).ip = NextHop(p)
         /\ NewEntry(p).packets = <<p>>
         /\ NewEntry(p).freed = FALSE
         /\ NewEntry(p).age = 0
         /\ NewEntry(p).numreqs = 2
<1>1. NextHop(p) \in IP /\ Route[Hdr[p].dst].iface \in Iface
  BY RouteType
<1>2. <<p>> \in Seq(Packet)
  OBVIOUS
<1> DEFINE e == [ip |-> NextHop(p), iface |-> Route[Hdr[p].dst].iface,
                 packets |-> <<p>>, age |-> 0, numreqs |-> 1, freed |-> FALSE]
<1>3. e \in QueueEntry
  BY <1>1, <1>2, LimitsAssumption DEF QueueEntry
<1>4. ~Spent(e)
  BY LimitsAssumption DEF Spent
<1>5. /\ e.ip = NextHop(p) /\ e.packets = <<p>> /\ e.freed = FALSE /\ e.numreqs = 1
      /\ NewEntry(p) = Requested(e)
  BY DEF NewEntry
<1> HIDE DEF e
<1> QED
  BY <1>3, <1>4, <1>5, RequestedType

-----------------------------------------------------------------------------
\* How the steps move entries and requests.

LEMMA LogRequestFacts ==
  ASSUME TypeOK, NEW ip \in IP, NEW count \in 0..(ARP_MAXREQS - 1),
         LogRequest(ip, count)
  PROVE  /\ reqs' \in [IP -> [count : 0..(ARP_MAXREQS - 1), quiet : 0..2, gap : 0..2]]
         /\ reqs'[ip].count = count
         /\ reqs'[ip].quiet = 0
         /\ reqs'[ip].gap = reqs[ip].quiet
         /\ \A other \in IP : other # ip => reqs'[other] = reqs[other]
BY DEF LogRequest, TypeOK

\* A step that leaves the entries and the requests alone.
LEMMA Undisturbed ==
  ASSUME IInv, UNCHANGED <<sr_arpcache, sr_arpqueue, reqs>>
  PROVE  /\ UniqueEntries' /\ CacheQueueDisjoint'
         /\ EntriesMatchRequests' /\ QuietHops' /\ RequestsSpaced'
BY DEF IInv, UniqueEntries, CacheQueueDisjoint, EntriesMatchRequests, QuietHops,
       RequestsSpaced, Cached, InQueue

\* A queue entry makes place for another one for the same next hop.
LEMMA ReplaceEntry ==
  ASSUME IInv, NEW e \in sr_arpqueue, NEW f \in QueueEntry,
         f.ip = e.ip,
         sr_arpqueue' = (sr_arpqueue \ {e}) \cup {f},
         UNCHANGED sr_arpcache
  PROVE  /\ UniqueEntries' /\ CacheQueueDisjoint'
         /\ sr_arpqueue' \subseteq QueueEntry
         /\ \A g \in sr_arpqueue' : g # f => g \in sr_arpqueue /\ g.ip # e.ip
         /\ \A ip : Cached(ip)' = Cached(ip) /\ InQueue(ip)' = InQueue(ip)
<1> USE DEF IInv
<1>1. \A g \in sr_arpqueue' : g # f => g \in sr_arpqueue /\ g.ip # e.ip
  BY DEF UniqueEntries
<1>2. UniqueEntries'
  BY <1>1 DEF UniqueEntries
<1>3. CacheQueueDisjoint'
  BY DEF CacheQueueDisjoint
<1>4. sr_arpqueue' \subseteq QueueEntry
  BY DEF TypeOK
<1>5. \A ip : Cached(ip)' = Cached(ip) /\ InQueue(ip)' = InQueue(ip)
  BY DEF Cached, InQueue
<1> QED
  BY <1>1, <1>2, <1>3, <1>4, <1>5

\* An overdue entry asks again: both walks do this, and so may a packet.
LEMMA AskAgain ==
  ASSUME IInv, NEW e \in sr_arpqueue, NEW f \in QueueEntry,
         f.ip = e.ip, f.age = 0, f.numreqs = e.numreqs + 1,
         Overdue(e), ~Spent(e),
         sr_arpqueue' = (sr_arpqueue \ {e}) \cup {f},
         LogRequest(e.ip, reqs[e.ip].count + 1),
         UNCHANGED sr_arpcache
  PROVE  /\ reqs' \in [IP -> [count : 0..(ARP_MAXREQS - 1), quiet : 0..2, gap : 0..2]]
         /\ EntriesMatchRequests' /\ QuietHops' /\ RequestsSpaced'
<1>1. e \in QueueEntry /\ e.ip \in IP /\ e.age = 2 /\ e.numreqs \in 1..(ARP_MAXREQS - 1)
  BY LimitsAssumption DEF IInv, TypeOK, QueueEntry, Overdue, Spent
<1>2. reqs[e.ip].count = e.numreqs - 1 /\ reqs[e.ip].quiet = 2
  BY <1>1 DEF IInv, EntriesMatchRequests
<1>3. /\ reqs' \in [IP -> [count : 0..(ARP_MAXREQS - 1), quiet : 0..2, gap : 0..2]]
      /\ reqs'[e.ip].count = reqs[e.ip].count + 1
      /\ reqs'[e.ip].quiet = 0
      /\ reqs'[e.ip].gap = 2
      /\ \A other \in IP : other # e.ip => reqs'[other] = reqs[other]
  <2>1. reqs[e.ip].count + 1 \in 0..(ARP_MAXREQS - 1)
    BY <1>1, <1>2, LimitsAssumption
  <2> QED
    BY <1>1, <1>2, <2>1, LogRequestFacts DEF IInv
<1>4. /\ \A g \in sr_arpqueue' : g # f => g \in sr_arpqueue /\ g.ip # e.ip
      /\ \A ip : Cached(ip)' = Cached(ip) /\ InQueue(ip)' = InQueue(ip)
  BY ReplaceEntry
<1>5. EntriesMatchRequests'
  <2> SUFFICES ASSUME NEW g \in sr_arpqueue'
               PROVE  reqs'[g.ip].count = g.numreqs - 1 /\ reqs'[g.ip].quiet = g.age
    BY DEF EntriesMatchRequests
  <2>1. CASE g = f
    BY <1>1, <1>2, <1>3, <2>1
  <2>2. CASE g # f
    <3>1. g \in sr_arpqueue /\ g.ip \in IP /\ g.ip # e.ip
      BY <1>4, <2>2 DEF IInv, TypeOK, QueueEntry
    <3> QED
      BY <1>3, <3>1 DEF IInv, EntriesMatchRequests
  <2> QED
    BY <2>1, <2>2
<1>6. QuietHops'
  <2>1. \A ip \in IP : ~Cached(ip)' /\ ~InQueue(ip)' => reqs'[ip].quiet = 2
    <3>1. InQueue(e.ip)
      BY DEF InQueue
    <3> QED
      BY <1>3, <1>4, <3>1 DEF IInv, QuietHops
  <2>2. \A d \in sr_arpcache' : d.left + reqs'[d.ip].quiet >= 2
    <3>1. \A d \in sr_arpcache : d.ip \in IP /\ d.ip # e.ip
      BY DEF IInv, TypeOK, CacheEntry, CacheQueueDisjoint
    <3> QED
      BY <1>3, <3>1 DEF IInv, QuietHops
  <2> QED
    BY <2>1, <2>2 DEF QuietHops
<1>7. RequestsSpaced'
  BY <1>3 DEF IInv, RequestsSpaced
<1> QED
  BY <1>3, <1>5, <1>6, <1>7

\* A queue entry changes in what neither its clock nor its count shows.
LEMMA AmendEntry ==
  ASSUME IInv, NEW e \in sr_arpqueue, NEW f \in QueueEntry,
         f.ip = e.ip, f.age = e.age, f.numreqs = e.numreqs,
         sr_arpqueue' = (sr_arpqueue \ {e}) \cup {f},
         UNCHANGED <<sr_arpcache, reqs>>
  PROVE  EntriesMatchRequests' /\ QuietHops' /\ RequestsSpaced'
<1>1. /\ \A g \in sr_arpqueue' : g # f => g \in sr_arpqueue /\ g.ip # e.ip
      /\ \A ip : Cached(ip)' = Cached(ip) /\ InQueue(ip)' = InQueue(ip)
  BY ReplaceEntry
<1>2. EntriesMatchRequests'
  BY <1>1 DEF IInv, EntriesMatchRequests
<1>3. QuietHops'
  BY <1>1 DEF IInv, QuietHops
<1>4. RequestsSpaced'
  BY DEF IInv, RequestsSpaced
<1> QED
  BY <1>2, <1>3, <1>4

-----------------------------------------------------------------------------
\* Every step preserves the type of the state.

LEMMA TypeInit == Init => TypeOK
<1> SUFFICES ASSUME Init PROVE TypeOK
  OBVIOUS
<1>1. reqs \in [IP -> [count : 0..(ARP_MAXREQS - 1), quiet : 0..2, gap : 0..2]]
  BY LimitsAssumption DEF Init
<1>2. heard \in [IP -> [mac : MAC \cup {None}, ago : 0..ARPCACHE_TIMEOUT]]
  BY LimitsAssumption DEF Init
<1>3. wire \in Seq(IpFrame) /\ rcvd \in Seq(Packet)
  BY DEF Init
<1> QED
  BY <1>1, <1>2, <1>3 DEF Init, TypeOK

LEMMA TypeTick == TypeOK /\ Tick => TypeOK'
<1> SUFFICES ASSUME TypeOK, Tick PROVE TypeOK'
  OBVIOUS
<1> USE DEF TypeOK
<1>1. sr_arpcache' \subseteq CacheEntry
  <2>1. \A e \in CacheEntry, n \in 0..ARPCACHE_TIMEOUT : [e EXCEPT !.left = n] \in CacheEntry
    BY DEF CacheEntry
  <2>2. \A e \in CacheEntry :
          (IF e.left = 0 THEN 0 ELSE e.left - 1) \in 0..ARPCACHE_TIMEOUT
    BY LimitsAssumption DEF CacheEntry
  <2> SUFFICES ASSUME NEW f \in sr_arpcache' PROVE f \in CacheEntry
    OBVIOUS
  <2>3. PICK e \in sr_arpcache : f = [e EXCEPT !.left = IF e.left = 0 THEN 0 ELSE e.left - 1]
    BY DEF Tick
  <2>4. e \in CacheEntry
    OBVIOUS
  <2> QED
    BY <2>1, <2>2, <2>3, <2>4
<1>2. sr_arpqueue' \subseteq QueueEntry
  <2>1. \A e \in QueueEntry, n \in 0..2 : [e EXCEPT !.age = n] \in QueueEntry
    BY DEF QueueEntry
  <2>2. \A e \in QueueEntry : (IF e.age = 2 THEN 2 ELSE e.age + 1) \in 0..2
    BY DEF QueueEntry
  <2> SUFFICES ASSUME NEW f \in sr_arpqueue' PROVE f \in QueueEntry
    OBVIOUS
  <2>3. PICK e \in sr_arpqueue : f = [e EXCEPT !.age = IF e.age = 2 THEN 2 ELSE e.age + 1]
    BY DEF Tick
  <2>4. e \in QueueEntry
    OBVIOUS
  <2> QED
    BY <2>1, <2>2, <2>3, <2>4
<1>3. reqs' \in [IP -> [count : 0..(ARP_MAXREQS - 1), quiet : 0..2, gap : 0..2]]
  <2> DEFINE R == [count : 0..(ARP_MAXREQS - 1), quiet : 0..2, gap : 0..2]
  <2>1. \A r \in R, n \in 0..2 : [r EXCEPT !.quiet = n] \in R
    OBVIOUS
  <2>2. \A r \in R : (IF r.quiet = 2 THEN 2 ELSE r.quiet + 1) \in 0..2
    OBVIOUS
  <2> HIDE DEF R
  <2>3. reqs \in [IP -> R]
    BY DEF R
  <2>4. reqs' \in [IP -> R]
    BY <2>1, <2>2, <2>3 DEF Tick
  <2> QED
    BY <2>4 DEF R
<1>4. heard' \in [IP -> [mac : MAC \cup {None}, ago : 0..ARPCACHE_TIMEOUT]]
  <2> DEFINE H == [mac : MAC \cup {None}, ago : 0..ARPCACHE_TIMEOUT]
  <2>1. \A h \in H, n \in 0..ARPCACHE_TIMEOUT : [h EXCEPT !.ago = n] \in H
    OBVIOUS
  <2>2. \A h \in H :
          (IF h.ago = ARPCACHE_TIMEOUT THEN h.ago ELSE h.ago + 1) \in 0..ARPCACHE_TIMEOUT
    BY LimitsAssumption
  <2> HIDE DEF H
  <2>3. heard \in [IP -> H]
    BY DEF H
  <2>4. heard' \in [IP -> H]
    BY <2>1, <2>2, <2>3 DEF Tick
  <2> QED
    BY <2>4 DEF H
<1> QED
  BY <1>1, <1>2, <1>3, <1>4 DEF Tick

LEMMA TypeReceive == TypeOK /\ Receive => TypeOK'
<1> SUFFICES ASSUME TypeOK, Receive PROVE TypeOK'
  OBVIOUS
<1>1. (\A e \in sr_arpcache : e.ip \in IP) /\ (\A e \in sr_arpqueue : e.ip \in IP)
  BY DEF TypeOK, CacheEntry, QueueEntry
<1>2. CASE \E p \in Packet : ReceivePacket(p)
  BY <1>1, <1>2 DEF ReceivePacket, StartCall, TypeOK
<1>3. CASE \E a \in Arp : ReceiveArp(a)
  BY <1>1, <1>3 DEF ReceiveArp, StartCall, TypeOK
<1> QED
  BY <1>2, <1>3 DEF Receive

LEMMA TypeSweep == IInv /\ Sweep => TypeOK'
<1> SUFFICES ASSUME IInv, Sweep PROVE TypeOK'
  OBVIOUS
<1> USE DEF IInv
<1>1. CASE \E ip \in IP : SweepCache(ip)
  BY <1>1 DEF SweepCache, TypeOK
<1>2. ASSUME NEW e \in sr_arpqueue, SweepKeep(e) PROVE TypeOK'
  BY <1>2 DEF SweepKeep, Sweeping, TypeOK
<1>3. ASSUME NEW e \in sr_arpqueue, SweepResend(e) PROVE TypeOK'
  <2>1. /\ Requested(e) \in QueueEntry /\ Requested(e).ip = e.ip /\ Requested(e).age = 0
        /\ Requested(e).numreqs = e.numreqs + 1
    BY <1>3, RequestedType DEF SweepResend, TypeOK
  <2>2. reqs' \in [IP -> [count : 0..(ARP_MAXREQS - 1), quiet : 0..2, gap : 0..2]]
    BY <1>3, <2>1, AskAgain DEF SweepResend, Sweeping
  <2>3. sr_arpqueue' \subseteq QueueEntry
    BY <1>3, <2>1 DEF SweepResend, TypeOK
  <2> QED
    BY <1>3, <2>2, <2>3 DEF SweepResend, Sweeping, TypeOK
<1>4. ASSUME NEW e \in sr_arpqueue, SweepGiveUp(e) PROVE TypeOK'
  <2>1. Unreachables(e.packets) \in Seq(IpFrame)
    BY UnreachablesType DEF TypeOK, QueueEntry
  <2> QED
    BY <1>4, <2>1 DEF SweepGiveUp, Sweeping, TypeOK
<1>5. ASSUME NEW e \in sr_arpqueue, SweepFreed(e) PROVE TypeOK'
  BY <1>5 DEF SweepFreed, Sweeping, TypeOK
<1> QED
  BY <1>1, <1>2, <1>3, <1>4, <1>5 DEF Sweep

LEMMA TypePacket == ASSUME IInv, NEW p \in Packet, HandlePacket(p) PROVE TypeOK'
<1> USE DEF IInv
<1> DEFINE R == [IP -> [count : 0..(ARP_MAXREQS - 1), quiet : 0..2, gap : 0..2]]
<1>h. Hdr[p].iif \in Iface /\ Hdr[p].dhost \in Iface \cup {None} /\ Hdr[p].ttl \in 0..255
  BY FramesAssumption DEF Header
<1>w. wire \in Seq(IpFrame) /\ TtlLessOne(p) \in 0..255
  BY TtlType DEF TypeOK
<1>1. CASE DropBadChecksum(p)
  BY <1>1 DEF DropBadChecksum, Dispatching, TypeOK
<1>2. CASE TtlOver(p)
  <2>1. IcmpFrame("timex", p, Hdr[p].iif, Hdr[p].ttl) \in IpFrame
    BY <1>h, IcmpFrameType
  <2>2. wire' \in Seq(IpFrame)
    BY <1>2, <1>w, <2>1, SentOneType DEF TtlOver
  <2> QED
    BY <1>2, <2>2 DEF TtlOver, Dispatching, TypeOK
<1>3. CASE EchoReply(p)
  <2>1. IcmpFrame("echoreply", p, Hdr[p].dhost, TtlLessOne(p)) \in IpFrame
    BY <1>h, <1>w, IcmpFrameType
  <2>2. wire' \in Seq(IpFrame)
    BY <1>3, <1>w, <2>1, SentOneType DEF EchoReply
  <2> QED
    BY <1>3, <2>2 DEF EchoReply, ForRouter, Dispatching, TypeOK
<1>4. CASE PortUnreachable(p)
  <2>1. IcmpFrame("portunreach", p, Hdr[p].dhost, Hdr[p].ttl) \in IpFrame
    BY <1>h, IcmpFrameType
  <2>2. wire' \in Seq(IpFrame)
    BY <1>4, <1>w, <2>1, SentOneType DEF PortUnreachable
  <2> QED
    BY <1>4, <2>2 DEF PortUnreachable, ForRouter, Dispatching, TypeOK
<1>5. CASE IgnoreLocal(p)
  BY <1>5 DEF IgnoreLocal, ForRouter, Dispatching, TypeOK
<1>6. CASE NoRouteFound(p)
  BY <1>6 DEF NoRouteFound, ToForward, Dispatching, TypeOK
<1>7. CASE QueueNew(p)
  <2>1. NewEntry(p) \in QueueEntry /\ NextHop(p) \in IP
    BY <1>7, NewEntryType, RouteType DEF QueueNew, HasRoute
  <2>2. reqs' \in R
    BY <1>7, <2>1, LogRequestFacts, LimitsAssumption DEF QueueNew
  <2>3. sr_arpqueue' \subseteq QueueEntry
    BY <1>7, <2>1 DEF QueueNew, TypeOK
  <2> QED
    BY <1>7, <2>2, <2>3 DEF QueueNew, HasRoute, ToForward, Dispatching, TypeOK
<1>8. ASSUME NEW e \in sr_arpcache, ForwardCached(p, e) PROVE TypeOK'
  <2>1. ForwardFrame(p, Route[Hdr[p].dst].iface, e.mac) \in IpFrame
    BY <1>8, RouteType, ForwardFrameType DEF ForwardCached, HasRoute, TypeOK, CacheEntry
  <2>2. wire' \in Seq(IpFrame)
    BY <1>8, <1>w, <2>1, SentOneType DEF ForwardCached
  <2> QED
    BY <1>8, <2>2 DEF ForwardCached, HasRoute, ToForward, Dispatching, TypeOK
<1>9. ASSUME NEW e \in sr_arpqueue, QueueBehind(p, e) PROVE TypeOK'
  <2> DEFINE g == IF Overdue(e) THEN Requested(e) ELSE e
             f == [g EXCEPT !.packets = Append(@, p)]
  <2>1. g \in QueueEntry /\ g.ip = e.ip
    BY <1>9, RequestedType DEF QueueBehind, TypeOK
  <2>2. f \in QueueEntry /\ f.ip = e.ip /\ f.age = g.age /\ f.numreqs = g.numreqs
    <3> HIDE DEF g
    <3> QED
      BY <2>1 DEF QueueEntry
  <2>3. sr_arpqueue' \subseteq QueueEntry
    BY <1>9, <2>2 DEF QueueBehind, TypeOK
  <2>4. reqs' \in R
    <3>1. CASE Overdue(e)
      <4>1. f.age = 0 /\ f.numreqs = e.numreqs + 1 /\ ~Spent(e)
        BY <1>9, <3>1, <2>2, RequestedType DEF QueueBehind, TypeOK
      <4>2. /\ sr_arpqueue' = (sr_arpqueue \ {e}) \cup {f}
            /\ LogRequest(e.ip, reqs[e.ip].count + 1)
            /\ UNCHANGED sr_arpcache
        BY <1>9, <3>1 DEF QueueBehind, HasRoute, ToForward
      <4> HIDE DEF f
      <4> QED
        BY <3>1, <4>1, <4>2, <2>2, AskAgain
    <3>2. CASE ~Overdue(e)
      BY <1>9, <3>2 DEF QueueBehind, TypeOK
    <3> QED
      BY <3>1, <3>2
  <2> QED
    BY <1>9, <2>3, <2>4 DEF QueueBehind, HasRoute, ToForward, Dispatching, TypeOK
<1>10. ASSUME NEW e \in sr_arpqueue, QueueGiveUp(p, e) PROVE TypeOK'
  <2>1. Unreachables(e.packets) \in Seq(IpFrame) /\ UnreachFrame(p) \in IpFrame
    BY UnreachablesType, UnreachFrameType DEF TypeOK, QueueEntry
  <2>2. wire' \in Seq(IpFrame) /\ status' \in {"running", "exited", "undefined"}
    <3>1. wire \o Unreachables(e.packets) \in Seq(IpFrame)
      BY <1>w, <2>1
    <3>2. Append(wire \o Unreachables(e.packets), UnreachFrame(p)) \in Seq(IpFrame)
      BY <2>1, <3>1
    <3> QED
      BY <1>10, <3>1, <3>2 DEF QueueGiveUp, TypeOK
  <2>3. [e EXCEPT !.packets = <<>>, !.freed = TRUE] \in QueueEntry
    <3>e. e \in QueueEntry /\ <<>> \in Seq(Packet)
      BY DEF TypeOK
    <3>1. [e EXCEPT !.packets = <<>>] \in QueueEntry
      BY <3>e DEF QueueEntry
    <3>2. [e EXCEPT !.packets = <<>>, !.freed = TRUE]
            = [[e EXCEPT !.packets = <<>>] EXCEPT !.freed = TRUE]
      BY <3>e DEF QueueEntry
    <3> QED
      BY <3>1, <3>2 DEF QueueEntry
  <2>4. sr_arpqueue' \subseteq QueueEntry
    BY <1>10, <2>3 DEF QueueGiveUp, TypeOK
  <2> QED
    BY <1>10, <2>2, <2>4 DEF QueueGiveUp, HasRoute, ToForward, Dispatching, TypeOK
<1> QED
  BY <1>1, <1>2, <1>3, <1>4, <1>5, <1>6, <1>7, <1>8, <1>9, <1>10 DEF HandlePacket

LEMMA LearntType ==
  ASSUME NEW a \in Arp
  PROVE  /\ Learnt(a) \in CacheEntry
         /\ Learnt(a).ip = a.sip /\ Learnt(a).left = ARPCACHE_TIMEOUT
         /\ a.sip \in IP /\ a.sha \in MAC /\ a.iif \in Iface
<1>1. a.sip \in IP /\ a.sha \in MAC /\ a.iif \in Iface
  BY FramesAssumption DEF ArpFrame
<1> QED
  BY <1>1, LimitsAssumption DEF Learnt, CacheEntry

LEMMA TypeArp ==
  ASSUME TypeOK, NEW a \in Arp,
         \/ IgnoreArp(a) \/ ArpRefresh(a) \/ ArpLearn(a) \/ ArpOverheard(a)
         \/ \E e \in sr_arpqueue : ArpFlush(a, e)
  PROVE  TypeOK'
<1>1. CASE IgnoreArp(a)
  BY <1>1 DEF IgnoreArp, Dispatching, TypeOK
<1>2. ASSUME HandleArp(a)
      PROVE  /\ replies' \subseteq [iface : Iface, to : MAC, src : Iface]
             /\ heard' \in [IP -> [mac : MAC \cup {None}, ago : 0..ARPCACHE_TIMEOUT]]
             /\ frame' = None /\ ticked' = FALSE
             /\ UNCHANGED <<status, reqs, cacheLeft, queueLeft, rcvd>>
  <2> DEFINE me == CHOOSE i \in Iface : IfIP[i] = a.tip
  <2>1. IsRouterIP(a.tip) => me \in Iface
    BY DEF IsRouterIP
  <2>2. replies' \subseteq [iface : Iface, to : MAC, src : Iface]
    <3> HIDE DEF me
    <3>1. replies \subseteq [iface : Iface, to : MAC, src : Iface]
      BY DEF TypeOK
    <3>2. IsRouterIP(a.tip) =>
            [iface |-> a.iif, to |-> a.sha, src |-> me] \in [iface : Iface, to : MAC, src : Iface]
      BY <2>1, LearntType
    <3>3. replies' = IF a.op = "request" /\ IsRouterIP(a.tip)
                     THEN replies \cup {[iface |-> a.iif, to |-> a.sha, src |-> me]}
                     ELSE replies
      BY <1>2 DEF HandleArp, me
    <3> QED
      BY <3>1, <3>2, <3>3
  <2>3. heard' \in [IP -> [mac : MAC \cup {None}, ago : 0..ARPCACHE_TIMEOUT]]
    BY <1>2, LearntType, LimitsAssumption DEF HandleArp, TypeOK
  <2> QED
    BY <1>2, <2>2, <2>3 DEF HandleArp, Dispatching
<1>3. ASSUME HandleArp(a), sr_arpcache' \subseteq CacheEntry,
             sr_arpqueue' \subseteq QueueEntry, wire' \in Seq(IpFrame)
      PROVE  TypeOK'
  BY <1>2, <1>3 DEF TypeOK
<1>4. Learnt(a) \in CacheEntry
  BY LearntType
<1>5. ASSUME ArpRefresh(a) PROVE TypeOK'
  <2>1. sr_arpcache' \subseteq CacheEntry
    BY <1>4, <1>5 DEF ArpRefresh, TypeOK
  <2> QED
    BY <1>3, <1>5, <2>1 DEF ArpRefresh, TypeOK
<1>6. ASSUME ArpLearn(a) PROVE TypeOK'
  BY <1>3, <1>4, <1>6 DEF ArpLearn, TypeOK
<1>7. ASSUME ArpOverheard(a) PROVE TypeOK'
  BY <1>3, <1>7 DEF ArpOverheard, TypeOK
<1>8. ASSUME NEW e \in sr_arpqueue, ArpFlush(a, e) PROVE TypeOK'
  <2>1. Flushed(e, a.sha) \in Seq(IpFrame)
    BY LearntType, FlushedType DEF TypeOK
  <2>2. wire' \in Seq(IpFrame)
    BY <1>8, <2>1 DEF ArpFlush, TypeOK
  <2>3. sr_arpcache' \subseteq CacheEntry /\ sr_arpqueue' \subseteq QueueEntry
    BY <1>4, <1>8 DEF ArpFlush, TypeOK
  <2> QED
    BY <1>3, <1>8, <2>2, <2>3 DEF ArpFlush
<1> QED
  BY <1>1, <1>5, <1>6, <1>7, <1>8

-----------------------------------------------------------------------------
\* Every step preserves what ties entries and requests together.

Ties == UniqueEntries /\ CacheQueueDisjoint /\ EntriesMatchRequests /\ QuietHops /\ RequestsSpaced

LEMMA TiesInit == Init => Ties
BY DEF Init, Ties, UniqueEntries, CacheQueueDisjoint, EntriesMatchRequests, QuietHops,
       RequestsSpaced

LEMMA TiesTick == IInv /\ Tick => Ties'
<1> SUFFICES ASSUME IInv, Tick PROVE Ties'
  OBVIOUS
<1> USE DEF IInv
<1> DEFINE older(e) == [e EXCEPT !.age = IF e.age = 2 THEN 2 ELSE e.age + 1]
           nearer(d) == [d EXCEPT !.left = IF d.left = 0 THEN 0 ELSE d.left - 1]
           later(r) == [r EXCEPT !.quiet = IF r.quiet = 2 THEN 2 ELSE r.quiet + 1]
<1>1. /\ sr_arpqueue' = {older(e) : e \in sr_arpqueue}
      /\ sr_arpcache' = {nearer(d) : d \in sr_arpcache}
      /\ reqs' = [ip \in IP |-> later(reqs[ip])]
  BY DEF Tick
<1>2. \A e \in sr_arpqueue :
        /\ older(e).ip = e.ip /\ older(e).numreqs = e.numreqs
        /\ older(e).age = IF e.age = 2 THEN 2 ELSE e.age + 1
        /\ e.ip \in IP
  BY DEF TypeOK, QueueEntry
<1>3. \A d \in sr_arpcache :
        /\ nearer(d).ip = d.ip
        /\ nearer(d).left = IF d.left = 0 THEN 0 ELSE d.left - 1
        /\ d.ip \in IP /\ d.left \in Nat
  BY LimitsAssumption DEF TypeOK, CacheEntry
<1>4. \A ip \in IP :
        /\ later(reqs[ip]).count = reqs[ip].count /\ later(reqs[ip]).gap = reqs[ip].gap
        /\ later(reqs[ip]).quiet = IF reqs[ip].quiet = 2 THEN 2 ELSE reqs[ip].quiet + 1
        /\ reqs[ip].quiet \in 0..2
  BY DEF TypeOK
<1> HIDE DEF older, nearer, later
<1>5. UniqueEntries'
  BY <1>1, <1>2, <1>3 DEF UniqueEntries
<1>6. CacheQueueDisjoint'
  BY <1>1, <1>2, <1>3 DEF CacheQueueDisjoint
<1>7. EntriesMatchRequests'
  BY <1>1, <1>2, <1>4 DEF EntriesMatchRequests
<1>8. QuietHops'
  <2>1. \A ip : Cached(ip)' = Cached(ip) /\ InQueue(ip)' = InQueue(ip)
    BY <1>1, <1>2, <1>3 DEF Cached, InQueue
  <2>2. \A ip \in IP : ~Cached(ip)' /\ ~InQueue(ip)' => reqs'[ip].quiet = 2
    BY <1>1, <1>4, <2>1 DEF QuietHops
  <2>3. \A d \in sr_arpcache : nearer(d).left + reqs'[nearer(d).ip].quiet >= 2
    BY <1>1, <1>3, <1>4 DEF QuietHops
  <2>4. \A d \in sr_arpcache' : d.left + reqs'[d.ip].quiet >= 2
    BY <1>1, <2>3
  <2> QED
    BY <2>2, <2>4 DEF QuietHops
<1>9. RequestsSpaced'
  BY <1>1, <1>4 DEF RequestsSpaced
<1> QED
  BY <1>5, <1>6, <1>7, <1>8, <1>9 DEF Ties

\* A queue entry is removed, and its next hop has been quiet or becomes known.
LEMMA RemoveEntry ==
  ASSUME IInv, NEW e \in sr_arpqueue,
         sr_arpqueue' = sr_arpqueue \ {e},
         UNCHANGED <<sr_arpcache, reqs>>,
         Overdue(e)
  PROVE  Ties'
<1> USE DEF IInv
<1>1. \A g \in sr_arpqueue' : g \in sr_arpqueue /\ g.ip # e.ip
  BY DEF UniqueEntries
<1>2. UniqueEntries' /\ CacheQueueDisjoint' /\ EntriesMatchRequests' /\ RequestsSpaced'
  BY <1>1 DEF UniqueEntries, CacheQueueDisjoint, EntriesMatchRequests, RequestsSpaced
<1>3. reqs[e.ip].quiet = 2
  BY DEF EntriesMatchRequests, Overdue
<1>4. QuietHops'
  <2>1. \A ip \in IP : ip # e.ip => InQueue(ip)' = InQueue(ip) /\ Cached(ip)' = Cached(ip)
    BY DEF InQueue, Cached
  <2> QED
    BY <1>3, <2>1 DEF QuietHops
<1> QED
  BY <1>2, <1>4 DEF Ties

LEMMA TiesSweep == IInv /\ Sweep => Ties'
<1> SUFFICES ASSUME IInv, Sweep PROVE Ties'
  OBVIOUS
<1>1. ASSUME NEW ip \in IP, SweepCache(ip) PROVE Ties'
  <2> USE DEF IInv
  <2>1. sr_arpcache' \subseteq sr_arpcache /\ UNCHANGED <<sr_arpqueue, reqs>>
    BY <1>1 DEF SweepCache
  <2>2. UniqueEntries' /\ CacheQueueDisjoint' /\ EntriesMatchRequests' /\ RequestsSpaced'
    BY <2>1 DEF UniqueEntries, CacheQueueDisjoint, EntriesMatchRequests, RequestsSpaced
  <2>3. \A d \in sr_arpcache \ sr_arpcache' : d.left = 0
    BY <1>1, LimitsAssumption DEF SweepCache, TypeOK, CacheEntry
  <2>4. ASSUME NEW h \in IP, ~Cached(h)', ~InQueue(h)' PROVE reqs'[h].quiet = 2
    <3>1. CASE Cached(h)
      <4>1. PICK d \in sr_arpcache : d.ip = h
        BY <3>1 DEF Cached
      <4>2. d.left = 0
        BY <2>3, <2>4, <4>1 DEF Cached
      <4>3. reqs[h].quiet \in 0..2 /\ reqs' = reqs
        BY <2>1 DEF TypeOK
      <4>4. d.left + reqs[h].quiet >= 2
        BY <4>1 DEF QuietHops
      <4> QED
        BY <4>2, <4>3, <4>4
    <3>2. CASE ~Cached(h)
      BY <2>1, <2>4, <3>2 DEF QuietHops, InQueue
    <3> QED
      BY <3>1, <3>2
  <2>5. QuietHops'
    BY <2>1, <2>4 DEF QuietHops
  <2> QED
    BY <2>2, <2>5 DEF Ties
<1>2. ASSUME NEW e \in sr_arpqueue, SweepKeep(e) \/ SweepFreed(e) PROVE Ties'
  BY <1>2, Undisturbed DEF SweepKeep, SweepFreed, Sweeping, Ties
<1>3. ASSUME NEW e \in sr_arpqueue, SweepResend(e) PROVE Ties'
  <2>1. /\ Requested(e) \in QueueEntry /\ Requested(e).ip = e.ip /\ Requested(e).age = 0
        /\ Requested(e).numreqs = e.numreqs + 1
    BY <1>3, RequestedType DEF SweepResend, IInv, TypeOK
  <2>2. UniqueEntries' /\ CacheQueueDisjoint'
    BY <1>3, <2>1, ReplaceEntry DEF SweepResend, Sweeping
  <2>3. EntriesMatchRequests' /\ QuietHops' /\ RequestsSpaced'
    BY <1>3, <2>1, AskAgain DEF SweepResend, Sweeping
  <2> QED
    BY <2>2, <2>3 DEF Ties
<1>4. ASSUME NEW e \in sr_arpqueue, SweepGiveUp(e) PROVE Ties'
  BY <1>4, RemoveEntry DEF SweepGiveUp, Sweeping
<1> QED
  BY <1>1, <1>2, <1>3, <1>4 DEF Sweep

LEMMA TiesPacket == ASSUME IInv, NEW p \in Packet, HandlePacket(p) PROVE Ties'
<1>1. ASSUME \/ DropBadChecksum(p) \/ TtlOver(p) \/ EchoReply(p) \/ PortUnreachable(p)
             \/ IgnoreLocal(p) \/ NoRouteFound(p)
             \/ \E e \in sr_arpcache : ForwardCached(p, e)
      PROVE  Ties'
  <2>1. UNCHANGED <<sr_arpcache, sr_arpqueue, reqs>>
    BY <1>1 DEF DropBadChecksum, TtlOver, EchoReply, PortUnreachable, IgnoreLocal, ForRouter,
                NoRouteFound, ForwardCached, HasRoute, ToForward
  <2> QED
    BY <2>1, Undisturbed DEF Ties
<1>2. CASE QueueNew(p)
  <2> DEFINE ip == NextHop(p)
  <2>1. /\ NewEntry(p).ip = ip /\ NewEntry(p).age = 0 /\ NewEntry(p).numreqs = 2
        /\ ip \in IP
    BY <1>2, NewEntryType, RouteType DEF QueueNew, HasRoute
  <2>2. /\ ~Cached(ip) /\ ~InQueue(ip)
        /\ sr_arpqueue' = sr_arpqueue \cup {NewEntry(p)} /\ UNCHANGED sr_arpcache
        /\ LogRequest(ip, 1)
    BY <1>2 DEF QueueNew, HasRoute, ToForward
  <2>3. reqs[ip].quiet = 2
    BY <2>1, <2>2 DEF IInv, QuietHops
  <2>4. /\ reqs'[ip].count = 1 /\ reqs'[ip].quiet = 0 /\ reqs'[ip].gap = 2
        /\ \A other \in IP : other # ip => reqs'[other] = reqs[other]
    BY <2>1, <2>2, <2>3, LogRequestFacts, LimitsAssumption DEF IInv
  <2> HIDE DEF ip
  <2>5. /\ \A e \in sr_arpqueue : e.ip # ip /\ e.ip \in IP
        /\ \A d \in sr_arpcache : d.ip # ip /\ d.ip \in IP
    BY <2>2 DEF InQueue, Cached, IInv, TypeOK, CacheEntry, QueueEntry
  <2>6. UniqueEntries'
    BY <2>1, <2>2, <2>5 DEF IInv, UniqueEntries
  <2>7. CacheQueueDisjoint'
    BY <2>1, <2>2, <2>5 DEF IInv, CacheQueueDisjoint
  <2>8. EntriesMatchRequests'
    BY <2>1, <2>2, <2>4, <2>5 DEF IInv, EntriesMatchRequests
  <2>9. QuietHops'
    BY <2>1, <2>2, <2>4, <2>5 DEF IInv, QuietHops, Cached, InQueue
  <2>10. RequestsSpaced'
    BY <2>4 DEF IInv, RequestsSpaced
  <2> QED
    BY <2>6, <2>7, <2>8, <2>9, <2>10 DEF Ties
<1>3. ASSUME NEW e \in sr_arpqueue, QueueBehind(p, e) PROVE Ties'
  <2> DEFINE g == IF Overdue(e) THEN Requested(e) ELSE e
             f == [g EXCEPT !.packets = Append(@, p)]
  <2>1. /\ g \in QueueEntry /\ g.ip = e.ip
        /\ Overdue(e) => g.age = 0 /\ g.numreqs = e.numreqs + 1
        /\ ~Overdue(e) => g = e
    BY <1>3, RequestedType DEF QueueBehind, IInv, TypeOK
  <2>2. f \in QueueEntry /\ f.ip = g.ip /\ f.age = g.age /\ f.numreqs = g.numreqs
    <3> HIDE DEF g
    <3> QED
      BY <2>1 DEF QueueEntry
  <2>3. sr_arpqueue' = (sr_arpqueue \ {e}) \cup {f} /\ UNCHANGED sr_arpcache
    BY <1>3 DEF QueueBehind, HasRoute, ToForward
  <2>4. /\ Overdue(e) => ~Spent(e) /\ LogRequest(e.ip, reqs[e.ip].count + 1)
        /\ ~Overdue(e) => UNCHANGED reqs
    BY <1>3 DEF QueueBehind
  <2> HIDE DEF f, g
  <2>5. UniqueEntries' /\ CacheQueueDisjoint'
    BY <2>1, <2>2, <2>3, ReplaceEntry
  <2>6. CASE Overdue(e)
    <3>1. EntriesMatchRequests' /\ QuietHops' /\ RequestsSpaced'
      BY <2>1, <2>2, <2>3, <2>4, <2>6, AskAgain
    <3> QED
      BY <2>5, <3>1 DEF Ties
  <2>7. CASE ~Overdue(e)
    <3>1. EntriesMatchRequests' /\ QuietHops' /\ RequestsSpaced'
      BY <2>1, <2>2, <2>3, <2>4, <2>7, AmendEntry
    <3> QED
      BY <2>5, <3>1 DEF Ties
  <2> QED
    BY <2>6, <2>7
<1>4. ASSUME NEW e \in sr_arpqueue, QueueGiveUp(p, e) PROVE Ties'
  <2> DEFINE f == [e EXCEPT !.packets = <<>>, !.freed = TRUE]
  <2>1. e \in QueueEntry /\ <<>> \in Seq(Packet)
    BY DEF IInv, TypeOK
  <2>2. f.ip = e.ip /\ f.age = e.age /\ f.numreqs = e.numreqs
    BY <2>1 DEF QueueEntry
  <2>3. f \in QueueEntry
    <3>1. [e EXCEPT !.packets = <<>>] \in QueueEntry
      BY <2>1 DEF QueueEntry
    <3>2. f = [[e EXCEPT !.packets = <<>>] EXCEPT !.freed = TRUE]
      BY <2>1 DEF QueueEntry
    <3> QED
      BY <3>1, <3>2 DEF QueueEntry
  <2>4. /\ sr_arpqueue' = (sr_arpqueue \ {e}) \cup {f}
        /\ UNCHANGED <<sr_arpcache, reqs>>
    BY <1>4 DEF QueueGiveUp, HasRoute, ToForward
  <2> HIDE DEF f
  <2>5. UniqueEntries' /\ CacheQueueDisjoint'
    BY <2>2, <2>3, <2>4, ReplaceEntry
  <2>6. EntriesMatchRequests' /\ QuietHops' /\ RequestsSpaced'
    BY <2>2, <2>3, <2>4, AmendEntry
  <2> QED
    BY <2>5, <2>6 DEF Ties
<1> QED
  BY <1>1, <1>2, <1>3, <1>4 DEF HandlePacket

LEMMA TiesArp ==
  ASSUME IInv, NEW a \in Arp,
         \/ IgnoreArp(a) \/ ArpRefresh(a) \/ ArpLearn(a) \/ ArpOverheard(a)
         \/ \E e \in sr_arpqueue : ArpFlush(a, e)
  PROVE  Ties'
<1>1. CASE IgnoreArp(a) \/ ArpOverheard(a)
  BY <1>1, Undisturbed DEF IgnoreArp, ArpOverheard, HandleArp, Ties
<1>2. /\ Learnt(a).ip = a.sip /\ Learnt(a).left = ARPCACHE_TIMEOUT /\ a.sip \in IP
      /\ \A ip \in IP : reqs[ip].quiet \in 0..2
      /\ \A d \in sr_arpcache : d.ip \in IP
      /\ \A e \in sr_arpqueue : e.ip \in IP
  BY LearntType DEF IInv, TypeOK, CacheEntry, QueueEntry
<1>3. CASE ArpRefresh(a)
  <2>1. /\ sr_arpcache' = {IF d.ip = a.sip THEN Learnt(a) ELSE d : d \in sr_arpcache}
        /\ UNCHANGED <<sr_arpqueue, reqs>>
    BY <1>3 DEF ArpRefresh, HandleArp
  <2>2. \A d \in sr_arpcache' : (d \in sr_arpcache /\ d.ip # a.sip) \/ d = Learnt(a)
    BY <2>1
  <2>3. \A ip : Cached(ip)' = Cached(ip) /\ InQueue(ip)' = InQueue(ip)
    BY <1>2, <2>1 DEF Cached, InQueue
  <2>4. UniqueEntries' /\ EntriesMatchRequests' /\ RequestsSpaced'
    BY <1>2, <2>1, <2>2 DEF IInv, UniqueEntries, EntriesMatchRequests, RequestsSpaced
  <2>5. CacheQueueDisjoint'
    <3>1. \A e \in sr_arpqueue : ~Cached(e.ip)
      BY DEF IInv, CacheQueueDisjoint, Cached
    <3> QED
      BY <2>1, <2>3, <3>1 DEF CacheQueueDisjoint, Cached
  <2>6. QuietHops'
    BY <1>2, <2>1, <2>2, <2>3, LimitsAssumption DEF IInv, QuietHops
  <2> QED
    BY <2>4, <2>5, <2>6 DEF Ties
<1>4. ASSUME sr_arpcache' = sr_arpcache \cup {Learnt(a)}, ~Cached(a.sip),
             sr_arpqueue' = {e \in sr_arpqueue : e.ip # a.sip}, UNCHANGED reqs
      PROVE  Ties'
  <2>1. \A d \in sr_arpcache : d.ip # a.sip
    BY <1>4 DEF Cached
  <2>2. UniqueEntries' /\ CacheQueueDisjoint' /\ EntriesMatchRequests' /\ RequestsSpaced'
    BY <1>2, <1>4, <2>1
       DEF IInv, UniqueEntries, CacheQueueDisjoint, EntriesMatchRequests, RequestsSpaced
  <2>3. \A ip \in IP : ~Cached(ip)' /\ ~InQueue(ip)' => reqs'[ip].quiet = 2
    <3>1. Cached(a.sip)'
      BY <1>2, <1>4 DEF Cached
    <3>2. \A ip \in IP : ip # a.sip => Cached(ip)' = Cached(ip) /\ InQueue(ip)' = InQueue(ip)
      BY <1>2, <1>4 DEF Cached, InQueue
    <3> QED
      BY <1>4, <3>1, <3>2 DEF IInv, QuietHops
  <2>4. \A d \in sr_arpcache' : d.left + reqs'[d.ip].quiet >= 2
    BY <1>2, <1>4, LimitsAssumption DEF IInv, QuietHops
  <2> QED
    BY <2>2, <2>3, <2>4 DEF Ties, QuietHops
<1>5. CASE ArpLearn(a)
  <2>1. sr_arpqueue' = {e \in sr_arpqueue : e.ip # a.sip}
    BY <1>5 DEF ArpLearn, InQueue
  <2> QED
    BY <1>4, <1>5, <2>1 DEF ArpLearn, HandleArp
<1>6. ASSUME NEW e \in sr_arpqueue, ArpFlush(a, e) PROVE Ties'
  <2>1. sr_arpqueue' = {g \in sr_arpqueue : g.ip # a.sip}
    BY <1>6 DEF ArpFlush, IInv, UniqueEntries
  <2> QED
    BY <1>4, <1>6, <2>1 DEF ArpFlush, HandleArp
<1> QED
  BY <1>1, <1>3, <1>5, <1>6

-----------------------------------------------------------------------------
\* IInv is an inductive invariant.

LEMMA IInvInit == Init => IInv
BY TypeInit, TiesInit DEF IInv, Ties

LEMMA IInvNext == IInv /\ [Next]_vars => IInv'
<1> SUFFICES ASSUME IInv, [Next]_vars PROVE TypeOK' /\ Ties'
  BY DEF IInv, Ties
<1>1. CASE Tick
  BY <1>1, TypeTick, TiesTick DEF IInv
<1>2. CASE Receive
  <2>1. UNCHANGED <<sr_arpcache, sr_arpqueue, reqs>>
    BY <1>2 DEF Receive, ReceivePacket, ReceiveArp, StartCall
  <2> QED
    BY <1>2, <2>1, TypeReceive, Undisturbed DEF IInv, Ties
<1>3. CASE Sweep
  BY <1>3, TypeSweep, TiesSweep
<1>4. ASSUME NEW p \in Packet, HandlePacket(p) PROVE TypeOK' /\ Ties'
  BY <1>4, TypePacket, TiesPacket
<1>5. ASSUME NEW a \in Arp,
             \/ IgnoreArp(a) \/ ArpRefresh(a) \/ ArpLearn(a) \/ ArpOverheard(a)
             \/ \E e \in sr_arpqueue : ArpFlush(a, e)
      PROVE  TypeOK' /\ Ties'
  BY <1>5, TypeArp, TiesArp DEF IInv
<1>6. CASE Stopped \/ UNCHANGED vars
  <2>1. UNCHANGED vars
    BY <1>6 DEF Stopped
  <2>2. TypeOK'
    BY <2>1 DEF vars, IInv, TypeOK
  <2>3. Ties'
    BY <2>1, Undisturbed DEF vars, Ties
  <2> QED
    BY <2>2, <2>3
<1> QED
  BY <1>1, <1>2, <1>3, <1>4, <1>5, <1>6 DEF Next, HandleFrame

\* Every reachable state satisfies the invariant.
THEOREM Invariance == Spec => []IInv
BY IInvInit, IInvNext, PTL DEF Spec

\* The state of the handler keeps its shape: in particular no entry ever counts
\* more than ARP_MAXREQS requests, and no burst puts more than ARP_MAXREQS - 1
\* requests on the wire.
THEOREM TypeCorrect == Spec => []TypeOK
BY Invariance, PTL DEF IInv

\* The searches of the cache and of the queue never meet a second entry for a
\* next hop (arp_cache_search, arp_queue_search).
THEOREM EntriesUnique == Spec => []UniqueEntries
BY Invariance, PTL DEF IInv

\* No packet waits for a next hop whose address is in the cache.
THEOREM NoWaitingForKnown == Spec => []CacheQueueDisjoint
BY Invariance, PTL DEF IInv

\* Two ARP requests for one next hop are always more than a second apart, with
\* any number of next hops and whenever the second changes.
THEOREM RequestsAreSpaced == Spec => []RequestsSpaced
BY Invariance, PTL DEF IInv


-----------------------------------------------------------------------------
\* While the second has not changed within a call, the walk of the queue has left
\* no entry behind that is overdue and spent, so the dispatch gives none up.

SweptEntries ==
  status = "running" /\ frame # None /\ ~ticked =>
    \A e \in sr_arpqueue : e.ip \notin queueLeft => ~(Overdue(e) /\ Spent(e))

\* A visit to e leaves the other entries as they are.
LEMMA SweptVisit ==
  ASSUME SweptEntries, NEW e \in sr_arpqueue, Sweeping(e),
         \A g \in sr_arpqueue' : \/ g \in sr_arpqueue /\ g.ip # e.ip
                                 \/ ~(Overdue(g) /\ Spent(g))
  PROVE  SweptEntries'
<1>1. /\ queueLeft' = queueLeft \ {e.ip} /\ UNCHANGED <<frame, ticked>>
      /\ status = "running"
  BY DEF Sweeping
<1> QED
  BY <1>1 DEF SweptEntries, Overdue, Spent

LEMMA SweptSweep == ASSUME IInv, SweptEntries, Sweep PROVE SweptEntries'
<1>1. ASSUME NEW ip \in IP, SweepCache(ip) PROVE SweptEntries'
  BY <1>1 DEF SweepCache, SweptEntries, Overdue, Spent
<1>u. \A e, g \in sr_arpqueue : g # e => g.ip # e.ip
  BY DEF IInv, UniqueEntries
<1>2. ASSUME NEW e \in sr_arpqueue, SweepKeep(e) PROVE SweptEntries'
  <2>1. sr_arpqueue' = sr_arpqueue /\ ~Overdue(e) /\ Sweeping(e)
    BY <1>2 DEF SweepKeep
  <2> QED
    BY <2>1, <1>u, SweptVisit
<1>3. ASSUME NEW e \in sr_arpqueue, SweepResend(e) PROVE SweptEntries'
  <2>1. Requested(e).age = 0
    BY <1>3, RequestedType DEF SweepResend, IInv, TypeOK
  <2>2. sr_arpqueue' = (sr_arpqueue \ {e}) \cup {Requested(e)} /\ Sweeping(e)
    BY <1>3 DEF SweepResend
  <2>3. ~Overdue(Requested(e))
    BY <2>1 DEF Overdue
  <2> QED
    BY <2>2, <2>3, <1>u, SweptVisit
<1>4. ASSUME NEW e \in sr_arpqueue, SweepGiveUp(e) PROVE SweptEntries'
  <2>1. sr_arpqueue' = sr_arpqueue \ {e} /\ Sweeping(e)
    BY <1>4 DEF SweepGiveUp
  <2> QED
    BY <2>1, <1>u, SweptVisit
<1>5. ASSUME NEW e \in sr_arpqueue, SweepFreed(e) PROVE SweptEntries'
  BY <1>5 DEF SweepFreed, SweptEntries
<1> QED
  BY <1>1, <1>2, <1>3, <1>4, <1>5 DEF Sweep

\* Every dispatch is the end of its call.
LEMMA CallEnds == HandleFrame => frame' = None
BY DEF HandleFrame, HandlePacket, DropBadChecksum, TtlOver, EchoReply, PortUnreachable,
       IgnoreLocal, ForRouter, NoRouteFound, QueueNew, ForwardCached, QueueBehind,
       QueueGiveUp, HasRoute, ToForward, IgnoreArp, ArpRefresh, ArpLearn, ArpFlush,
       ArpOverheard, HandleArp, Dispatching

LEMMA SweptNext == ASSUME IInv, SweptEntries, [Next]_vars PROVE SweptEntries'
<1>1. CASE Tick
  <2>1. frame' = frame /\ ticked' = (frame # None)
    BY <1>1 DEF Tick
  <2> QED
    BY <2>1 DEF SweptEntries
<1>2. CASE Receive
  <2>1. /\ queueLeft' = {e.ip : e \in sr_arpqueue}
        /\ UNCHANGED sr_arpqueue
    BY <1>2 DEF Receive, ReceivePacket, ReceiveArp, StartCall
  <2>2. \A e \in sr_arpqueue' : e.ip \in queueLeft'
    BY <2>1
  <2> QED
    BY <2>2 DEF SweptEntries
<1>3. CASE Sweep
  BY <1>3, SweptSweep
<1>4. CASE HandleFrame
  BY <1>4, CallEnds DEF SweptEntries
<1>5. CASE Stopped \/ UNCHANGED vars
  BY <1>5 DEF Stopped, vars, SweptEntries, Overdue, Spent
<1> QED
  BY <1>1, <1>2, <1>3, <1>4, <1>5 DEF Next

LEMMA AlwaysSwept == Spec => []SweptEntries
<1>1. Init => SweptEntries
  BY DEF Init, SweptEntries
<1>2. IInv /\ SweptEntries /\ [Next]_vars => SweptEntries'
  BY SweptNext
<1> QED
  BY <1>1, <1>2, Invariance, PTL DEF Spec

\* The dispatch of a packet gives an entry up only in a call within which the
\* second has changed.
LEMMA GivesUpLate ==
  ASSUME SweptEntries, NEW p \in Packet, NEW e \in sr_arpqueue, QueueGiveUp(p, e)
  PROVE  ticked
<1>1. /\ frame = p /\ queueLeft = {} /\ status = "running"
      /\ Overdue(e) /\ Spent(e)
  BY DEF QueueGiveUp, HasRoute, ToForward, Dispatching
<1> QED
  BY <1>1, FramesAssumption DEF SweptEntries

LEMMA NonEmptyPacket ==
  ASSUME IInv, SweptEntries, ~ticked, QueueEntriesNonEmpty, NEW p \in Packet, HandlePacket(p)
  PROVE  QueueEntriesNonEmpty'
<1>1. CASE QueueNew(p)
  <2>1. NewEntry(p).packets # <<>>
    <3>1. NewEntry(p).packets = <<p>>
      BY <1>1, NewEntryType DEF QueueNew, HasRoute
    <3>2. <<p>> # <<>>
      OBVIOUS
    <3> QED
      BY <3>1, <3>2
  <2>2. sr_arpqueue' = sr_arpqueue \cup {NewEntry(p)}
    BY <1>1 DEF QueueNew
  <2> QED
    BY <2>1, <2>2 DEF QueueEntriesNonEmpty
<1>2. ASSUME NEW e \in sr_arpqueue, QueueBehind(p, e) PROVE QueueEntriesNonEmpty'
  <2> DEFINE g == IF Overdue(e) THEN Requested(e) ELSE e
             f == [g EXCEPT !.packets = Append(@, p)]
  <2>1. g \in QueueEntry
    BY <1>2, RequestedType DEF QueueBehind, IInv, TypeOK
  <2>2. f.packets = Append(g.packets, p) /\ g.packets \in Seq(Packet)
    <3> HIDE DEF g
    <3> QED
      BY <2>1 DEF QueueEntry
  <2>3. sr_arpqueue' = (sr_arpqueue \ {e}) \cup {f}
    BY <1>2 DEF QueueBehind
  <2> HIDE DEF f, g
  <2>4. f.packets # <<>>
    BY <2>2
  <2> QED
    BY <2>3, <2>4 DEF QueueEntriesNonEmpty
<1>3. ASSUME NEW e \in sr_arpqueue, QueueGiveUp(p, e) PROVE FALSE
  BY <1>3, GivesUpLate
<1>4. ASSUME \/ DropBadChecksum(p) \/ TtlOver(p) \/ EchoReply(p) \/ PortUnreachable(p)
             \/ IgnoreLocal(p) \/ NoRouteFound(p)
             \/ \E e \in sr_arpcache : ForwardCached(p, e)
      PROVE  QueueEntriesNonEmpty'
  <2>1. UNCHANGED sr_arpqueue
    BY <1>4 DEF DropBadChecksum, TtlOver, EchoReply, PortUnreachable, IgnoreLocal, ForRouter,
                NoRouteFound, ForwardCached
  <2> QED
    BY <2>1 DEF QueueEntriesNonEmpty
<1> QED
  BY <1>1, <1>2, <1>3, <1>4 DEF HandlePacket

LEMMA NonEmptyNext ==
  ASSUME IInv, SweptEntries, ~ticked, QueueEntriesNonEmpty, [Next]_vars
  PROVE  QueueEntriesNonEmpty'
<1>1. CASE Tick
  <2>1. \A e \in sr_arpqueue' : \E g \in sr_arpqueue : e.packets = g.packets
    BY <1>1 DEF Tick, IInv, TypeOK, QueueEntry
  <2> QED
    BY <2>1 DEF QueueEntriesNonEmpty
<1>2. ASSUME NEW e \in sr_arpqueue, SweepResend(e) PROVE QueueEntriesNonEmpty'
  <2>1. Requested(e).packets = e.packets
    BY <1>2, RequestedType DEF SweepResend, IInv, TypeOK
  <2>2. sr_arpqueue' = (sr_arpqueue \ {e}) \cup {Requested(e)}
    BY <1>2 DEF SweepResend
  <2> QED
    BY <2>1, <2>2 DEF QueueEntriesNonEmpty
<1>3. ASSUME NEW p \in Packet, HandlePacket(p) PROVE QueueEntriesNonEmpty'
  BY <1>3, NonEmptyPacket
<1>4. CASE sr_arpqueue' \subseteq sr_arpqueue
  BY <1>4 DEF QueueEntriesNonEmpty
<1>5. \/ Tick
      \/ \E e \in sr_arpqueue : SweepResend(e)
      \/ \E p \in Packet : HandlePacket(p)
      \/ sr_arpqueue' \subseteq sr_arpqueue
  BY DEF Next, Receive, ReceivePacket, ReceiveArp, StartCall, Sweep, SweepCache, SweepKeep,
         SweepGiveUp, SweepFreed, HandleFrame, IgnoreArp, ArpRefresh, ArpLearn, ArpOverheard,
         ArpFlush, Stopped, vars
<1> QED
  BY <1>1, <1>2, <1>3, <1>4, <1>5

\* The assertion that an entry found in the queue holds a packet can only come to
\* fail in a call that spans two seconds, whatever the frames and the limits.
THEOREM EntriesHoldPackets == Spec => NonEmptyUnlessTicked
<1> DEFINE Holds == QueueEntriesNonEmpty /\ ~ticked => QueueEntriesNonEmpty'
<1>1. IInv /\ SweptEntries /\ [Next]_vars => [Holds]_vars
  BY NonEmptyNext
<1> QED
  BY <1>1, Invariance, AlwaysSwept, PTL DEF Spec, NonEmptyUnlessTicked
=============================================================================
