------------------------- MODULE SrRouterWireProofs -------------------------
(***************************************************************************)
(* Theorems about what SrRouter sends, in three parts.                     *)
(*                                                                         *)
(* What may be sent: packets are refused only after a retry and            *)
(* forwarded only to the address last heard, no ICMP error is answered     *)
(* with another, and no ARP reply is refused.                              *)
(* What becomes of a packet: it has one fate, packets to one next hop keep *)
(* their order, and none is lost but behind an ICMP error.                 *)
(* The abstract specification: SrRouter implements HopDelivery.            *)
(*                                                                         *)
(* Each rests on the invariant of SrRouterProofs and on a few more, which  *)
(* are stated where they are first needed: what waits for a hop is for     *)
(* that hop; a cache entry is what was heard of its hop and is as old; the *)
(* frame in hand passed the session's filter, and was the last to come; a  *)
(* packet is in one place; an entry without packets has been freed.        *)
(***************************************************************************)
EXTENDS SrRouterProofs, WellFoundedInduction

-----------------------------------------------------------------------------
\* The invariants.

\* The packets of an entry are for its next hop.
EntriesForHop ==
  \A e \in sr_arpqueue : \A i \in 1..Len(e.packets) : NextHop(e.packets[i]) = e.ip

\* A cache entry is what was last heard, and its time runs from then.
CacheAsHeard ==
  \A d \in sr_arpcache :
    heard[d.ip].mac = d.mac /\ d.left + heard[d.ip].ago = ARPCACHE_TIMEOUT

\* The session has dropped what is not for the interface it came in by.
FrameFiltered == frame \in Arp => ~NotForUs(frame)

\* No entry that the walk has left behind is out of time, while the second has
\* not changed within the call.
SweptCache ==
  frame # None /\ ~ticked => \A d \in sr_arpcache : d.ip \notin cacheLeft => d.left > 0

-----------------------------------------------------------------------------
\* Packets wait for their own hop.

\* An entry that has the packets of another, for the same hop, and one more.
LEMMA JoinsHop ==
  ASSUME NEW s \in Seq(Packet), NEW p \in Packet, NEW ip,
         \A i \in 1..Len(s) : NextHop(s[i]) = ip, NextHop(p) = ip
  PROVE  \A i \in 1..Len(Append(s, p)) : NextHop(Append(s, p)[i]) = ip
OBVIOUS

LEMMA ForHopPacket ==
  ASSUME IInv, EntriesForHop, NEW p \in Packet, HandlePacket(p) PROVE EntriesForHop'
<1>1. CASE QueueNew(p)
  <2>1. NewEntry(p).packets = <<p>> /\ NewEntry(p).ip = NextHop(p)
    BY <1>1, NewEntryType DEF QueueNew, HasRoute
  <2>2. sr_arpqueue' = sr_arpqueue \cup {NewEntry(p)}
    BY <1>1 DEF QueueNew
  <2>3. \A i \in 1..Len(<<p>>) : <<p>>[i] = p
    OBVIOUS
  <2> QED
    BY <2>1, <2>2, <2>3 DEF EntriesForHop
<1>2. ASSUME NEW e \in sr_arpqueue, QueueBehind(p, e) PROVE EntriesForHop'
  <2> DEFINE g == IF Overdue(e) THEN Requested(e) ELSE e
             f == [g EXCEPT !.packets = Append(@, p)]
  <2>1. g \in QueueEntry /\ g.packets = e.packets /\ g.ip = e.ip
    BY <1>2, RequestedType DEF QueueBehind, IInv, TypeOK
  <2>2. f.packets = Append(e.packets, p) /\ f.ip = e.ip /\ e.packets \in Seq(Packet)
    <3> HIDE DEF g
    <3> QED
      BY <2>1 DEF QueueEntry
  <2>3. sr_arpqueue' = (sr_arpqueue \ {e}) \cup {f} /\ e.ip = NextHop(p)
    BY <1>2 DEF QueueBehind
  <2> HIDE DEF f, g
  <2>4. \A i \in 1..Len(f.packets) : NextHop(f.packets[i]) = f.ip
    BY <2>2, <2>3, JoinsHop DEF EntriesForHop
  <2> QED
    BY <2>3, <2>4 DEF EntriesForHop
<1>3. ASSUME NEW e \in sr_arpqueue, QueueGiveUp(p, e) PROVE EntriesForHop'
  <2> DEFINE f == [e EXCEPT !.packets = <<>>, !.freed = TRUE]
  <2>1. f.packets = <<>>
    BY DEF IInv, TypeOK, QueueEntry
  <2>2. sr_arpqueue' = (sr_arpqueue \ {e}) \cup {f}
    BY <1>3 DEF QueueGiveUp
  <2> HIDE DEF f
  <2>3. \A i \in 1..Len(f.packets) : NextHop(f.packets[i]) = f.ip
    BY <2>1
  <2> QED
    BY <2>2, <2>3 DEF EntriesForHop
<1>4. ASSUME \/ DropBadChecksum(p) \/ TtlOver(p) \/ EchoReply(p) \/ PortUnreachable(p)
             \/ IgnoreLocal(p) \/ NoRouteFound(p)
             \/ \E e \in sr_arpcache : ForwardCached(p, e)
      PROVE  EntriesForHop'
  <2>1. UNCHANGED sr_arpqueue
    BY <1>4 DEF DropBadChecksum, TtlOver, EchoReply, PortUnreachable, IgnoreLocal, ForRouter,
                NoRouteFound, ForwardCached
  <2> QED
    BY <2>1 DEF EntriesForHop
<1> QED
  BY <1>1, <1>2, <1>3, <1>4 DEF HandlePacket

LEMMA ForHopNext == ASSUME IInv, EntriesForHop, [Next]_vars PROVE EntriesForHop'
<1>1. CASE Tick
  <2>1. \A g \in sr_arpqueue' : \E e \in sr_arpqueue : g.packets = e.packets /\ g.ip = e.ip
    BY <1>1 DEF Tick, IInv, TypeOK, QueueEntry
  <2> QED
    BY <2>1 DEF EntriesForHop
<1>2. CASE Receive
  BY <1>2 DEF Receive, ReceivePacket, ReceiveArp, StartCall, EntriesForHop
<1>3. CASE Sweep
  <2>1. ASSUME NEW e \in sr_arpqueue, SweepResend(e) PROVE EntriesForHop'
    <3>1. Requested(e).ip = e.ip /\ Requested(e).packets = e.packets
      BY <2>1, RequestedType DEF SweepResend, IInv, TypeOK
    <3>2. sr_arpqueue' = (sr_arpqueue \ {e}) \cup {Requested(e)}
      BY <2>1 DEF SweepResend
    <3> QED
      BY <3>1, <3>2 DEF EntriesForHop
  <2>2. ASSUME ~ \E e \in sr_arpqueue : SweepResend(e) PROVE sr_arpqueue' \subseteq sr_arpqueue
    BY <1>3, <2>2 DEF Sweep, SweepCache, SweepKeep, SweepGiveUp, SweepFreed
  <2> QED
    BY <2>1, <2>2 DEF EntriesForHop
<1>4. ASSUME NEW p \in Packet, HandlePacket(p) PROVE EntriesForHop'
  BY <1>4, ForHopPacket
<1>5. ASSUME NEW a \in Arp,
             \/ IgnoreArp(a) \/ ArpRefresh(a) \/ ArpLearn(a) \/ ArpOverheard(a)
             \/ \E e \in sr_arpqueue : ArpFlush(a, e)
      PROVE  EntriesForHop'
  <2>1. sr_arpqueue' \subseteq sr_arpqueue
    BY <1>5 DEF IgnoreArp, ArpRefresh, ArpLearn, ArpOverheard, ArpFlush
  <2> QED
    BY <2>1 DEF EntriesForHop
<1>6. CASE Stopped \/ UNCHANGED vars
  BY <1>6 DEF Stopped, vars, EntriesForHop
<1> QED
  BY <1>1, <1>2, <1>3, <1>4, <1>5, <1>6 DEF Next, HandleFrame

LEMMA ForHop == Spec => []EntriesForHop
<1>1. Init => EntriesForHop
  BY DEF Init, EntriesForHop
<1>2. IInv /\ EntriesForHop /\ [Next]_vars => EntriesForHop'
  BY ForHopNext
<1> QED
  BY <1>1, <1>2, Invariance, PTL DEF Spec

-----------------------------------------------------------------------------
\* The cache is as old as what was heard.

LEMMA AsHeardTick == ASSUME IInv, CacheAsHeard, Tick PROVE CacheAsHeard'
<1> SUFFICES ASSUME NEW f \in sr_arpcache'
             PROVE  heard'[f.ip].mac = f.mac /\ f.left + heard'[f.ip].ago = ARPCACHE_TIMEOUT
  BY DEF CacheAsHeard
<1>1. PICK d \in sr_arpcache : f = [d EXCEPT !.left = IF d.left = 0 THEN 0 ELSE d.left - 1]
  BY DEF Tick
<1>2. d \in CacheEntry /\ d.ip \in IP /\ d.left \in 0..ARPCACHE_TIMEOUT
  BY DEF IInv, TypeOK, CacheEntry
<1>3. /\ f.ip = d.ip /\ f.mac = d.mac
      /\ f.left = IF d.left = 0 THEN 0 ELSE d.left - 1
  BY <1>1, <1>2 DEF CacheEntry
<1>4. heard[d.ip] \in [mac : MAC \cup {None}, ago : 0..ARPCACHE_TIMEOUT]
  BY <1>2 DEF IInv, TypeOK
<1>5. heard'[d.ip] = [heard[d.ip] EXCEPT
                        !.ago = IF @ = ARPCACHE_TIMEOUT THEN @ ELSE @ + 1]
  BY <1>2 DEF Tick
<1>6. /\ heard'[d.ip].mac = heard[d.ip].mac
      /\ heard'[d.ip].ago = IF heard[d.ip].ago = ARPCACHE_TIMEOUT THEN heard[d.ip].ago
                            ELSE heard[d.ip].ago + 1
  BY <1>4, <1>5
<1>7. heard[d.ip].mac = d.mac /\ d.left + heard[d.ip].ago = ARPCACHE_TIMEOUT
  BY DEF CacheAsHeard
<1>8. heard[d.ip].ago \in 0..ARPCACHE_TIMEOUT /\ ARPCACHE_TIMEOUT \in Nat
  BY <1>4, LimitsAssumption
<1> QED
  BY <1>2, <1>3, <1>6, <1>7, <1>8

LEMMA AsHeardArp ==
  ASSUME IInv, CacheAsHeard, NEW a \in Arp,
         \/ IgnoreArp(a) \/ ArpRefresh(a) \/ ArpLearn(a) \/ ArpOverheard(a)
         \/ \E e \in sr_arpqueue : ArpFlush(a, e)
  PROVE  CacheAsHeard'
<1>1. CASE IgnoreArp(a)
  BY <1>1 DEF IgnoreArp, CacheAsHeard
<1>2. CASE ~IgnoreArp(a)
  <2>1. /\ HandleArp(a)
        /\ \A d \in sr_arpcache' : (d \in sr_arpcache /\ d.ip # a.sip) \/ d = Learnt(a)
    BY <1>2 DEF ArpRefresh, ArpLearn, ArpOverheard, ArpFlush, Cached
  <2>2. /\ Learnt(a).ip = a.sip /\ Learnt(a).mac = a.sha
        /\ Learnt(a).left = ARPCACHE_TIMEOUT /\ a.sip \in IP
    BY LearntType DEF Learnt
  <2>3. heard' = [heard EXCEPT ![a.sip] = [mac |-> a.sha, ago |-> 0]]
    BY <2>1 DEF HandleArp
  <2>4. heard'[a.sip].mac = a.sha /\ heard'[a.sip].ago = 0
    BY <2>2, <2>3 DEF IInv, TypeOK
  <2>5. \A d \in sr_arpcache : d.ip # a.sip => heard'[d.ip] = heard[d.ip]
    BY <2>3 DEF IInv, TypeOK, CacheEntry
  <2> QED
    BY <2>1, <2>2, <2>4, <2>5, LimitsAssumption DEF CacheAsHeard
<1> QED
  BY <1>1, <1>2

LEMMA AsHeardNext == ASSUME IInv, CacheAsHeard, [Next]_vars PROVE CacheAsHeard'
<1>1. CASE Tick
  BY <1>1, AsHeardTick
<1>2. CASE Receive
  BY <1>2 DEF Receive, ReceivePacket, ReceiveArp, StartCall, CacheAsHeard
<1>3. CASE Sweep
  <2>1. sr_arpcache' \subseteq sr_arpcache /\ UNCHANGED heard
    BY <1>3 DEF Sweep, SweepCache, SweepKeep, SweepResend, SweepGiveUp, SweepFreed, Sweeping
  <2> QED
    BY <2>1 DEF CacheAsHeard
<1>4. ASSUME NEW p \in Packet, HandlePacket(p) PROVE CacheAsHeard'
  <2>1. UNCHANGED <<sr_arpcache, heard>>
    BY <1>4 DEF HandlePacket, DropBadChecksum, TtlOver, EchoReply, PortUnreachable, IgnoreLocal,
                ForRouter, NoRouteFound, QueueNew, ForwardCached, QueueBehind, QueueGiveUp,
                HasRoute, ToForward
  <2> QED
    BY <2>1 DEF CacheAsHeard
<1>5. ASSUME NEW a \in Arp,
             \/ IgnoreArp(a) \/ ArpRefresh(a) \/ ArpLearn(a) \/ ArpOverheard(a)
             \/ \E e \in sr_arpqueue : ArpFlush(a, e)
      PROVE  CacheAsHeard'
  BY <1>5, AsHeardArp
<1>6. CASE Stopped \/ UNCHANGED vars
  BY <1>6 DEF Stopped, vars, CacheAsHeard
<1> QED
  BY <1>1, <1>2, <1>3, <1>4, <1>5, <1>6 DEF Next, HandleFrame

LEMMA AsHeard == Spec => []CacheAsHeard
<1>1. Init => CacheAsHeard
  BY DEF Init, CacheAsHeard
<1>2. IInv /\ CacheAsHeard /\ [Next]_vars => CacheAsHeard'
  BY AsHeardNext
<1> QED
  BY <1>1, <1>2, Invariance, PTL DEF Spec

-----------------------------------------------------------------------------
\* The frame in hand, and the walk of the cache in a call without a tick.

LEMMA Filtered == Spec => []FrameFiltered
<1>1. Init => FrameFiltered
  BY FramesAssumption DEF Init, FrameFiltered
<1>2. FrameFiltered /\ [Next]_vars => FrameFiltered'
  <2> SUFFICES ASSUME FrameFiltered, [Next]_vars PROVE FrameFiltered'
    OBVIOUS
  <2>1. CASE Receive
    <3>1. CASE \E p \in Packet : ReceivePacket(p)
      BY <3>1, FramesAssumption DEF ReceivePacket, StartCall, FrameFiltered
    <3>2. CASE \E a \in Arp : ReceiveArp(a)
      BY <3>2 DEF ReceiveArp, StartCall, FrameFiltered, NotForUs
    <3> QED
      BY <2>1, <3>1, <3>2 DEF Receive
  <2>2. CASE HandleFrame
    BY <2>2, CallEnds, FramesAssumption DEF FrameFiltered
  <2>3. CASE ~Receive /\ ~HandleFrame
    <3>1. UNCHANGED frame
      BY <2>3 DEF Next, Tick, Sweep, SweepCache, SweepKeep, SweepResend, SweepGiveUp, SweepFreed,
                  Sweeping, Stopped, vars
    <3> QED
      BY <3>1 DEF FrameFiltered, NotForUs
  <2> QED
    BY <2>1, <2>2, <2>3
<1> QED
  BY <1>1, <1>2, PTL DEF Spec

LEMMA SweptCacheNext ==
  ASSUME SweptCache, [Next]_vars PROVE SweptCache'
<1>1. CASE Tick
  <2>1. frame' = frame /\ ticked' = (frame # None)
    BY <1>1 DEF Tick
  <2> QED
    BY <2>1 DEF SweptCache
<1>2. CASE Receive
  BY <1>2 DEF Receive, ReceivePacket, ReceiveArp, StartCall, SweptCache
<1>3. CASE Sweep
  <2>1. UNCHANGED <<frame, ticked>>
    BY <1>3 DEF Sweep, SweepCache, SweepKeep, SweepResend, SweepGiveUp, SweepFreed, Sweeping
  <2>2. CASE \E ip \in IP : SweepCache(ip)
    BY <2>1, <2>2 DEF SweepCache, SweptCache
  <2>3. CASE ~ \E ip \in IP : SweepCache(ip)
    <3>1. UNCHANGED <<sr_arpcache, cacheLeft>>
      BY <1>3, <2>3 DEF Sweep, SweepKeep, SweepResend, SweepGiveUp, SweepFreed, Sweeping
    <3> QED
      BY <2>1, <3>1 DEF SweptCache
  <2> QED
    BY <2>2, <2>3
<1>4. CASE HandleFrame
  BY <1>4, CallEnds DEF SweptCache
<1>5. CASE Stopped \/ UNCHANGED vars
  BY <1>5 DEF Stopped, vars, SweptCache
<1> QED
  BY <1>1, <1>2, <1>3, <1>4, <1>5 DEF Next

LEMMA AlwaysSweptCache == Spec => []SweptCache
<1>1. Init => SweptCache
  BY DEF Init, SweptCache
<1>2. SweptCache /\ [Next]_vars => SweptCache'
  BY SweptCacheNext
<1> QED
  BY <1>1, <1>2, PTL DEF Spec

-----------------------------------------------------------------------------
\* What a step puts on the wire.

LEMMA NewFramesOf ==
  ASSUME wire \in Seq(IpFrame), NEW s \in Seq(IpFrame), wire' = wire \o s,
         NEW kind, NEW f \in NewFrames(kind)
  PROVE  f.kind = kind /\ \E k \in 1..Len(s) : f = s[k]
<1>1. PICK i \in (Len(wire) + 1)..Len(wire') : f = wire'[i] /\ f.kind = kind
  BY DEF NewFrames
<1>2. Len(wire') = Len(wire) + Len(s) /\ Len(wire) \in Nat /\ Len(s) \in Nat
  OBVIOUS
<1>3. i - Len(wire) \in 1..Len(s) /\ wire'[i] = s[i - Len(wire)]
  BY <1>2
<1> QED
  BY <1>1, <1>3

LEMMA NoNewFrames ==
  ASSUME wire \in Seq(IpFrame), UNCHANGED wire, NEW kind
  PROVE  NewFrames(kind) = {}
BY DEF NewFrames

LEMMA OneNewFrame ==
  ASSUME wire \in Seq(IpFrame), NEW g \in IpFrame, wire' = SentOne(g),
         NEW kind, NEW f \in NewFrames(kind)
  PROVE  f = g /\ f.kind = kind
<1>1. CASE g.src = g.iface
  <2> DEFINE s == <<g>>
  <2>1. wire' = wire \o s /\ s \in Seq(IpFrame)
    BY <1>1 DEF SentOne
  <2>2. \A k \in 1..Len(s) : s[k] = g
    OBVIOUS
  <2> HIDE DEF s
  <2>3. f.kind = kind /\ \E k \in 1..Len(s) : f = s[k]
    BY <2>1, NewFramesOf
  <2> QED
    BY <2>2, <2>3
<1>2. CASE g.src # g.iface
  BY <1>2, NoNewFrames DEF SentOne
<1> QED
  BY <1>1, <1>2

\* The packets answered are the first ones of the entry, and no ICMP errors.
LEMMA AnsweredFirst ==
  ASSUME NEW packets \in Seq(Packet), NEW k \in 1..Len(Unreachables(packets))
  PROVE  /\ k \in 1..Len(packets)
         /\ Unreachables(packets)[k] = UnreachFrame(packets[k])
         /\ ~StopsAt(packets[k])
<1> DEFINE A == Answered(packets)
<1>0. Len(packets) \in Nat
  OBVIOUS
<1>1. Len(packets) \in Nat /\ A \subseteq 1..Len(packets)
  BY <1>0 DEF Answered
<1>6. IsFiniteSet(1..Len(packets)) /\ Cardinality(1..Len(packets)) = Len(packets)
  <2> HIDE DEF A
  <2>1. \A n \in Nat : IsFiniteSet(1..n) /\ Cardinality(1..n) = n
    BY FS_Interval
  <2> QED
    BY <1>0, <2>1
<1>2. IsFiniteSet(A) /\ Cardinality(A) \in Nat /\ Cardinality(A) <= Len(packets)
  <2> HIDE DEF A
  <2> QED
    BY <1>1, <1>6, FS_Subset, FS_CardinalityType
<1>3. k \in 1..Cardinality(A) /\ k \in Nat /\ Unreachables(packets)[k] = UnreachFrame(packets[k])
  BY <1>2 DEF Unreachables
<1>4. k \in A
  <2> SUFFICES ASSUME k \notin A PROVE FALSE
    OBVIOUS
  <2>1. A \subseteq 1..(k - 1)
    <3> SUFFICES ASSUME NEW i \in A, i >= k PROVE FALSE
      BY <1>1, <1>3
    <3>1. i \in 1..Len(packets) /\ \A j \in 1..i : ~StopsAt(packets[j])
      BY DEF Answered
    <3>2. 1..k \subseteq 1..i /\ k \in 1..Len(packets)
      BY <1>3, <3>1, <1>1
    <3> QED
      BY <3>1, <3>2 DEF Answered
  <2>2. IsFiniteSet(1..(k - 1)) /\ Cardinality(1..(k - 1)) = k - 1
    <3>1. 1 \in Int /\ k - 1 \in Int /\ k >= 1
      BY <1>3
    <3>2. /\ IsFiniteSet(1..(k - 1))
          /\ Cardinality(1..(k - 1)) = IF 1 > k - 1 THEN 0 ELSE (k - 1) - 1 + 1
      BY <3>1, FS_Interval
    <3> QED
      BY <3>1, <3>2
  <2>3. Cardinality(A) <= k - 1
    <3> HIDE DEF A
    <3> QED
      BY <2>1, <2>2, FS_Subset
  <2> QED
    BY <1>2, <1>3, <2>3
<1>5. k \in 1..k
  BY <1>3
<1> QED
  BY <1>1, <1>3, <1>4, <1>5 DEF Answered

\* The packet of a frame waits in e.
WaitsIn(f, e) == \E k \in 1..Len(e.packets) : f.packet = e.packets[k]

\* An answer of the router itself.
OwnAnswer(f) == f.kind = "timex" => ~IsIcmpError(f.packet)

\* An answer to a packet of an entry whose requests are spent.
Refusal(f, e) ==
  /\ Overdue(e) /\ Spent(e)
  /\ WaitsIn(f, e) /\ ~IsIcmpError(f.packet)

\* The answer to the packet that finds such an entry in its dispatch.
LateRefusal(f, e) ==
  /\ Overdue(e) /\ Spent(e)
  /\ \E p \in Packet : f.packet = p /\ QueueGiveUp(p, e)

\* A packet sent on from the cache, and one that has waited.
SentOn(f, d) == \E p \in Packet : ForwardCached(p, d) /\ f.packet = p /\ f.dst = d.mac
Released(f, e) == WaitsIn(f, e) /\ \E a \in Arp : ArpFlush(a, e) /\ f.dst = a.sha

\* Where the frame f of this kind may have come from.
Origin(f, kind) ==
  /\ f.kind = kind
  /\ \/ kind \notin {"unreach", "forward"} /\ OwnAnswer(f)
     \/ kind = "unreach" /\ \E e \in sr_arpqueue : Refusal(f, e) \/ LateRefusal(f, e)
     \/ kind = "forward" /\ \E d \in sr_arpcache : SentOn(f, d)
     \/ kind = "forward" /\ \E e \in sr_arpqueue : Released(f, e)

\* The frames that answer the packets of an entry.
LEMMA RefusedHere ==
  ASSUME NEW e \in QueueEntry, Overdue(e), Spent(e),
         NEW k \in 1..Len(Unreachables(e.packets)), NEW f, f = Unreachables(e.packets)[k]
  PROVE  f.kind = "unreach" /\ Refusal(f, e)
<1>1. e.packets \in Seq(Packet)
  BY DEF QueueEntry
<1>2. /\ k \in 1..Len(e.packets) /\ f = UnreachFrame(e.packets[k])
      /\ ~StopsAt(e.packets[k])
  BY <1>1, AnsweredFirst
<1> QED
  BY <1>2 DEF UnreachFrame, IcmpFrame, Refusal, WaitsIn, StopsAt

LEMMA SweepOrigin ==
  ASSUME IInv, Sweep, NEW kind, NEW f \in NewFrames(kind) PROVE Origin(f, kind)
<1>w. wire \in Seq(IpFrame)
  BY DEF IInv, TypeOK
<1>1. ASSUME NEW e \in sr_arpqueue, SweepGiveUp(e) PROVE Origin(f, kind)
  <2>1. e \in QueueEntry /\ Unreachables(e.packets) \in Seq(IpFrame)
    BY UnreachablesType DEF IInv, TypeOK, QueueEntry
  <2>2. wire' = wire \o Unreachables(e.packets) /\ Overdue(e) /\ Spent(e)
    BY <1>1 DEF SweepGiveUp
  <2>3. f.kind = kind /\ \E k \in 1..Len(Unreachables(e.packets)) : f = Unreachables(e.packets)[k]
    BY <1>w, <2>1, <2>2, NewFramesOf
  <2> QED
    BY <2>1, <2>2, <2>3, RefusedHere DEF Origin
<1>2. CASE ~ \E e \in sr_arpqueue : SweepGiveUp(e)
  <2>1. UNCHANGED wire
    BY <1>2 DEF Sweep, SweepCache, SweepKeep, SweepResend, SweepFreed
  <2> QED
    BY <1>w, <2>1, NoNewFrames
<1> QED
  BY <1>1, <1>2

LEMMA PacketOrigin ==
  ASSUME IInv, NEW p \in Packet, HandlePacket(p), NEW kind, NEW f \in NewFrames(kind)
  PROVE  Origin(f, kind)
<1>w. wire \in Seq(IpFrame)
  BY DEF IInv, TypeOK
<1>h. Hdr[p].iif \in Iface /\ Hdr[p].dhost \in Iface \cup {None} /\ Hdr[p].ttl \in 0..255
  BY FramesAssumption DEF Header
<1>1. CASE TtlOver(p)
  <2> DEFINE g == IcmpFrame("timex", p, Hdr[p].iif, Hdr[p].ttl)
  <2>1. g \in IpFrame /\ g.kind = "timex" /\ g.packet = p
    BY <1>h, IcmpFrameType DEF IcmpFrame
  <2>2. wire' = IF IsIcmpError(p) THEN wire ELSE SentOne(g)
    BY <1>1 DEF TtlOver
  <2> HIDE DEF g
  <2> QED
    BY <1>w, <2>1, <2>2, NoNewFrames, OneNewFrame DEF Origin, OwnAnswer
<1>2. CASE EchoReply(p)
  <2> DEFINE g == IcmpFrame("echoreply", p, Hdr[p].dhost, TtlLessOne(p))
  <2>1. g \in IpFrame /\ g.kind = "echoreply"
    BY <1>h, TtlType, IcmpFrameType DEF IcmpFrame
  <2>2. wire' = SentOne(g)
    BY <1>2 DEF EchoReply
  <2> HIDE DEF g
  <2> QED
    BY <1>w, <2>1, <2>2, OneNewFrame DEF Origin, OwnAnswer
<1>3. CASE PortUnreachable(p)
  <2> DEFINE g == IcmpFrame("portunreach", p, Hdr[p].dhost, Hdr[p].ttl)
  <2>1. g \in IpFrame /\ g.kind = "portunreach"
    BY <1>h, IcmpFrameType DEF IcmpFrame
  <2>2. wire' = SentOne(g)
    BY <1>3 DEF PortUnreachable
  <2> HIDE DEF g
  <2> QED
    BY <1>w, <2>1, <2>2, OneNewFrame DEF Origin, OwnAnswer
<1>4. ASSUME NEW d \in sr_arpcache, ForwardCached(p, d) PROVE Origin(f, kind)
  <2> DEFINE g == ForwardFrame(p, Route[Hdr[p].dst].iface, d.mac)
  <2>1. g \in IpFrame
    BY <1>4, RouteType, ForwardFrameType DEF ForwardCached, HasRoute, IInv, TypeOK, CacheEntry
  <2>2. wire' = SentOne(g) /\ g.kind = "forward" /\ g.packet = p /\ g.dst = d.mac
    BY <1>4 DEF ForwardCached, ForwardFrame
  <2> HIDE DEF g
  <2>3. f = g /\ f.kind = kind
    BY <1>w, <2>1, <2>2, OneNewFrame
  <2> QED
    BY <1>4, <2>2, <2>3 DEF Origin, SentOn
<1>5. ASSUME NEW e \in sr_arpqueue, QueueGiveUp(p, e) PROVE Origin(f, kind)
  <2> DEFINE s == Unreachables(e.packets)
             t == IF ExitsOn(e.packets) THEN s ELSE Append(s, UnreachFrame(p))
  <2>1. e \in QueueEntry /\ s \in Seq(IpFrame) /\ UnreachFrame(p) \in IpFrame
    BY UnreachablesType, UnreachFrameType DEF IInv, TypeOK, QueueEntry
  <2>2. Overdue(e) /\ Spent(e)
    BY <1>5 DEF QueueGiveUp
  <2>3. wire' = IF ExitsOn(e.packets) THEN wire \o s ELSE Append(wire \o s, UnreachFrame(p))
    BY <1>5 DEF QueueGiveUp
  <2>4. \A k \in 1..Len(s) : s[k].kind = "unreach" /\ Refusal(s[k], e)
    BY <2>1, <2>2, RefusedHere
  <2>5. UnreachFrame(p).kind = "unreach" /\ LateRefusal(UnreachFrame(p), e)
    BY <1>5, <2>2 DEF UnreachFrame, IcmpFrame, LateRefusal
  <2> DEFINE u == UnreachFrame(p)
  <2> HIDE DEF s, u
  <2>6. t \in Seq(IpFrame) /\ wire' = wire \o t
    <3>1. u \in IpFrame /\ (wire \o s) \in Seq(IpFrame)
      BY <1>w, <2>1 DEF u
    <3>2. Append(wire \o s, u) = wire \o Append(s, u) /\ Append(s, u) \in Seq(IpFrame)
      BY <1>w, <2>1, <3>1
    <3> QED
      BY <2>1, <2>3, <3>2 DEF u
  <2>7. \A k \in 1..Len(t) : t[k] = u \/ \E l \in 1..Len(s) : t[k] = s[l]
    <3>1. u \in IpFrame
      BY <2>1 DEF u
    <3>2. \A k \in 1..Len(Append(s, u)) :
            Append(s, u)[k] = u \/ (k \in 1..Len(s) /\ Append(s, u)[k] = s[k])
      BY <2>1, <3>1
    <3> QED
      BY <2>1, <3>2 DEF u
  <2> HIDE DEF t
  <2>8. f.kind = kind /\ \E k \in 1..Len(t) : f = t[k]
    BY <1>w, <2>6, NewFramesOf
  <2>9. f = u \/ \E l \in 1..Len(s) : f = s[l]
    BY <2>7, <2>8
  <2> QED
    BY <2>4, <2>5, <2>8, <2>9 DEF Origin, u
<1>6. ASSUME \/ DropBadChecksum(p) \/ IgnoreLocal(p) \/ NoRouteFound(p) \/ QueueNew(p)
             \/ \E e \in sr_arpqueue : QueueBehind(p, e)
      PROVE  Origin(f, kind)
  <2>1. UNCHANGED wire
    BY <1>6 DEF DropBadChecksum, IgnoreLocal, NoRouteFound, QueueNew, QueueBehind
  <2> QED
    BY <1>w, <2>1, NoNewFrames
<1> QED
  BY <1>1, <1>2, <1>3, <1>4, <1>5, <1>6 DEF HandlePacket

LEMMA ArpOrigin ==
  ASSUME IInv, NEW a \in Arp,
         \/ IgnoreArp(a) \/ ArpRefresh(a) \/ ArpLearn(a) \/ ArpOverheard(a)
         \/ \E e \in sr_arpqueue : ArpFlush(a, e),
         NEW kind, NEW f \in NewFrames(kind)
  PROVE  Origin(f, kind)
<1>w. wire \in Seq(IpFrame)
  BY DEF IInv, TypeOK
<1>1. ASSUME NEW e \in sr_arpqueue, ArpFlush(a, e) PROVE Origin(f, kind)
  <2>1. e.packets \in Seq(Packet) /\ Flushed(e, a.sha) \in Seq(IpFrame)
    BY LearntType, FlushedType DEF IInv, TypeOK, QueueEntry
  <2>2. wire' = wire \o Flushed(e, a.sha)
    BY <1>1 DEF ArpFlush
  <2>3. f.kind = kind /\ \E k \in 1..Len(Flushed(e, a.sha)) : f = Flushed(e, a.sha)[k]
    BY <1>w, <2>1, <2>2, NewFramesOf
  <2>4. PICK k \in 1..Len(e.packets) : f = ForwardFrame(e.packets[k], e.iface, a.sha)
    BY <2>1, <2>3 DEF Flushed
  <2>5. f.kind = "forward" /\ f.packet = e.packets[k] /\ f.dst = a.sha
    BY <2>4 DEF ForwardFrame
  <2> QED
    BY <1>1, <2>3, <2>5 DEF Origin, Released, WaitsIn
<1>2. CASE ~ \E e \in sr_arpqueue : ArpFlush(a, e)
  <2>1. UNCHANGED wire
    BY <1>2 DEF IgnoreArp, ArpRefresh, ArpLearn, ArpOverheard
  <2> QED
    BY <1>w, <2>1, NoNewFrames
<1> QED
  BY <1>1, <1>2

\* Every frame on the wire comes from one of these.
LEMMA EveryOrigin ==
  ASSUME IInv, [Next]_vars, NEW kind, NEW f \in NewFrames(kind) PROVE Origin(f, kind)
<1>w. wire \in Seq(IpFrame)
  BY DEF IInv, TypeOK
<1>1. CASE Tick \/ Receive \/ Stopped \/ UNCHANGED vars
  <2>1. UNCHANGED wire
    BY <1>1 DEF Tick, Receive, ReceivePacket, ReceiveArp, StartCall, Stopped, vars
  <2> QED
    BY <1>w, <2>1, NoNewFrames
<1>2. CASE Sweep
  BY <1>2, SweepOrigin
<1>3. CASE HandleFrame
  BY <1>3, PacketOrigin, ArpOrigin DEF HandleFrame
<1> QED
  BY <1>1, <1>2, <1>3 DEF Next

\* What is on the wire stays there.
Grows == \A i \in 1..Len(wire) : i \in 1..Len(wire') /\ wire'[i] = wire[i]

LEMMA GrowsBy ==
  ASSUME wire \in Seq(IpFrame), NEW s \in Seq(IpFrame), wire' = wire \o s
  PROVE  Grows
BY DEF Grows

LEMMA GrowsByOne ==
  ASSUME wire \in Seq(IpFrame), NEW g \in IpFrame, wire' = SentOne(g)
  PROVE  Grows
BY DEF Grows, SentOne

LEMMA GrowsPacket == ASSUME IInv, NEW p \in Packet, HandlePacket(p) PROVE Grows
<1>w. wire \in Seq(IpFrame)
  BY DEF IInv, TypeOK
<1>h. Hdr[p].iif \in Iface /\ Hdr[p].dhost \in Iface \cup {None} /\ Hdr[p].ttl \in 0..255
  BY FramesAssumption DEF Header
<1>1. CASE TtlOver(p)
  <2>1. IcmpFrame("timex", p, Hdr[p].iif, Hdr[p].ttl) \in IpFrame
    BY <1>h, IcmpFrameType
  <2>2. UNCHANGED wire \/ wire' = SentOne(IcmpFrame("timex", p, Hdr[p].iif, Hdr[p].ttl))
    BY <1>1 DEF TtlOver
  <2>3. CASE UNCHANGED wire
    BY <1>w, <2>3 DEF Grows
  <2> QED
    BY <1>w, <2>1, <2>2, <2>3, GrowsByOne
<1>2. CASE EchoReply(p)
  <2>1. IcmpFrame("echoreply", p, Hdr[p].dhost, TtlLessOne(p)) \in IpFrame
    BY <1>h, TtlType, IcmpFrameType
  <2> QED
    BY <1>w, <1>2, <2>1, GrowsByOne DEF EchoReply
<1>3. CASE PortUnreachable(p)
  <2>1. IcmpFrame("portunreach", p, Hdr[p].dhost, Hdr[p].ttl) \in IpFrame
    BY <1>h, IcmpFrameType
  <2> QED
    BY <1>w, <1>3, <2>1, GrowsByOne DEF PortUnreachable
<1>4. ASSUME NEW d \in sr_arpcache, ForwardCached(p, d) PROVE Grows
  <2>1. ForwardFrame(p, Route[Hdr[p].dst].iface, d.mac) \in IpFrame
    BY <1>4, RouteType, ForwardFrameType DEF ForwardCached, HasRoute, IInv, TypeOK, CacheEntry
  <2> QED
    BY <1>w, <1>4, <2>1, GrowsByOne DEF ForwardCached
<1>5. ASSUME NEW e \in sr_arpqueue, QueueGiveUp(p, e) PROVE Grows
  <2> DEFINE s == Unreachables(e.packets)
             u == UnreachFrame(p)
  <2>1. s \in Seq(IpFrame) /\ u \in IpFrame
    BY UnreachablesType, UnreachFrameType DEF IInv, TypeOK, QueueEntry
  <2>2. wire' = wire \o s \/ wire' = Append(wire \o s, u)
    BY <1>5 DEF QueueGiveUp
  <2> HIDE DEF s, u
  <2>3. Append(wire \o s, u) = wire \o Append(s, u) /\ Append(s, u) \in Seq(IpFrame)
    BY <1>w, <2>1
  <2> QED
    BY <1>w, <2>1, <2>2, <2>3, GrowsBy
<1>6. ASSUME \/ DropBadChecksum(p) \/ IgnoreLocal(p) \/ NoRouteFound(p) \/ QueueNew(p)
             \/ \E e \in sr_arpqueue : QueueBehind(p, e)
      PROVE  Grows
  <2>1. UNCHANGED wire
    BY <1>6 DEF DropBadChecksum, IgnoreLocal, NoRouteFound, QueueNew, QueueBehind
  <2> QED
    BY <1>w, <2>1 DEF Grows
<1> QED
  BY <1>1, <1>2, <1>3, <1>4, <1>5, <1>6 DEF HandlePacket

LEMMA WireGrows == ASSUME IInv, [Next]_vars PROVE Grows
<1>w. wire \in Seq(IpFrame)
  BY DEF IInv, TypeOK
<1>1. ASSUME NEW e \in sr_arpqueue, SweepGiveUp(e) PROVE Grows
  <2>1. Unreachables(e.packets) \in Seq(IpFrame)
    BY UnreachablesType DEF IInv, TypeOK, QueueEntry
  <2> QED
    BY <1>w, <1>1, <2>1, GrowsBy DEF SweepGiveUp
<1>2. ASSUME NEW a \in Arp, NEW e \in sr_arpqueue, ArpFlush(a, e) PROVE Grows
  <2>1. Flushed(e, a.sha) \in Seq(IpFrame)
    BY LearntType, FlushedType DEF IInv, TypeOK
  <2> QED
    BY <1>w, <1>2, <2>1, GrowsBy DEF ArpFlush
<1>3. ASSUME NEW p \in Packet, HandlePacket(p) PROVE Grows
  BY <1>3, GrowsPacket
<1>4. CASE UNCHANGED wire
  BY <1>w, <1>4 DEF Grows
<1>5. \/ UNCHANGED wire
      \/ \E p \in Packet : HandlePacket(p)
      \/ \E e \in sr_arpqueue : SweepGiveUp(e) \/ \E a \in Arp : ArpFlush(a, e)
  BY DEF Next, Tick, Receive, ReceivePacket, ReceiveArp, StartCall, Sweep, SweepCache,
         SweepKeep, SweepResend, SweepFreed, HandleFrame, IgnoreArp, ArpRefresh, ArpLearn,
         ArpOverheard, Stopped, vars
<1> QED
  BY <1>1, <1>2, <1>3, <1>4, <1>5

-----------------------------------------------------------------------------
\* The theorems.

\* The invariants of this module together.
Wired == IInv /\ EntriesForHop /\ CacheAsHeard /\ FrameFiltered

LEMMA AlwaysWired == Spec => []Wired
BY Invariance, ForHop, AsHeard, Filtered, PTL DEF Wired

\* For a spent and overdue entry, all requests were made and the last is old.
LEMMA SpentMeansAsked ==
  ASSUME IInv, NEW e \in sr_arpqueue, Overdue(e), Spent(e)
  PROVE  reqs[e.ip].count = ARP_MAXREQS - 1 /\ reqs[e.ip].quiet = 2
<1>1. e.numreqs \in 1..ARP_MAXREQS
  BY DEF IInv, TypeOK, QueueEntry
<1>2. e.numreqs = ARP_MAXREQS
  BY <1>1, LimitsAssumption DEF Spent
<1> QED
  BY <1>2 DEF IInv, EntriesMatchRequests, Overdue

\* A packet is refused only when no address of its next hop is in the cache, two
\* or more requests for it were made and the last one is two or more seconds old,
\* whichever walk or dispatch refuses it and whenever the second changes
\* (arpq_packets_icmpsend).
THEOREM RefusedAfterRetry == Spec => UnreachableOnlyAfterRetry
<1> DEFINE Asked(hop) == ~Cached(hop) /\ reqs[hop].count >= 2 /\ reqs[hop].quiet = 2
           Refused == \A f \in NewFrames("unreach") : Asked(NextHop(f.packet))
<1>1. Wired /\ [Next]_vars => Refused
  <2> SUFFICES ASSUME Wired, [Next]_vars, NEW f \in NewFrames("unreach")
               PROVE  Asked(NextHop(f.packet))
    OBVIOUS
  <2> USE DEF Wired
  <2>1. PICK e \in sr_arpqueue : Refusal(f, e) \/ LateRefusal(f, e)
    BY EveryOrigin DEF Origin
  <2>2. Overdue(e) /\ Spent(e)
    BY <2>1 DEF Refusal, LateRefusal
  <2>3. NextHop(f.packet) = e.ip
    <3>1. CASE Refusal(f, e)
      BY <3>1 DEF Refusal, WaitsIn, EntriesForHop
    <3>2. CASE LateRefusal(f, e)
      BY <3>2 DEF LateRefusal, QueueGiveUp
    <3> QED
      BY <2>1, <3>1, <3>2
  <2>4. ~Cached(e.ip)
    BY DEF Cached, IInv, CacheQueueDisjoint
  <2>5. reqs[e.ip].count >= 2 /\ reqs[e.ip].quiet = 2
    BY <2>2, SpentMeansAsked, LimitsAssumption
  <2> QED
    BY <2>3, <2>4, <2>5
<1>2. Wired /\ [Next]_vars => [Refused]_vars
  BY <1>1
<1> QED
  BY <1>2, AlwaysWired, PTL DEF Spec, UnreachableOnlyAfterRetry

\* If the second does not change within a call, a packet is forwarded only to the
\* hardware address last heard from its next hop, and only while that is less
\* than ARPCACHE_TIMEOUT seconds old, whether it waited for it or not.
THEOREM MacIsFresh == Spec => FreshMac
<1> DEFINE Fresh == ~ticked => \A f \in NewFrames("forward") :
             LET h == heard'[NextHop(f.packet)]
             IN  f.dst = h.mac /\ h.ago < ARPCACHE_TIMEOUT
<1>1. Wired /\ SweptCache /\ [Next]_vars => Fresh
  <2> SUFFICES ASSUME Wired, SweptCache, [Next]_vars, ~ticked,
                      NEW f \in NewFrames("forward")
               PROVE  /\ f.dst = heard'[NextHop(f.packet)].mac
                      /\ heard'[NextHop(f.packet)].ago < ARPCACHE_TIMEOUT
    OBVIOUS
  <2> USE DEF Wired
  <2>1. \/ \E d \in sr_arpcache : SentOn(f, d)
        \/ \E e \in sr_arpqueue : Released(f, e)
    BY EveryOrigin DEF Origin
  <2>2. ASSUME NEW d \in sr_arpcache, SentOn(f, d)
        PROVE  /\ f.dst = heard'[NextHop(f.packet)].mac
               /\ heard'[NextHop(f.packet)].ago < ARPCACHE_TIMEOUT
    <3>1. PICK p \in Packet : ForwardCached(p, d) /\ f.packet = p /\ f.dst = d.mac
      BY <2>2 DEF SentOn
    <3>2. /\ d.ip = NextHop(p) /\ UNCHANGED heard
          /\ frame = p /\ cacheLeft = {}
      BY <3>1 DEF ForwardCached, HasRoute, ToForward, Dispatching
    <3>3. d.left > 0 /\ d.left \in 0..ARPCACHE_TIMEOUT
      BY <3>2, FramesAssumption DEF SweptCache, IInv, TypeOK, CacheEntry
    <3>4. heard[d.ip].mac = d.mac /\ d.left + heard[d.ip].ago = ARPCACHE_TIMEOUT
      BY DEF CacheAsHeard
    <3>5. heard[d.ip].ago \in 0..ARPCACHE_TIMEOUT
      BY DEF IInv, TypeOK, CacheEntry
    <3> QED
      BY <3>1, <3>2, <3>3, <3>4, <3>5, LimitsAssumption
  <2>3. ASSUME NEW e \in sr_arpqueue, Released(f, e)
        PROVE  /\ f.dst = heard'[NextHop(f.packet)].mac
               /\ heard'[NextHop(f.packet)].ago < ARPCACHE_TIMEOUT
    <3>1. PICK a \in Arp : ArpFlush(a, e) /\ f.dst = a.sha
      BY <2>3 DEF Released
    <3>2. NextHop(f.packet) = e.ip /\ e.ip = a.sip
      BY <2>3, <3>1 DEF Released, WaitsIn, EntriesForHop, ArpFlush
    <3>3. heard' = [heard EXCEPT ![a.sip] = [mac |-> a.sha, ago |-> 0]]
      BY <3>1 DEF ArpFlush, HandleArp
    <3>4. heard'[a.sip].mac = a.sha /\ heard'[a.sip].ago = 0
      BY <3>3, LearntType DEF IInv, TypeOK
    <3> QED
      BY <3>1, <3>2, <3>4, LimitsAssumption
  <2> QED
    BY <2>1, <2>2, <2>3
<1>2. Wired /\ SweptCache /\ [Next]_vars => [Fresh]_vars
  BY <1>1
<1> QED
  BY <1>2, AlwaysWired, AlwaysSweptCache, PTL DEF Spec, FreshMac

\* An ICMP error is answered only in hand, in a call within which the second has
\* changed, when its entry has become overdue since the walk; never from the queue.
THEOREM LateAnswersOnly == Spec => AnswersIcmpErrorOnlyLate
<1> DEFINE Late(f) ==
             /\ ticked /\ f.kind = "unreach" /\ frame = f.packet
             /\ \E e \in sr_arpqueue : e.ip = NextHop(frame) /\ Overdue(e) /\ Spent(e)
             /\ \E e \in sr_arpqueue' : e.ip = NextHop(f.packet) /\ e.freed
           Only == \A f \in NewFrames("unreach") \cup NewFrames("timex") :
                     IsIcmpError(f.packet) => Late(f)
<1>1. Wired /\ SweptEntries /\ [Next]_vars => Only
  <2> SUFFICES ASSUME Wired, SweptEntries, [Next]_vars, NEW kind \in {"unreach", "timex"},
                      NEW f \in NewFrames(kind), IsIcmpError(f.packet)
               PROVE  Late(f)
    OBVIOUS
  <2>1. Origin(f, kind) /\ f.kind = kind
    BY EveryOrigin DEF Wired, NewFrames
  <2>2. PICK e \in sr_arpqueue : LateRefusal(f, e) /\ kind = "unreach"
    BY <2>1 DEF Origin, OwnAnswer, Refusal
  <2>3. PICK p \in Packet : QueueGiveUp(p, e) /\ f.packet = p
    BY <2>2 DEF LateRefusal
  <2>4. /\ frame = p /\ e.ip = NextHop(p) /\ Overdue(e) /\ Spent(e)
        /\ [e EXCEPT !.packets = <<>>, !.freed = TRUE] \in sr_arpqueue'
    BY <2>3 DEF QueueGiveUp, HasRoute, ToForward, Dispatching
  <2>5. e \in QueueEntry
    BY DEF Wired, IInv, TypeOK
  <2>6. /\ [e EXCEPT !.packets = <<>>, !.freed = TRUE].ip = e.ip
        /\ [e EXCEPT !.packets = <<>>, !.freed = TRUE].freed
    BY <2>5 DEF QueueEntry
  <2>7. f.kind = "unreach"
    BY <2>1, <2>2
  <2>8. ticked
    BY <2>3, GivesUpLate
  <2> QED
    BY <2>3, <2>4, <2>6, <2>7, <2>8
<1>2. Wired /\ SweptEntries /\ [Next]_vars => [Only]_vars
  BY <1>1
<1> QED
  BY <1>2, AlwaysWired, AlwaysSwept, PTL DEF Spec, AnswersIcmpErrorOnlyLate

\* No ARP reply the router makes is refused by sr_send_packet: its source is the
\* interface it leaves by, because the session lets no other request through and
\* no two interfaces have one address.
THEOREM RepliesLeave == Spec => []ReplySourceIsInterface
<1>1. Init => ReplySourceIsInterface
  BY DEF Init, ReplySourceIsInterface
<1>2. Wired /\ ReplySourceIsInterface /\ [Next]_vars => ReplySourceIsInterface'
  <2> SUFFICES ASSUME Wired, ReplySourceIsInterface, [Next]_vars PROVE ReplySourceIsInterface'
    OBVIOUS
  <2>1. ASSUME NEW a \in Arp, HandleArp(a) PROVE ReplySourceIsInterface'
    <3> DEFINE me == CHOOSE i \in Iface : IfIP[i] = a.tip
    <3>1. ~NotForUs(a) /\ a.iif \in Iface
      BY <2>1, LearntType DEF HandleArp, Dispatching, Wired, FrameFiltered
    <3>2. a.op = "request" => a.tip = IfIP[a.iif]
      BY <3>1 DEF NotForUs
    <3>3. a.op = "request" => me \in Iface /\ IfIP[me] = a.tip
      BY <3>1, <3>2
    <3>4. a.op = "request" => me = a.iif
      <4> HIDE DEF me
      <4> QED
        BY <3>1, <3>2, <3>3, TopologyAssumption
    <3>5. replies' = IF a.op = "request" /\ IsRouterIP(a.tip)
                     THEN replies \cup {[iface |-> a.iif, to |-> a.sha, src |-> me]}
                     ELSE replies
      BY <2>1 DEF HandleArp
    <3> HIDE DEF me
    <3> QED
      BY <3>4, <3>5 DEF ReplySourceIsInterface
  <2>2. CASE ~ \E a \in Arp : HandleArp(a)
    <3>1. UNCHANGED replies
      BY <2>2 DEF Next, Tick, Receive, ReceivePacket, ReceiveArp, StartCall, Sweep, SweepCache,
                  SweepKeep, SweepResend, SweepGiveUp, SweepFreed, Sweeping, HandleFrame,
                  HandlePacket, DropBadChecksum, TtlOver, EchoReply, PortUnreachable,
                  IgnoreLocal, ForRouter, NoRouteFound, QueueNew, ForwardCached, QueueBehind,
                  QueueGiveUp, HasRoute, ToForward, IgnoreArp, ArpRefresh, ArpLearn,
                  ArpFlush, ArpOverheard, Stopped, vars
    <3> QED
      BY <3>1 DEF ReplySourceIsInterface
  <2> QED
    BY <2>1, <2>2
<1> QED
  BY <1>1, <1>2, AlwaysWired, PTL DEF Spec

-----------------------------------------------------------------------------
(* Every packet has one fate.                                              *)

OnTheWire(p)  == \E i \in 1..Len(wire) : wire[i].packet = p
InEntry(p, e) == \E k \in 1..Len(e.packets) : e.packets[k] = p
InAnEntry(p)  == \E e \in sr_arpqueue : InEntry(p, e)
Arrived(p)    == \E i \in 1..Len(rcvd) : rcvd[i] = p

NoFrameTwice(s)  == \A i, j \in 1..Len(s) : s[i].packet = s[j].packet => i = j
NoPacketTwice(s) == \A i, j \in 1..Len(s) : s[i] = s[j] => i = j

\* A packet is on the wire once, in an entry once, or in hand, and not two of
\* these; and it has arrived.
OncePlaced ==
  /\ NoFrameTwice(wire)
  /\ \A e \in sr_arpqueue : NoPacketTwice(e.packets)
  /\ \A p \in Packet : ~(OnTheWire(p) /\ InAnEntry(p))
  /\ \A p \in Packet : OnTheWire(p) \/ InAnEntry(p) => Arrived(p) /\ frame # p
  /\ frame \in Packet => Arrived(frame)

\* Two entries have no packet in common: each is for its own hop.
LEMMA EntriesApart ==
  ASSUME IInv, EntriesForHop, NEW d \in sr_arpqueue, NEW e \in sr_arpqueue, NEW p,
         InEntry(p, d), InEntry(p, e)
  PROVE  d = e
BY DEF IInv, UniqueEntries, EntriesForHop, InEntry

\* The frames of a step.
Sends(s) == s \in Seq(IpFrame) /\ wire' = wire \o s

OnTheWireNext(p, s) == \E k \in 1..Len(s) : s[k].packet = p

LEMMA WireAfter ==
  ASSUME IInv, NEW s, Sends(s)
  PROVE  \A p : OnTheWire(p)' => OnTheWire(p) \/ OnTheWireNext(p, s)
<1>0. wire \in Seq(IpFrame) /\ s \in Seq(IpFrame) /\ wire' = wire \o s
  BY DEF IInv, TypeOK, Sends
<1> HIDE DEF IpFrame
<1> SUFFICES ASSUME NEW p, NEW i \in 1..Len(wire'), wire'[i].packet = p
             PROVE  OnTheWire(p) \/ OnTheWireNext(p, s)
  BY DEF OnTheWire
<1>1. Len(wire') = Len(wire) + Len(s) /\ Len(wire) \in Nat /\ Len(s) \in Nat
  BY <1>0
<1>2. CASE i \in 1..Len(wire)
  BY <1>0, <1>2 DEF OnTheWire
<1>3. CASE i \notin 1..Len(wire)
  <2>1. i - Len(wire) \in 1..Len(s) /\ wire'[i] = s[i - Len(wire)]
    BY <1>0, <1>1, <1>3
  <2> QED
    BY <2>1 DEF OnTheWireNext
<1> QED
  BY <1>2, <1>3

\* Frames about other packets, each about its own, join the wire.
LEMMA WireStaysDistinct ==
  ASSUME IInv, NoFrameTwice(wire), NEW s, Sends(s), NoFrameTwice(s),
         \A k \in 1..Len(s) : ~OnTheWire(s[k].packet)
  PROVE  NoFrameTwice(wire')
<1>0. wire \in Seq(IpFrame) /\ s \in Seq(IpFrame) /\ wire' = wire \o s
  BY DEF IInv, TypeOK, Sends
<1> HIDE DEF IpFrame
<1>1. Len(wire') = Len(wire) + Len(s) /\ Len(wire) \in Nat /\ Len(s) \in Nat
  BY <1>0
<1>2. \A i \in 1..Len(wire) : wire'[i] = wire[i]
  BY <1>0
<1>3. \A i \in 1..Len(wire') : i \notin 1..Len(wire) =>
        i - Len(wire) \in 1..Len(s) /\ wire'[i] = s[i - Len(wire)]
  BY <1>0, <1>1
<1> SUFFICES ASSUME NEW i \in 1..Len(wire'), NEW j \in 1..Len(wire'),
                    wire'[i].packet = wire'[j].packet
             PROVE  i = j
  BY DEF NoFrameTwice
<1>4. CASE i \in 1..Len(wire) /\ j \in 1..Len(wire)
  BY <1>2, <1>4 DEF NoFrameTwice
<1>5. CASE i \notin 1..Len(wire) /\ j \notin 1..Len(wire)
  <2>1. i - Len(wire) = j - Len(wire)
    BY <1>3, <1>5 DEF NoFrameTwice
  <2> QED
    BY <1>1, <2>1
<1>6. CASE i \in 1..Len(wire) /\ j \notin 1..Len(wire)
  BY <1>2, <1>3, <1>6 DEF OnTheWire
<1>7. CASE i \notin 1..Len(wire) /\ j \in 1..Len(wire)
  BY <1>2, <1>3, <1>7 DEF OnTheWire
<1> QED
  BY <1>4, <1>5, <1>6, <1>7

\* Where the packets of a step come from and go to: those sent were in hand or
\* in an entry, those that wait afterwards were too and are not sent, and the
\* packet in hand is placed only when its call ends.
LEMMA PlacedAfter ==
  ASSUME IInv, OncePlaced, UNCHANGED rcvd, frame' = frame \/ frame' = None,
         NEW s, Sends(s), NoFrameTwice(s),
         \A e \in sr_arpqueue' : NoPacketTwice(e.packets),
         \A p \in Packet : OnTheWireNext(p, s) => p = frame \/ InAnEntry(p),
         \A p \in Packet : InAnEntry(p)' => (p = frame \/ InAnEntry(p)) /\ ~OnTheWireNext(p, s),
         frame' = frame => ~OnTheWireNext(frame, s) /\ ~InAnEntry(frame)'
  PROVE  OncePlaced'
<1>1. \A k \in 1..Len(s) : s[k].packet \in Packet /\ OnTheWireNext(s[k].packet, s)
  <2>1. \A k \in 1..Len(s) : s[k] \in IpFrame
    BY DEF Sends
  <2>2. \A f \in IpFrame : f.packet \in Packet
    BY DEF IpFrame
  <2> QED
    BY <2>1, <2>2 DEF OnTheWireNext
<1>2. NoFrameTwice(wire)'
  BY <1>1, WireStaysDistinct DEF OncePlaced
<1>3. ASSUME NEW p \in Packet PROVE ~(OnTheWire(p)' /\ InAnEntry(p)')
  BY WireAfter DEF OncePlaced
<1>4. ASSUME NEW p \in Packet, OnTheWire(p)' \/ InAnEntry(p)'
      PROVE  Arrived(p)' /\ frame' # p
  <2>1. OnTheWire(p) \/ InAnEntry(p) \/ p = frame
    BY <1>4, WireAfter
  <2>2. Arrived(p)
    BY <2>1 DEF OncePlaced
  <2>3. frame' # p
    <3>1. CASE frame' = None
      BY <3>1, FramesAssumption
    <3>2. CASE frame' = frame /\ p = frame
      <4>1. OnTheWire(p)
        BY <1>4, <3>2, WireAfter
      <4> QED
        BY <4>1, <3>2 DEF OncePlaced
    <3> QED
      BY <2>1, <3>1, <3>2
  <2> QED
    BY <2>2, <2>3 DEF Arrived
<1>5. (frame \in Packet => Arrived(frame))'
  BY FramesAssumption DEF OncePlaced, Arrived
<1> QED
  BY <1>2, <1>3, <1>4, <1>5 DEF OncePlaced

\* A step that sends nothing about a packet and adds none to an entry.
LEMMA NothingPlaced ==
  ASSUME IInv, OncePlaced, UNCHANGED <<rcvd, wire>>, frame' = frame \/ frame' = None,
         \A g \in sr_arpqueue' : g.packets = <<>> \/ \E e \in sr_arpqueue : g.packets = e.packets
  PROVE  OncePlaced'
<1>1. \A p : OnTheWire(p)' => OnTheWire(p)
  BY DEF OnTheWire
<1>2. \A p : InAnEntry(p)' => InAnEntry(p)
  <2>1. \A p : ~InEntry(p, [packets |-> <<>>])
    BY DEF InEntry
  <2> QED
    BY <2>1 DEF InAnEntry, InEntry
<1>3. \A g \in sr_arpqueue' : NoPacketTwice(g.packets)
  BY DEF OncePlaced, NoPacketTwice
<1>4. NoFrameTwice(wire)'
  BY DEF OncePlaced, NoFrameTwice
<1>5. \A p : Arrived(p)' <=> Arrived(p)
  BY DEF Arrived
<1>6. (frame \in Packet => Arrived(frame))'
  BY <1>5, FramesAssumption DEF OncePlaced, Arrived
<1>7. \A p \in Packet : frame # p => frame' # p
  BY FramesAssumption
<1> QED
  BY <1>1, <1>2, <1>3, <1>4, <1>5, <1>6, <1>7 DEF OncePlaced

LEMMA PlacedReceive == ASSUME IInv, OncePlaced, Receive PROVE OncePlaced'
<1>1. frame = None /\ UNCHANGED <<sr_arpqueue, wire>>
  BY DEF Receive, ReceivePacket, ReceiveArp, StartCall
<1>2. \A p : (OnTheWire(p)' <=> OnTheWire(p)) /\ (InAnEntry(p)' <=> InAnEntry(p))
  BY <1>1 DEF OnTheWire, InAnEntry
<1>3. NoFrameTwice(wire)' /\ \A e \in sr_arpqueue' : NoPacketTwice(e.packets)
  BY <1>1 DEF OncePlaced
<1>4. CASE \E a \in Arp : ReceiveArp(a)
  <2>1. frame' \notin Packet /\ UNCHANGED rcvd
    BY <1>4, FramesAssumption DEF ReceiveArp, StartCall
  <2>2. \A p : Arrived(p)' <=> Arrived(p)
    BY <2>1 DEF Arrived
  <2> QED
    BY <1>2, <1>3, <2>1, <2>2 DEF OncePlaced
<1>5. ASSUME NEW q \in Packet, ReceivePacket(q) PROVE OncePlaced'
  <2>1. frame' = q /\ rcvd' = Append(rcvd, q) /\ ~Arrived(q) /\ rcvd \in Seq(Packet)
    BY <1>5 DEF ReceivePacket, StartCall, Arrived, IInv, TypeOK
  <2>2. /\ Len(rcvd') = Len(rcvd) + 1 /\ Len(rcvd) \in Nat /\ rcvd'[Len(rcvd) + 1] = q
        /\ \A i \in 1..Len(rcvd) : i \in 1..Len(rcvd') /\ rcvd'[i] = rcvd[i]
    BY <2>1
  <2>3. \A p : Arrived(p) => Arrived(p)'
    BY <2>2 DEF Arrived
  <2>4. (frame \in Packet => Arrived(frame))'
    <3>1. Len(rcvd) + 1 \in 1..Len(rcvd')
      BY <2>2
    <3> QED
      BY <2>1, <2>2, <3>1 DEF Arrived
  <2>5. \A p \in Packet : OnTheWire(p) \/ InAnEntry(p) => p # q
    BY <2>1 DEF OncePlaced
  <2> QED
    BY <1>2, <1>3, <2>1, <2>3, <2>4, <2>5 DEF OncePlaced
<1> QED
  BY <1>4, <1>5 DEF Receive

-----------------------------------------------------------------------------
(* Steps that answer or release the packets of an entry.                   *)

\* Frames about packets of e, in their order: no two are about the same packet.
LEMMA EntryFrames ==
  ASSUME IInv, OncePlaced, NEW e \in sr_arpqueue, NEW s \in Seq(IpFrame),
         \A k \in 1..Len(s) : k \in 1..Len(e.packets) /\ s[k].packet = e.packets[k]
  PROVE  NoFrameTwice(s) /\ \A p : OnTheWireNext(p, s) => InEntry(p, e)
BY DEF OncePlaced, NoFrameTwice, NoPacketTwice, OnTheWireNext, InEntry

\* The frames about the packets of e leave, and e is no longer in the queue.
LEMMA EntryLeaves ==
  ASSUME IInv, OncePlaced, EntriesForHop, NEW e \in sr_arpqueue,
         sr_arpqueue' = sr_arpqueue \ {e}, UNCHANGED rcvd, frame' = frame \/ frame' = None,
         NEW s, Sends(s),
         \A k \in 1..Len(s) : k \in 1..Len(e.packets) /\ s[k].packet = e.packets[k]
  PROVE  OncePlaced'
<1>1. NoFrameTwice(s) /\ \A p : OnTheWireNext(p, s) => InEntry(p, e)
  BY EntryFrames DEF Sends
<1>2. \A p \in Packet : OnTheWireNext(p, s) => p = frame \/ InAnEntry(p)
  BY <1>1 DEF InAnEntry
<1>3. \A p \in Packet : InAnEntry(p)' => InAnEntry(p) /\ ~OnTheWireNext(p, s)
  BY <1>1, EntriesApart DEF InAnEntry
<1>4. frame' = frame => ~OnTheWireNext(frame, s) /\ ~InAnEntry(frame)'
  <2>1. ~InAnEntry(frame)
    <3>1. CASE frame \in Packet
      BY <3>1 DEF OncePlaced
    <3>2. CASE frame \notin Packet
      BY <3>2 DEF InAnEntry, InEntry, IInv, TypeOK, QueueEntry
    <3> QED
      BY <3>1, <3>2
  <2> QED
    BY <1>1, <2>1 DEF InAnEntry
<1>5. \A g \in sr_arpqueue' : NoPacketTwice(g.packets)
  BY DEF OncePlaced
<1> QED
  BY <1>1, <1>2, <1>3, <1>4, <1>5, PlacedAfter

\* The frames that answer an entry are about its packets, in order.
LEMMA AnswersInOrder ==
  ASSUME IInv, NEW e \in sr_arpqueue
  PROVE  /\ Unreachables(e.packets) \in Seq(IpFrame)
         /\ \A k \in 1..Len(Unreachables(e.packets)) :
              k \in 1..Len(e.packets) /\ Unreachables(e.packets)[k].packet = e.packets[k]
<1>1. e.packets \in Seq(Packet)
  BY DEF IInv, TypeOK, QueueEntry
<1>2. \A q : UnreachFrame(q).packet = q
  BY DEF UnreachFrame, IcmpFrame
<1> QED
  BY <1>1, <1>2, AnsweredFirst, UnreachablesType

LEMMA PlacedSweep == ASSUME IInv, OncePlaced, EntriesForHop, Sweep PROVE OncePlaced'
<1>1. ASSUME NEW e \in sr_arpqueue, SweepGiveUp(e) PROVE OncePlaced'
  <2>1. /\ sr_arpqueue' = sr_arpqueue \ {e} /\ wire' = wire \o Unreachables(e.packets)
        /\ UNCHANGED <<rcvd, frame>>
    BY <1>1 DEF SweepGiveUp, Sweeping
  <2> QED
    BY <2>1, AnswersInOrder, EntryLeaves DEF Sends
<1>2. ASSUME NEW e \in sr_arpqueue, SweepResend(e) PROVE OncePlaced'
  <2>1. Requested(e).packets = e.packets
    BY <1>2, RequestedType DEF SweepResend, IInv, TypeOK
  <2>2. /\ sr_arpqueue' = (sr_arpqueue \ {e}) \cup {Requested(e)}
        /\ UNCHANGED <<rcvd, frame, wire>>
    BY <1>2 DEF SweepResend, Sweeping
  <2> QED
    BY <2>1, <2>2, NothingPlaced
<1>3. CASE ~ \E e \in sr_arpqueue : SweepGiveUp(e) \/ SweepResend(e)
  <2>1. UNCHANGED <<sr_arpqueue, rcvd, frame, wire>>
    BY <1>3 DEF Sweep, SweepCache, SweepKeep, SweepFreed, Sweeping
  <2> QED
    BY <2>1, NothingPlaced
<1> QED
  BY <1>1, <1>2, <1>3

\* The router answers the packet in hand, or sends it on, with one frame.
LEMMA PlacedOne ==
  ASSUME IInv, OncePlaced, NEW p \in Packet, frame = p, frame' = None,
         UNCHANGED <<sr_arpqueue, rcvd>>, NEW g \in IpFrame, g.packet = p, wire' = SentOne(g)
  PROVE  OncePlaced'
<1>1. CASE g.src = g.iface
  <2> DEFINE s == <<g>>
  <2>1. Len(s) = 1 /\ s[1] = g /\ s \in Seq(IpFrame) /\ wire' = wire \o s
    BY <1>1 DEF SentOne, IInv, TypeOK
  <2> HIDE DEF s
  <2>2. Sends(s) /\ NoFrameTwice(s) /\ \A q : OnTheWireNext(q, s) => q = p
    BY <2>1 DEF Sends, NoFrameTwice, OnTheWireNext
  <2>3. \A q \in Packet : InAnEntry(q)' => InAnEntry(q) /\ q # p
    BY DEF InAnEntry, OncePlaced
  <2>4. \A e \in sr_arpqueue' : NoPacketTwice(e.packets)
    BY DEF OncePlaced
  <2>5. frame' # frame
    BY FramesAssumption
  <2> QED
    BY <2>2, <2>3, <2>4, <2>5, PlacedAfter
<1>2. CASE g.src # g.iface
  BY <1>2, NothingPlaced DEF SentOne
<1> QED
  BY <1>1, <1>2

LEMMA PlacedAnswered ==
  ASSUME IInv, OncePlaced, NEW p \in Packet,
         \/ TtlOver(p) \/ EchoReply(p) \/ PortUnreachable(p)
         \/ \E d \in sr_arpcache : ForwardCached(p, d)
  PROVE  OncePlaced'
<1>h. Hdr[p].iif \in Iface /\ Hdr[p].dhost \in Iface \cup {None} /\ Hdr[p].ttl \in 0..255
  BY FramesAssumption DEF Header
<1>d. frame = p /\ frame' = None /\ UNCHANGED <<sr_arpqueue, rcvd>>
  BY DEF TtlOver, EchoReply, PortUnreachable, ForRouter, ForwardCached, HasRoute, ToForward,
         Dispatching
<1>1. CASE TtlOver(p)
  <2> DEFINE g == IcmpFrame("timex", p, Hdr[p].iif, Hdr[p].ttl)
  <2>1. g \in IpFrame /\ g.packet = p
    BY <1>h, IcmpFrameType DEF IcmpFrame
  <2>2. wire' = wire \/ wire' = SentOne(g)
    BY <1>1 DEF TtlOver
  <2> HIDE DEF g
  <2> QED
    BY <1>d, <2>1, <2>2, PlacedOne, NothingPlaced
<1>2. CASE EchoReply(p)
  <2> DEFINE g == IcmpFrame("echoreply", p, Hdr[p].dhost, TtlLessOne(p))
  <2>1. g \in IpFrame /\ g.packet = p
    BY <1>h, TtlType, IcmpFrameType DEF IcmpFrame
  <2>2. wire' = SentOne(g)
    BY <1>2 DEF EchoReply
  <2> HIDE DEF g
  <2> QED
    BY <1>d, <2>1, <2>2, PlacedOne
<1>3. CASE PortUnreachable(p)
  <2> DEFINE g == IcmpFrame("portunreach", p, Hdr[p].dhost, Hdr[p].ttl)
  <2>1. g \in IpFrame /\ g.packet = p
    BY <1>h, IcmpFrameType DEF IcmpFrame
  <2>2. wire' = SentOne(g)
    BY <1>3 DEF PortUnreachable
  <2> HIDE DEF g
  <2> QED
    BY <1>d, <2>1, <2>2, PlacedOne
<1>4. ASSUME NEW d \in sr_arpcache, ForwardCached(p, d) PROVE OncePlaced'
  <2> DEFINE g == ForwardFrame(p, Route[Hdr[p].dst].iface, d.mac)
  <2>1. g \in IpFrame
    BY <1>4, RouteType, ForwardFrameType DEF ForwardCached, HasRoute, IInv, TypeOK, CacheEntry
  <2>2. wire' = SentOne(g) /\ g.packet = p
    BY <1>4 DEF ForwardCached, ForwardFrame
  <2> HIDE DEF g
  <2> QED
    BY <1>d, <2>1, <2>2, PlacedOne
<1> QED
  BY <1>1, <1>2, <1>3, <1>4

\* The packet in hand joins the queue.
LEMMA PlacedQueued ==
  ASSUME IInv, OncePlaced, NEW p \in Packet, frame = p, frame' = None, UNCHANGED <<rcvd, wire>>,
         NEW f, NoPacketTwice(f.packets),
         \A q \in Packet : InEntry(q, f) => q = p \/ InAnEntry(q),
         \A g \in sr_arpqueue' : g \in sr_arpqueue \/ g = f
  PROVE  OncePlaced'
<1> DEFINE s == <<>>
<1>1. s \in Seq(IpFrame) /\ wire' = wire \o s /\ Len(s) = 0
  BY DEF IInv, TypeOK
<1> HIDE DEF s
<1>2. Sends(s) /\ NoFrameTwice(s) /\ \A q : ~OnTheWireNext(q, s)
  BY <1>1 DEF Sends, NoFrameTwice, OnTheWireNext
<1>3. \A q \in Packet : InAnEntry(q)' => q = p \/ InAnEntry(q)
  BY DEF InAnEntry
<1>4. \A e \in sr_arpqueue' : NoPacketTwice(e.packets)
  BY DEF OncePlaced
<1>5. frame' # frame
  BY FramesAssumption
<1> QED
  BY <1>2, <1>3, <1>4, <1>5, PlacedAfter

LEMMA PlacedWaiting ==
  ASSUME IInv, OncePlaced, NEW p \in Packet,
         QueueNew(p) \/ \E e \in sr_arpqueue : QueueBehind(p, e)
  PROVE  OncePlaced'
<1>d. frame = p /\ frame' = None /\ UNCHANGED <<rcvd, wire>>
  BY DEF QueueNew, QueueBehind, HasRoute, ToForward, Dispatching
<1>1. CASE QueueNew(p)
  <2>1. NewEntry(p).packets = <<p>>
    BY <1>1, NewEntryType DEF QueueNew, HasRoute
  <2>2. sr_arpqueue' = sr_arpqueue \cup {NewEntry(p)}
    BY <1>1 DEF QueueNew
  <2>3. Len(<<p>>) = 1 /\ \A i \in 1..Len(<<p>>) : <<p>>[i] = p /\ i = 1
    OBVIOUS
  <2>4. NoPacketTwice(NewEntry(p).packets) /\ \A q \in Packet : InEntry(q, NewEntry(p)) => q = p
    BY <2>1, <2>3 DEF NoPacketTwice, InEntry
  <2> QED
    BY <1>d, <2>2, <2>4, PlacedQueued
<1>2. ASSUME NEW e \in sr_arpqueue, QueueBehind(p, e) PROVE OncePlaced'
  <2> DEFINE g == IF Overdue(e) THEN Requested(e) ELSE e
             f == [g EXCEPT !.packets = Append(@, p)]
  <2>1. g \in QueueEntry /\ g.packets = e.packets
    BY <1>2, RequestedType DEF QueueBehind, IInv, TypeOK
  <2>2. f.packets = Append(e.packets, p) /\ e.packets \in Seq(Packet)
    <3> HIDE DEF g
    <3> QED
      BY <2>1 DEF QueueEntry
  <2>3. sr_arpqueue' = (sr_arpqueue \ {e}) \cup {f}
    BY <1>2 DEF QueueBehind
  <2> HIDE DEF f, g
  <2>4. /\ Len(f.packets) = Len(e.packets) + 1 /\ Len(e.packets) \in Nat
        /\ f.packets[Len(e.packets) + 1] = p
        /\ \A i \in 1..Len(e.packets) : f.packets[i] = e.packets[i]
    BY <2>2
  <2>5. \A i \in 1..Len(f.packets) : i \in 1..Len(e.packets) \/ i = Len(e.packets) + 1
    BY <2>4
  <2>6. \A i \in 1..Len(e.packets) : e.packets[i] # p
    <3>1. ~InAnEntry(p)
      BY <1>d DEF OncePlaced
    <3> QED
      BY <3>1 DEF InAnEntry, InEntry
  <2>7. NoPacketTwice(f.packets)
    BY <2>4, <2>5, <2>6 DEF OncePlaced, NoPacketTwice
  <2>8. \A q \in Packet : InEntry(q, f) => q = p \/ InAnEntry(q)
    BY <2>4, <2>5 DEF InEntry, InAnEntry
  <2> QED
    BY <1>d, <2>3, <2>7, <2>8, PlacedQueued
<1> QED
  BY <1>1, <1>2

\* The packets of the entry are answered, and the packet in hand after them.
LEMMA PlacedGivenUp ==
  ASSUME IInv, OncePlaced, EntriesForHop, NEW p \in Packet, NEW e \in sr_arpqueue,
         QueueGiveUp(p, e)
  PROVE  OncePlaced'
<1> DEFINE s == Unreachables(e.packets)
           u == UnreachFrame(p)
           f == [e EXCEPT !.packets = <<>>, !.freed = TRUE]
           t == IF ExitsOn(e.packets) THEN s ELSE Append(s, u)
<1>1. s \in Seq(IpFrame) /\ u \in IpFrame /\ wire \in Seq(IpFrame) /\ u.packet = p
  BY AnswersInOrder, UnreachFrameType DEF IInv, TypeOK, UnreachFrame, IcmpFrame
<1>2. NoFrameTwice(s) /\ \A q : OnTheWireNext(q, s) => InEntry(q, e)
  BY AnswersInOrder, EntryFrames
<1>3. /\ wire' = IF ExitsOn(e.packets) THEN wire \o s ELSE Append(wire \o s, u)
      /\ sr_arpqueue' = (sr_arpqueue \ {e}) \cup {f}
      /\ frame = p /\ frame' = None /\ UNCHANGED rcvd
  BY DEF QueueGiveUp, HasRoute, ToForward, Dispatching
<1>4. f.packets = <<>>
  BY DEF IInv, TypeOK, QueueEntry
<1>5. ~InEntry(p, e)
  BY <1>3 DEF OncePlaced, InAnEntry
<1> HIDE DEF s, u, f
<1>6. Append(wire \o s, u) = wire \o Append(s, u) /\ Append(s, u) \in Seq(IpFrame)
  BY <1>1
<1>7. Sends(t)
  BY <1>1, <1>3, <1>6 DEF Sends
<1>8. /\ Len(Append(s, u)) = Len(s) + 1 /\ Len(s) \in Nat /\ Append(s, u)[Len(s) + 1] = u
      /\ \A k \in 1..Len(s) : Append(s, u)[k] = s[k]
  BY <1>1
<1>9. \A k \in 1..Len(Append(s, u)) : k \in 1..Len(s) \/ k = Len(s) + 1
  BY <1>8
<1>10. \A k \in 1..Len(s) : s[k].packet # p
  BY <1>2, <1>5 DEF OnTheWireNext
<1>11. NoFrameTwice(Append(s, u)) /\ \A q : OnTheWireNext(q, Append(s, u)) => InEntry(q, e) \/ q = p
  BY <1>1, <1>2, <1>8, <1>9, <1>10 DEF NoFrameTwice, OnTheWireNext
<1>12. NoFrameTwice(t) /\ \A q : OnTheWireNext(q, t) => InEntry(q, e) \/ q = p
  BY <1>2, <1>11
<1> HIDE DEF t
<1>13. \A q : ~InEntry(q, f)
  BY <1>4 DEF InEntry
<1>14. \A q \in Packet : InAnEntry(q)' => InAnEntry(q) /\ q # p /\ ~InEntry(q, e)
  <2>1. \A q \in Packet : InAnEntry(q)' => \E d \in sr_arpqueue \ {e} : InEntry(q, d)
    BY <1>3, <1>13 DEF InAnEntry
  <2> QED
    BY <1>3, <2>1, EntriesApart DEF InAnEntry, OncePlaced
<1>15. \A g \in sr_arpqueue' : NoPacketTwice(g.packets)
  BY <1>3, <1>4 DEF OncePlaced, NoPacketTwice
<1>16. frame' # frame
  BY <1>3, FramesAssumption
<1> QED
  BY <1>3, <1>7, <1>12, <1>14, <1>15, <1>16, PlacedAfter DEF InAnEntry

LEMMA PlacedArp ==
  ASSUME IInv, OncePlaced, EntriesForHop, NEW a \in Arp,
         \/ IgnoreArp(a) \/ ArpRefresh(a) \/ ArpLearn(a) \/ ArpOverheard(a)
         \/ \E e \in sr_arpqueue : ArpFlush(a, e)
  PROVE  OncePlaced'
<1>d. frame' = None /\ UNCHANGED rcvd
  BY DEF IgnoreArp, ArpRefresh, ArpLearn, ArpOverheard, ArpFlush, HandleArp, Dispatching
<1>1. ASSUME NEW e \in sr_arpqueue, ArpFlush(a, e) PROVE OncePlaced'
  <2> DEFINE s == Flushed(e, a.sha)
  <2>1. e.packets \in Seq(Packet) /\ s \in Seq(IpFrame)
    BY LearntType, FlushedType DEF IInv, TypeOK, QueueEntry
  <2>2. \A k \in 1..Len(s) : k \in 1..Len(e.packets) /\ s[k].packet = e.packets[k]
    BY <2>1 DEF Flushed, ForwardFrame
  <2>3. wire' = wire \o s /\ sr_arpqueue' = sr_arpqueue \ {e}
    BY <1>1 DEF ArpFlush
  <2> HIDE DEF s
  <2> QED
    BY <1>d, <2>1, <2>2, <2>3, EntryLeaves DEF Sends
<1>2. CASE ~ \E e \in sr_arpqueue : ArpFlush(a, e)
  <2>1. UNCHANGED <<sr_arpqueue, wire>>
    BY <1>2 DEF IgnoreArp, ArpRefresh, ArpLearn, ArpOverheard
  <2> QED
    BY <1>d, <2>1, NothingPlaced
<1> QED
  BY <1>1, <1>2

LEMMA PlacedNext ==
  ASSUME IInv, OncePlaced, EntriesForHop, [Next]_vars PROVE OncePlaced'
<1>1. CASE Tick
  <2>1. \A g \in sr_arpqueue' : \E e \in sr_arpqueue : g.packets = e.packets
    BY <1>1 DEF Tick, IInv, TypeOK, QueueEntry
  <2> QED
    BY <1>1, <2>1, NothingPlaced DEF Tick
<1>2. ASSUME NEW p \in Packet, HandlePacket(p) PROVE OncePlaced'
  <2>1. CASE DropBadChecksum(p) \/ IgnoreLocal(p) \/ NoRouteFound(p)
    <3>1. frame' = None /\ UNCHANGED <<sr_arpqueue, rcvd, wire>>
      BY <2>1 DEF DropBadChecksum, IgnoreLocal, NoRouteFound, ForRouter, ToForward, Dispatching
    <3> QED
      BY <3>1, NothingPlaced
  <2> QED
    BY <1>2, <2>1, PlacedAnswered, PlacedWaiting, PlacedGivenUp DEF HandlePacket
<1>3. CASE Stopped \/ UNCHANGED vars
  BY <1>3, NothingPlaced DEF Stopped, vars
<1> QED
  BY <1>1, <1>2, <1>3, PlacedReceive, PlacedSweep, PlacedArp DEF Next, HandleFrame

LEMMA AlwaysPlaced == Spec => []OncePlaced
<1>1. Init => OncePlaced
  BY FramesAssumption DEF Init, OncePlaced, NoFrameTwice, OnTheWire, InAnEntry
<1>2. IInv /\ EntriesForHop /\ OncePlaced /\ [Next]_vars => OncePlaced'
  BY PlacedNext
<1> QED
  BY <1>1, <1>2, Invariance, ForHop, PTL DEF Spec

LEMMA AtMostOne ==
  ASSUME NEW S, \A x, y \in S : x = y
  PROVE  Cardinality(S) = IF S = {} THEN 0 ELSE 1
<1>1. CASE S = {}
  BY <1>1, FS_EmptySet
<1>2. CASE S # {}
  <2>1. PICK x \in S : TRUE
    BY <1>2
  <2>2. S = {x}
    BY <2>1
  <2> QED
    BY <1>2, <2>2, FS_Singleton
<1> QED
  BY <1>1, <1>2

\* A packet is forwarded, answered or kept waiting, and only one of these, once,
\* whatever the packets, the clock and the order of calls: no walk, flush or
\* dispatch handles a packet that another has handled.
THEOREM OneFateEach == Spec => []OneFate
<1>1. IInv /\ EntriesForHop /\ OncePlaced => OneFate
  <2> SUFFICES ASSUME IInv, EntriesForHop, OncePlaced, NEW p \in Packet
               PROVE  Cardinality(OnWire(p)) + Cardinality(Waits(p)) <= 1
    BY DEF OneFate
  <2>1. \A i, j \in OnWire(p) : i = j
    BY DEF OnWire, OncePlaced, NoFrameTwice
  <2>2. \A v, w \in Waits(p) : v = w
    <3> SUFFICES ASSUME NEW v \in Waits(p), NEW w \in Waits(p) PROVE v = w
      OBVIOUS
    <3>1. \A x \in Waits(p) : /\ x = <<x[1], x[2]>> /\ x[1] \in sr_arpqueue
                              /\ x[2] \in 1..Len(x[1].packets) /\ x[1].packets[x[2]] = p
      BY DEF Waits
    <3>2. v[1] = w[1]
      BY <3>1, EntriesApart DEF InEntry
    <3>3. v[2] = w[2]
      BY <3>1, <3>2 DEF OncePlaced, NoPacketTwice
    <3> QED
      BY <3>1, <3>2, <3>3
  <2>3. OnWire(p) = {} \/ Waits(p) = {}
    <3>1. OnWire(p) # {} => OnTheWire(p)
      BY DEF OnWire, OnTheWire
    <3>2. Waits(p) # {} => InAnEntry(p)
      BY DEF Waits, InAnEntry, InEntry
    <3> QED
      BY <3>1, <3>2 DEF OncePlaced
  <2>4. /\ Cardinality(OnWire(p)) = IF OnWire(p) = {} THEN 0 ELSE 1
        /\ Cardinality(Waits(p)) = IF Waits(p) = {} THEN 0 ELSE 1
    BY <2>1, <2>2, AtMostOne
  <2> QED
    BY <2>3, <2>4
<1> QED
  BY <1>1, Invariance, ForHop, AlwaysPlaced, PTL
-----------------------------------------------------------------------------
(* Packets leave in the order they came.                                   *)

\* The packet in hand is the last that came.
FrameIsLast == frame \in Packet => Len(rcvd) >= 1 /\ rcvd[Len(rcvd)] = frame

LEMMA LastInHand == Spec => []FrameIsLast
<1>1. Init => FrameIsLast
  BY FramesAssumption DEF Init, FrameIsLast
<1>2. IInv /\ FrameIsLast /\ [Next]_vars => FrameIsLast'
  <2> SUFFICES ASSUME IInv, FrameIsLast, [Next]_vars PROVE FrameIsLast'
    OBVIOUS
  <2>1. ASSUME NEW p \in Packet, ReceivePacket(p) PROVE FrameIsLast'
    <3>1. rcvd \in Seq(Packet) /\ rcvd' = Append(rcvd, p) /\ frame' = p
      BY <2>1 DEF IInv, TypeOK, ReceivePacket, StartCall
    <3> QED
      BY <3>1 DEF FrameIsLast
  <2>2. CASE \E a \in Arp : ReceiveArp(a)
    BY <2>2, FramesAssumption DEF ReceiveArp, StartCall, FrameIsLast
  <2>3. CASE ~Receive
    <3>1. UNCHANGED rcvd
      BY <2>3 DEF Next, Tick, Sweep, SweepCache, SweepKeep, SweepResend, SweepGiveUp, SweepFreed,
                  Sweeping, Stopped, vars, HandleFrame, HandlePacket, DropBadChecksum, TtlOver,
                  EchoReply, PortUnreachable, IgnoreLocal, ForRouter, NoRouteFound, QueueNew,
                  ForwardCached, QueueBehind, QueueGiveUp, HasRoute, ToForward, IgnoreArp,
                  ArpRefresh, ArpLearn, ArpFlush, ArpOverheard, HandleArp, Dispatching
    <3>2. frame' = frame \/ frame' = None
      BY <2>3, CallEnds DEF Next, Tick, Sweep, SweepCache, SweepKeep, SweepResend, SweepGiveUp,
                  SweepFreed, Sweeping, Stopped, vars
    <3> QED
      BY <3>1, <3>2, FramesAssumption DEF FrameIsLast
  <2> QED
    BY <2>1, <2>2, <2>3 DEF Receive
<1> QED
  BY <1>1, <1>2, Invariance, PTL DEF Spec

\* What came before the packet in hand.
LEMMA BeforeFrame ==
  ASSUME IInv, FrameIsLast, frame \in Packet, NEW q, Arrived(q), q # frame
  PROVE  Before(q, frame)
<1>1. Len(rcvd) \in Nat /\ Len(rcvd) \in 1..Len(rcvd) /\ rcvd[Len(rcvd)] = frame
  BY DEF FrameIsLast, IInv, TypeOK
<1>2. PICK m \in 1..Len(rcvd) : rcvd[m] = q
  BY DEF Arrived
<1>3. m < Len(rcvd)
  BY <1>1, <1>2
<1> QED
  BY <1>1, <1>2, <1>3 DEF Before

LEMMA BeforeKept ==
  ASSUME IInv, UNCHANGED rcvd \/ \E x \in Packet : rcvd' = Append(rcvd, x),
         NEW p, NEW q, Before(p, q)
  PROVE  Before(p, q)'
<1>1. rcvd \in Seq(Packet)
  BY DEF IInv, TypeOK
<1>2. \A i \in 1..Len(rcvd) : i \in 1..Len(rcvd') /\ rcvd'[i] = rcvd[i]
  BY <1>1
<1> QED
  BY <1>2 DEF Before

\* A step that forwards nothing and whose entries have the packets they had.
LEMMA OrderKept ==
  ASSUME IInv, NoOvertaking, Grows, NewFrames("forward") = {},
         UNCHANGED rcvd \/ \E x \in Packet : rcvd' = Append(rcvd, x),
         \A g \in sr_arpqueue' : \/ g.packets = <<>>
                                 \/ \E e \in sr_arpqueue : g.ip = e.ip /\ g.packets = e.packets
  PROVE  NoOvertaking'
<1>w. Len(wire) \in Nat
  BY DEF IInv, TypeOK
<1>1. \A ip \in IP : \A i \in ForwardedAt(ip)' : i \in ForwardedAt(ip) /\ wire'[i] = wire[i]
  <2> SUFFICES ASSUME NEW ip \in IP, NEW i \in 1..Len(wire'), wire'[i].kind = "forward",
                      NextHop(wire'[i].packet) = ip
               PROVE  i \in ForwardedAt(ip) /\ wire'[i] = wire[i]
    BY DEF ForwardedAt, NextHop
  <2>1. i \in 1..Len(wire)
    BY <1>w DEF NewFrames
  <2> QED
    BY <2>1 DEF Grows, ForwardedAt
<1>2. \A p, q : Before(p, q) => Before(p, q)'
  BY BeforeKept
<1>3. \A k \in 1..Len(<<>>) : FALSE
  OBVIOUS
<1> QED
  BY <1>1, <1>2, <1>3 DEF NoOvertaking

\* A packet behind all that wait for its hop.
LEMMA OrderQueued ==
  ASSUME IInv, NoOvertaking, OncePlaced, FrameIsLast, UNCHANGED <<wire, rcvd>>,
         NEW p \in Packet, frame = p, NEW s \in Seq(Packet), NEW f, f.packets = Append(s, p),
         s = <<>> \/ \E e \in sr_arpqueue : e.ip = f.ip /\ e.packets = s,
         \A g \in sr_arpqueue' : g \in sr_arpqueue \/ g = f
  PROVE  NoOvertaking'
<1>1. \A ip \in IP : ForwardedAt(ip)' = ForwardedAt(ip)
  BY DEF ForwardedAt, NextHop
<1>2. \A x, y : Before(x, y)' <=> Before(x, y)
  BY DEF Before
<1>3. /\ Len(f.packets) = Len(s) + 1 /\ Len(s) \in Nat /\ f.packets[Len(s) + 1] = p
      /\ \A k \in 1..Len(s) : f.packets[k] = s[k]
  OBVIOUS
<1>4. \A k \in 1..Len(s) : Before(s[k], p)
  <2> SUFFICES ASSUME NEW k \in 1..Len(s) PROVE Before(s[k], p)
    OBVIOUS
  <2>1. s # <<>>
    OBVIOUS
  <2>2. InAnEntry(s[k]) /\ s[k] \in Packet
    BY <2>1 DEF InAnEntry, InEntry
  <2> QED
    BY <2>2, BeforeFrame DEF OncePlaced
<1>5. \A i \in 1..Len(wire) : Before(wire[i].packet, p)
  <2> SUFFICES ASSUME NEW i \in 1..Len(wire) PROVE Before(wire[i].packet, p)
    OBVIOUS
  <2>1. wire[i] \in IpFrame
    BY DEF IInv, TypeOK
  <2>2. wire[i].packet \in Packet /\ OnTheWire(wire[i].packet)
    BY <2>1 DEF IpFrame, OnTheWire
  <2> QED
    BY <2>2, BeforeFrame DEF OncePlaced
<1>6. \A k \in 1..Len(f.packets) : k \in 1..Len(s) \/ k = Len(s) + 1
  BY <1>3
<1>7. \A k, l \in 1..Len(f.packets) : k < l => k \in 1..Len(s)
  BY <1>3
<1>8. f.ip \in IP => \A k, l \in 1..Len(f.packets) : k < l => Before(f.packets[k], f.packets[l])
  <2> SUFFICES ASSUME f.ip \in IP, NEW k \in 1..Len(f.packets), NEW l \in 1..Len(f.packets), k < l
               PROVE  Before(f.packets[k], f.packets[l])
    OBVIOUS
  <2>1. k \in 1..Len(s) /\ s # <<>>
    BY <1>7
  <2>2. CASE l = Len(s) + 1
    BY <1>3, <1>4, <2>1, <2>2
  <2>3. CASE l \in 1..Len(s)
    BY <1>3, <2>1, <2>3 DEF NoOvertaking
  <2> QED
    BY <1>6, <2>2, <2>3
<1>9. f.ip \in IP => \A i \in ForwardedAt(f.ip), k \in 1..Len(f.packets) :
                       Before(wire[i].packet, f.packets[k])
  <2> SUFFICES ASSUME f.ip \in IP, NEW i \in ForwardedAt(f.ip), NEW k \in 1..Len(f.packets)
               PROVE  Before(wire[i].packet, f.packets[k])
    OBVIOUS
  <2>1. CASE k = Len(s) + 1
    BY <1>3, <1>5, <2>1 DEF ForwardedAt
  <2>2. CASE k \in 1..Len(s)
    <3>1. s # <<>>
      BY <2>2
    <3> QED
      BY <1>3, <2>2, <3>1 DEF NoOvertaking
  <2> QED
    BY <1>6, <2>1, <2>2
<1> QED
  BY <1>1, <1>2, <1>8, <1>9 DEF NoOvertaking
\* A packet sent on at once: nothing waits for its hop.
LEMMA OrderCached ==
  ASSUME IInv, NoOvertaking, OncePlaced, FrameIsLast,
         NEW p \in Packet, NEW d \in sr_arpcache, ForwardCached(p, d)
  PROVE  NoOvertaking'
<1> DEFINE g == ForwardFrame(p, Route[Hdr[p].dst].iface, d.mac)
<1>0. frame = p /\ UNCHANGED <<sr_arpqueue, rcvd>> /\ wire \in Seq(IpFrame) /\ d.ip = NextHop(p)
  BY DEF ForwardCached, HasRoute, ToForward, Dispatching, IInv, TypeOK
<1>1. g \in IpFrame /\ g.packet = p /\ wire' = Append(wire, g)
  BY RouteType, ForwardFrameType DEF ForwardCached, HasRoute, IInv, TypeOK, CacheEntry,
                                     ForwardFrame, SentOne
<1> HIDE DEF g
<1>2. /\ Len(wire') = Len(wire) + 1 /\ Len(wire) \in Nat /\ wire'[Len(wire) + 1] = g
      /\ \A i \in 1..Len(wire) : wire'[i] = wire[i]
  BY <1>0, <1>1
<1>3. \A x, y : Before(x, y)' <=> Before(x, y)
  BY <1>0 DEF Before
<1>4. \A i \in 1..Len(wire) : Before(wire[i].packet, p)
  <2> SUFFICES ASSUME NEW i \in 1..Len(wire) PROVE Before(wire[i].packet, p)
    OBVIOUS
  <2>1. wire[i] \in IpFrame
    BY <1>0
  <2>2. wire[i].packet \in Packet /\ OnTheWire(wire[i].packet)
    BY <2>1 DEF IpFrame, OnTheWire
  <2> QED
    BY <1>0, <2>2, BeforeFrame DEF OncePlaced
<1>5. \A ip \in IP : \A i \in ForwardedAt(ip)' :
        \/ i \in ForwardedAt(ip) /\ wire'[i] = wire[i]
        \/ i = Len(wire) + 1 /\ ip = NextHop(p)
  <2> SUFFICES ASSUME NEW ip \in IP, NEW i \in 1..Len(wire'), wire'[i].kind = "forward",
                      NextHop(wire'[i].packet) = ip
               PROVE  \/ i \in ForwardedAt(ip) /\ wire'[i] = wire[i]
                      \/ i = Len(wire) + 1 /\ ip = NextHop(p)
    BY DEF ForwardedAt, NextHop
  <2>1. i \in 1..Len(wire) \/ i = Len(wire) + 1
    BY <1>2
  <2>2. CASE i \in 1..Len(wire)
    BY <1>2, <2>2 DEF ForwardedAt
  <2>3. CASE i = Len(wire) + 1
    BY <1>1, <1>2, <2>3
  <2> QED
    BY <2>1, <2>2, <2>3
<1>6. \A e \in sr_arpqueue : e.ip # NextHop(p)
  BY <1>0 DEF IInv, CacheQueueDisjoint
<1>7. ASSUME NEW ip \in IP, NEW i \in ForwardedAt(ip)', NEW j \in ForwardedAt(ip)', i < j
      PROVE  Before(wire'[i].packet, wire'[j].packet)
  <2>1. i \in 1..Len(wire') /\ j \in 1..Len(wire')
    BY DEF ForwardedAt
  <2>2. i \in 1..Len(wire)
    BY <1>2, <1>7, <2>1
  <2>3. CASE j = Len(wire) + 1
    BY <1>1, <1>2, <1>4, <2>2, <2>3
  <2>4. CASE j # Len(wire) + 1
    BY <1>2, <1>5, <1>7, <2>2, <2>4 DEF NoOvertaking
  <2> QED
    BY <2>3, <2>4
<1>8. ASSUME NEW ip \in IP, NEW e \in sr_arpqueue, e.ip = ip, NEW i \in ForwardedAt(ip)'
      PROVE  i \in ForwardedAt(ip) /\ wire'[i] = wire[i]
  BY <1>5, <1>6, <1>8
<1> QED
  BY <1>0, <1>3, <1>7, <1>8 DEF NoOvertaking

\* The packets of an entry leave in their order, behind those already sent, and
\* no other entry is for their hop.
LEMMA OrderFlushed ==
  ASSUME IInv, EntriesForHop, NoOvertaking,
         NEW a \in Arp, NEW e \in sr_arpqueue, ArpFlush(a, e)
  PROVE  NoOvertaking'
<1> DEFINE s == Flushed(e, a.sha)
<1>0. e.packets \in Seq(Packet) /\ wire \in Seq(IpFrame) /\ s \in Seq(IpFrame) /\ e.ip \in IP
  BY LearntType, FlushedType DEF IInv, TypeOK, QueueEntry
<1>1. /\ Len(s) = Len(e.packets)
      /\ \A k \in 1..Len(s) : s[k].packet = e.packets[k]
  BY <1>0 DEF Flushed, ForwardFrame
<1>2. wire' = wire \o s /\ sr_arpqueue' = sr_arpqueue \ {e} /\ UNCHANGED rcvd
  BY DEF ArpFlush, HandleArp, Dispatching
<1> HIDE DEF s
<1>3. /\ Len(wire') = Len(wire) + Len(s) /\ Len(wire) \in Nat /\ Len(s) \in Nat
      /\ \A i \in 1..Len(wire) : wire'[i] = wire[i]
  BY <1>0, <1>2
<1>4. \A i \in 1..Len(wire') : i \notin 1..Len(wire) =>
        i - Len(wire) \in 1..Len(e.packets) /\ wire'[i].packet = e.packets[i - Len(wire)]
  <2> SUFFICES ASSUME NEW i \in 1..Len(wire'), i \notin 1..Len(wire)
               PROVE  /\ i - Len(wire) \in 1..Len(e.packets)
                      /\ wire'[i].packet = e.packets[i - Len(wire)]
    OBVIOUS
  <2>1. i - Len(wire) \in 1..Len(s) /\ wire'[i] = s[i - Len(wire)]
    BY <1>0, <1>2, <1>3
  <2> QED
    BY <1>1, <2>1
<1>5. \A x, y : Before(x, y)' <=> Before(x, y)
  BY <1>2 DEF Before
<1>6. \A ip \in IP : \A i \in ForwardedAt(ip)' :
        \/ i \in ForwardedAt(ip) /\ wire'[i] = wire[i]
        \/ i \notin 1..Len(wire) /\ ip = e.ip
  <2> SUFFICES ASSUME NEW ip \in IP, NEW i \in 1..Len(wire'), wire'[i].kind = "forward",
                      NextHop(wire'[i].packet) = ip
               PROVE  \/ i \in ForwardedAt(ip) /\ wire'[i] = wire[i]
                      \/ i \notin 1..Len(wire) /\ ip = e.ip
    BY DEF ForwardedAt, NextHop
  <2>1. CASE i \in 1..Len(wire)
    BY <1>3, <2>1 DEF ForwardedAt
  <2>2. CASE i \notin 1..Len(wire)
    BY <1>4, <2>2 DEF EntriesForHop
  <2> QED
    BY <2>1, <2>2
<1>7. \A d \in sr_arpqueue' : d \in sr_arpqueue /\ d.ip # e.ip
  BY <1>2 DEF IInv, UniqueEntries
<1>8. ASSUME NEW ip \in IP, NEW i \in ForwardedAt(ip)', NEW j \in ForwardedAt(ip)', i < j
      PROVE  Before(wire'[i].packet, wire'[j].packet)
  <2>1. i \in 1..Len(wire') /\ j \in 1..Len(wire')
    BY DEF ForwardedAt
  <2>2. CASE i \in 1..Len(wire) /\ j \in 1..Len(wire)
    BY <1>6, <1>8, <2>2 DEF NoOvertaking
  <2>3. CASE i \in 1..Len(wire) /\ j \notin 1..Len(wire)
    <3>0. ip = e.ip
      <4>1. j \notin ForwardedAt(ip)
        BY <2>3 DEF ForwardedAt
      <4> QED
        BY <1>6, <4>1
    <3>1. i \in ForwardedAt(e.ip) /\ wire'[i] = wire[i]
      <4>1. i \in ForwardedAt(ip) /\ wire'[i] = wire[i]
        BY <1>6, <2>3
      <4> QED
        BY <3>0, <4>1
    <3>2. j - Len(wire) \in 1..Len(e.packets) /\ wire'[j].packet = e.packets[j - Len(wire)]
      BY <1>4, <2>1, <2>3
    <3> QED
      BY <1>0, <3>1, <3>2 DEF NoOvertaking
  <2>4. CASE i \notin 1..Len(wire)
    <3>1. /\ i - Len(wire) \in 1..Len(e.packets) /\ wire'[i].packet = e.packets[i - Len(wire)]
      BY <1>4, <2>1, <2>4
    <3>2. j \notin 1..Len(wire)
      BY <1>3, <1>8, <2>1, <2>4
    <3>3. j - Len(wire) \in 1..Len(e.packets) /\ wire'[j].packet = e.packets[j - Len(wire)]
      BY <1>4, <2>1, <3>2
    <3>4. i - Len(wire) < j - Len(wire)
      BY <1>3, <1>8, <2>1
    <3> QED
      BY <1>0, <3>1, <3>3, <3>4 DEF NoOvertaking
  <2> QED
    BY <2>2, <2>3, <2>4
<1>9. ASSUME NEW ip \in IP, NEW d \in sr_arpqueue', d.ip = ip, NEW i \in ForwardedAt(ip)'
      PROVE  i \in ForwardedAt(ip) /\ wire'[i] = wire[i]
  BY <1>6, <1>7, <1>9
<1> QED
  BY <1>5, <1>7, <1>8, <1>9 DEF NoOvertaking

LEMMA OrderPacket ==
  ASSUME IInv, NoOvertaking, OncePlaced, FrameIsLast, NEW p \in Packet, HandlePacket(p), Grows,
         ~(\E d \in sr_arpcache : ForwardCached(p, d)), NewFrames("forward") = {}
  PROVE  NoOvertaking'
<1>d. frame = p /\ UNCHANGED rcvd
  BY DEF HandlePacket, DropBadChecksum, TtlOver, EchoReply, PortUnreachable, IgnoreLocal,
         ForRouter, NoRouteFound, QueueNew, ForwardCached, QueueBehind, QueueGiveUp,
         HasRoute, ToForward, Dispatching
<1>1. CASE QueueNew(p)
  <2> DEFINE s == <<>>
  <2>1. NewEntry(p).packets = <<p>>
    BY <1>1, NewEntryType DEF QueueNew, HasRoute
  <2>2. NewEntry(p).packets = Append(s, p) /\ s \in Seq(Packet)
    BY <2>1
  <2>3. sr_arpqueue' = sr_arpqueue \cup {NewEntry(p)} /\ UNCHANGED wire
    BY <1>1 DEF QueueNew
  <2> QED
    BY <1>d, <2>2, <2>3, OrderQueued
<1>2. ASSUME NEW e \in sr_arpqueue, QueueBehind(p, e) PROVE NoOvertaking'
  <2> DEFINE g == IF Overdue(e) THEN Requested(e) ELSE e
             f == [g EXCEPT !.packets = Append(@, p)]
  <2>1. g \in QueueEntry /\ g.packets = e.packets /\ g.ip = e.ip
    BY <1>2, RequestedType DEF QueueBehind, IInv, TypeOK
  <2>2. f.packets = Append(e.packets, p) /\ f.ip = e.ip /\ e.packets \in Seq(Packet)
    <3> HIDE DEF g
    <3> QED
      BY <2>1 DEF QueueEntry
  <2>3. sr_arpqueue' = (sr_arpqueue \ {e}) \cup {f} /\ UNCHANGED wire
    BY <1>2 DEF QueueBehind
  <2> HIDE DEF f, g
  <2> QED
    BY <1>d, <2>2, <2>3, OrderQueued
<1>3. ASSUME NEW e \in sr_arpqueue, QueueGiveUp(p, e) PROVE NoOvertaking'
  <2> DEFINE f == [e EXCEPT !.packets = <<>>, !.freed = TRUE]
  <2>1. f.packets = <<>>
    BY DEF IInv, TypeOK, QueueEntry
  <2>2. sr_arpqueue' = (sr_arpqueue \ {e}) \cup {f}
    BY <1>3 DEF QueueGiveUp
  <2> HIDE DEF f
  <2> QED
    BY <1>d, <2>1, <2>2, OrderKept
<1>4. ASSUME \/ DropBadChecksum(p) \/ TtlOver(p) \/ EchoReply(p) \/ PortUnreachable(p)
             \/ IgnoreLocal(p) \/ NoRouteFound(p)
      PROVE  NoOvertaking'
  <2>1. UNCHANGED sr_arpqueue
    BY <1>4 DEF DropBadChecksum, TtlOver, EchoReply, PortUnreachable, IgnoreLocal, ForRouter,
                NoRouteFound
  <2> QED
    BY <1>d, <2>1, OrderKept
<1> QED
  BY <1>1, <1>2, <1>3, <1>4 DEF HandlePacket

LEMMA OrderNext ==
  ASSUME IInv, EntriesForHop, OncePlaced, FrameIsLast, NoOvertaking, [Next]_vars
  PROVE  NoOvertaking'
<1>1. ASSUME NEW p \in Packet, NEW d \in sr_arpcache, ForwardCached(p, d) PROVE NoOvertaking'
  BY <1>1, OrderCached
<1>2. ASSUME NEW a \in Arp, NEW e \in sr_arpqueue, ArpFlush(a, e) PROVE NoOvertaking'
  BY <1>2, OrderFlushed
<1>3. CASE /\ ~(\E p \in Packet, d \in sr_arpcache : ForwardCached(p, d))
           /\ ~(\E a \in Arp, e \in sr_arpqueue : ArpFlush(a, e))
  <2>1. NewFrames("forward") = {} /\ Grows
    BY <1>3, EveryOrigin, WireGrows DEF Origin, SentOn, Released
  <2>2. ASSUME NEW p \in Packet, HandlePacket(p) PROVE NoOvertaking'
    BY <1>3, <2>1, <2>2, OrderPacket
  <2>3. CASE Tick
    <3>1. \A g \in sr_arpqueue' : \E e \in sr_arpqueue : g.ip = e.ip /\ g.packets = e.packets
      BY <2>3 DEF Tick, IInv, TypeOK, QueueEntry
    <3> QED
      BY <2>1, <2>3, <3>1, OrderKept DEF Tick
  <2>4. CASE Receive
    <3>1. UNCHANGED sr_arpqueue
      BY <2>4 DEF Receive, ReceivePacket, ReceiveArp, StartCall
    <3>2. UNCHANGED rcvd \/ \E x \in Packet : rcvd' = Append(rcvd, x)
      BY <2>4 DEF Receive, ReceivePacket, ReceiveArp
    <3> QED
      BY <2>1, <3>1, <3>2, OrderKept
  <2>5. CASE Sweep
    <3>1. UNCHANGED rcvd
      BY <2>5 DEF Sweep, SweepCache, SweepKeep, SweepResend, SweepGiveUp, SweepFreed, Sweeping
    <3>2. ASSUME NEW e \in sr_arpqueue, SweepResend(e) PROVE NoOvertaking'
      <4>1. Requested(e).packets = e.packets /\ Requested(e).ip = e.ip
        BY <3>2, RequestedType DEF SweepResend, IInv, TypeOK
      <4>2. sr_arpqueue' = (sr_arpqueue \ {e}) \cup {Requested(e)}
        BY <3>2 DEF SweepResend
      <4> QED
        BY <2>1, <3>1, <4>1, <4>2, OrderKept
    <3>3. CASE ~ \E e \in sr_arpqueue : SweepResend(e)
      <4>1. sr_arpqueue' \subseteq sr_arpqueue
        BY <2>5, <3>3 DEF Sweep, SweepCache, SweepKeep, SweepGiveUp, SweepFreed
      <4> QED
        BY <2>1, <3>1, <4>1, OrderKept
    <3> QED
      BY <3>2, <3>3
  <2>6. ASSUME NEW a \in Arp, IgnoreArp(a) \/ ArpRefresh(a) \/ ArpLearn(a) \/ ArpOverheard(a)
        PROVE  NoOvertaking'
    <3>1. UNCHANGED <<sr_arpqueue, rcvd>>
      BY <2>6 DEF IgnoreArp, ArpRefresh, ArpLearn, ArpOverheard, HandleArp, Dispatching
    <3> QED
      BY <2>1, <3>1, OrderKept
  <2>7. CASE Stopped \/ UNCHANGED vars
    BY <2>1, <2>7, OrderKept DEF Stopped, vars
  <2> QED
    BY <1>3, <2>2, <2>3, <2>4, <2>5, <2>6, <2>7 DEF Next, HandleFrame
<1> QED
  BY <1>1, <1>2, <1>3

\* Packets to one next hop leave in the order they came, for any packets,
\* routes, clock and order of calls: arpq_entry_clear empties an entry in order,
\* arp_cache_add and it are one step, and the cache is asked before the queue.
THEOREM KeepsOrder == Spec => []NoOvertaking
<1>1. Init => NoOvertaking
  BY DEF Init, NoOvertaking, ForwardedAt
<1>2. IInv /\ EntriesForHop /\ OncePlaced /\ FrameIsLast /\ NoOvertaking /\ [Next]_vars
        => NoOvertaking'
  BY OrderNext
<1> QED
  BY <1>1, <1>2, Invariance, ForHop, AlwaysPlaced, LastInHand, PTL DEF Spec
-----------------------------------------------------------------------------
(* What is lost is lost behind an ICMP error.                              *)

\* p came with or after an ICMP error for the same next hop.
BehindError(p) ==
  \E i, j \in 1..Len(rcvd) :
    /\ i <= j /\ rcvd[j] = p
    /\ IsIcmpError(rcvd[i]) /\ NextHop(rcvd[i]) = NextHop(p)

Accounted(p) == OnTheWire(p) \/ InAnEntry(p) \/ BehindError(p)

NothingElseLost ==
  status = "running" =>
    \A p \in Packet : Forwardable(p) /\ Arrived(p) /\ frame # p => Accounted(p)

\* A set of natural numbers that is not empty has a least element.
LEMMA LeastNumber ==
  ASSUME NEW S \in SUBSET Nat, NEW n \in S
  PROVE  \E m \in S : \A k \in S : m <= k
<1> DEFINE R == {ss \in Nat \X Nat : ss[1] < ss[2]}
<1>1. IsWellFoundedOn(R, Nat)
  BY NatLessThanWellFounded, Zenon DEF OpToRel
<1> HIDE DEF R
<1>2. PICK m \in S : \A k \in S : <<k, m>> \notin R
  BY <1>1, WFMin
<1>3. \A k \in S : ~(k < m)
  BY <1>2 DEF R
<1> QED
  BY <1>3

\* If the answers to an entry do not end the process, a packet of it is answered
\* or has an ICMP error before it.
LEMMA AnsweredOrBehind ==
  ASSUME NEW packets \in Seq(Packet), ~ExitsOn(packets), NEW k \in 1..Len(packets),
         k \notin Answered(packets)
  PROVE  \E m \in 1..k : IsIcmpError(packets[m])
<1>0. Len(packets) \in Nat /\ k \in Nat
  OBVIOUS
<1> DEFINE S == {m \in 1..k : StopsAt(packets[m])}
<1>1. S \in SUBSET Nat /\ S # {}
  BY DEF Answered
<1>2. PICK m \in S : \A n \in S : m <= n
  BY <1>1, LeastNumber
<1>3. m \in 1..k /\ StopsAt(packets[m]) /\ \A n \in 1..(m - 1) : ~StopsAt(packets[n])
  <2>1. m \in 1..k /\ StopsAt(packets[m])
    OBVIOUS
  <2>2. ASSUME NEW n \in 1..(m - 1) PROVE ~StopsAt(packets[n])
    <3>1. n \in 1..k /\ n < m
      BY <2>1, <1>0
    <3> QED
      BY <1>2, <2>1, <3>1, <1>0
  <2> QED
    BY <2>1, <2>2
<1> HIDE DEF S
<1>4. m \in 1..Len(packets)
  BY <1>0, <1>3
<1> QED
  BY <1>3, <1>4 DEF StopsAt, ExitsOn

\* The k-th packet answered is answered by the k-th frame.
LEMMA AnswersReach ==
  ASSUME NEW packets \in Seq(Packet), NEW k \in Answered(packets)
  PROVE  /\ k \in 1..Len(Unreachables(packets))
         /\ Unreachables(packets)[k].packet = packets[k]
<1> DEFINE A == Answered(packets)
<1>0. Len(packets) \in Nat /\ k \in 1..Len(packets) /\ A \subseteq 1..Len(packets)
  BY DEF Answered
<1>1. \A n \in Nat : IsFiniteSet(1..n) /\ Cardinality(1..n) = n
  BY FS_Interval
<1>2. 1..k \subseteq A
  <2> SUFFICES ASSUME NEW i \in 1..k PROVE i \in Answered(packets)
    OBVIOUS
  <2>1. i \in 1..Len(packets) /\ \A j \in 1..i : j \in 1..k
    BY <1>0
  <2> QED
    BY <2>1 DEF Answered
<1> HIDE DEF A
<1>3. IsFiniteSet(A) /\ Cardinality(A) \in Nat
  BY <1>0, <1>1, FS_Subset, FS_CardinalityType
<1>4. k <= Cardinality(A)
  <2>1. Cardinality(1..k) <= Cardinality(A)
    BY <1>2, <1>3, FS_Subset
  <2> QED
    BY <1>0, <1>1, <2>1
<1>5. k \in 1..Cardinality(A)
  BY <1>0, <1>3, <1>4
<1>6. k \in 1..Len(Unreachables(packets)) /\ Unreachables(packets)[k] = UnreachFrame(packets[k])
  BY <1>3, <1>5 DEF Unreachables, A
<1> QED
  BY <1>6 DEF UnreachFrame, IcmpFrame

\* A frame that is sent is on the wire.
LEMMA SentIsOnTheWire ==
  ASSUME IInv, NEW s, Sends(s), NEW k \in 1..Len(s)
  PROVE  OnTheWire(s[k].packet)'
<1>1. wire \in Seq(IpFrame) /\ s \in Seq(IpFrame) /\ wire' = wire \o s
  BY DEF IInv, TypeOK, Sends
<1> HIDE DEF IpFrame
<1>2. Len(wire) + k \in 1..Len(wire') /\ wire'[Len(wire) + k] = s[k]
  BY <1>1
<1> QED
  BY <1>2 DEF OnTheWire

\* The packets of an entry that is answered, while the process goes on.
LEMMA EntryAnswered ==
  ASSUME IInv, EntriesForHop, OncePlaced, NoOvertaking,
         NEW e \in sr_arpqueue, ~ExitsOn(e.packets),
         NEW s, Sends(s), \A k \in 1..Len(Unreachables(e.packets)) :
                            k \in 1..Len(s) /\ s[k] = Unreachables(e.packets)[k],
         NEW p, InEntry(p, e)
  PROVE  OnTheWire(p)' \/ BehindError(p)
<1>0. e.packets \in Seq(Packet) /\ e.ip \in IP
  BY DEF IInv, TypeOK, QueueEntry
<1>1. PICK k \in 1..Len(e.packets) : e.packets[k] = p
  BY DEF InEntry
<1>2. CASE k \in Answered(e.packets)
  <2>1. k \in 1..Len(s) /\ s[k].packet = p
    BY <1>0, <1>1, <1>2, AnswersReach
  <2> QED
    BY <2>1, SentIsOnTheWire
<1>3. CASE k \notin Answered(e.packets)
  <2>1. PICK m \in 1..k : IsIcmpError(e.packets[m])
    BY <1>0, <1>3, AnsweredOrBehind
  <2>2. m \in 1..Len(e.packets) /\ (m < k \/ m = k)
    BY <1>0, <1>1
  <2>3. NextHop(e.packets[m]) = e.ip /\ NextHop(p) = e.ip
    BY <1>1, <2>2 DEF EntriesForHop
  <2>4. CASE m < k
    <3>1. Before(e.packets[m], p)
      BY <1>0, <1>1, <2>2, <2>4 DEF NoOvertaking
    <3>2. PICK i, j \in 1..Len(rcvd) : i < j /\ rcvd[i] = e.packets[m] /\ rcvd[j] = p
      BY <3>1 DEF Before
    <3>3. i <= j
      BY <3>2
    <3> QED
      BY <2>1, <2>3, <3>2, <3>3 DEF BehindError
  <2>5. CASE m = k
    <3>1. Arrived(p)
      <4>1. p \in Packet /\ InAnEntry(p)
        BY <1>0, <1>1 DEF InAnEntry
      <4> QED
        BY <4>1 DEF OncePlaced
    <3>2. PICK i \in 1..Len(rcvd) : rcvd[i] = p
      BY <3>1 DEF Arrived
    <3>3. i <= i
      OBVIOUS
    <3> QED
      BY <1>1, <2>1, <2>5, <3>2, <3>3 DEF BehindError
  <2> QED
    BY <2>2, <2>4, <2>5
<1> QED
  BY <1>2, <1>3

\* A step that accounts for what waited, and for the frame in hand if it ends
\* its call.
LEMMA AccountKept ==
  ASSUME IInv, NothingElseLost, status = "running", Grows, UNCHANGED rcvd,
         \A p \in Packet : InAnEntry(p) => OnTheWire(p)' \/ InAnEntry(p)' \/ BehindError(p),
         \/ frame' = frame
         \/ \A p \in Packet : frame = p /\ Forwardable(p) => OnTheWire(p)' \/ InAnEntry(p)'
  PROVE  NothingElseLost'
<1>1. \A p : OnTheWire(p) => OnTheWire(p)'
  BY DEF Grows, OnTheWire
<1>2. \A p : (BehindError(p)' <=> BehindError(p)) /\ (Arrived(p)' <=> Arrived(p))
  BY DEF BehindError, Arrived, NextHop, IsIcmpError
<1>3. \A p : Forwardable(p)' <=> Forwardable(p)
  BY DEF Forwardable, TtlLessOne, IsRouterIP
<1> SUFFICES ASSUME NEW p \in Packet, Forwardable(p)', Arrived(p)', frame' # p
             PROVE  OnTheWire(p)' \/ InAnEntry(p)' \/ BehindError(p)'
  BY DEF NothingElseLost, Accounted
<1>4. Forwardable(p) /\ Arrived(p)
  BY <1>2, <1>3
<1>5. CASE frame = p
  BY <1>4, <1>5
<1>6. CASE frame # p
  <2>1. OnTheWire(p) \/ InAnEntry(p) \/ BehindError(p)
    BY <1>4, <1>6 DEF NothingElseLost, Accounted
  <2> QED
    BY <1>1, <1>2, <2>1
<1> QED
  BY <1>5, <1>6

LEMMA AccountReceive == ASSUME IInv, NothingElseLost, Receive PROVE NothingElseLost'
<1>1. status = "running" /\ frame = None /\ UNCHANGED <<sr_arpqueue, wire>>
  BY DEF Receive, ReceivePacket, ReceiveArp, StartCall
<1>2. \A p : Forwardable(p)' <=> Forwardable(p)
  BY DEF Forwardable, TtlLessOne, IsRouterIP
<1>3. \A p : OnTheWire(p) \/ InAnEntry(p) => OnTheWire(p)' \/ InAnEntry(p)'
  BY <1>1 DEF OnTheWire, InAnEntry
<1>4. rcvd \in Seq(Packet)
  BY DEF IInv, TypeOK
<1>5. \A p \in Packet : Arrived(p)' => Arrived(p) \/ frame' = p
  <2>1. CASE UNCHANGED rcvd
    BY <2>1 DEF Arrived
  <2>2. ASSUME NEW q \in Packet, ReceivePacket(q) PROVE \A p : Arrived(p)' => Arrived(p) \/ frame' = p
    <3>1. rcvd' = Append(rcvd, q) /\ frame' = q
      BY <2>2 DEF ReceivePacket, StartCall
    <3>2. \A n \in 1..Len(rcvd') : (n \in 1..Len(rcvd) /\ rcvd'[n] = rcvd[n]) \/ rcvd'[n] = q
      BY <1>4, <3>1
    <3> QED
      BY <3>1, <3>2 DEF Arrived
  <2> QED
    BY <2>1, <2>2 DEF Receive, ReceiveArp
<1>6. \A p : BehindError(p) => BehindError(p)'
  <2>1. \A n \in 1..Len(rcvd) : n \in 1..Len(rcvd') /\ rcvd'[n] = rcvd[n]
    BY <1>4 DEF Receive, ReceivePacket, ReceiveArp
  <2> QED
    BY <2>1 DEF BehindError, NextHop, IsIcmpError
<1>7. \A p \in Packet : frame # p
  BY <1>1, FramesAssumption
<1> QED
  BY <1>1, <1>2, <1>3, <1>5, <1>6, <1>7 DEF NothingElseLost, Accounted

LEMMA AccountSweep ==
  ASSUME IInv, EntriesForHop, OncePlaced, NoOvertaking, NothingElseLost, Grows, Sweep
  PROVE  NothingElseLost'
<1>d. status = "running" /\ UNCHANGED <<rcvd, frame>>
  BY DEF Sweep, SweepCache, SweepKeep, SweepResend, SweepGiveUp, SweepFreed, Sweeping
<1>1. ASSUME NEW e \in sr_arpqueue, SweepGiveUp(e) PROVE NothingElseLost'
  <2> DEFINE s == Unreachables(e.packets)
  <2>1. /\ sr_arpqueue' = sr_arpqueue \ {e} /\ wire' = wire \o s
        /\ status' = IF ExitsOn(e.packets) THEN "exited" ELSE status
    BY <1>1 DEF SweepGiveUp
  <2>2. CASE ExitsOn(e.packets)
    BY <2>1, <2>2 DEF NothingElseLost
  <2>3. CASE ~ExitsOn(e.packets)
    <3>1. Sends(s)
      BY <2>1, AnswersInOrder DEF Sends
    <3>2. \A p : InEntry(p, e) => OnTheWire(p)' \/ BehindError(p)
      BY <2>3, <3>1, EntryAnswered
    <3>3. \A p : InAnEntry(p) => InEntry(p, e) \/ InAnEntry(p)'
      BY <2>1 DEF InAnEntry, InEntry
    <3> QED
      BY <1>d, <3>2, <3>3, AccountKept
  <2> QED
    BY <2>2, <2>3
<1>2. ASSUME NEW e \in sr_arpqueue, SweepResend(e) PROVE NothingElseLost'
  <2>1. Requested(e).packets = e.packets
    BY <1>2, RequestedType DEF SweepResend, IInv, TypeOK
  <2>2. sr_arpqueue' = (sr_arpqueue \ {e}) \cup {Requested(e)}
    BY <1>2 DEF SweepResend
  <2>3. \A p : InAnEntry(p) => InAnEntry(p)'
    BY <2>1, <2>2 DEF InAnEntry, InEntry
  <2> QED
    BY <1>d, <2>3, AccountKept
<1>3. CASE ~ \E e \in sr_arpqueue : SweepGiveUp(e) \/ SweepResend(e)
  <2>1. UNCHANGED sr_arpqueue
    BY <1>3 DEF Sweep, SweepCache, SweepKeep, SweepFreed
  <2>2. \A p : InAnEntry(p) => InAnEntry(p)'
    BY <2>1 DEF InAnEntry
  <2> QED
    BY <1>d, <2>2, AccountKept
<1> QED
  BY <1>1, <1>2, <1>3

LEMMA AccountPacket ==
  ASSUME IInv, EntriesForHop, OncePlaced, NoOvertaking, NothingElseLost, Grows,
         NEW p \in Packet, HandlePacket(p)
  PROVE  NothingElseLost'
<1>d. status = "running" /\ frame = p /\ UNCHANGED rcvd
  BY DEF HandlePacket, DropBadChecksum, TtlOver, EchoReply, PortUnreachable, IgnoreLocal,
         ForRouter, NoRouteFound, QueueNew, ForwardCached, QueueBehind, QueueGiveUp,
         HasRoute, ToForward, Dispatching
<1>1. CASE DropBadChecksum(p) \/ TtlOver(p) \/ EchoReply(p) \/ PortUnreachable(p) \/ IgnoreLocal(p)
  <2>1. ~Forwardable(p) /\ UNCHANGED sr_arpqueue
    BY <1>1 DEF DropBadChecksum, TtlOver, EchoReply, PortUnreachable, IgnoreLocal, ForRouter,
                Forwardable
  <2>2. \A q : InAnEntry(q) => InAnEntry(q)'
    BY <2>1 DEF InAnEntry
  <2> QED
    BY <1>d, <2>1, <2>2, AccountKept
<1>2. CASE NoRouteFound(p)
  BY <1>2 DEF NoRouteFound, NothingElseLost
<1>3. ASSUME NEW d \in sr_arpcache, ForwardCached(p, d) PROVE NothingElseLost'
  <2> DEFINE g == ForwardFrame(p, Route[Hdr[p].dst].iface, d.mac)
             s == <<g>>
  <2>1. g \in IpFrame /\ g.packet = p /\ g.src = g.iface /\ wire \in Seq(IpFrame)
    BY <1>3, RouteType, ForwardFrameType DEF ForwardCached, HasRoute, IInv, TypeOK, CacheEntry,
                                             ForwardFrame
  <2>2. wire' = SentOne(g) /\ UNCHANGED sr_arpqueue
    BY <1>3 DEF ForwardCached
  <2> HIDE DEF g
  <2>3. s \in Seq(IpFrame) /\ wire' = wire \o s /\ 1 \in 1..Len(s) /\ s[1] = g
    BY <2>1, <2>2 DEF SentOne
  <2> HIDE DEF s
  <2>4. OnTheWire(p)'
    BY <2>1, <2>3, SentIsOnTheWire DEF Sends
  <2>5. \A q : InAnEntry(q) => InAnEntry(q)'
    BY <2>2 DEF InAnEntry
  <2> QED
    BY <1>d, <2>4, <2>5, AccountKept
<1>4. CASE QueueNew(p)
  <2>1. NewEntry(p).packets = <<p>> /\ sr_arpqueue' = sr_arpqueue \cup {NewEntry(p)}
    BY <1>4, NewEntryType DEF QueueNew, HasRoute
  <2>2. InEntry(p, NewEntry(p))
    BY <2>1 DEF InEntry
  <2>3. InAnEntry(p)' /\ \A q : InAnEntry(q) => InAnEntry(q)'
    BY <2>1, <2>2 DEF InAnEntry, InEntry
  <2> QED
    BY <1>d, <2>3, AccountKept
<1>5. ASSUME NEW e \in sr_arpqueue, QueueBehind(p, e) PROVE NothingElseLost'
  <2> DEFINE g == IF Overdue(e) THEN Requested(e) ELSE e
             f == [g EXCEPT !.packets = Append(@, p)]
  <2>1. g \in QueueEntry /\ g.packets = e.packets
    BY <1>5, RequestedType DEF QueueBehind, IInv, TypeOK
  <2>2. f.packets = Append(e.packets, p) /\ e.packets \in Seq(Packet)
    <3> HIDE DEF g
    <3> QED
      BY <2>1 DEF QueueEntry
  <2>3. sr_arpqueue' = (sr_arpqueue \ {e}) \cup {f}
    BY <1>5 DEF QueueBehind
  <2> HIDE DEF f, g
  <2>4. /\ Len(e.packets) + 1 \in 1..Len(f.packets) /\ f.packets[Len(e.packets) + 1] = p
        /\ \A k \in 1..Len(e.packets) : k \in 1..Len(f.packets) /\ f.packets[k] = e.packets[k]
    BY <2>2
  <2>5. InEntry(p, f) /\ \A q : InEntry(q, e) => InEntry(q, f)
    BY <2>4 DEF InEntry
  <2>6. InAnEntry(p)' /\ \A q : InAnEntry(q) => InAnEntry(q)'
    BY <2>3, <2>5 DEF InAnEntry, InEntry
  <2> QED
    BY <1>d, <2>6, AccountKept
<1>6. ASSUME NEW e \in sr_arpqueue, QueueGiveUp(p, e) PROVE NothingElseLost'
  <2> DEFINE s == Unreachables(e.packets)
             u == UnreachFrame(p)
             f == [e EXCEPT !.packets = <<>>, !.freed = TRUE]
             t == Append(s, u)
  <2>1. s \in Seq(IpFrame) /\ u \in IpFrame /\ wire \in Seq(IpFrame) /\ u.packet = p
    BY AnswersInOrder, UnreachFrameType DEF IInv, TypeOK, UnreachFrame, IcmpFrame
  <2>2. sr_arpqueue' = (sr_arpqueue \ {e}) \cup {f}
    BY <1>6 DEF QueueGiveUp
  <2>3. CASE ExitsOn(e.packets)
    <3>1. status' = "exited"
      BY <1>6, <2>3 DEF QueueGiveUp
    <3> QED
      BY <3>1 DEF NothingElseLost
  <2>4. CASE ~ExitsOn(e.packets)
    <3>1. wire' = Append(wire \o s, u)
      BY <1>6, <2>4 DEF QueueGiveUp
    <3> HIDE DEF s, u, f
    <3>2. /\ wire' = wire \o t /\ t \in Seq(IpFrame)
          /\ Len(s) + 1 \in 1..Len(t) /\ t[Len(s) + 1] = u
          /\ \A k \in 1..Len(s) : k \in 1..Len(t) /\ t[k] = s[k]
      BY <2>1, <3>1
    <3> HIDE DEF t
    <3>3. Sends(t) /\ OnTheWire(p)'
      BY <2>1, <3>2, SentIsOnTheWire DEF Sends
    <3>4. \A q : InEntry(q, e) => OnTheWire(q)' \/ BehindError(q)
      BY <2>4, <3>2, <3>3, EntryAnswered DEF s
    <3>5. \A q : InAnEntry(q) => InEntry(q, e) \/ InAnEntry(q)'
      BY <2>2 DEF InAnEntry, InEntry
    <3> QED
      BY <1>d, <3>3, <3>4, <3>5, AccountKept
  <2> QED
    BY <2>3, <2>4
<1> QED
  BY <1>1, <1>2, <1>3, <1>4, <1>5, <1>6 DEF HandlePacket

LEMMA AccountArp ==
  ASSUME IInv, NothingElseLost, Grows, NEW a \in Arp,
         \/ IgnoreArp(a) \/ ArpRefresh(a) \/ ArpLearn(a) \/ ArpOverheard(a)
         \/ \E e \in sr_arpqueue : ArpFlush(a, e)
  PROVE  NothingElseLost'
<1>d. status = "running" /\ frame \notin Packet /\ UNCHANGED rcvd
  BY FramesAssumption
     DEF IgnoreArp, ArpRefresh, ArpLearn, ArpOverheard, ArpFlush, HandleArp, Dispatching
<1>1. ASSUME NEW e \in sr_arpqueue, ArpFlush(a, e) PROVE NothingElseLost'
  <2> DEFINE s == Flushed(e, a.sha)
  <2>1. e.packets \in Seq(Packet) /\ s \in Seq(IpFrame)
    BY LearntType, FlushedType DEF IInv, TypeOK, QueueEntry
  <2>2. \A k \in 1..Len(e.packets) : k \in 1..Len(s) /\ s[k].packet = e.packets[k]
    BY <2>1 DEF Flushed, ForwardFrame
  <2>3. wire' = wire \o s /\ sr_arpqueue' = sr_arpqueue \ {e}
    BY <1>1 DEF ArpFlush
  <2> HIDE DEF s
  <2>4. \A p : InEntry(p, e) => OnTheWire(p)'
    BY <2>1, <2>2, <2>3, SentIsOnTheWire DEF InEntry, Sends
  <2>5. \A p : InAnEntry(p) => InEntry(p, e) \/ InAnEntry(p)'
    BY <2>3 DEF InAnEntry, InEntry
  <2> QED
    BY <1>d, <2>4, <2>5, AccountKept
<1>2. CASE ~ \E e \in sr_arpqueue : ArpFlush(a, e)
  <2>1. UNCHANGED sr_arpqueue
    BY <1>2 DEF IgnoreArp, ArpRefresh, ArpLearn, ArpOverheard
  <2>2. \A p : InAnEntry(p) => InAnEntry(p)'
    BY <2>1 DEF InAnEntry
  <2> QED
    BY <1>d, <2>2, AccountKept
<1> QED
  BY <1>1, <1>2

LEMMA AccountNext ==
  ASSUME IInv, EntriesForHop, OncePlaced, NoOvertaking, NothingElseLost, [Next]_vars
  PROVE  NothingElseLost'
<1>g. Grows
  BY WireGrows
<1>1. CASE Tick
  <2>1. ASSUME NEW e \in sr_arpqueue PROVE \E g \in sr_arpqueue' : g.packets = e.packets
    <3> DEFINE g == [e EXCEPT !.age = IF @ = 2 THEN 2 ELSE @ + 1]
    <3>1. g \in sr_arpqueue'
      BY <1>1 DEF Tick
    <3>2. g.packets = e.packets
      BY DEF IInv, TypeOK, QueueEntry
    <3> HIDE DEF g
    <3> QED
      BY <3>1, <3>2
  <2>2. \A p : InAnEntry(p) => InAnEntry(p)'
    BY <2>1 DEF InAnEntry, InEntry
  <2>3. status = "running" /\ UNCHANGED <<rcvd, frame>>
    BY <1>1 DEF Tick
  <2> QED
    BY <1>g, <2>2, <2>3, AccountKept
<1>2. CASE Stopped \/ UNCHANGED vars
  <2>1. CASE status # "running"
    BY <1>2, <2>1 DEF Stopped, vars, NothingElseLost
  <2>2. CASE status = "running"
    <3>1. UNCHANGED <<sr_arpqueue, rcvd, frame>>
      BY <1>2 DEF Stopped, vars
    <3>2. \A p : InAnEntry(p) => InAnEntry(p)'
      BY <3>1 DEF InAnEntry
    <3> QED
      BY <1>g, <2>2, <3>1, <3>2, AccountKept
  <2> QED
    BY <2>1, <2>2
<1> QED
  BY <1>g, <1>1, <1>2, AccountReceive, AccountSweep, AccountPacket, AccountArp
     DEF Next, HandleFrame

\* While the process runs, a packet that could be forwarded is on the wire, in
\* the queue or in hand, unless it is an ICMP error or came after one for the
\* same next hop: no walk, flush or dispatch loses anything else.
THEOREM NothingElseVanishes == Spec => []VanishesOnlyBehindIcmpError
<1>1. Init => NothingElseLost
  BY DEF Init, NothingElseLost, Arrived
<1>2. IInv /\ EntriesForHop /\ OncePlaced /\ NoOvertaking /\ NothingElseLost /\ [Next]_vars
        => NothingElseLost'
  BY AccountNext
<1>3. NothingElseLost => VanishesOnlyBehindIcmpError
  <2> SUFFICES ASSUME NothingElseLost, NEW p \in Packet, Vanished(p) PROVE BehindError(p)
    BY DEF VanishesOnlyBehindIcmpError, BehindError
  <2>1. ~OnTheWire(p)
    BY DEF Vanished, OnWire, OnTheWire
  <2>2. ~InAnEntry(p)
    <3> SUFFICES ASSUME NEW e \in sr_arpqueue, NEW k \in 1..Len(e.packets), e.packets[k] = p
                 PROVE  FALSE
      BY DEF InAnEntry, InEntry
    <3>1. <<e, k>> \in Waits(p)
      BY DEF Waits
    <3> QED
      BY <3>1 DEF Vanished
  <2> QED
    BY <2>1, <2>2 DEF NothingElseLost, Vanished, Accounted, Arrived
<1> QED
  BY <1>1, <1>2, <1>3, Invariance, ForHop, AlwaysPlaced, KeepsOrder, PTL DEF Spec
-----------------------------------------------------------------------------
(* The refinement of HopDelivery.                                          *)

\* Only an entry that was freed is empty, and the walk of the next call is to
\* visit it.
FreedAhead ==
  \A e \in sr_arpqueue :
    /\ e.packets = <<>> => e.freed
    /\ e.freed /\ frame # None /\ status = "running" => e.ip \in queueLeft

LEMMA FreedPacket == ASSUME IInv, FreedAhead, NEW p \in Packet, HandlePacket(p) PROVE FreedAhead'
<1>0. frame' = None
  BY CallEnds DEF HandleFrame
<1> SUFFICES ASSUME NEW g \in sr_arpqueue', g.packets = <<>> PROVE g.freed
  BY <1>0 DEF FreedAhead
<1>1. CASE g \in sr_arpqueue
  BY <1>1 DEF FreedAhead
<1>2. CASE QueueNew(p) /\ g = NewEntry(p)
  <2>1. NewEntry(p).packets = <<p>>
    BY <1>2, NewEntryType DEF QueueNew, HasRoute
  <2>2. <<p>> # <<>>
    OBVIOUS
  <2> QED
    BY <1>2, <2>1, <2>2
<1>3. ASSUME NEW e \in sr_arpqueue, QueueBehind(p, e), g \notin sr_arpqueue PROVE FALSE
  <2> DEFINE h == IF Overdue(e) THEN Requested(e) ELSE e
             f == [h EXCEPT !.packets = Append(@, p)]
  <2>1. h \in QueueEntry
    BY <1>3, RequestedType DEF QueueBehind, IInv, TypeOK
  <2>2. f.packets = Append(h.packets, p) /\ h.packets \in Seq(Packet)
    <3> HIDE DEF h
    <3> QED
      BY <2>1 DEF QueueEntry
  <2>3. g = f
    BY <1>3 DEF QueueBehind
  <2> HIDE DEF f, h
  <2>4. f.packets # <<>>
    BY <2>2
  <2> QED
    BY <2>3, <2>4
<1>4. ASSUME NEW e \in sr_arpqueue, QueueGiveUp(p, e), g \notin sr_arpqueue PROVE g.freed
  <2>1. g = [e EXCEPT !.packets = <<>>, !.freed = TRUE]
    BY <1>4 DEF QueueGiveUp
  <2> QED
    BY <2>1 DEF IInv, TypeOK, QueueEntry
<1>5. CASE /\ g \notin sr_arpqueue /\ ~QueueNew(p)
           /\ ~ \E e \in sr_arpqueue : QueueBehind(p, e) \/ QueueGiveUp(p, e)
  BY <1>5 DEF HandlePacket, DropBadChecksum, TtlOver, EchoReply, PortUnreachable, IgnoreLocal,
              ForRouter, NoRouteFound, ForwardCached
<1> QED
  BY <1>1, <1>2, <1>3, <1>4, <1>5 DEF QueueNew

LEMMA FreedNext == ASSUME IInv, FreedAhead, [Next]_vars PROVE FreedAhead'
<1>1. CASE Tick
  <2>1. \A g \in sr_arpqueue' : \E e \in sr_arpqueue :
          g.packets = e.packets /\ g.freed = e.freed /\ g.ip = e.ip
    BY <1>1 DEF Tick, IInv, TypeOK, QueueEntry
  <2> QED
    BY <1>1, <2>1 DEF Tick, FreedAhead
<1>2. CASE Receive
  <2>1. queueLeft' = {e.ip : e \in sr_arpqueue} /\ UNCHANGED sr_arpqueue
    BY <1>2 DEF Receive, ReceivePacket, ReceiveArp, StartCall
  <2> QED
    BY <2>1 DEF FreedAhead
<1>3. CASE Sweep
  <2>1. CASE \E ip \in IP : SweepCache(ip)
    BY <2>1 DEF SweepCache, FreedAhead
  <2>2. ASSUME NEW e \in sr_arpqueue, Sweeping(e), ~e.freed,
               \A g \in sr_arpqueue' :
                 \/ g \in sr_arpqueue
                 \/ g.packets = e.packets /\ g.freed = e.freed /\ g.ip = e.ip
        PROVE  FreedAhead'
    <3>1. queueLeft' = queueLeft \ {e.ip} /\ UNCHANGED frame /\ status = "running"
      BY <2>2 DEF Sweeping
    <3>2. \A g \in sr_arpqueue : g.freed => g.ip # e.ip
      BY <2>2 DEF IInv, UniqueEntries
    <3> QED
      BY <2>2, <3>1, <3>2 DEF FreedAhead
  <2>3. ASSUME NEW e \in sr_arpqueue, SweepResend(e) PROVE FreedAhead'
    <3>1. /\ Requested(e).packets = e.packets /\ Requested(e).ip = e.ip
          /\ Requested(e).freed = e.freed
      BY <2>3, RequestedType DEF SweepResend, IInv, TypeOK
    <3>2. sr_arpqueue' = (sr_arpqueue \ {e}) \cup {Requested(e)} /\ Sweeping(e) /\ ~e.freed
      BY <2>3 DEF SweepResend
    <3> QED
      BY <2>2, <3>1, <3>2
  <2>4. ASSUME NEW e \in sr_arpqueue, SweepKeep(e) \/ SweepGiveUp(e) PROVE FreedAhead'
    <3>1. sr_arpqueue' \subseteq sr_arpqueue /\ Sweeping(e) /\ ~e.freed
      BY <2>4 DEF SweepKeep, SweepGiveUp
    <3> QED
      BY <2>2, <3>1
  <2>5. ASSUME NEW e \in sr_arpqueue, SweepFreed(e) PROVE FreedAhead'
    BY <2>5 DEF SweepFreed, FreedAhead
  <2> QED
    BY <1>3, <2>1, <2>3, <2>4, <2>5 DEF Sweep
<1>4. ASSUME NEW a \in Arp,
             \/ IgnoreArp(a) \/ ArpRefresh(a) \/ ArpLearn(a) \/ ArpOverheard(a)
             \/ \E e \in sr_arpqueue : ArpFlush(a, e)
      PROVE  FreedAhead'
  <2>1. frame' = None /\ sr_arpqueue' \subseteq sr_arpqueue
    BY <1>4 DEF IgnoreArp, ArpRefresh, ArpLearn, ArpOverheard, ArpFlush, HandleArp, Dispatching
  <2> QED
    BY <2>1 DEF FreedAhead
<1>5. CASE Stopped \/ UNCHANGED vars
  BY <1>5 DEF Stopped, vars, FreedAhead
<1> QED
  BY <1>1, <1>2, <1>3, <1>4, <1>5, FreedPacket DEF Next, HandleFrame

LEMMA AlwaysAhead == Spec => []FreedAhead
<1>1. Init => FreedAhead
  BY DEF Init, FreedAhead
<1>2. IInv /\ FreedAhead /\ [Next]_vars => FreedAhead'
  BY FreedNext
<1> QED
  BY <1>1, <1>2, Invariance, PTL DEF Spec

\* What waits for the hop of an entry is what the entry holds.
LEMMA TheEntry ==
  ASSUME NEW Q, \A d, e \in Q : d.ip = e.ip => d = e, NEW e \in Q
  PROVE  (CHOOSE x \in Q : x.ip = e.ip) = e
<1>1. \E x \in Q : x.ip = e.ip
  OBVIOUS
<1> QED
  BY <1>1

LEMMA WaitingHere ==
  ASSUME UniqueEntries, NEW e \in sr_arpqueue PROVE WaitingFor(e.ip) = e.packets
<1>1. (CHOOSE x \in sr_arpqueue : x.ip = e.ip) = e
  BY TheEntry DEF UniqueEntries
<1> QED
  BY <1>1 DEF WaitingFor, InQueue

LEMMA WaitingThere ==
  ASSUME UniqueEntries', NEW e \in sr_arpqueue' PROVE WaitingFor(e.ip)' = e.packets
<1>1. (CHOOSE x \in sr_arpqueue' : x.ip = e.ip) = e
  BY TheEntry DEF UniqueEntries
<1> QED
  BY <1>1 DEF WaitingFor, InQueue

\* A step that concerns the queue entry of hop ip only.
LEMMA WaitingElse ==
  ASSUME UniqueEntries, UniqueEntries', NEW ip \in IP, NEW packets,
         \A g : g.ip # ip => (g \in sr_arpqueue' <=> g \in sr_arpqueue),
         \A g \in sr_arpqueue' : g.ip = ip => g.packets = packets,
         packets = <<>> \/ \E g \in sr_arpqueue' : g.ip = ip
  PROVE  [h \in IP |-> WaitingFor(h)]' = [[h \in IP |-> WaitingFor(h)] EXCEPT ![ip] = packets]
<1>1. WaitingFor(ip)' = packets
  <2>1. CASE \E g \in sr_arpqueue' : g.ip = ip
    BY <2>1, WaitingThere
  <2>2. CASE ~ \E g \in sr_arpqueue' : g.ip = ip
    BY <2>2 DEF WaitingFor, InQueue
  <2> QED
    BY <2>1, <2>2
<1>2. ASSUME NEW h \in IP, h # ip PROVE WaitingFor(h)' = WaitingFor(h)
  <2>1. CASE \E g \in sr_arpqueue : g.ip = h
    <3>1. PICK g \in sr_arpqueue : g.ip = h
      BY <2>1
    <3>2. g \in sr_arpqueue'
      BY <1>2, <3>1
    <3> QED
      BY <3>1, <3>2, WaitingHere, WaitingThere
  <2>2. CASE ~ \E g \in sr_arpqueue : g.ip = h
    <3>1. ~ \E g \in sr_arpqueue' : g.ip = h
      BY <1>2, <2>2
    <3> QED
      BY <2>2, <3>1 DEF WaitingFor, InQueue
  <2> QED
    BY <2>1, <2>2
<1> QED
  BY <1>1, <1>2

\* A step that leaves every entry its hop and its packets.
LEMMA WaitingSame ==
  ASSUME UniqueEntries, UniqueEntries',
         \A e \in sr_arpqueue : \E g \in sr_arpqueue' : g.ip = e.ip /\ g.packets = e.packets,
         \A g \in sr_arpqueue' : \E e \in sr_arpqueue : g.ip = e.ip
  PROVE  [h \in IP |-> WaitingFor(h)]' = [h \in IP |-> WaitingFor(h)]
<1>1. ASSUME NEW h \in IP PROVE WaitingFor(h)' = WaitingFor(h)
  <2>1. CASE \E e \in sr_arpqueue : e.ip = h
    BY <2>1, WaitingHere, WaitingThere
  <2>2. CASE ~ \E e \in sr_arpqueue : e.ip = h
    BY <2>2 DEF WaitingFor, InQueue
  <2> QED
    BY <2>1, <2>2
<1> QED
  BY <1>1

\* The frames of a step are sent after the others.
Outcomes(s) == [i \in 1..Len(s) |-> SentAs(s[i])]

LEMMA OutcomesJoin ==
  ASSUME NEW S, NEW s \in Seq(S), NEW t \in Seq(S)
  PROVE  Outcomes(s \o t) = Outcomes(s) \o Outcomes(t)
<1> DEFINE T == {SentAs(f) : f \in S}
<1>1. \A f \in S : SentAs(f) \in T
  OBVIOUS
<1> HIDE DEF T
<1>2. \A u \in Seq(S) : /\ Outcomes(u) \in Seq(T) /\ Len(Outcomes(u)) = Len(u)
                        /\ \A i \in 1..Len(u) : Outcomes(u)[i] = SentAs(u[i])
  <2> SUFFICES ASSUME NEW u \in Seq(S)
               PROVE  /\ Outcomes(u) \in Seq(T) /\ Len(Outcomes(u)) = Len(u)
                      /\ \A i \in 1..Len(u) : Outcomes(u)[i] = SentAs(u[i])
    OBVIOUS
  <2>1. Len(u) \in Nat /\ \A i \in 1..Len(u) : SentAs(u[i]) \in T
    BY <1>1
  <2> QED
    BY <2>1 DEF Outcomes
<1>3. s \o t \in Seq(S)
  BY ConcatProperties
<1>4. Outcomes(s) \o Outcomes(t) \in Seq(T)
  BY <1>2, ConcatProperties
<1>5. /\ Len(s) \in Nat /\ Len(t) \in Nat /\ Len(s \o t) = Len(s) + Len(t)
      /\ \A i \in 1..(Len(s) + Len(t)) :
           (s \o t)[i] = IF i <= Len(s) THEN s[i] ELSE t[i - Len(s)]
  BY ConcatProperties
<1>6. /\ Len(Outcomes(s) \o Outcomes(t)) = Len(s) + Len(t)
      /\ \A i \in 1..(Len(s) + Len(t)) :
           (Outcomes(s) \o Outcomes(t))[i]
              = IF i <= Len(s) THEN Outcomes(s)[i] ELSE Outcomes(t)[i - Len(s)]
  <2>1. Outcomes(s) \in Seq(T) /\ Outcomes(t) \in Seq(T)
    BY <1>2
  <2>2. Len(Outcomes(s)) = Len(s) /\ Len(Outcomes(t)) = Len(t)
    BY <1>2
  <2>3. /\ Len(Outcomes(s) \o Outcomes(t)) = Len(Outcomes(s)) + Len(Outcomes(t))
        /\ \A i \in 1..(Len(Outcomes(s)) + Len(Outcomes(t))) :
             (Outcomes(s) \o Outcomes(t))[i]
                = IF i <= Len(Outcomes(s)) THEN Outcomes(s)[i]
                  ELSE Outcomes(t)[i - Len(Outcomes(s))]
    BY <2>1, ConcatProperties
  <2> QED
    BY <2>2, <2>3
<1>7. ASSUME NEW i \in 1..Len(s \o t)
      PROVE  Outcomes(s \o t)[i] = (Outcomes(s) \o Outcomes(t))[i]
  <2>1. Outcomes(s \o t)[i] = SentAs((s \o t)[i])
    BY <1>2, <1>3
  <2>2. CASE i <= Len(s)
    BY <1>2, <1>5, <1>6, <2>1, <2>2
  <2>3. CASE ~(i <= Len(s))
    <3>1. i - Len(s) \in 1..Len(t) /\ i \in 1..(Len(s) + Len(t))
      BY <1>5, <2>3
    <3>2. (s \o t)[i] = t[i - Len(s)]
      BY <1>5, <2>3, <3>1
    <3>3. (Outcomes(s) \o Outcomes(t))[i] = Outcomes(t)[i - Len(s)]
      BY <1>6, <2>3, <3>1
    <3>4. Outcomes(t)[i - Len(s)] = SentAs(t[i - Len(s)])
      BY <1>2, <3>1
    <3> QED
      BY <2>1, <3>2, <3>3, <3>4
  <2> QED
    BY <2>2, <2>3
<1> QED
  <2>1. Len(Outcomes(s \o t)) = Len(Outcomes(s) \o Outcomes(t))
    BY <1>2, <1>3, <1>5, <1>6
  <2>2. Outcomes(s \o t) \in Seq(T) /\ Len(Outcomes(s \o t)) = Len(s \o t)
    BY <1>2, <1>3
  <2> QED
    BY <1>4, <1>7, <2>1, <2>2, SeqEqual

LEMMA SentAfter ==
  ASSUME IInv, NEW s, Sends(s)
  PROVE  Outcomes(wire)' = Outcomes(wire) \o Outcomes(s)
<1>1. wire \in Seq(IpFrame) /\ s \in Seq(IpFrame) /\ wire' = wire \o s
  BY DEF IInv, TypeOK, Sends
<1>2. Outcomes(wire)' = Outcomes(wire')
  BY DEF Outcomes, SentAs
<1> HIDE DEF IpFrame
<1> QED
  BY <1>1, <1>2, OutcomesJoin

\* What the abstract variables are.
Known   == {e.ip : e \in sr_arpcache}
Pending == [ip \in IP |-> WaitingFor(ip)]
Mapped(known, pending, sent, up) ==
  /\ Known' = known /\ Pending' = pending
  /\ Outcomes(wire)' = sent /\ (status' = "running") = up

\* What HopDelivery allows, over them.
LEMMA AbstractStutter ==
  ASSUME Mapped(Known, Pending, Outcomes(wire), status = "running")
  PROVE  UNCHANGED Delivery!vars
BY DEF Mapped, Known, Pending, Outcomes, Delivery!vars

LEMMA AbstractDeliver ==
  ASSUME NEW h \in IP, NEW p \in Packet, status = "running", h \in Known, Delivery!Fresh(p),
         Mapped(Known, Pending, Append(Outcomes(wire), [packet |-> p, as |-> "delivered"]), TRUE)
  PROVE  Delivery!Next
<1>1. Delivery!Deliver(h, p)
  BY DEF Mapped, Known, Pending, Outcomes, Delivery!Deliver
<1> QED
  BY <1>1 DEF Delivery!Next

LEMMA AbstractWait ==
  ASSUME NEW h \in IP, NEW p \in Packet, status = "running", h \notin Known, Delivery!Fresh(p),
         Mapped(Known, [Pending EXCEPT ![h] = Append(Pending[h], p)], Outcomes(wire), TRUE)
  PROVE  Delivery!Next
<1>1. Delivery!Wait(h, p)
  BY DEF Mapped, Known, Pending, Outcomes, Delivery!Wait
<1> QED
  BY <1>1 DEF Delivery!Next

LEMMA AbstractResolve ==
  ASSUME NEW h \in IP, status = "running", h \notin Known,
         Mapped(Known \cup {h}, [Pending EXCEPT ![h] = <<>>],
                Outcomes(wire) \o Delivery!FirstAs(Pending[h], Len(Pending[h]), "delivered"), TRUE)
  PROVE  Delivery!Next
<1>1. Delivery!Resolve(h)
  BY DEF Mapped, Known, Pending, Outcomes, Delivery!Resolve
<1> QED
  BY <1>1 DEF Delivery!Next

LEMMA AbstractForget ==
  ASSUME NEW h \in IP, status = "running", h \in Known,
         Mapped(Known \ {h}, Pending, Outcomes(wire), TRUE)
  PROVE  Delivery!Next
<1>1. Delivery!Forget(h)
  BY DEF Mapped, Known, Pending, Outcomes, Delivery!Forget
<1> QED
  BY <1>1 DEF Delivery!Next

LEMMA AbstractGiveUp ==
  ASSUME NEW h \in IP, status = "running", Pending[h] # <<>>,
         NEW n \in 0..Len(Pending[h]), NEW sent, NEW up \in BOOLEAN,
         LET refused == Outcomes(wire) \o Delivery!FirstAs(Pending[h], n, "refused")
         IN  \/ sent = refused
             \/ \E p \in Packet : /\ Delivery!Fresh(p)
                                  /\ sent = Append(refused, [packet |-> p, as |-> "refused"]),
         Mapped(Known, [Pending EXCEPT ![h] = <<>>], sent, up)
  PROVE  Delivery!Next
<1>1. Delivery!GiveUp(h)
  BY DEF Mapped, Known, Pending, Outcomes, Delivery!GiveUp
<1> QED
  BY <1>1 DEF Delivery!Next

LEMMA AbstractAnswer ==
  ASSUME NEW p \in Packet, status = "running", Delivery!Fresh(p),
         Mapped(Known, Pending, Append(Outcomes(wire), [packet |-> p, as |-> "answered"]), TRUE)
  PROVE  Delivery!Next
<1>1. Delivery!Answer(p)
  BY DEF Mapped, Known, Pending, Outcomes, Delivery!Answer
<1> QED
  BY <1>1 DEF Delivery!Next

LEMMA AbstractStop ==
  ASSUME status = "running", Mapped(Known, Pending, Outcomes(wire), FALSE)
  PROVE  Delivery!Next
<1>1. Delivery!Stop
  BY DEF Mapped, Known, Pending, Outcomes, Delivery!Stop
<1> QED
  BY <1>1 DEF Delivery!Next

\* The packet in hand is neither sent nor waiting.
LEMMA FreshInHand ==
  ASSUME IInv, OncePlaced, NEW p \in Packet, frame = p
  PROVE  Delivery!Fresh(p)
<1>1. ~OnTheWire(p) /\ ~InAnEntry(p)
  BY DEF OncePlaced
<1>2. \A i \in 1..Len(wire) : SentAs(wire[i]).packet # p
  BY <1>1 DEF OnTheWire, SentAs
<1>3. ASSUME NEW h \in IP, NEW i \in 1..Len(WaitingFor(h)), WaitingFor(h)[i] = p PROVE FALSE
  <2>1. CASE InQueue(h)
    <3>1. PICK e \in sr_arpqueue : e.ip = h
      BY <2>1 DEF InQueue
    <3>2. WaitingFor(h) = e.packets
      BY <3>1, WaitingHere DEF IInv
    <3> QED
      BY <1>1, <1>3, <3>1, <3>2 DEF InAnEntry, InEntry
  <2>2. CASE ~InQueue(h)
    BY <1>3, <2>2 DEF WaitingFor
  <2> QED
    BY <2>1, <2>2
<1>4. Len(wire) \in Nat
  BY DEF IInv, TypeOK
<1> QED
  BY <1>2, <1>3, <1>4 DEF Delivery!Fresh

\* Steps that leave the cache, the queue or the wire alone.
LEMMA KnownKept == ASSUME UNCHANGED sr_arpcache PROVE Known' = Known
BY DEF Known

LEMMA PendingKept == ASSUME UNCHANGED sr_arpqueue PROVE Pending' = Pending
BY DEF Pending, WaitingFor, InQueue

LEMMA OutcomesKept == ASSUME UNCHANGED wire PROVE Outcomes(wire)' = Outcomes(wire)
BY DEF Outcomes, SentAs

LEMMA NothingDone ==
  ASSUME UNCHANGED <<sr_arpcache, sr_arpqueue, wire, status>> PROVE UNCHANGED Delivery!vars
BY KnownKept, PendingKept, OutcomesKept, AbstractStutter DEF Mapped

\* The entry of e is taken from the queue, or is left without packets.
LEMMA PendingEmptied ==
  ASSUME IInv, IInv', NEW e \in sr_arpqueue,
         \A g \in sr_arpqueue' : g \in sr_arpqueue \/ (g.ip = e.ip /\ g.packets = <<>>),
         e \notin sr_arpqueue', \A g \in sr_arpqueue : g = e \/ g \in sr_arpqueue'
  PROVE  Pending' = [Pending EXCEPT ![e.ip] = <<>>]
<1>1. UniqueEntries /\ UniqueEntries' /\ e.ip \in IP
  BY DEF IInv, TypeOK, QueueEntry
<1>2. \A g \in sr_arpqueue : g.ip = e.ip => g = e
  BY <1>1 DEF UniqueEntries
<1>3. \A g : g.ip # e.ip => (g \in sr_arpqueue' <=> g \in sr_arpqueue)
  OBVIOUS
<1>4. \A g \in sr_arpqueue' : g.ip = e.ip => g.packets = <<>>
  BY <1>2
<1> QED
  BY <1>1, <1>3, <1>4, WaitingElse DEF Pending

LEMMA PendingOf ==
  ASSUME IInv, NEW e \in sr_arpqueue PROVE e.ip \in IP /\ Pending[e.ip] = e.packets
<1>1. e.ip \in IP
  BY DEF IInv, TypeOK, QueueEntry
<1> QED
  BY <1>1, WaitingHere DEF IInv, Pending

LEMMA OutcomesAppend ==
  ASSUME NEW S, NEW s \in Seq(S), NEW f \in S
  PROVE  Outcomes(Append(s, f)) = Append(Outcomes(s), SentAs(f))
<1>1. Append(s, f) = s \o <<f>> /\ <<f>> \in Seq(S)
  OBVIOUS
<1>2. Outcomes(<<f>>) = <<SentAs(f)>>
  BY DEF Outcomes
<1>3. PICK T : SentAs(f) \in T /\ \A i \in 1..Len(s) : SentAs(s[i]) \in T
  <2> WITNESS {SentAs(f)} \cup {SentAs(s[i]) : i \in 1..Len(s)}
  <2> QED
    OBVIOUS
<1>4. Len(s) \in Nat
  OBVIOUS
<1>5. Outcomes(s) \in Seq(T)
  BY <1>3, <1>4 DEF Outcomes
<1>6. Outcomes(s) \o <<SentAs(f)>> = Append(Outcomes(s), SentAs(f))
  BY <1>3, <1>5
<1> QED
  BY <1>1, <1>2, <1>6, OutcomesJoin

\* A frame of the router, sent or refused by sr_send_packet.
LEMMA OneOutcome ==
  ASSUME IInv, NEW g \in IpFrame, wire' = SentOne(g)
  PROVE  \/ g.src # g.iface /\ Outcomes(wire)' = Outcomes(wire)
         \/ g.src = g.iface /\ Outcomes(wire)' = Append(Outcomes(wire), SentAs(g))
<1>1. CASE g.src = g.iface
  <2>1. wire \in Seq(IpFrame) /\ wire' = Append(wire, g)
    BY <1>1 DEF SentOne, IInv, TypeOK
  <2>2. Outcomes(wire)' = Outcomes(wire')
    BY DEF Outcomes, SentAs
  <2> HIDE DEF IpFrame
  <2> QED
    BY <1>1, <2>1, <2>2, OutcomesAppend
<1>2. CASE g.src # g.iface
  BY <1>2, OutcomesKept DEF SentOne
<1> QED
  BY <1>1, <1>2

\* The walks, the clock and the arrivals.
LEMMA DeliveryTick == ASSUME IInv, IInv', Tick PROVE UNCHANGED Delivery!vars
<1>1. Known' = Known
  <2> DEFINE nearer(d) == [d EXCEPT !.left = IF d.left = 0 THEN 0 ELSE d.left - 1]
  <2>1. sr_arpcache' = {nearer(d) : d \in sr_arpcache}
    BY DEF Tick
  <2>2. \A d \in sr_arpcache : nearer(d).ip = d.ip
    BY DEF IInv, TypeOK, CacheEntry
  <2> HIDE DEF nearer
  <2> QED
    BY <2>1, <2>2 DEF Known
<1>2. Pending' = Pending
  <2> DEFINE older(e) == [e EXCEPT !.age = IF e.age = 2 THEN 2 ELSE e.age + 1]
  <2>1. sr_arpqueue' = {older(e) : e \in sr_arpqueue}
    BY DEF Tick
  <2>2. \A e \in sr_arpqueue : older(e).ip = e.ip /\ older(e).packets = e.packets
    BY DEF IInv, TypeOK, QueueEntry
  <2> HIDE DEF older
  <2>3. \A e \in sr_arpqueue : \E g \in sr_arpqueue' : g.ip = e.ip /\ g.packets = e.packets
    BY <2>1, <2>2
  <2>4. \A g \in sr_arpqueue' : \E e \in sr_arpqueue : g.ip = e.ip
    BY <2>1, <2>2
  <2> QED
    BY <2>3, <2>4, WaitingSame DEF IInv, Pending
<1>3. UNCHANGED <<wire, status>>
  BY DEF Tick
<1> QED
  BY <1>1, <1>2, <1>3, OutcomesKept, AbstractStutter DEF Mapped

LEMMA DeliveryCacheWalk ==
  ASSUME IInv, NEW ip \in IP, SweepCache(ip)
  PROVE  Delivery!Next \/ UNCHANGED Delivery!vars
<1>0. /\ status = "running" /\ UNCHANGED <<sr_arpqueue, wire, status>>
      /\ sr_arpcache' = {d \in sr_arpcache : d.ip # ip \/ d.left > 0}
  BY DEF SweepCache
<1>1. CASE sr_arpcache' = sr_arpcache
  BY <1>0, <1>1, NothingDone
<1>2. CASE sr_arpcache' # sr_arpcache
  <2>1. PICK d \in sr_arpcache : d.ip = ip /\ ~(d.left > 0)
    BY <1>0, <1>2
  <2>2. \A c \in sr_arpcache : c.ip = ip => c = d
    BY <2>1 DEF IInv, UniqueEntries
  <2>3. Known' = Known \ {ip} /\ ip \in Known
    BY <1>0, <2>1, <2>2 DEF Known
  <2> QED
    BY <1>0, <2>3, PendingKept, OutcomesKept, AbstractForget DEF Mapped
<1> QED
  BY <1>1, <1>2

\* The answers to the first packets of an entry.
LEMMA RefusedFirst ==
  ASSUME NEW packets \in Seq(Packet)
  PROVE  /\ Cardinality(Answered(packets)) \in 0..Len(packets)
         /\ Outcomes(Unreachables(packets))
              = Delivery!FirstAs(packets, Cardinality(Answered(packets)), "refused")
<1>0. Len(packets) \in Nat
  OBVIOUS
<1>1. IsFiniteSet(1..Len(packets)) /\ Cardinality(1..Len(packets)) = Len(packets)
  BY <1>0, FS_Interval
<1>2. Answered(packets) \subseteq 1..Len(packets)
  BY DEF Answered
<1>3. Cardinality(Answered(packets)) \in Nat
      /\ Cardinality(Answered(packets)) <= Len(packets)
  BY <1>1, <1>2, FS_Subset, FS_CardinalityType
<1>4. \A p : SentAs(UnreachFrame(p)) = [packet |-> p, as |-> "refused"]
  BY DEF SentAs, UnreachFrame, IcmpFrame
<1> QED
  BY <1>3, <1>4 DEF Outcomes, Unreachables, Delivery!FirstAs

LEMMA DeliveryQueueWalk ==
  ASSUME IInv, IInv', FreedAhead, NEW e \in sr_arpqueue,
         SweepKeep(e) \/ SweepResend(e) \/ SweepGiveUp(e) \/ SweepFreed(e)
  PROVE  Delivery!Next \/ UNCHANGED Delivery!vars
<1>0. status = "running" /\ UNCHANGED sr_arpcache
  BY DEF SweepKeep, SweepResend, SweepGiveUp, SweepFreed, Sweeping
<1>1. CASE SweepKeep(e)
  BY <1>0, <1>1, NothingDone DEF SweepKeep
<1>2. CASE SweepResend(e)
  <2>1. /\ sr_arpqueue' = (sr_arpqueue \ {e}) \cup {Requested(e)}
        /\ UNCHANGED <<status, wire>> /\ ~Spent(e)
    BY <1>2 DEF SweepResend
  <2>2. Requested(e).ip = e.ip /\ Requested(e).packets = e.packets
    BY <2>1, RequestedType DEF IInv, TypeOK
  <2>3. \A d \in sr_arpqueue : \E g \in sr_arpqueue' : g.ip = d.ip /\ g.packets = d.packets
    BY <2>1, <2>2
  <2>4. \A g \in sr_arpqueue' : \E d \in sr_arpqueue : g.ip = d.ip
    BY <2>1, <2>2
  <2>5. Pending' = Pending
    BY <2>3, <2>4, WaitingSame DEF IInv, Pending
  <2> QED
    BY <1>0, <2>1, <2>5, KnownKept, OutcomesKept, AbstractStutter DEF Mapped
<1>3. CASE SweepGiveUp(e)
  <2>1. /\ sr_arpqueue' = sr_arpqueue \ {e} /\ wire' = wire \o Unreachables(e.packets)
        /\ ~e.freed
    BY <1>3 DEF SweepGiveUp
  <2>2. Pending' = [Pending EXCEPT ![e.ip] = <<>>]
    <3>1. \A g \in sr_arpqueue' : g \in sr_arpqueue \/ (g.ip = e.ip /\ g.packets = <<>>)
      BY <2>1
    <3>2. e \notin sr_arpqueue' /\ \A g \in sr_arpqueue : g = e \/ g \in sr_arpqueue'
      BY <2>1
    <3> QED
      BY <3>1, <3>2, PendingEmptied
  <2>3. e.packets # <<>> /\ e.packets \in Seq(Packet)
    BY <2>1 DEF FreedAhead, IInv, TypeOK, QueueEntry
  <2>4. Outcomes(wire)' = Outcomes(wire) \o
          Delivery!FirstAs(e.packets, Cardinality(Answered(e.packets)), "refused")
    BY <2>1, <2>3, RefusedFirst, UnreachablesType, SentAfter DEF Sends
  <2>5. Cardinality(Answered(e.packets)) \in 0..Len(e.packets)
    BY <2>3, RefusedFirst
  <2> DEFINE n  == Cardinality(Answered(e.packets))
             up == status' = "running"
  <2>6. Mapped(Known, [Pending EXCEPT ![e.ip] = <<>>],
               Outcomes(wire) \o Delivery!FirstAs(Pending[e.ip], n, "refused"), up)
    BY <1>0, <2>2, <2>4, KnownKept, PendingOf DEF Mapped
  <2>7. up \in BOOLEAN
    OBVIOUS
  <2> HIDE DEF n, up
  <2> QED
    BY <1>0, <2>3, <2>5, <2>6, <2>7, PendingOf, AbstractGiveUp DEF n
<1>4. CASE SweepFreed(e)
  <2>1. UNCHANGED <<sr_arpqueue, wire>> /\ status' # "running"
    BY <1>4 DEF SweepFreed
  <2> QED
    BY <1>0, <2>1, KnownKept, PendingKept, OutcomesKept, AbstractStop DEF Mapped
<1> QED
  BY <1>1, <1>2, <1>3, <1>4

\* The packet in hand is answered by the router, or forwarded at once.
LEMMA DeliveryAnswered ==
  ASSUME IInv, OncePlaced, NEW p \in Packet, frame = p, status = "running",
         UNCHANGED <<sr_arpcache, sr_arpqueue, status>>,
         NEW g \in IpFrame, g.packet = p, g.kind \notin {"forward", "unreach"}, wire' = SentOne(g)
  PROVE  Delivery!Next \/ UNCHANGED Delivery!vars
<1>1. SentAs(g) = [packet |-> p, as |-> "answered"]
  BY DEF SentAs
<1>2. CASE Outcomes(wire)' = Outcomes(wire)
  BY <1>2, KnownKept, PendingKept, AbstractStutter DEF Mapped
<1>3. CASE Outcomes(wire)' = Append(Outcomes(wire), SentAs(g))
  BY <1>1, <1>3, KnownKept, PendingKept, FreshInHand, AbstractAnswer DEF Mapped
<1> QED
  BY <1>2, <1>3, OneOutcome

LEMMA DeliveryOwnAnswer ==
  ASSUME IInv, OncePlaced, NEW p \in Packet,
         TtlOver(p) \/ EchoReply(p) \/ PortUnreachable(p)
  PROVE  Delivery!Next \/ UNCHANGED Delivery!vars
<1>h. Hdr[p].iif \in Iface /\ Hdr[p].dhost \in Iface \cup {None} /\ Hdr[p].ttl \in 0..255
  BY FramesAssumption DEF Header
<1>d. frame = p /\ status = "running" /\ UNCHANGED <<sr_arpcache, sr_arpqueue, status>>
  BY DEF TtlOver, EchoReply, PortUnreachable, ForRouter, Dispatching
<1>1. CASE TtlOver(p)
  <2> DEFINE g == IcmpFrame("timex", p, Hdr[p].iif, Hdr[p].ttl)
  <2>1. g \in IpFrame /\ g.packet = p /\ g.kind \notin {"forward", "unreach"}
    BY <1>h, IcmpFrameType DEF IcmpFrame
  <2>2. wire' = wire \/ wire' = SentOne(g)
    BY <1>1 DEF TtlOver
  <2> HIDE DEF g
  <2> QED
    BY <1>d, <2>1, <2>2, DeliveryAnswered, NothingDone
<1>2. CASE EchoReply(p)
  <2> DEFINE g == IcmpFrame("echoreply", p, Hdr[p].dhost, TtlLessOne(p))
  <2>1. g \in IpFrame /\ g.packet = p /\ g.kind \notin {"forward", "unreach"}
    BY <1>h, TtlType, IcmpFrameType DEF IcmpFrame
  <2>2. wire' = SentOne(g)
    BY <1>2 DEF EchoReply
  <2> HIDE DEF g
  <2> QED
    BY <1>d, <2>1, <2>2, DeliveryAnswered
<1>3. CASE PortUnreachable(p)
  <2> DEFINE g == IcmpFrame("portunreach", p, Hdr[p].dhost, Hdr[p].ttl)
  <2>1. g \in IpFrame /\ g.packet = p /\ g.kind \notin {"forward", "unreach"}
    BY <1>h, IcmpFrameType DEF IcmpFrame
  <2>2. wire' = SentOne(g)
    BY <1>3 DEF PortUnreachable
  <2> HIDE DEF g
  <2> QED
    BY <1>d, <2>1, <2>2, DeliveryAnswered
<1> QED
  BY <1>1, <1>2, <1>3

LEMMA DeliveryForward ==
  ASSUME IInv, OncePlaced, NEW p \in Packet, NEW d \in sr_arpcache, ForwardCached(p, d)
  PROVE  Delivery!Next
<1> DEFINE g == ForwardFrame(p, Route[Hdr[p].dst].iface, d.mac)
<1>1. /\ frame = p /\ status = "running" /\ wire' = SentOne(g) /\ d.ip = NextHop(p)
      /\ UNCHANGED <<sr_arpcache, sr_arpqueue, status>> /\ Route[Hdr[p].dst] # NoRoute
  BY DEF ForwardCached, HasRoute, ToForward, Dispatching
<1>2. g \in IpFrame /\ NextHop(p) \in IP
  BY <1>1, RouteType, ForwardFrameType DEF IInv, TypeOK, CacheEntry
<1>3. g.src = g.iface /\ SentAs(g) = [packet |-> p, as |-> "delivered"]
  BY DEF ForwardFrame, SentAs
<1>4. NextHop(p) \in Known
  BY <1>1 DEF Known
<1> HIDE DEF g
<1>5. Outcomes(wire)' = Append(Outcomes(wire), SentAs(g))
  BY <1>1, <1>2, <1>3, OneOutcome
<1> QED
  BY <1>1, <1>2, <1>3, <1>4, <1>5, KnownKept, PendingKept, FreshInHand, AbstractDeliver DEF Mapped

\* The packet in hand waits.
LEMMA DeliveryWaits ==
  ASSUME IInv, IInv', OncePlaced, NEW p \in Packet,
         QueueNew(p) \/ \E e \in sr_arpqueue : QueueBehind(p, e)
  PROVE  Delivery!Next
<1> DEFINE ip == NextHop(p)
<1>1. /\ frame = p /\ status = "running" /\ Route[Hdr[p].dst] # NoRoute /\ ~Cached(ip)
      /\ UNCHANGED <<sr_arpcache, wire, status>>
  BY DEF QueueNew, QueueBehind, HasRoute, ToForward, Dispatching
<1>2. ip \in IP /\ ip \notin Known
  BY <1>1, RouteType DEF Known, Cached
<1>u. UniqueEntries /\ UniqueEntries'
  BY DEF IInv
<1> HIDE DEF ip
<1>3. CASE QueueNew(p)
  <2>1. /\ sr_arpqueue' = sr_arpqueue \cup {NewEntry(p)} /\ ~InQueue(ip)
        /\ NewEntry(p).packets = <<p>> /\ NewEntry(p).ip = ip
    BY <1>1, <1>3, NewEntryType DEF QueueNew, ip
  <2>2. Pending[ip] = <<>>
    BY <1>2, <2>1 DEF Pending, WaitingFor
  <2>3. \A g : g.ip # ip => (g \in sr_arpqueue' <=> g \in sr_arpqueue)
    BY <2>1
  <2>4. \A g \in sr_arpqueue' : g.ip = ip => g.packets = <<p>>
    BY <2>1 DEF InQueue
  <2>5. \E g \in sr_arpqueue' : g.ip = ip
    BY <2>1
  <2>6. Pending' = [Pending EXCEPT ![ip] = <<p>>]
    BY <1>u, <1>2, <2>3, <2>4, <2>5, WaitingElse DEF Pending
  <2>7. Append(Pending[ip], p) = <<p>>
    BY <2>2
  <2> QED
    BY <1>1, <1>2, <2>6, <2>7, KnownKept, OutcomesKept, FreshInHand, AbstractWait DEF Mapped
<1>4. ASSUME NEW e \in sr_arpqueue, QueueBehind(p, e) PROVE Delivery!Next
  <2> DEFINE h == IF Overdue(e) THEN Requested(e) ELSE e
             f == [h EXCEPT !.packets = Append(@, p)]
  <2>1. h \in QueueEntry /\ h.packets = e.packets /\ h.ip = e.ip
    BY <1>4, RequestedType DEF QueueBehind, IInv, TypeOK
  <2>2. f.packets = Append(e.packets, p) /\ f.ip = e.ip
    <3> HIDE DEF h
    <3> QED
      BY <2>1 DEF QueueEntry
  <2>3. sr_arpqueue' = (sr_arpqueue \ {e}) \cup {f} /\ e.ip = ip
    BY <1>4 DEF QueueBehind, ip
  <2> HIDE DEF f, h
  <2>4. \A g : g.ip # ip => (g \in sr_arpqueue' <=> g \in sr_arpqueue)
    BY <2>2, <2>3
  <2>5. \A g \in sr_arpqueue' : g.ip = ip => g.packets = Append(e.packets, p)
    BY <1>u, <2>2, <2>3 DEF UniqueEntries
  <2>6. \E g \in sr_arpqueue' : g.ip = ip
    BY <2>2, <2>3
  <2>7. Pending' = [Pending EXCEPT ![ip] = Append(e.packets, p)]
    BY <1>u, <1>2, <2>4, <2>5, <2>6, WaitingElse DEF Pending
  <2>8. Pending[ip] = e.packets
    BY <2>3, PendingOf
  <2> QED
    BY <1>1, <1>2, <2>7, <2>8, KnownKept, OutcomesKept, FreshInHand, AbstractWait DEF Mapped
<1> QED
  BY <1>3, <1>4

\* The packets of an entry are answered, and the packet in hand after them.
LEMMA DeliveryLate ==
  ASSUME IInv, IInv', OncePlaced, FreedAhead, NEW p \in Packet, NEW e \in sr_arpqueue,
         QueueGiveUp(p, e)
  PROVE  Delivery!Next
<1> DEFINE f  == [e EXCEPT !.packets = <<>>, !.freed = TRUE]
           n  == Cardinality(Answered(e.packets))
           up == status' = "running"
           s  == Unreachables(e.packets)
           u  == UnreachFrame(p)
<1>1. /\ frame = p /\ status = "running" /\ queueLeft = {} /\ UNCHANGED sr_arpcache
      /\ sr_arpqueue' = (sr_arpqueue \ {e}) \cup {f}
      /\ IF ExitsOn(e.packets) THEN wire' = wire \o s ELSE wire' = Append(wire \o s, u)
  BY DEF QueueGiveUp, HasRoute, ToForward, Dispatching
<1>2. f.packets = <<>> /\ f.ip = e.ip /\ e.packets \in Seq(Packet) /\ e.ip \in IP
  BY DEF IInv, TypeOK, QueueEntry
<1>3. e.packets # <<>>
  BY <1>1, FramesAssumption DEF FreedAhead
<1>4. n \in 0..Len(e.packets) /\ Outcomes(s) = Delivery!FirstAs(e.packets, n, "refused")
  BY <1>2, RefusedFirst
<1>5. /\ s \in Seq(IpFrame) /\ u \in IpFrame /\ wire \in Seq(IpFrame)
      /\ SentAs(u) = [packet |-> p, as |-> "refused"]
  BY <1>2, UnreachablesType, UnreachFrameType
     DEF IInv, TypeOK, SentAs, UnreachFrame, IcmpFrame
<1>6. up \in BOOLEAN
  OBVIOUS
<1> HIDE DEF f, n, s, u, up
<1>7. Pending' = [Pending EXCEPT ![e.ip] = <<>>]
  <2>1. f # e
    BY <1>2, <1>3
  <2>2. \A g \in sr_arpqueue' : g \in sr_arpqueue \/ (g.ip = e.ip /\ g.packets = <<>>)
    BY <1>1, <1>2
  <2>3. e \notin sr_arpqueue' /\ \A g \in sr_arpqueue : g = e \/ g \in sr_arpqueue'
    BY <1>1, <2>1
  <2> QED
    BY <2>2, <2>3, PendingEmptied
<1>8. Outcomes(wire)' = Outcomes(wire')
  BY DEF Outcomes, SentAs
<1>9. Outcomes(wire \o s) = Outcomes(wire) \o Outcomes(s) /\ wire \o s \in Seq(IpFrame)
  BY <1>5, OutcomesJoin, ConcatProperties
<1>10. CASE ExitsOn(e.packets)
  <2>1. Mapped(Known, [Pending EXCEPT ![e.ip] = <<>>],
               Outcomes(wire) \o Delivery!FirstAs(e.packets, n, "refused"), up)
    BY <1>1, <1>4, <1>7, <1>8, <1>9, <1>10, KnownKept DEF Mapped, up
  <2> QED
    BY <1>1, <1>2, <1>3, <1>4, <1>6, <2>1, PendingOf, AbstractGiveUp
<1>11. CASE ~ExitsOn(e.packets)
  <2> DEFINE refused == Outcomes(wire) \o Delivery!FirstAs(e.packets, n, "refused")
             sent    == Append(refused, [packet |-> p, as |-> "refused"])
  <2>1. Outcomes(wire)' = Append(Outcomes(wire \o s), SentAs(u))
    BY <1>1, <1>5, <1>8, <1>9, <1>11, OutcomesAppend
  <2>2. Mapped(Known, [Pending EXCEPT ![e.ip] = <<>>], sent, up)
    BY <1>1, <1>4, <1>5, <1>7, <1>9, <2>1, KnownKept DEF Mapped, up
  <2>3. Delivery!Fresh(p)
    BY <1>1, FreshInHand
  <2> QED
    BY <1>1, <1>2, <1>3, <1>4, <1>6, <2>2, <2>3, PendingOf, AbstractGiveUp
<1> QED
  BY <1>10, <1>11

\* A frame about an address that the cache has, or does not want.
LEMMA DeliveryHeard ==
  ASSUME IInv, NEW a \in Arp, IgnoreArp(a) \/ ArpRefresh(a) \/ ArpOverheard(a)
  PROVE  UNCHANGED Delivery!vars
<1>1. UNCHANGED <<sr_arpqueue, wire, status>>
  BY DEF IgnoreArp, ArpRefresh, ArpOverheard, HandleArp
<1>2. CASE ArpRefresh(a)
  <2>1. sr_arpcache' = {IF d.ip = a.sip THEN Learnt(a) ELSE d : d \in sr_arpcache}
    BY <1>2 DEF ArpRefresh
  <2>2. \A d \in sr_arpcache : (IF d.ip = a.sip THEN Learnt(a) ELSE d).ip = d.ip
    BY LearntType
  <2>3. Known' = Known
    BY <2>1, <2>2 DEF Known
  <2> QED
    BY <1>1, <2>3, PendingKept, OutcomesKept, AbstractStutter DEF Mapped
<1>3. CASE ~ArpRefresh(a)
  BY <1>1, <1>3, NothingDone DEF IgnoreArp, ArpOverheard
<1> QED
  BY <1>2, <1>3

\* An address is learnt, and what waits for it is delivered.
LEMMA DeliveryLearnt ==
  ASSUME IInv, IInv', NEW a \in Arp, ArpLearn(a) \/ \E e \in sr_arpqueue : ArpFlush(a, e)
  PROVE  Delivery!Next
<1>1. /\ status = "running" /\ UNCHANGED status /\ ~Cached(a.sip) /\ a.sip \in IP
      /\ sr_arpcache' = sr_arpcache \cup {Learnt(a)} /\ Learnt(a).ip = a.sip
  BY LearntType DEF ArpLearn, ArpFlush, HandleArp, Dispatching
<1>2. a.sip \notin Known /\ Known' = Known \cup {a.sip}
  BY <1>1 DEF Known, Cached
<1>3. CASE ArpLearn(a)
  <2>1. UNCHANGED <<sr_arpqueue, wire>> /\ ~InQueue(a.sip)
    BY <1>3 DEF ArpLearn
  <2>2. Pending[a.sip] = <<>>
    BY <1>1, <2>1 DEF Pending, WaitingFor
  <2>3. Pending' = [Pending EXCEPT ![a.sip] = <<>>]
    BY <2>1, <2>2, PendingKept DEF Pending
  <2>4. Outcomes(wire) \o Delivery!FirstAs(Pending[a.sip], Len(Pending[a.sip]), "delivered")
          = Outcomes(wire)
    <3>1. Delivery!FirstAs(Pending[a.sip], Len(Pending[a.sip]), "delivered") = <<>>
      BY <2>2 DEF Delivery!FirstAs
    <3>2. PICK T : Outcomes(wire) \in Seq(T)
      <4>1. Len(wire) \in Nat
        BY DEF IInv, TypeOK
      <4>2. Outcomes(wire) \in Seq({SentAs(wire[i]) : i \in 1..Len(wire)})
        BY <4>1 DEF Outcomes
      <4> QED
        BY <4>2
    <3> QED
      BY <3>1, <3>2, ConcatEmptySeq
  <2> QED
    BY <1>1, <1>2, <2>1, <2>3, <2>4, OutcomesKept, AbstractResolve DEF Mapped
<1>4. ASSUME NEW e \in sr_arpqueue, ArpFlush(a, e) PROVE Delivery!Next
  <2>1. /\ sr_arpqueue' = sr_arpqueue \ {e} /\ wire' = wire \o Flushed(e, a.sha)
        /\ e.ip = a.sip
    BY <1>4 DEF ArpFlush
  <2>2. Pending' = [Pending EXCEPT ![a.sip] = <<>>]
    <3>1. \A g \in sr_arpqueue' : g \in sr_arpqueue \/ (g.ip = e.ip /\ g.packets = <<>>)
      BY <2>1
    <3>2. e \notin sr_arpqueue' /\ \A g \in sr_arpqueue : g = e \/ g \in sr_arpqueue'
      BY <2>1
    <3> QED
      BY <2>1, <3>1, <3>2, PendingEmptied
  <2>3. Pending[a.sip] = e.packets
    BY <2>1, PendingOf
  <2>4. Outcomes(wire)' = Outcomes(wire) \o Outcomes(Flushed(e, a.sha))
    BY <2>1, FlushedType, LearntType, SentAfter DEF Sends, IInv, TypeOK
  <2>5. Outcomes(Flushed(e, a.sha)) = Delivery!FirstAs(e.packets, Len(e.packets), "delivered")
    <3>1. Len(e.packets) \in Nat
      BY DEF IInv, TypeOK, QueueEntry
    <3>2. \A q : SentAs(ForwardFrame(q, e.iface, a.sha)) = [packet |-> q, as |-> "delivered"]
      BY DEF SentAs, ForwardFrame
    <3> QED
      BY <3>1, <3>2 DEF Outcomes, Flushed, Delivery!FirstAs
  <2> QED
    BY <1>1, <1>2, <2>2, <2>3, <2>4, <2>5, AbstractResolve DEF Mapped
<1> QED
  BY <1>3, <1>4

LEMMA DeliveryStep ==
  ASSUME IInv, IInv', OncePlaced, FreedAhead, [Next]_vars
  PROVE  Delivery!Next \/ UNCHANGED Delivery!vars
<1>1. CASE Tick
  BY <1>1, DeliveryTick
<1>2. CASE Receive \/ Stopped \/ UNCHANGED vars
  <2>1. UNCHANGED <<sr_arpcache, sr_arpqueue, wire, status>>
    BY <1>2 DEF Receive, ReceivePacket, ReceiveArp, StartCall, Stopped, vars
  <2> QED
    BY <2>1, NothingDone
<1>3. CASE Sweep
  BY <1>3, DeliveryCacheWalk, DeliveryQueueWalk DEF Sweep
<1>4. ASSUME NEW p \in Packet, HandlePacket(p) PROVE Delivery!Next \/ UNCHANGED Delivery!vars
  <2>1. CASE DropBadChecksum(p) \/ IgnoreLocal(p)
    <3>1. UNCHANGED <<sr_arpcache, sr_arpqueue, wire, status>>
      BY <2>1 DEF DropBadChecksum, IgnoreLocal, ForRouter
    <3> QED
      BY <3>1, NothingDone
  <2>2. CASE NoRouteFound(p)
    <3>1. /\ status = "running" /\ status' # "running"
          /\ UNCHANGED <<sr_arpcache, sr_arpqueue, wire>>
      BY <2>2 DEF NoRouteFound, ToForward, Dispatching
    <3> QED
      BY <3>1, KnownKept, PendingKept, OutcomesKept, AbstractStop DEF Mapped
  <2> QED
    BY <1>4, <2>1, <2>2, DeliveryOwnAnswer, DeliveryForward, DeliveryWaits, DeliveryLate
       DEF HandlePacket
<1>5. ASSUME NEW a \in Arp,
             \/ IgnoreArp(a) \/ ArpRefresh(a) \/ ArpLearn(a) \/ ArpOverheard(a)
             \/ \E e \in sr_arpqueue : ArpFlush(a, e)
      PROVE  Delivery!Next \/ UNCHANGED Delivery!vars
  BY <1>5, DeliveryHeard, DeliveryLearnt
<1> QED
  BY <1>1, <1>2, <1>3, <1>4, <1>5 DEF Next, HandleFrame

\* Cache and queue deliver as HopDelivery says: every call of the handler, every
\* step of its walks and every tick of the clock is a step of it or none.
THEOREM Implements == Spec => ImplementsDelivery
<1>1. Init => Delivery!Init
  BY DEF Init, Delivery!Init, WaitingFor, InQueue
<1>2. IInv /\ IInv' /\ OncePlaced /\ FreedAhead /\ [Next]_vars => [Delivery!Next]_(Delivery!vars)
  BY DeliveryStep
<1> QED
  BY <1>1, <1>2, Invariance, AlwaysPlaced, AlwaysAhead, PTL
     DEF Spec, ImplementsDelivery, Delivery!Spec
=============================================================================
