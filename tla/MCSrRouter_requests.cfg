SPECIFICATION MCSpec
CONSTANTS
  a = a
  b = b
  ra = ra
  rb = rb
  d = d
  h1 = h1
  h2 = h2
  nowhere = nowhere
  m1 = m1
  m2 = m2
  p1 = p1
  p2 = p2
  p3 = p3
  p4 = p4
  p5 = p5
  p6 = p6
  p7 = p7
  p8 = p8
  p9 = p9
  p10 = p10
  p11 = p11
  p12 = p12
  None = None
  NoRoute = NoRoute
  Iface = {a, b}
  MAC = {m1, m2}
  IP <- MCIP
  IfIP <- MCIfIP
  Route <- MCRoute
  Packet <- MCPacket
  Hdr <- MCHdr
  Arp <- MCArp
  ARP_MAXREQS = 5
  ARPCACHE_TIMEOUT = 2
PROPERTIES
  UnreachableOnlyAfterFiveRequests
