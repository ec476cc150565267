CONSTANTS
  Peers = {p1, p2, p3}
  Seqs = {1, 2}
  Data = {3}
  ARP_CACHE_SIZE = 2
  ARP_TIMEOUT = 2
  ARP_RESOLVE_ITER = 2
  ICMP_WAIT_ITER = 2
  TickMod = 3
  MaxDepth = 3
SPECIFICATION Spec
SYMMETRY Symmetry
INVARIANTS OneEntry PingSound SentAsGiven
