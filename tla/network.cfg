\* A table that the neighbours fill to its last entry.
CONSTANTS
  NULL = NULL
  OwnIPAddress <- Own
  RouterIPAddress <- Router
  Size = 3
  Width = 3
  ICMP_Echo_Request = 4
  UDP_PORT = 65432
  LocalPort = 2
  Remote <- Values
  Reachable = {"TimeOK"}
  Neighbours <- Hosts_
  FirstMAC <- First
  Movers <- Moving
  OtherMACs = {"c"}
  Clients <- Asking
  Payloads = {3, 4}
  Strangers <- Away
  MaxWire = 2
  MaxMoves = 1
SPECIFICATION FairSpec
PROPERTY GetsKnown
INVARIANTS TypeOK GoesToNextHop TableTellsLatest ChecksumsFit
