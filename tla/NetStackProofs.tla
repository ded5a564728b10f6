--------------------------- MODULE NetStackProofs ---------------------------
(***************************************************************************)
(* Packets go to the right neighbour, the ARP table tells the latest       *)
(* address and checksums fit, for every size of the table, every set of    *)
(* hosts, every width of a word and packets that are lost, repeated,       *)
(* reordered and delayed.                                                  *)
(***************************************************************************)
EXTENDS NetStack, FiniteSetTheorems, SequenceTheorems, TLAPS

-----------------------------------------------------------------------------
(* The inductive invariant.                                                *)

\* A neighbour has the address it had first or the one it has now.
MACsOf(h) == {mac[h], FirstMAC[h]}

\* A host this device may talk to.
Peer(ip) == ip \in Neighbours \/ Elsewhere(ip)

ARPData(operation, senderMAC, senderIP, targetMAC, targetIP) ==
  [Operation |-> operation, SenderMAC |-> senderMAC, SenderIP |-> senderIP,
   TargetMAC |-> targetMAC, TargetIP |-> targetIP]

IPData(protocol, source, destination, checksum, data) ==
  [Protocol |-> protocol, SourceAddress |-> source, DestinationAddress |-> destination,
   Checksum |-> checksum, data |-> data]

\* A packet of another host: a neighbour tells its address or asks for one, a host
\* of another net tells its address, or a peer sends one through its gateway.
NeighbourARP(p) ==
  \E h \in Neighbours : \E m \in MACsOf(h) : \E destination, operation, targetMAC, targetIP :
    p = Ethernet_Header(destination, m, "ARP", ARPData(operation, m, h, targetMAC, targetIP))

StrangerARP(p) ==
  \E h \in Neighbours, ip \in Strangers : \E m \in MACsOf(h) : \E destination, targetMAC, targetIP :
    p = Ethernet_Header(destination, m, "ARP",
          ARPData(CPU_TO_BE16(ARP_OPERATION_REPLY), m, ip, targetMAC, targetIP))

PeerIP(p) ==
  \E ip : Peer(ip) /\ \E m \in MACsOf(Gateway(ip)) : \E destination, protocol, to, checksum, data :
    p = Ethernet_Header(destination, m, "IPV4", IPData(protocol, ip, to, checksum, data))

\* A packet of this device, as it should be.
Right(p) ==
  LET ip == IF p.EtherType = "ARP" THEN p.data.TargetIP ELSE p.data.DestinationAddress
      source == IF p.EtherType = "ARP" THEN p.data.SenderIP ELSE p.data.SourceAddress
  IN /\ source = OwnIPAddress
     /\ p.EtherType = "ARP" => p.data.SenderMAC = OwnMACAddress /\ p.data.TargetMAC = p.Destination
     /\ p.Destination = BroadcastMACAddress => (p.EtherType = "IPV4" => ip = BroadcastIPAddress)
     /\ p.Destination # BroadcastMACAddress =>
          ip # BroadcastIPAddress /\ p.Destination \in MACsOf(Gateway(ip))

Genuine(p) ==
  \/ p.Source = OwnMACAddress /\ Right(p)
  \/ NeighbourARP(p) \/ StrangerARP(p) \/ PeerIP(p)

WireOK == \A p \in wire : Genuine(p)

\* Each neighbour has at most one entry that can be found, with what it told last.
TableOK ==
  \A h \in Neighbours : \A i \in 0 .. (Size - 1) : ARP_Table[i].IP = IP_getHost(h) =>
    /\ ARP_Table[i].MAC = told[h]
    /\ \A j \in 0 .. (Size - 1) : ARP_Table[j].IP = IP_getHost(h) => j = i

\* Before the overrun the entries from the position on are unused, and a neighbour
\* that has told its address has an entry.
KeptOK ==
  ~ overrun =>
    /\ \A i \in 0 .. (Size - 1) : i >= writePosition => ARP_Table[i].IP = 0
    /\ \A h \in Neighbours : told[h] # NULL => Entries(h) # {}

ToldOK == \A h \in Neighbours : told[h] \in MACsOf(h) \cup {NULL}

FirstMoves == moves = 0 => mac = FirstMAC

IInv ==
  /\ TypeOK /\ IsFiniteSet(wire)
  /\ FirstMoves
  /\ WireOK
  /\ TableOK
  /\ KeptOK
  /\ ToldOK

-----------------------------------------------------------------------------
(* Addresses.                                                              *)

LEMMA MACFacts ==
  ASSUME TypeOK, NEW h \in Neighbours
  PROVE  /\ mac[h] \in Addresses /\ FirstMAC[h] \in Addresses /\ told[h] \in Addresses \cup {NULL}
         /\ \A m \in MACsOf(h) : /\ m \in Addresses
                                 /\ m # NULL /\ m # OwnMACAddress /\ m # BroadcastMACAddress
  BY MACAssumption DEF TypeOK, MACsOf

LEMMA GatewayFacts ==
  /\ \A ip : Peer(ip) => Gateway(ip) \in Neighbours /\ Hop(ip) = Gateway(ip) /\ ip # BroadcastIPAddress
  /\ \A h \in Neighbours : Gateway(h) = h /\ Peer(h) /\ IP_compareNet(h, OwnIPAddress)
  <1>1. \A h \in Neighbours : ~ Elsewhere(h) /\ h # BroadcastIPAddress
    BY IPAssumption
  <1>2. ~ Elsewhere(BroadcastIPAddress)
    BY DEF Elsewhere, IP_compareNet, Net, BroadcastIPAddress
  <1>3. RouterIPAddress \in Neighbours
    BY IPAssumption
  <1> QED
    BY <1>1, <1>2, <1>3 DEF Peer, Gateway, Hop, Elsewhere, IP_compareNet

LEMMA OperationFacts ==
  CPU_TO_BE16(ARP_OPERATION_REQUEST) # CPU_TO_BE16(ARP_OPERATION_REPLY)
  BY DEF CPU_TO_BE16, ARP_OPERATION_REQUEST, ARP_OPERATION_REPLY

\* What is found in the table for a neighbour.
LEMMA SearchFacts ==
  ASSUME TypeOK, TableOK, NEW h \in Neighbours
  PROVE  /\ ARP_searchMAC(h) \in {NULL, told[h]}
         /\ Entries(h) # {} => ARP_searchMAC(h) = told[h]
         /\ Entries(h) # {} => Slot(h) \in Entries(h) /\ Entries(h) = {Slot(h)}
  <1>1. CASE Entries(h) = {}
    BY <1>1 DEF ARP_searchMAC
  <1>2. CASE Entries(h) # {}
    <2>1. PICK i \in Entries(h) : TRUE
      BY <1>2
    <2>2. Entries(h) = {i} /\ i \in 0 .. (Size - 1)
      BY <2>1 DEF Entries, TableOK
    <2>3. Min(Entries(h)) = i
      BY <2>2 DEF Min
    <2>4. ARP_Table[i].MAC = told[h]
      BY <2>1 DEF Entries, TableOK
    <2> QED
      BY <1>2, <2>2, <2>3, <2>4 DEF ARP_searchMAC, Slot
  <1> QED
    BY <1>1, <1>2

-----------------------------------------------------------------------------
(* What the device sends.                                                  *)

LEMMA FrameFacts ==
  ASSUME NEW destination, NEW source, NEW ethertype, NEW data
  PROVE  LET p == Ethernet_Header(destination, source, ethertype, data)
         IN /\ p.Destination = destination /\ p.Source = source
            /\ p.EtherType = ethertype /\ p.data = data
  BY DEF Ethernet_Header

\* An answer over an IP header goes to where it came from.
LEMMA IPHeaderFacts ==
  ASSUME NEW protocol, NEW source, NEW to, NEW checksum, NEW data, NEW destination
  PROVE  /\ LET IP == IP_WriteHeader(IPData(protocol, source, to, checksum, data), NULL)
            IN IP.DestinationAddress = source /\ IP.SourceAddress = OwnIPAddress
         /\ LET IP == IP_WriteHeader(IPData(protocol, NULL, to, checksum, data), destination)
            IN IP.DestinationAddress = destination /\ IP.SourceAddress = OwnIPAddress
  BY DEF IP_WriteHeader, IPData

LEMMA UDPFacts ==
  ASSUME NEW ip, NEW from, NEW port, NEW data
  PROVE  /\ UDP_Packet(ip, from, port, data).DestinationAddress = ip
         /\ UDP_Packet(ip, from, port, data).SourceAddress = OwnIPAddress
  <1> DEFINE UDP == [SourcePort |-> from, DestinationPort |-> port, data |-> data]
  <1>1. UDP_Packet(ip, from, port, data) = IP_WriteHeader(IPData("UDP", NULL, NULL, 0, UDP), ip)
    BY DEF UDP_Packet, IPData
  <1> HIDE DEF UDP
  <1> QED
    BY <1>1, IPHeaderFacts

\* The request of a rule, or the ARP request it needs before.
LEMMA RequestRight ==
  ASSUME TypeOK, TableOK, ToldOK, NEW r \in Rules
  PROVE  Request(r).Source = OwnMACAddress /\ Right(Request(r))
  <1> DEFINE ip  == Remote[r].IP
             hop == Gateway(ip)
  <1>1. PICK port, data : Request(r) = UDP_GenerateUnicast(ip, port, data)
    BY DEF Request
  <1>2. Peer(ip) /\ hop \in Neighbours /\ Hop(ip) = hop /\ ip # BroadcastIPAddress
    BY IPAssumption, GatewayFacts DEF Peer
  <1> DEFINE UDP == UDP_Packet(ip, UDP_PORT, port, data)
  <1>3. UDP.DestinationAddress = ip /\ UDP.SourceAddress = OwnIPAddress
    BY UDPFacts
  <1>4. Request(r) = Ethernet_GenerateUnicast(hop, UDP)
    BY <1>1, <1>2 DEF UDP_GenerateUnicast
  <1> HIDE DEF UDP, ip
  <1>5. CASE ARP_searchMAC(hop) = NULL
    <2>1. <<BroadcastMACAddress, hop>> # NULL
      BY <1>2, IPAssumption
    <2>2. Request(r) = ARP_GenerateRequest(hop)
      BY <1>4, <1>5 DEF Ethernet_GenerateUnicast
    <2> DEFINE ARP == ARP_WriteHeader(Blank, CPU_TO_BE16(ARP_OPERATION_REQUEST), <<BroadcastMACAddress, hop>>)
    <2>3. /\ ARP.SenderIP = OwnIPAddress /\ ARP.SenderMAC = OwnMACAddress
          /\ ARP.TargetMAC = BroadcastMACAddress
      BY <2>1 DEF ARP_WriteHeader, Blank
    <2>4. Request(r) = Ethernet_Header(BroadcastMACAddress, OwnMACAddress, "ARP", ARP)
      BY <2>2 DEF ARP_GenerateRequest, Ethernet_WriteHeader
    <2> HIDE DEF ARP
    <2> QED
      BY <2>3, <2>4, FrameFacts DEF Right
  <1>6. CASE ARP_searchMAC(hop) # NULL
    <2> DEFINE m == ARP_searchMAC(hop)
    <2>1. m \in MACsOf(hop) /\ m # BroadcastMACAddress
      BY <1>2, <1>6, SearchFacts, MACFacts DEF ToldOK
    <2>2. Request(r) = Ethernet_Header(m, OwnMACAddress, "IPV4", UDP)
      BY <1>4, <1>6 DEF Ethernet_GenerateUnicast, Ethernet_WriteHeader
    <2> HIDE DEF m
    <2> QED
      BY <2>1, <2>2, <1>2, <1>3, FrameFacts DEF Right
  <1> QED
    BY <1>5, <1>6

LEMMA BroadcastRight ==
  ASSUME NEW port, NEW data
  PROVE  LET p == UDP_GenerateBroadcast(port, data)
         IN p.Source = OwnMACAddress /\ Right(p)
  <1> DEFINE UDP == UDP_Packet(BroadcastIPAddress, port, UDP_PORT, data)
  <1>1. UDP.DestinationAddress = BroadcastIPAddress /\ UDP.SourceAddress = OwnIPAddress
    BY UDPFacts
  <1>2. UDP_GenerateBroadcast(port, data) = Ethernet_Header(BroadcastMACAddress, OwnMACAddress, "IPV4", UDP)
    BY DEF UDP_GenerateBroadcast, Ethernet_WriteHeader
  <1> HIDE DEF UDP
  <1> QED
    BY <1>1, <1>2, FrameFacts DEF Right

\* An answer is written over the question, whose sender fields are read before.
LEMMA ReplyRight ==
  ASSUME TypeOK, NEW p, NeighbourARP(p) \/ StrangerARP(p) \/ PeerIP(p), NEW q \in Ethernet_Reply(p)
  PROVE  q.Source = OwnMACAddress /\ Right(q)
  <1>1. CASE NeighbourARP(p)
    <2>1. PICK h \in Neighbours : \E m \in MACsOf(h) : \E destination, operation, targetMAC, targetIP :
            p = Ethernet_Header(destination, m, "ARP", ARPData(operation, m, h, targetMAC, targetIP))
      BY <1>1 DEF NeighbourARP
    <2>2. PICK m \in MACsOf(h) : \E destination, operation, targetMAC, targetIP :
            p = Ethernet_Header(destination, m, "ARP", ARPData(operation, m, h, targetMAC, targetIP))
      BY <2>1
    <2>3. PICK destination, operation, targetMAC, targetIP :
            p = Ethernet_Header(destination, m, "ARP", ARPData(operation, m, h, targetMAC, targetIP))
      BY <2>2
    <2> DEFINE ARP == ARPData(operation, m, h, targetMAC, targetIP)
               R   == ARP_WriteHeader(ARP, ARP_OPERATION_REPLY, NULL)
    <2>4. p.Source = m /\ p.EtherType = "ARP" /\ p.data = ARP
      BY <2>3, FrameFacts
    <2>5. /\ R.TargetMAC = m /\ R.TargetIP = h
          /\ R.SenderMAC = OwnMACAddress /\ R.SenderIP = OwnIPAddress
      BY DEF ARP_WriteHeader, ARPData
    <2>6. ARP_Reply(ARP) \in {NULL, R}
      BY DEF ARP_Reply
    <2> HIDE DEF ARP, R
    <2>7. q = Ethernet_Header(m, OwnMACAddress, "ARP", R)
      BY <2>4, <2>6 DEF Ethernet_Reply, Ethernet_WriteHeader
    <2>8. m # BroadcastMACAddress
      BY MACFacts
    <2>9. h # BroadcastIPAddress /\ Gateway(h) = h
      BY GatewayFacts
    <2> QED
      BY <2>5, <2>7, <2>8, <2>9, FrameFacts DEF Right
  <1>2. CASE StrangerARP(p)
    <2>1. PICK h \in Neighbours, ip \in Strangers : \E m \in MACsOf(h) : \E destination, targetMAC, targetIP :
            p = Ethernet_Header(destination, m, "ARP",
                  ARPData(CPU_TO_BE16(ARP_OPERATION_REPLY), m, ip, targetMAC, targetIP))
      BY <1>2 DEF StrangerARP
    <2>2. PICK m, destination, targetMAC, targetIP :
            p = Ethernet_Header(destination, m, "ARP",
                  ARPData(CPU_TO_BE16(ARP_OPERATION_REPLY), m, ip, targetMAC, targetIP))
      BY <2>1
    <2> DEFINE ARP == ARPData(CPU_TO_BE16(ARP_OPERATION_REPLY), m, ip, targetMAC, targetIP)
    <2>3. p.EtherType = "ARP" /\ p.data = ARP
      BY <2>2, FrameFacts
    <2>4. ARP.Operation = CPU_TO_BE16(ARP_OPERATION_REPLY)
      BY DEF ARPData
    <2> HIDE DEF ARP
    <2>5. ARP_Reply(ARP) = NULL
      BY <2>4, OperationFacts DEF ARP_Reply
    <2> QED
      BY <2>3, <2>5 DEF Ethernet_Reply
  <1>3. CASE PeerIP(p)
    <2>1. PICK ip : Peer(ip) /\ \E m \in MACsOf(Gateway(ip)) : \E destination, protocol, to, checksum, data :
            p = Ethernet_Header(destination, m, "IPV4", IPData(protocol, ip, to, checksum, data))
      BY <1>3 DEF PeerIP
    <2>2. PICK m \in MACsOf(Gateway(ip)) : \E destination, protocol, to, checksum, data :
            p = Ethernet_Header(destination, m, "IPV4", IPData(protocol, ip, to, checksum, data))
      BY <2>1
    <2>3. PICK destination, protocol, to, checksum, data :
            p = Ethernet_Header(destination, m, "IPV4", IPData(protocol, ip, to, checksum, data))
      BY <2>2
    <2> DEFINE IP == IPData(protocol, ip, to, checksum, data)
    <2>4. p.Source = m /\ p.EtherType = "IPV4" /\ p.data = IP
      BY <2>3, FrameFacts
    <2>5. IP_Reply(IP) # NULL => \E reply : IP_Reply(IP) = IP_WriteHeader(IPData(protocol, ip, to, checksum, reply), NULL)
      <3>1. \A reply : [IP EXCEPT !.data = reply] = IPData(protocol, ip, to, checksum, reply)
        BY DEF IPData
      <3> HIDE DEF IP
      <3> QED
        BY <3>1 DEF IP_Reply
    <2> HIDE DEF IP
    <2>6. q = Ethernet_Header(m, OwnMACAddress, "IPV4", IP_Reply(IP)) /\ IP_Reply(IP) # NULL
      BY <2>4 DEF Ethernet_Reply, Ethernet_WriteHeader
    <2>7. PICK reply : IP_Reply(IP) = IP_WriteHeader(IPData(protocol, ip, to, checksum, reply), NULL)
      BY <2>5, <2>6
    <2>8. IP_Reply(IP).DestinationAddress = ip /\ IP_Reply(IP).SourceAddress = OwnIPAddress
      BY <2>7, IPHeaderFacts
    <2>9. m # BroadcastMACAddress /\ ip # BroadcastIPAddress
      BY <2>1, GatewayFacts, MACFacts
    <2> QED
      BY <2>6, <2>8, <2>9, FrameFacts DEF Right
  <1> QED
    BY <1>1, <1>2, <1>3

-----------------------------------------------------------------------------
(* What the others send.                                                   *)

LEMMA TellsGenuine ==
  ASSUME NEW h \in Neighbours
  PROVE  /\ NeighbourARP(Tells(h))
         /\ \A ip \in Strangers : StrangerARP([Tells(h) EXCEPT !.data = [@ EXCEPT !.SenderIP = ip]])
  <1> DEFINE O == CPU_TO_BE16(ARP_OPERATION_REPLY)
             m == mac[h]
  <1> HIDE DEF O, m
  <1>1. Tells(h) = Ethernet_Header(OwnMACAddress, m, "ARP", ARPData(O, m, h, OwnMACAddress, OwnIPAddress))
    BY DEF Tells, ARP_Packet, ARPData, O, m
  <1>2. m \in MACsOf(h)
    BY DEF m, MACsOf
  <1>3. \A ip : [Tells(h) EXCEPT !.data = [@ EXCEPT !.SenderIP = ip]] =
                  Ethernet_Header(OwnMACAddress, m, "ARP", ARPData(O, m, ip, OwnMACAddress, OwnIPAddress))
    <2> SUFFICES ASSUME NEW ip
                 PROVE  [Tells(h) EXCEPT !.data = [@ EXCEPT !.SenderIP = ip]] =
                          Ethernet_Header(OwnMACAddress, m, "ARP", ARPData(O, m, ip, OwnMACAddress, OwnIPAddress))
      OBVIOUS
    <2> DEFINE D == ARPData(O, m, h, OwnMACAddress, OwnIPAddress)
    <2>1. [D EXCEPT !.SenderIP = ip] = ARPData(O, m, ip, OwnMACAddress, OwnIPAddress)
      BY DEF ARPData
    <2> HIDE DEF D
    <2>2. [Ethernet_Header(OwnMACAddress, m, "ARP", D) EXCEPT !.data = [@ EXCEPT !.SenderIP = ip]] =
            Ethernet_Header(OwnMACAddress, m, "ARP", [D EXCEPT !.SenderIP = ip])
      BY DEF Ethernet_Header
    <2> QED
      BY <1>1, <2>1, <2>2 DEF D
  <1>4. NeighbourARP(Tells(h))
    BY <1>1, <1>2 DEF NeighbourARP
  <1>5. \A ip \in Strangers : StrangerARP([Tells(h) EXCEPT !.data = [@ EXCEPT !.SenderIP = ip]])
    BY <1>2, <1>3 DEF StrangerARP, O
  <1> QED
    BY <1>4, <1>5

LEMMA ComesGenuine ==
  ASSUME NEW ip, Peer(ip), NEW protocol, NEW to, NEW data
  PROVE  PeerIP(Comes(ip, protocol, to, data))
  <1> DEFINE m == mac[Gateway(ip)]
             IP == IP_Packet(protocol, ip, to, data)
  <1>1. \E checksum : IP = IPData(protocol, ip, to, checksum, data)
    <2> DEFINE header == IPData(protocol, ip, to, 0, data)
               sum    == Checksum(HeaderWords(header))
    <2>1. \A checksum : [header EXCEPT !.Checksum = checksum] = IPData(protocol, ip, to, checksum, data)
      BY DEF IPData
    <2>2. IP = [header EXCEPT !.Checksum = sum]
      BY DEF IP_Packet, IPData
    <2> HIDE DEF header, sum, IP
    <2> QED
      BY <2>1, <2>2
  <1>2. PICK checksum : IP = IPData(protocol, ip, to, checksum, data)
    BY <1>1
  <1> HIDE DEF IP
  <1>3. Comes(ip, protocol, to, data) =
          Ethernet_Header(OwnMACAddress, m, "IPV4", IPData(protocol, ip, to, checksum, data))
    BY <1>2 DEF Comes, IP
  <1>4. m \in MACsOf(Gateway(ip))
    BY DEF MACsOf
  <1> QED
    BY <1>3, <1>4 DEF PeerIP

LEMMA AnswersGenuine ==
  ASSUME NEW h \in Neighbours, NEW p, NEW q \in HostAnswers(h, p)
  PROVE  Genuine(q)
  <1>1. CASE p.EtherType = "ARP"
    <2>1. q = Tells(h)
      BY <1>1 DEF HostAnswers
    <2> QED
      BY <2>1, TellsGenuine DEF Genuine
  <1>2. CASE p.EtherType # "ARP"
    <2> DEFINE ip == p.data.DestinationAddress
    <2>1. /\ ip = h \/ (h = RouterIPAddress /\ Elsewhere(ip))
          /\ \E data : q = Comes(ip, "UDP", OwnIPAddress, data)
      BY <1>2 DEF HostAnswers
    <2>2. Peer(ip)
      BY <2>1 DEF Peer
    <2> QED
      BY <2>1, <2>2, ComesGenuine DEF Genuine
  <1> QED
    BY <1>1, <1>2

-----------------------------------------------------------------------------
(* Packets stay what they are while addresses change, and the wire finite.  *)

\* A packet stays genuine when no address it may carry is forgotten.
LEMMA GenuineKept ==
  ASSUME NEW p, Genuine(p), \A h \in Neighbours : MACsOf(h) \subseteq MACsOf(h)'
  PROVE  Genuine(p)'
  <1>1. CASE p.Source = OwnMACAddress /\ Right(p)
    <2> DEFINE ip == IF p.EtherType = "ARP" THEN p.data.TargetIP ELSE p.data.DestinationAddress
    <2>1. Gateway(ip) \in Neighbours
      BY IPAssumption DEF Gateway
    <2>2. p.Destination \in MACsOf(Gateway(ip)) => p.Destination \in MACsOf(Gateway(ip))'
      BY <2>1
    <2>3. Right(p)'
      BY <1>1, <2>2 DEF Right
    <2> QED
      BY <1>1, <2>3 DEF Genuine
  <1>2. CASE NeighbourARP(p)
    <2>1. NeighbourARP(p)'
      BY <1>2 DEF NeighbourARP
    <2> QED
      BY <2>1 DEF Genuine
  <1>3. CASE StrangerARP(p)
    <2>1. StrangerARP(p)'
      BY <1>3 DEF StrangerARP
    <2> QED
      BY <2>1 DEF Genuine
  <1>4. CASE PeerIP(p)
    <2>1. \A ip : Gateway(ip) \in Neighbours
      BY IPAssumption DEF Gateway
    <2>2. PeerIP(p)'
      BY <1>4, <2>1 DEF PeerIP
    <2> QED
      BY <2>2 DEF Genuine
  <1> QED
    BY <1>1, <1>2, <1>3, <1>4 DEF Genuine

\* A step that only exchanges packets keeps the invariant if the new ones are
\* genuine.
LEMMA WireKeeps ==
  ASSUME IInv, wire' \subseteq wire \cup {q \in wire' : Genuine(q)},
         IsFiniteSet(wire'), Cardinality(wire') <= MaxWire,
         UNCHANGED <<mac, moves>>
  PROVE  WireOK'
  <1> SUFFICES ASSUME NEW q \in wire' PROVE Genuine(q)'
    BY DEF WireOK
  <1>1. Genuine(q)
    BY DEF IInv, WireOK
  <1>2. \A h \in Neighbours : MACsOf(h) \subseteq MACsOf(h)'
    BY DEF MACsOf
  <1> QED
    BY <1>1, <1>2, GenuineKept

LEMMA SendFacts ==
  ASSUME IInv, NEW p, Send(p)
  PROVE  IsFiniteSet(wire') /\ Cardinality(wire') <= MaxWire /\ wire' = wire \cup {p}
  <1>1. IsFiniteSet(wire) /\ Cardinality(wire) < MaxWire /\ wire' = wire \cup {p}
    BY DEF IInv, Send
  <1>2. /\ IsFiniteSet(wire') /\ Cardinality(wire) \in Nat
        /\ Cardinality(wire') = Cardinality(wire) \/ Cardinality(wire') = Cardinality(wire) + 1
    BY <1>1, FS_AddElement, FS_CardinalityType
  <1> QED
    BY <1>1, <1>2, BoundAssumption

LEMMA ExchangeFacts ==
  ASSUME IInv, NEW p \in wire, NEW answers, IsFiniteSet(answers), Exchange(p, answers)
  PROVE  /\ IsFiniteSet(wire') /\ Cardinality(wire') <= MaxWire
         /\ wire' \subseteq wire \cup answers
  <1>1. IsFiniteSet(wire) /\ IsFiniteSet(wire \ {p})
    BY FS_RemoveElement DEF IInv
  <1> QED
    BY <1>1, FS_Union DEF Exchange

LEMMA LoseFacts ==
  ASSUME IInv, NEW p \in wire, wire' = wire \ {p}
  PROVE  IsFiniteSet(wire') /\ Cardinality(wire') <= MaxWire
  <1>1. IsFiniteSet(wire) /\ Cardinality(wire) <= MaxWire
    BY DEF IInv, TypeOK
  <1>2. IsFiniteSet(wire') /\ Cardinality(wire') = Cardinality(wire) - 1
    BY <1>1, FS_RemoveElement
  <1> QED
    BY <1>1, <1>2, FS_CardinalityType, BoundAssumption

-----------------------------------------------------------------------------
(* Each step keeps the invariant.                                          *)

\* Steps that leave the table alone.
LEMMA PacketKeeps ==
  ASSUME IInv, \A r \in known' : r \in Rules,
         IsFiniteSet(wire'), Cardinality(wire') <= MaxWire,
         \A q \in wire' : q \in wire \/ Genuine(q),
         UNCHANGED <<ARP_Table, writePosition, overrun, mac, told, moves>>
  PROVE  IInv'
  <1>1. WireOK'
    <2>1. wire' \subseteq wire \cup {q \in wire' : Genuine(q)}
      OBVIOUS
    <2> QED
      BY <2>1, WireKeeps
  <1>2. TypeOK'
    BY DEF IInv, TypeOK
  <1>3. FirstMoves' /\ TableOK' /\ KeptOK' /\ ToldOK'
    BY DEF IInv, FirstMoves, TableOK, KeptOK, Entries, ToldOK, MACsOf
  <1> QED
    BY <1>1, <1>2, <1>3 DEF IInv

\* A neighbour that tells its address gets the entry it has or a new one.
LEMMA StoreKeeps ==
  ASSUME IInv, NEW h \in Neighbours, NEW m \in MACsOf(h), NEW ARP, ARP.SenderIP = h, ARP.SenderMAC = m,
         Store(ARP), UNCHANGED <<mac, moves, known>>, Cardinality(wire') <= MaxWire
  PROVE  TypeOK' /\ TableOK' /\ KeptOK' /\ ToldOK'
  <1> DEFINE s == Slot(h)
             e == [IP |-> IP_getHost(h), MAC |-> m]
  <1>1. TypeOK /\ TableOK /\ KeptOK /\ ToldOK /\ Size \in Nat \ {0}
    BY BoundAssumption DEF IInv
  <1>2. /\ IF s \in 0 .. (Size - 1)
           THEN ARP_Table' = [ARP_Table EXCEPT ![s] = e] /\ overrun' = overrun
           ELSE overrun' = TRUE /\ ARP_Table' = ARP_Table
        /\ writePosition' = IF Entries(h) # {} THEN writePosition ELSE NextPosition
        /\ told' = [told EXCEPT ![h] = m]
    BY <1>1 DEF Store, Stored, TypeOK
  <1>3. m \in Addresses
    BY <1>1, MACFacts
  <1>4. s \in 0 .. Size
    <2>1. CASE Entries(h) = {}
      BY <2>1, <1>1 DEF Slot, TypeOK
    <2>2. CASE Entries(h) # {}
      BY <2>2, <1>1, SearchFacts DEF Entries
    <2> QED
      BY <2>1, <2>2
  <1>5. \A i \in 0 .. (Size - 1) : ARP_Table[i].IP = IP_getHost(h) => i = s
    <2> SUFFICES ASSUME NEW i \in 0 .. (Size - 1), ARP_Table[i].IP = IP_getHost(h) PROVE i = s
      OBVIOUS
    <2>1. i \in Entries(h)
      BY DEF Entries
    <2>2. Entries(h) = {Slot(h)}
      BY <2>1, <1>1, SearchFacts
    <2> QED
      BY <2>1, <2>2
  <1>0. /\ Entries(h) = {} => s = writePosition
        /\ Entries(h) # {} => s \in 0 .. (Size - 1)
    BY <1>1, SearchFacts DEF Slot, Entries
  <1> HIDE DEF s
  <1>6. TypeOK'
    <2>1. e \in [IP : {0} \cup {IP_getHost(g) : g \in Neighbours}, MAC : Addresses \cup {NULL}]
      BY <1>3
    <2>2. ARP_Table' \in [0 .. (Size - 1) -> [IP : {0} \cup {IP_getHost(g) : g \in Neighbours},
                                              MAC : Addresses \cup {NULL}]]
      BY <1>1, <1>2, <1>4, <2>1 DEF TypeOK
    <2>3. writePosition' \in 0 .. Size
      BY <1>1, <1>2 DEF TypeOK, NextPosition
    <2>4. told' \in [Neighbours -> Addresses \cup {NULL}]
      BY <1>1, <1>2, <1>3 DEF TypeOK
    <2> QED
      BY <1>1, <1>2, <2>2, <2>3, <2>4 DEF TypeOK
  <1>7. TableOK'
    <2> SUFFICES ASSUME NEW g \in Neighbours, NEW i \in 0 .. (Size - 1), ARP_Table'[i].IP = IP_getHost(g)
                 PROVE  /\ ARP_Table'[i].MAC = told'[g]
                        /\ \A j \in 0 .. (Size - 1) : ARP_Table'[j].IP = IP_getHost(g) => j = i
      BY DEF TableOK
    <2>1. \A j \in 0 .. (Size - 1) : ARP_Table'[j] = IF j = s THEN e ELSE ARP_Table[j]
      BY <1>1, <1>2, <1>4 DEF TypeOK
    <2>2. told'[g] = IF g = h THEN m ELSE told[g]
      BY <1>1, <1>2 DEF TypeOK
    <2>3. CASE i = s
      <3>1. e.IP = IP_getHost(g)
        BY <2>1, <2>3
      <3>2. g = h
        BY <3>1, IPAssumption
      <3>3. ARP_Table'[i].MAC = told'[g]
        BY <2>1, <2>2, <2>3, <3>2
      <3>4. ASSUME NEW j \in 0 .. (Size - 1), ARP_Table'[j].IP = IP_getHost(g) PROVE j = i
        BY <3>4, <2>1, <2>3, <3>2, <1>5
      <3> QED
        BY <3>3, <3>4
    <2>4. CASE i # s
      <3>1. ARP_Table[i].IP = IP_getHost(g)
        BY <2>1, <2>4
      <3>2. g # h
        BY <3>1, <2>4, <1>5
      <3>3. ARP_Table[i].MAC = told[g]
        BY <3>1, <1>1 DEF TableOK
      <3>4. ASSUME NEW j \in 0 .. (Size - 1), ARP_Table'[j].IP = IP_getHost(g) PROVE j = i
        <4>1. j # s
          <5>1. IP_getHost(g) # IP_getHost(h)
            BY <3>2, IPAssumption
          <5> QED
            BY <5>1, <3>4, <2>1
        <4>2. ARP_Table[j].IP = IP_getHost(g)
          BY <4>1, <3>4, <2>1
        <4> QED
          BY <4>2, <3>1, <1>1 DEF TableOK
      <3> QED
        BY <2>1, <2>2, <2>4, <3>2, <3>3, <3>4
    <2> QED
      BY <2>3, <2>4
  <1>8. ToldOK'
    BY <1>1, <1>2 DEF ToldOK, MACsOf, TypeOK
  <1>9. KeptOK'
    <2> SUFFICES ASSUME ~ overrun'
                 PROVE  /\ \A i \in 0 .. (Size - 1) : i >= writePosition' => ARP_Table'[i].IP = 0
                        /\ \A g \in Neighbours : told'[g] # NULL =>
                             \E i \in 0 .. (Size - 1) : ARP_Table'[i].IP = IP_getHost(g)
      BY DEF KeptOK, Entries
    <2>1. /\ s \in 0 .. (Size - 1) /\ ~ overrun
          /\ \A j \in 0 .. (Size - 1) : ARP_Table'[j] = IF j = s THEN e ELSE ARP_Table[j]
      BY <1>1, <1>2 DEF TypeOK
    <2>2. ASSUME NEW i \in 0 .. (Size - 1), i >= writePosition' PROVE ARP_Table'[i].IP = 0
      <3>1. writePosition \in Nat /\ Size \in Nat
        BY <1>1 DEF TypeOK
      <3>2. CASE Entries(h) = {}
        <4>1. s = writePosition /\ writePosition' = writePosition + 1
          BY <3>1, <3>2, <2>1, <1>0, <1>2 DEF NextPosition
        <4>2. i # s /\ i >= writePosition
          BY <4>1, <3>1, <2>2
        <4> QED
          BY <4>2, <2>1, <1>1 DEF KeptOK
      <3>3. CASE Entries(h) # {}
        <4>1. i >= writePosition
          BY <3>3, <2>2, <1>2
        <4>2. ARP_Table[i].IP = 0
          BY <4>1, <2>1, <1>1 DEF KeptOK
        <4>3. ARP_Table[s].IP = IP_getHost(h) /\ IP_getHost(h) # 0
          BY <3>3, <1>5, IPAssumption DEF Entries
        <4>4. i # s
          BY <4>2, <4>3
        <4> QED
          BY <4>2, <4>4, <2>1
      <3> QED
        BY <3>2, <3>3
    <2>3. ASSUME NEW g \in Neighbours, told'[g] # NULL
          PROVE  \E i \in 0 .. (Size - 1) : ARP_Table'[i].IP = IP_getHost(g)
      <3>1. CASE g = h
        BY <3>1, <2>1
      <3>2. CASE g # h
        <4>1. told'[g] = told[g]
          BY <3>2, <1>1, <1>2 DEF TypeOK
        <4>2. PICK i \in 0 .. (Size - 1) : ARP_Table[i].IP = IP_getHost(g)
          BY <4>1, <2>1, <2>3, <1>1 DEF KeptOK, Entries
        <4>3. IP_getHost(g) # IP_getHost(h) /\ IP_getHost(g) # 0
          BY <3>2, IPAssumption
        <4>4. CASE Entries(h) = {}
          <5>1. s = writePosition /\ ARP_Table[s].IP = 0
            BY <4>4, <2>1, <1>0, <1>1 DEF KeptOK, TypeOK
          <5>2. i # s
            BY <5>1, <4>2, <4>3
          <5> QED
            BY <5>2, <4>2, <2>1
        <4>5. CASE Entries(h) # {}
          <5>1. ARP_Table[s].IP = IP_getHost(h)
            BY <4>5, <1>5 DEF Entries
          <5>2. i # s
            BY <5>1, <4>2, <4>3
          <5> QED
            BY <5>2, <4>2, <2>1
        <4> QED
          BY <4>4, <4>5
      <3> QED
        BY <3>1, <3>2
    <2> QED
      BY <2>2, <2>3
  <1> QED
    BY <1>6, <1>7, <1>8, <1>9

LEMMA LearnKeeps ==
  ASSUME IInv, NEW p \in wire, Arrived(p), p.EtherType = "ARP", ARP_Learn(p.data),
         UNCHANGED <<mac, moves, known>>, Cardinality(wire') <= MaxWire
  PROVE  TypeOK' /\ TableOK' /\ KeptOK' /\ ToldOK'
  <1>1. CASE UNCHANGED <<ARP_Table, writePosition, overrun, told>>
    BY <1>1 DEF IInv, TypeOK, TableOK, KeptOK, Entries, ToldOK, MACsOf
  <1>2. CASE Stores(p.data) /\ Store(p.data)
    <2>1. Genuine(p) /\ p.Source # OwnMACAddress
      BY DEF IInv, WireOK, Arrived
    <2>2. CASE NeighbourARP(p)
      <3>1. PICK h \in Neighbours : \E m \in MACsOf(h) : \E destination, operation, targetMAC, targetIP :
              p = Ethernet_Header(destination, m, "ARP", ARPData(operation, m, h, targetMAC, targetIP))
        BY <2>2 DEF NeighbourARP
      <3>2. PICK m \in MACsOf(h) : \E destination, operation, targetMAC, targetIP :
              p = Ethernet_Header(destination, m, "ARP", ARPData(operation, m, h, targetMAC, targetIP))
        BY <3>1
      <3>3. p.data.SenderIP = h /\ p.data.SenderMAC = m
        BY <3>2 DEF Ethernet_Header, ARPData
      <3> QED
        BY <1>2, <3>3, StoreKeeps
    <2>3. CASE StrangerARP(p)
      <3>1. PICK ip \in Strangers : \E m, destination, targetMAC, targetIP :
              p = Ethernet_Header(destination, m, "ARP",
                    ARPData(CPU_TO_BE16(ARP_OPERATION_REPLY), m, ip, targetMAC, targetIP))
        BY <2>3 DEF StrangerARP
      <3>2. p.data.SenderIP = ip
        BY <3>1 DEF Ethernet_Header, ARPData
      <3> QED
        BY <1>2, <3>2, IPAssumption DEF Stores, Elsewhere, IP_compareNet
    <2>4. CASE PeerIP(p)
      <3>1. p.EtherType = "IPV4"
        BY <2>4 DEF PeerIP, Ethernet_Header
      <3> QED
        BY <3>1
    <2> QED
      BY <2>1, <2>2, <2>3, <2>4 DEF Genuine
  <1> QED
    BY <1>1, <1>2 DEF ARP_Learn

LEMMA ProcessKeeps ==
  ASSUME IInv, NEW p \in wire, processNetworkPackets(p)
  PROVE  IInv'
  <1>1. /\ Arrived(p) /\ Exchange(p, Ethernet_Reply(p)) /\ UNCHANGED <<mac, moves>>
        /\ IF p.EtherType = "ARP"
           THEN ARP_Learn(p.data) /\ UNCHANGED known
           ELSE known' = known \cup IP_Learn(p.data) /\ UNCHANGED <<ARP_Table, writePosition, overrun, told>>
    BY DEF processNetworkPackets
  <1>2. NeighbourARP(p) \/ StrangerARP(p) \/ PeerIP(p)
    BY <1>1 DEF IInv, WireOK, Genuine, Arrived
  <1>3. \A q \in Ethernet_Reply(p) : Genuine(q)
    BY <1>2, ReplyRight DEF Genuine, IInv
  <1>4. IsFiniteSet(Ethernet_Reply(p))
    <2>1. Ethernet_Reply(p) = {} \/ \E q : Ethernet_Reply(p) = {q}
      BY DEF Ethernet_Reply
    <2> QED
      BY <2>1, FS_EmptySet, FS_Singleton
  <1>5. /\ IsFiniteSet(wire') /\ Cardinality(wire') <= MaxWire
        /\ wire' \subseteq wire \cup Ethernet_Reply(p)
    BY <1>1, <1>4, ExchangeFacts
  <1>6. CASE p.EtherType = "ARP"
    <2>1. TypeOK' /\ TableOK' /\ KeptOK' /\ ToldOK'
      BY <1>1, <1>5, <1>6, LearnKeeps
    <2>2. wire' \subseteq wire \cup {q \in wire' : Genuine(q)}
      BY <1>3, <1>5
    <2>3. WireOK'
      BY <1>1, <1>5, <2>2, WireKeeps
    <2>4. FirstMoves'
      BY <1>1 DEF IInv, FirstMoves
    <2> QED
      BY <1>5, <2>1, <2>3, <2>4 DEF IInv
  <1>7. CASE p.EtherType # "ARP"
    <2>1. \A r \in IP_Learn(p.data) : r \in Rules
      BY DEF IP_Learn, UDP_Callback_Reply
    <2>2. \A r \in known' : r \in Rules
      BY <1>1, <1>7, <2>1 DEF IInv, TypeOK
    <2> QED
      BY <1>1, <1>3, <1>5, <1>7, <2>2, PacketKeeps
  <1> QED
    BY <1>6, <1>7

LEMMA SendKeeps ==
  ASSUME IInv, NEW p, Genuine(p), Send(p), \A r \in known' : r \in Rules,
         UNCHANGED <<ARP_Table, writePosition, overrun, mac, told, moves>>
  PROVE  IInv'
  <1>1. IsFiniteSet(wire') /\ Cardinality(wire') <= MaxWire /\ wire' = wire \cup {p}
    BY SendFacts
  <1> QED
    BY <1>1, PacketKeeps

LEMMA AskKeeps ==
  ASSUME IInv, NEW r \in Rules, Ask(r)
  PROVE  IInv'
  <1>1. Genuine(Request(r))
    BY RequestRight DEF IInv, Genuine
  <1>2. \A s \in known' : s \in Rules
    BY DEF Ask, IInv, TypeOK
  <1> QED
    BY <1>1, <1>2, SendKeeps DEF Ask

LEMMA RulesKnown ==
  ASSUME IInv, UNCHANGED known
  PROVE  \A r \in known' : r \in Rules
  BY DEF IInv, TypeOK

LEMMA BroadcastKeeps ==
  ASSUME IInv, sendChangedRules
  PROVE  IInv'
  <1>1. Genuine(UDP_GenerateBroadcast(LocalPort, "value"))
    BY BroadcastRight DEF Genuine
  <1> QED
    BY <1>1, RulesKnown, SendKeeps DEF sendChangedRules

LEMMA UnaskedKeeps ==
  ASSUME IInv, Unasked
  PROVE  IInv'
  <1>1. PICK h \in Neighbours, ip \in Strangers :
          \E p \in {Tells(h), [Tells(h) EXCEPT !.data = [@ EXCEPT !.SenderIP = ip]]} : Send(p)
    BY DEF Unasked
  <1>2. PICK p \in {Tells(h), [Tells(h) EXCEPT !.data = [@ EXCEPT !.SenderIP = ip]]} : Send(p)
    BY <1>1
  <1>3. Genuine(p)
    BY TellsGenuine DEF Genuine
  <1> QED
    BY <1>2, <1>3, RulesKnown, SendKeeps DEF Unasked

LEMMA ClientKeeps ==
  ASSUME IInv, NEW ip \in Clients, ClientAsks(ip)
  PROVE  IInv'
  <1>1. Peer(ip)
    BY IPAssumption DEF Peer
  <1>2. UNCHANGED <<ARP_Table, writePosition, overrun, known, mac, told, moves>>
    BY DEF ClientAsks
  <1>3. ASSUME NEW protocol, NEW to, NEW data, Send(Comes(ip, protocol, to, data)) PROVE IInv'
    <2>1. Genuine(Comes(ip, protocol, to, data))
      BY <1>1, ComesGenuine DEF Genuine
    <2> QED
      BY <1>2, <1>3, <2>1, RulesKnown, SendKeeps
  <1>4. ASSUME ip \in Neighbours,
               Send(Ethernet_Header(BroadcastMACAddress, mac[ip], "ARP",
                      ARP_Packet(ip, ARP_OPERATION_REQUEST, NULL, OwnIPAddress)))
        PROVE  IInv'
    <2> DEFINE m == mac[ip]
               O == CPU_TO_BE16(ARP_OPERATION_REQUEST)
               p == Ethernet_Header(BroadcastMACAddress, m, "ARP", ARPData(O, m, ip, NULL, OwnIPAddress))
    <2>1. p = Ethernet_Header(BroadcastMACAddress, mac[ip], "ARP",
                ARP_Packet(ip, ARP_OPERATION_REQUEST, NULL, OwnIPAddress))
      BY DEF ARPData, ARP_Packet
    <2>2. m \in MACsOf(ip)
      BY DEF MACsOf
    <2> HIDE DEF m, O
    <2>3. NeighbourARP(p)
      BY <1>4, <2>2 DEF NeighbourARP
    <2> HIDE DEF p
    <2> QED
      BY <1>2, <1>4, <2>1, <2>3, RulesKnown, SendKeeps DEF Genuine
  <1> QED
    BY <1>3, <1>4 DEF ClientAsks

LEMMA HostKeeps ==
  ASSUME IInv, NEW h \in Neighbours, NEW p \in wire, HostReceives(h, p)
  PROVE  IInv'
  <1>1. \E answers : /\ Exchange(p, answers)
                     /\ answers = {} \/ \E q \in HostAnswers(h, p) : answers = {q}
    BY DEF HostReceives
  <1>2. PICK answers : /\ Exchange(p, answers)
                       /\ answers = {} \/ \E q \in HostAnswers(h, p) : answers = {q}
    BY <1>1
  <1>3. IsFiniteSet(answers) /\ \A q \in answers : Genuine(q)
    <2>1. CASE answers = {}
      BY <2>1, FS_EmptySet
    <2>2. CASE \E q \in HostAnswers(h, p) : answers = {q}
      <3>1. PICK q \in HostAnswers(h, p) : answers = {q}
        BY <2>2
      <3>2. Genuine(q)
        BY AnswersGenuine
      <3>3. IsFiniteSet({q})
        BY FS_Singleton
      <3> QED
        BY <3>1, <3>2, <3>3
    <2> QED
      BY <1>2, <2>1, <2>2
  <1>4. /\ IsFiniteSet(wire') /\ Cardinality(wire') <= MaxWire
        /\ \A q \in wire' : q \in wire \/ Genuine(q)
    BY <1>2, <1>3, ExchangeFacts
  <1> QED
    BY <1>4, RulesKnown, PacketKeeps DEF HostReceives

LEMMA LoseKeeps ==
  ASSUME IInv, NEW p \in wire, Lose(p)
  PROVE  IInv'
  <1>1. wire' = wire \ {p} /\ UNCHANGED <<ARP_Table, writePosition, overrun, known, mac, told, moves>>
    BY DEF Lose
  <1>2. IsFiniteSet(wire') /\ Cardinality(wire') <= MaxWire
    BY <1>1, LoseFacts
  <1> QED
    BY <1>1, <1>2, RulesKnown, PacketKeeps

\* Only the first change of an address is modelled: the one before is the first.
LEMMA MoveKeeps ==
  ASSUME IInv, NEW h \in Neighbours, Move(h)
  PROVE  IInv'
  <1>1. PICK m \in OtherMACs : mac' = [mac EXCEPT ![h] = m]
    BY DEF Move
  <1>2. /\ moves < MaxMoves /\ moves' = moves + 1
        /\ UNCHANGED <<ARP_Table, writePosition, overrun, known, wire, told>>
    BY DEF Move
  <1>3. mac = FirstMAC /\ moves' = 1 /\ MaxMoves = 1
    BY <1>2, BoundAssumption DEF IInv, FirstMoves, TypeOK
  <1>4. \A g \in Neighbours : MACsOf(g) \subseteq MACsOf(g)'
    BY <1>3 DEF MACsOf
  <1>5. WireOK'
    BY <1>2, <1>4, GenuineKept DEF IInv, WireOK
  <1>6. TypeOK'
    BY <1>1, <1>2, <1>3 DEF IInv, TypeOK, Addresses
  <1>7. TableOK' /\ KeptOK' /\ FirstMoves'
    BY <1>2, <1>3 DEF IInv, TableOK, KeptOK, Entries, FirstMoves
  <1>8. ToldOK'
    BY <1>2, <1>4 DEF IInv, ToldOK
  <1> QED
    BY <1>2, <1>5, <1>6, <1>7, <1>8 DEF IInv

LEMMA InitIInv ==
  ASSUME Init
  PROVE  IInv
  <1>1. IsFiniteSet(wire) /\ Cardinality(wire) = 0
    BY FS_EmptySet DEF Init
  <1>2. TypeOK
    <2>1. overrun \in BOOLEAN
      BY Zenon DEF Init
    <2> QED
      BY <1>1, <2>1, MACAssumption, BoundAssumption DEF Init, TypeOK
  <1>3. WireOK /\ FirstMoves /\ ToldOK
    BY DEF Init, WireOK, FirstMoves, ToldOK
  <1>4. TableOK /\ KeptOK
    BY IPAssumption, BoundAssumption DEF Init, TableOK, KeptOK
  <1> QED
    BY <1>1, <1>2, <1>3, <1>4 DEF IInv

LEMMA NextKeeps ==
  ASSUME IInv, [Next]_vars
  PROVE  IInv'
  <1>1. CASE \E p \in wire : processNetworkPackets(p)
    BY <1>1, ProcessKeeps
  <1>2. CASE \E r \in Rules : Ask(r)
    BY <1>2, AskKeeps
  <1>3. CASE sendChangedRules
    BY <1>3, BroadcastKeeps
  <1>4. CASE Unasked
    BY <1>4, UnaskedKeeps
  <1>5. CASE \E ip \in Clients : ClientAsks(ip)
    BY <1>5, ClientKeeps
  <1>6. CASE \E h \in Movers : Move(h)
    BY <1>6, MoveKeeps, IPAssumption
  <1>7. CASE \E h \in Neighbours, p \in wire : HostReceives(h, p)
    BY <1>7, HostKeeps
  <1>8. CASE \E p \in wire : Lose(p)
    BY <1>8, LoseKeeps
  <1>9. CASE UNCHANGED vars
    <2>1. \A q \in wire' : q \in wire \/ Genuine(q)
      BY <1>9 DEF vars
    <2>2. IsFiniteSet(wire') /\ Cardinality(wire') <= MaxWire
      BY <1>9 DEF vars, IInv, TypeOK
    <2> QED
      BY <1>9, <2>1, <2>2, RulesKnown, PacketKeeps DEF vars
  <1> QED
    BY <1>1, <1>2, <1>3, <1>4, <1>5, <1>6, <1>7, <1>8, <1>9 DEF Next, Device, Hosts

LEMMA Invariance == Spec => []IInv
  <1>1. IInv /\ [Next]_vars => IInv'
    BY NextKeeps
  <1> QED
    BY InitIInv, <1>1, PTL DEF Spec

-----------------------------------------------------------------------------

\* Every entry of the table is unused or has a neighbour with one of its addresses,
\* and the position is at most that behind the last entry, which an address is not
\* to be written to (ARP.c 65 to 93).
THEOREM TypeCorrect == Spec => []TypeOK
  <1>1. IInv => TypeOK
    BY DEF IInv
  <1> QED
    BY <1>1, Invariance, PTL

\* Whatever is answered in place or asked by way of the table goes to the neighbour
\* its destination is reached through (ARP.c 36 to 63, IP.c 56 to 125, Ethernet.c).
THEOREM GoesRight == Spec => []GoesToNextHop
  <1>1. ASSUME IInv PROVE GoesToNextHop
    <2>1. ASSUME NEW p \in Sent PROVE Right(p)
      <3>1. p \in wire /\ p.Source = OwnMACAddress /\ Genuine(p)
        BY <1>1 DEF Sent, IInv, WireOK
      <3>2. \A h \in Neighbours : OwnMACAddress \notin MACsOf(h)
        BY <1>1, MACFacts DEF IInv
      <3>3. ~ NeighbourARP(p)
        BY <3>1, <3>2 DEF NeighbourARP, Ethernet_Header
      <3>4. ~ StrangerARP(p)
        BY <3>1, <3>2 DEF StrangerARP, Ethernet_Header
      <3>5. ~ PeerIP(p)
        <4>1. \A ip : Gateway(ip) \in Neighbours
          BY IPAssumption DEF Gateway
        <4> QED
          BY <3>1, <3>2, <4>1 DEF PeerIP, Ethernet_Header
      <3> QED
        BY <3>1, <3>3, <3>4, <3>5 DEF Genuine
    <2> QED
      BY <2>1 DEF GoesToNextHop, Right, MACsOf
  <1> QED
    BY <1>1, Invariance, PTL

\* Until an address is written behind the table, what is found for a neighbour is
\* what it told last, and nothing is found only if it has told nothing: for every
\* size of the table and any order of answers (ARP.c 65 to 108).
THEOREM TableTellsTruth == Spec => []TableTellsLatest
  <1>1. ASSUME IInv PROVE TableTellsLatest
    <2> SUFFICES ASSUME ~ overrun, NEW h \in Neighbours PROVE ARP_searchMAC(h) = told[h]
      BY DEF TableTellsLatest
    <2>1. CASE Entries(h) = {}
      <3>1. told[h] = NULL
        BY <1>1, <2>1 DEF IInv, KeptOK
      <3> QED
        BY <2>1, <3>1 DEF ARP_searchMAC
    <2>2. CASE Entries(h) # {}
      BY <1>1, <2>2, SearchFacts DEF IInv
    <2> QED
      BY <2>1, <2>2
  <1> QED
    BY <1>1, Invariance, PTL

-----------------------------------------------------------------------------
(* Arithmetic of one's complement.                                         *)

LEMMA WordFacts ==
  /\ 2^Width \in Int /\ 2^Width = Modulus + 1
  /\ Modulus \in Nat /\ Modulus > 0
  /\ \A w : w \in Words <=> w \in Int /\ 0 <= w /\ w <= Modulus
  /\ 0 \in Words /\ 1 \in Words /\ Modulus \in Words
  /\ ICMP_Echo_Request \in Words /\ ICMP_Echo_Reply \in Words
  BY SMT, WidthAssumption, WordAssumption DEF Modulus, Words, ICMP_Echo_Reply

LEMMA MultipleFits ==
  ASSUME NEW m \in Nat, m > 0, NEW c \in Int
  PROVE  (m * c) % m = 0
  BY SMT

LEMMA RestFits ==
  ASSUME NEW m \in Nat, m > 0, NEW c \in Int, NEW r \in Int, 0 <= r, r < m
  PROVE  (m * c + r) % m = r
  BY SMT

LEMMA RemainderFits ==
  ASSUME NEW m \in Nat, m > 0, NEW x \in Int
  PROVE  \E c \in Int, r \in Int : x = m * c + r /\ 0 <= r /\ r < m /\ x % m = r
  <1>1. PICK c \in Int : c = x \div m /\ m * c <= x /\ x < m * c + m
    BY SMT
  <1>2. x - m * c \in Int /\ 0 <= x - m * c /\ x - m * c < m
    BY SMT, <1>1
  <1>3. PICK r \in Int : r = x - m * c /\ 0 <= r /\ r < m
    BY <1>2
  <1>4. (m * c + r) % m = r
    BY <1>3, RestFits
  <1>5. x = m * c + r
    BY SMT, <1>3
  <1>6. x % m = r
    BY <1>4, <1>5
  <1> QED
    BY <1>3, <1>5, <1>6

LEMMA AddFacts ==
  ASSUME NEW x \in Words, NEW y \in Words
  PROVE  IP_ChecksumAdd(x, y) \in Words /\ IP_ChecksumAdd(x, y) \in {x + y, x + y - Modulus}
  <1>1. x \in Int /\ 0 <= x /\ x <= Modulus /\ y \in Int /\ 0 <= y /\ y <= Modulus
    BY WordFacts
  <1>2. PICK p \in Nat : p = 2^Width /\ p = Modulus + 1 /\ p > 1
    BY SMT, WordFacts
  <1>3. CASE x + y < p
    BY SMT, <1>1, <1>2, <1>3, WordFacts DEF IP_ChecksumAdd
  <1>4. CASE x + y >= p
    <2>1. PICK s \in Int : s = x + y + 1 - p /\ 0 <= s /\ s < p
      BY SMT, <1>1, <1>2, <1>4, WordFacts
    <2>2. (p * 1 + s) % p = s
      <3>1. p > 0 /\ 1 \in Int
        BY SMT, <1>2
      <3> QED
        BY <3>1, <2>1, RestFits
    <2>3. x + y + 1 = p * 1 + s
      BY SMT, <2>1, <1>1, <1>2
    <2>4. IP_ChecksumAdd(x, y) = s
      BY <2>2, <2>3, <1>2, <1>4 DEF IP_ChecksumAdd
    <2> QED
      BY SMT, <2>1, <2>4, <1>1, <1>2, WordFacts
  <1> QED
    BY SMT, <1>1, <1>2, <1>3, <1>4

\* Numbers that differ by a multiple of the modulus.
Alike(x, y) == \E k \in Int : x = y - Modulus * k

LEMMA AlikeFacts ==
  ASSUME NEW x \in Int, NEW y \in Int, NEW z \in Int, NEW u \in Int, Alike(x, y),
         u \in {x + z, x + z - Modulus}
  PROVE  Alike(u, y + z)
  <1>1. PICK k \in Int : x = y - Modulus * k
    BY DEF Alike
  <1>2. CASE u = x + z
    <2>1. u = (y + z) - Modulus * k
      BY SMT, <1>1, <1>2, WordFacts
    <2> QED
      BY <2>1 DEF Alike
  <1>3. CASE u = x + z - Modulus
    <2>1. u = (y + z) - Modulus * (k + 1)
      BY SMT, <1>1, <1>3, WordFacts
    <2>2. k + 1 \in Int
      OBVIOUS
    <2> QED
      BY <2>1, <2>2 DEF Alike
  <1> QED
    BY <1>2, <1>3

\* The sum of the words of an IP header, with the carries brought back, is one of
\* them and differs from their plain sum by multiples of the modulus.
LEMMA HeaderSum ==
  ASSUME NEW a \in Words, NEW b \in Words, NEW c \in Words, NEW d \in Words, NEW e \in Words
  PROVE  /\ Total(<<a, b, c, d, e>>) = a + b + c + d + e
         /\ Sum(<<a, b, c, d, e>>) \in Words
         /\ Alike(Sum(<<a, b, c, d, e>>), a + b + c + d + e)
  <1> DEFINE w == <<a, b, c, d, e>>
             Plain(g) == g = [n \in 0 .. Len(w) |-> IF n = 0 THEN 0 ELSE g[n - 1] + w[n]]
             Carried(g) == g = [n \in 0 .. Len(w) |-> IF n = 0 THEN 0 ELSE IP_ChecksumAdd(g[n - 1], w[n])]
             A == IP_ChecksumAdd(0, a)
             B == IP_ChecksumAdd(A, b)
             C == IP_ChecksumAdd(B, c)
             D == IP_ChecksumAdd(C, d)
             E == IP_ChecksumAdd(D, e)
  <1>1. Len(w) = 5 /\ w[1] = a /\ w[2] = b /\ w[3] = c /\ w[4] = d /\ w[5] = e
    OBVIOUS
  <1>2. a \in Int /\ b \in Int /\ c \in Int /\ d \in Int /\ e \in Int
    BY WordFacts
  <1>3. Total(w) = a + b + c + d + e
    <2> DEFINE f == [n \in 0 .. 5 |-> IF n = 0 THEN 0 ELSE IF n = 1 THEN a ELSE IF n = 2 THEN a + b
                       ELSE IF n = 3 THEN a + b + c ELSE IF n = 4 THEN a + b + c + d ELSE a + b + c + d + e]
    <2>1. \A n \in 0 .. 5 : f[n] = IF n = 0 THEN 0 ELSE f[n - 1] + w[n]
      <3>1. \A n \in 0 .. 5 : n = 0 \/ n = 1 \/ n = 2 \/ n = 3 \/ n = 4 \/ n = 5
        BY SMT
      <3>2. f[0] = 0 /\ f[1] = a /\ f[2] = a + b /\ f[3] = a + b + c /\ f[4] = a + b + c + d
            /\ f[5] = a + b + c + d + e
        BY SMT
      <3> HIDE DEF f, w
      <3> QED
        BY SMT, <3>1, <3>2, <1>1, <1>2
    <2>2. Plain(f)
      BY <1>1, <2>1
    <2>3. PICK g : g = CHOOSE h : Plain(h)
      OBVIOUS
    <2>4. Plain(g)
      BY <2>2, <2>3
    <2>5. Total(w) = g[5]
      BY <1>1, <2>3 DEF Total
    <2>6. \A n \in 0 .. 5 : g[n] = IF n = 0 THEN 0 ELSE g[n - 1] + w[n]
      BY <1>1, <2>4
    <2> HIDE DEF w, f, Plain
    <2>7. g[0] = 0 /\ g[1] = g[0] + a /\ g[2] = g[1] + b /\ g[3] = g[2] + c /\ g[4] = g[3] + d /\ g[5] = g[4] + e
      BY SMT, <2>6, <1>1
    <2> QED
      BY SMT, <2>5, <2>7, <1>2
  <1>4. Sum(w) = E
    <2> DEFINE f == [n \in 0 .. 5 |-> IF n = 0 THEN 0 ELSE IF n = 1 THEN A ELSE IF n = 2 THEN B
                       ELSE IF n = 3 THEN C ELSE IF n = 4 THEN D ELSE E]
    <2>1. \A n \in 0 .. 5 : f[n] = IF n = 0 THEN 0 ELSE IP_ChecksumAdd(f[n - 1], w[n])
      <3>1. \A n \in 0 .. 5 : n = 0 \/ n = 1 \/ n = 2 \/ n = 3 \/ n = 4 \/ n = 5
        BY SMT
      <3>2. f[0] = 0 /\ f[1] = A /\ f[2] = B /\ f[3] = C /\ f[4] = D /\ f[5] = E
        BY SMT
      <3> HIDE DEF f, w
      <3> QED
        BY SMT, <3>1, <3>2, <1>1, <1>2
    <2>2. Carried(f)
      BY <1>1, <2>1
    <2>3. PICK g : g = CHOOSE h : Carried(h)
      OBVIOUS
    <2>4. Carried(g)
      BY <2>2, <2>3
    <2>5. Sum(w) = g[5]
      BY <1>1, <2>3 DEF Sum
    <2>6. \A n \in 0 .. 5 : g[n] = IF n = 0 THEN 0 ELSE IP_ChecksumAdd(g[n - 1], w[n])
      BY <1>1, <2>4
    <2> HIDE DEF w, f, Carried
    <2>7. /\ g[0] = 0 /\ g[1] = IP_ChecksumAdd(g[0], a) /\ g[2] = IP_ChecksumAdd(g[1], b)
          /\ g[3] = IP_ChecksumAdd(g[2], c) /\ g[4] = IP_ChecksumAdd(g[3], d) /\ g[5] = IP_ChecksumAdd(g[4], e)
      BY SMT, <2>6, <1>1
    <2> QED
      BY <2>5, <2>7
  <1> HIDE DEF w, A, B, C, D, E
  <1>5. A \in Words /\ A \in {a, a - Modulus}
    BY SMT, AddFacts, WordFacts, <1>2 DEF A
  <1>6. B \in Words /\ B \in {A + b, A + b - Modulus}
    BY <1>5, AddFacts DEF B
  <1>7. C \in Words /\ C \in {B + c, B + c - Modulus}
    BY <1>6, AddFacts DEF C
  <1>8. D \in Words /\ D \in {C + d, C + d - Modulus}
    BY <1>7, AddFacts DEF D
  <1>9. E \in Words /\ E \in {D + e, D + e - Modulus}
    BY <1>8, AddFacts DEF E
  <1>10. Alike(E, a + b + c + d + e)
    <2>1. Modulus \in Int /\ A \in Int /\ B \in Int /\ C \in Int /\ D \in Int /\ E \in Int
      BY <1>5, <1>6, <1>7, <1>8, <1>9, WordFacts
    <2>2. a + b \in Int /\ a + b + c \in Int /\ a + b + c + d \in Int
      BY SMT, <1>2
    <2>3. Alike(A, a)
      <3>1. a = a - Modulus * 0 /\ a - Modulus = a - Modulus * 1 /\ 0 \in Int /\ 1 \in Int
        BY SMT, <1>2, <2>1
      <3> QED
        BY <3>1, <1>5 DEF Alike
    <2>4. Alike(B, a + b)
      BY <2>1, <2>2, <2>3, <1>2, <1>6, AlikeFacts
    <2>5. Alike(C, a + b + c)
      BY <2>1, <2>2, <2>4, <1>2, <1>7, AlikeFacts
    <2>6. Alike(D, a + b + c + d)
      BY <2>1, <2>2, <2>5, <1>2, <1>8, AlikeFacts
    <2> QED
      BY <2>1, <2>2, <2>6, <1>2, <1>9, AlikeFacts
  <1> QED
    BY <1>3, <1>4, <1>9, <1>10 DEF w

-----------------------------------------------------------------------------
(* Headers and echoes.                                                     *)

Pairs == Words \X Words

\* A checksum is the one of the words if it makes their sum a multiple.
LEMMA MultipleChecks ==
  ASSUME NEW words, NEW checksum, NEW c \in Int, Total(words) + checksum = Modulus * c
  PROVE  ChecksumFits(checksum, words)
  BY WordFacts, MultipleFits DEF ChecksumFits

\* A protocol and two addresses are five words.
LEMMA PairsJoined ==
  ASSUME NEW a \in Words, NEW b \in Words, NEW c \in Words, NEW d \in Words, NEW e \in Words
  PROVE  <<a>> \o <<b, c>> \o <<d, e>> = <<a, b, c, d, e>>
  <1> DEFINE s == <<a>>
             t == <<b, c>>
             u == <<d, e>>
             w == <<a, b, c, d, e>>
  <1>1. s \in Seq(Words) /\ t \in Seq(Words) /\ u \in Seq(Words) /\ w \in Seq(Words)
    OBVIOUS
  <1>2. Len(s) = 1 /\ Len(t) = 2 /\ Len(u) = 2 /\ Len(w) = 5
    OBVIOUS
  <1>3. /\ s[1] = a /\ t[1] = b /\ t[2] = c /\ u[1] = d /\ u[2] = e
        /\ w[1] = a /\ w[2] = b /\ w[3] = c /\ w[4] = d /\ w[5] = e
    OBVIOUS
  <1> HIDE DEF s, t, u, w
  <1>4. /\ s \o t \in Seq(Words) /\ Len(s \o t) = 3
        /\ (s \o t)[1] = a /\ (s \o t)[2] = b /\ (s \o t)[3] = c
    <2>1. /\ s \o t \in Seq(Words) /\ Len(s \o t) = Len(s) + Len(t)
          /\ \A i \in 1 .. Len(s) + Len(t) : (s \o t)[i] = IF i <= Len(s) THEN s[i] ELSE t[i - Len(s)]
      BY <1>1, ConcatProperties
    <2> QED
      BY SMT, <2>1, <1>2, <1>3
  <1>5. PICK v : v = s \o t
    OBVIOUS
  <1>6. /\ v \o u \in Seq(Words) /\ Len(v \o u) = 5
        /\ (v \o u)[1] = a /\ (v \o u)[2] = b /\ (v \o u)[3] = c /\ (v \o u)[4] = d /\ (v \o u)[5] = e
    <2>1. /\ v \o u \in Seq(Words) /\ Len(v \o u) = Len(v) + Len(u)
          /\ \A i \in 1 .. Len(v) + Len(u) : (v \o u)[i] = IF i <= Len(v) THEN v[i] ELSE u[i - Len(v)]
      BY <1>1, <1>4, <1>5, ConcatProperties
    <2> QED
      BY SMT, <2>1, <1>2, <1>3, <1>4, <1>5
  <1>7. v \o u = w
    <2>1. \A i \in 1 .. 5 : (v \o u)[i] = w[i]
      <3>1. \A i \in 1 .. 5 : i = 1 \/ i = 2 \/ i = 3 \/ i = 4 \/ i = 5
        BY SMT
      <3> QED
        BY <3>1, <1>3, <1>6
    <2> QED
      BY <2>1, <1>1, <1>2, <1>6, SeqEqual
  <1> QED
    BY <1>5, <1>7 DEF s, t, u, w

LEMMA HeaderFits ==
  ASSUME NEW h, h.SourceAddress \in Pairs, h.DestinationAddress \in Pairs
  PROVE  ChecksumFits(IP_Checksum(HeaderWords(h)), HeaderWords(h))
  <1>1. PICK a \in Words : a = IF h.Protocol = "UDP" THEN 17 % 2^Width ELSE 1
    <2>1. PICK p \in Nat : p = 2^Width /\ p = Modulus + 1 /\ p > 0
      BY SMT, WordFacts
    <2>2. 17 % p \in Int /\ 0 <= 17 % p /\ 17 % p < p
      BY SMT, <2>1
    <2>3. 17 % p \in Int /\ 0 <= 17 % p /\ 17 % p <= Modulus
      BY SMT, <2>1, <2>2, WordFacts
    <2> QED
      BY <2>1, <2>3, WordFacts
  <1>2. PICK b \in Words, c \in Words : h.SourceAddress = <<b, c>>
    BY DEF Pairs
  <1>3. PICK d \in Words, e \in Words : h.DestinationAddress = <<d, e>>
    BY DEF Pairs
  <1>4. HeaderWords(h) = <<a, b, c, d, e>>
    BY PairsJoined, <1>1, <1>2, <1>3 DEF HeaderWords
  <1> DEFINE w == <<a, b, c, d, e>>
  <1>5. Sum(w) \in Words /\ Alike(Sum(w), Total(w)) /\ Total(w) \in Int
    <2>1. a + b + c + d + e \in Int
      BY SMT, WordFacts
    <2> QED
      BY <2>1, HeaderSum
  <1>6. PICK k \in Int : Sum(w) = Total(w) - Modulus * k
    BY <1>5 DEF Alike
  <1>7. Sum(w) \in Int
    BY <1>5, WordFacts
  <1> HIDE DEF w
  <1>8. IP_Checksum(w) = Modulus - Sum(w)
    BY SMT, <1>7, WordFacts DEF IP_Checksum
  <1>9. Total(w) + IP_Checksum(w) = Modulus * (k + 1) /\ k + 1 \in Int
    BY SMT, <1>5, <1>6, <1>7, <1>8, WordFacts
  <1> QED
    BY <1>4, <1>9, MultipleChecks DEF w

\* An echo has a checksum that fits: the sum is a multiple.
Echo(ICMP) ==
  \E type \in {ICMP_Echo_Request, ICMP_Echo_Reply}, word \in Words, checksum \in Words, c \in Int :
    /\ ICMP = [Type |-> type, data |-> word, Checksum |-> checksum]
    /\ type + word + checksum = Modulus * c

LEMMA EchoSum ==
  ASSUME NEW a \in Int, NEW b \in Int
  PROVE  Total(<<a, b>>) = a + b
  <1> DEFINE w == <<a, b>>
             f == [n \in 0 .. 2 |-> IF n = 0 THEN 0 ELSE IF n = 1 THEN a ELSE a + b]
             Plain(g) == g = [n \in 0 .. Len(w) |-> IF n = 0 THEN 0 ELSE g[n - 1] + w[n]]
  <1>1. Len(w) = 2 /\ w[1] = a /\ w[2] = b
    OBVIOUS
  <1>2. Plain(f)
    <2>1. \A n \in 0 .. 2 : f[n] = IF n = 0 THEN 0 ELSE f[n - 1] + w[n]
      BY SMT
    <2> QED
      BY <1>1, <2>1
  <1>3. PICK g : g = CHOOSE h : Plain(h)
    OBVIOUS
  <1>4. Plain(g)
    BY <1>2, <1>3
  <1>5. Total(w) = g[2]
    BY <1>1, <1>3 DEF Total
  <1>6. \A n \in 0 .. 2 : g[n] = IF n = 0 THEN 0 ELSE g[n - 1] + w[n]
    BY <1>1, <1>4
  <1>7. g[0] = 0 /\ g[1] = g[0] + a /\ g[2] = g[1] + b
    <2> HIDE DEF w, Plain
    <2> QED
      BY SMT, <1>6, <1>1
  <1> QED
    BY SMT, <1>5, <1>7

LEMMA EchoFits ==
  ASSUME NEW ICMP, Echo(ICMP)
  PROVE  ChecksumFits(ICMP.Checksum, <<ICMP.Type, ICMP.data>>)
  <1>1. PICK type \in {ICMP_Echo_Request, ICMP_Echo_Reply}, word \in Words, checksum \in Words, c \in Int :
          /\ ICMP = [Type |-> type, data |-> word, Checksum |-> checksum]
          /\ type + word + checksum = Modulus * c
    BY DEF Echo
  <1>2. type \in Int /\ word \in Int /\ checksum \in Int
    BY WordFacts
  <1>3. Total(<<type, word>>) = type + word
    BY <1>2, EchoSum
  <1>4. ChecksumFits(checksum, <<type, word>>)
    BY <1>1, <1>3, MultipleChecks
  <1> QED
    BY <1>1, <1>4

\* The request of another host, with the checksum it calculates.
LEMMA RequestFits ==
  ASSUME NEW word \in Words
  PROVE  Echo([Type |-> ICMP_Echo_Request, data |-> word,
               Checksum |-> Checksum(<<ICMP_Echo_Request, word>>)])
  <1>1. PICK t \in Int : t = ICMP_Echo_Request
    BY WordFacts
  <1>2. word \in Int /\ Modulus \in Nat /\ Modulus > 0 /\ t + word \in Int
    BY SMT, <1>1, WordFacts
  <1>3. Total(<<t, word>>) = t + word
    BY <1>2, EchoSum
  <1>4. PICK k \in Int, r \in Int :
          t + word = Modulus * k + r /\ 0 <= r /\ r < Modulus /\ (t + word) % Modulus = r
    BY <1>2, RemainderFits
  <1>5. Checksum(<<t, word>>) = (Modulus - r) % Modulus
    BY <1>3, <1>4 DEF Checksum
  <1>6. CASE r = 0
    <2>1. Modulus - r = Modulus * 1 /\ 1 \in Int
      BY SMT, <1>2, <1>6
    <2>2. Checksum(<<t, word>>) = 0
      BY <1>2, <1>5, <2>1, MultipleFits
    <2>3. t + word + 0 = Modulus * k
      BY SMT, <1>2, <1>4, <1>6
    <2> QED
      BY <1>1, <2>2, <2>3, WordFacts DEF Echo
  <1>7. CASE r # 0
    <2>1. PICK s \in Int : s = Modulus - r /\ 0 <= s /\ s < Modulus
      BY SMT, <1>2, <1>4, <1>7
    <2>2. s = Modulus * 0 + s /\ 0 \in Int
      BY SMT, <1>2, <2>1
    <2>3. s % Modulus = s
      BY <1>2, <2>1, <2>2, RestFits
    <2>4. Checksum(<<t, word>>) = s
      BY <1>5, <2>1, <2>3
    <2>5. s \in Words
      BY SMT, <2>1, WordFacts
    <2>6. t + word + s = Modulus * (k + 1) /\ k + 1 \in Int
      BY SMT, <1>2, <1>4, <2>1
    <2> QED
      BY <1>1, <2>4, <2>5, <2>6 DEF Echo
  <1> QED
    BY <1>6, <1>7

\* The checksum of a reply is that of the request, corrected by what changes.
LEMMA ReplyFits ==
  ASSUME NEW ICMP, Echo(ICMP), ICMP_Reply(ICMP) # NULL
  PROVE  Echo(ICMP_Reply(ICMP))
  <1>1. PICK type \in {ICMP_Echo_Request, ICMP_Echo_Reply}, word \in Words, checksum \in Words, c \in Int :
          /\ ICMP = [Type |-> type, data |-> word, Checksum |-> checksum]
          /\ type + word + checksum = Modulus * c
    BY DEF Echo
  <1>2. PICK t \in Words : t = ICMP_Echo_Request /\ t - ICMP_Echo_Reply = t
    BY SMT, WordFacts DEF ICMP_Echo_Reply
  <1>3. type = t
    BY <1>1, <1>2 DEF ICMP_Reply
  <1>4. PICK sum \in Words : sum = IP_ChecksumAdd(checksum, t) /\ sum \in {checksum + t, checksum + t - Modulus}
    BY AddFacts
  <1>5. ICMP_Reply(ICMP) = [Type |-> 0, data |-> word, Checksum |-> sum]
    <2>1. ICMP_Reply(ICMP) = [ICMP EXCEPT !.Type = 0, !.Checksum = IP_ChecksumAdd(checksum, t)]
      BY <1>1, <1>2, <1>3 DEF ICMP_Reply, ICMP_Echo_Reply
    <2> QED
      BY <2>1, <1>1, <1>4
  <1>6. \E k \in Int : 0 + word + sum = Modulus * k
    <2>1. /\ t \in Int /\ word \in Int /\ checksum \in Int /\ sum \in Int /\ Modulus \in Int
          /\ t + word + checksum = Modulus * c
      BY <1>1, <1>3, WordFacts
    <2>2. CASE sum = checksum + t
      <3>1. 0 + word + sum = Modulus * c
        BY SMT, <2>1, <2>2
      <3> QED
        BY <3>1
    <2>3. CASE sum = checksum + t - Modulus
      <3>1. 0 + word + sum = Modulus * (c - 1) /\ c - 1 \in Int
        BY SMT, <2>1, <2>3
      <3> QED
        BY <3>1
    <2> QED
      BY <1>4, <2>2, <2>3
  <1> QED
    BY <1>5, <1>6 DEF Echo, ICMP_Echo_Reply

-----------------------------------------------------------------------------
(* The packets on the way.                                                 *)

\* An IP packet between hosts whose addresses have two words, and if it is an echo,
\* with a checksum that fits.
SoundIP(IP) ==
  \E source \in Pairs, to \in Pairs : \E protocol, checksum, data :
    /\ IP = IPData(protocol, source, to, checksum, data)
    /\ protocol = "ICMP" => Echo(data)

HeaderSound(IP) == ChecksumFits(IP.Checksum, HeaderWords(IP))

\* What is known of a packet, from whatever time it is.
Sound(p) ==
  \/ p.EtherType = "ARP"
  \/ p.EtherType = "IPV4" /\ SoundIP(p.data) /\ (p.Source = OwnMACAddress => HeaderSound(p.data))

AllSound == \A p \in wire : Sound(p)

LEMMA PairFacts ==
  /\ OwnIPAddress \in Pairs /\ BroadcastIPAddress \in Pairs
  /\ \A ip \in Clients \cup Neighbours \cup {Remote[r].IP : r \in Rules} : ip \in Pairs
  <1>1. OwnIPAddress \in Pairs
    BY WordAssumption DEF Pairs
  <1>2. Net(OwnIPAddress) \in Words /\ 2^Width - 1 \in Words
    BY <1>1, WordFacts DEF Net, Pairs, Modulus
  <1> QED
    BY <1>1, <1>2, WordAssumption DEF Pairs, BroadcastIPAddress

LEMMA SoundIPFacts ==
  ASSUME NEW protocol, NEW source \in Pairs, NEW to \in Pairs, NEW checksum, NEW data,
         protocol = "ICMP" => Echo(data)
  PROVE  SoundIP(IPData(protocol, source, to, checksum, data))
  <1> DEFINE IP == IPData(protocol, source, to, checksum, data)
  <1>1. IP = IPData(protocol, source, to, checksum, data)
    OBVIOUS
  <1> HIDE DEF IP
  <1>2. SoundIP(IP)
    BY <1>1 DEF SoundIP
  <1> QED
    BY <1>2 DEF IP

\* A header that this device writes has a checksum that fits.
LEMMA WriteFits ==
  ASSUME NEW protocol, NEW source, NEW to, NEW checksum, NEW data, NEW destination, NEW d \in Pairs,
         d = IF destination = NULL THEN source ELSE destination,
         protocol = "ICMP" => Echo(data)
  PROVE  LET IP == IP_WriteHeader(IPData(protocol, source, to, checksum, data), destination)
         IN SoundIP(IP) /\ HeaderSound(IP)
  <1> DEFINE header == IPData(protocol, OwnIPAddress, d, checksum, data)
             sum == IP_Checksum(HeaderWords(header))
             IP == IPData(protocol, OwnIPAddress, d, sum, data)
  <1>1. IP_WriteHeader(IPData(protocol, source, to, checksum, data), destination) = IP
    <2> DEFINE before == IPData(protocol, source, to, checksum, data)
    <2>1. before.SourceAddress = source
      BY DEF IPData
    <2>2. [before EXCEPT !.DestinationAddress = d, !.SourceAddress = OwnIPAddress] = header
      <3>1. [before EXCEPT !.DestinationAddress = d] = IPData(protocol, source, d, checksum, data)
        BY DEF IPData
      <3>2. [IPData(protocol, source, d, checksum, data) EXCEPT !.SourceAddress = OwnIPAddress] = header
        BY DEF IPData
      <3> HIDE DEF before, header
      <3> QED
        BY <3>1, <3>2
    <2>3. [header EXCEPT !.Checksum = sum] = IP
      <3> HIDE DEF sum
      <3> QED
        BY DEF IPData
    <2> HIDE DEF before, header, IP
    <2>4. IP_WriteHeader(before, destination) = [header EXCEPT !.Checksum = sum]
      BY <2>1, <2>2 DEF IP_WriteHeader
    <2> QED
      BY <2>3, <2>4 DEF before
  <1>2. HeaderWords(IP) = HeaderWords(header) /\ IP.Checksum = sum
    BY DEF HeaderWords, IPData
  <1>3. header.SourceAddress \in Pairs /\ header.DestinationAddress \in Pairs
    BY PairFacts DEF IPData
  <1> HIDE DEF header
  <1>4. HeaderSound(IP)
    BY <1>2, <1>3, HeaderFits DEF HeaderSound
  <1>5. SoundIP(IP)
    BY PairFacts, SoundIPFacts
  <1> QED
    BY <1>1, <1>4, <1>5

LEMMA UDPSound ==
  ASSUME NEW ip \in Pairs, NEW from, NEW port, NEW data, NEW destination
  PROVE  Sound(Ethernet_WriteHeader(destination, "IPV4", UDP_Packet(ip, from, port, data)))
  <1> DEFINE UDP == [SourcePort |-> from, DestinationPort |-> port, data |-> data]
  <1>1. UDP_Packet(ip, from, port, data) = IP_WriteHeader(IPData("UDP", NULL, NULL, 0, UDP), ip)
    BY DEF UDP_Packet, IPData
  <1> HIDE DEF UDP
  <1>2. SoundIP(UDP_Packet(ip, from, port, data)) /\ HeaderSound(UDP_Packet(ip, from, port, data))
    <2>1. ip = IF ip = NULL THEN NULL ELSE ip
      OBVIOUS
    <2>2. "UDP" # "ICMP"
      OBVIOUS
    <2> QED
      BY <1>1, <2>1, <2>2, WriteFits
  <1> QED
    BY <1>2, FrameFacts DEF Sound, Ethernet_WriteHeader

LEMMA ARPSound ==
  ASSUME NEW destination, NEW source, NEW data
  PROVE  Sound(Ethernet_Header(destination, source, "ARP", data))
  BY FrameFacts DEF Sound

LEMMA RequestSound ==
  ASSUME NEW r \in Rules
  PROVE  Sound(Request(r))
  <1>1. PICK port, data : Request(r) = UDP_GenerateUnicast(Remote[r].IP, port, data)
    BY DEF Request
  <1>2. Remote[r].IP \in Pairs
    BY PairFacts
  <1> DEFINE hop == Hop(Remote[r].IP)
             UDP == UDP_Packet(Remote[r].IP, UDP_PORT, port, data)
  <1>3. Request(r) = Ethernet_GenerateUnicast(hop, UDP)
    BY <1>1 DEF UDP_GenerateUnicast
  <1>4. Sound(Ethernet_WriteHeader(ARP_searchMAC(hop), "IPV4", UDP))
    BY <1>2, UDPSound
  <1>5. Sound(ARP_GenerateRequest(hop))
    BY ARPSound DEF ARP_GenerateRequest, Ethernet_WriteHeader
  <1> HIDE DEF hop, UDP
  <1> QED
    BY <1>3, <1>4, <1>5 DEF Ethernet_GenerateUnicast

\* What is answered in place.
LEMMA AnswerSound ==
  ASSUME NEW p, Sound(p), NEW q \in Ethernet_Reply(p)
  PROVE  Sound(q)
  <1>1. CASE p.EtherType = "ARP"
    BY <1>1, ARPSound DEF Ethernet_Reply, Ethernet_WriteHeader
  <1>2. CASE p.EtherType # "ARP"
    <2>1. p.EtherType = "IPV4" /\ SoundIP(p.data)
      BY <1>2 DEF Sound
    <2>2. PICK source \in Pairs, to \in Pairs : \E protocol, checksum, data :
            /\ p.data = IPData(protocol, source, to, checksum, data)
            /\ protocol = "ICMP" => Echo(data)
      BY <2>1 DEF SoundIP
    <2>3. PICK protocol, checksum, data :
            /\ p.data = IPData(protocol, source, to, checksum, data)
            /\ protocol = "ICMP" => Echo(data)
      BY <2>2
    <2> DEFINE IP == IPData(protocol, source, to, checksum, data)
               reply == IF protocol = "ICMP" THEN ICMP_Reply(data) ELSE UDP_Reply(data)
    <2>4. IP_Reply(IP) # NULL =>
            reply # NULL /\ IP_Reply(IP) = IP_WriteHeader(IPData(protocol, source, to, checksum, reply), NULL)
      <3>1. \A r : [IP EXCEPT !.data = r] = IPData(protocol, source, to, checksum, r)
        BY DEF IPData
      <3>2. IP.Protocol = protocol /\ IP.data = data
        BY DEF IPData
      <3> HIDE DEF IP
      <3> QED
        BY <3>1, <3>2 DEF IP_Reply
    <2>5. q = Ethernet_Header(p.Source, OwnMACAddress, "IPV4", IP_Reply(IP)) /\ IP_Reply(IP) # NULL
      BY <2>1, <2>3 DEF Ethernet_Reply, Ethernet_WriteHeader
    <2>6. protocol = "ICMP" => Echo(reply)
      BY <2>3, <2>4, <2>5, ReplyFits
    <2> HIDE DEF IP, reply
    <2>7. SoundIP(IP_Reply(IP)) /\ HeaderSound(IP_Reply(IP))
      BY <2>4, <2>5, <2>6, WriteFits
    <2> QED
      BY <2>5, <2>7, FrameFacts DEF Sound
  <1> QED
    BY <1>1, <1>2

\* What other hosts send.
LEMMA ComesSound ==
  ASSUME TypeOK, NEW ip \in Pairs, NEW to \in Pairs, NEW protocol, NEW data, protocol = "ICMP" => Echo(data)
  PROVE  Sound(Comes(ip, protocol, to, data))
  <1> DEFINE header == IPData(protocol, ip, to, 0, data)
             sum == Checksum(HeaderWords(header))
             IP == IP_Packet(protocol, ip, to, data)
             m == mac[Gateway(ip)]
  <1>1. IP = IPData(protocol, ip, to, sum, data)
    <2>1. \A c : [header EXCEPT !.Checksum = c] = IPData(protocol, ip, to, c, data)
      BY DEF IPData
    <2>2. IP = [header EXCEPT !.Checksum = sum]
      BY DEF IP_Packet, IPData
    <2> HIDE DEF header, sum, IP
    <2> QED
      BY <2>1, <2>2
  <1>2. m # OwnMACAddress
    <2>1. Gateway(ip) \in Neighbours
      BY IPAssumption DEF Gateway
    <2> QED
      BY <2>1, MACFacts DEF MACsOf
  <1>3. Comes(ip, protocol, to, data) = Ethernet_Header(OwnMACAddress, m, "IPV4", IP)
    BY DEF Comes
  <1> HIDE DEF IP, sum, m
  <1>4. SoundIP(IP)
    BY <1>1, SoundIPFacts
  <1> QED
    BY <1>2, <1>3, <1>4, FrameFacts DEF Sound

LEMMA HostSound ==
  ASSUME TypeOK, NEW h \in Neighbours, NEW p, Sound(p), NEW q \in HostAnswers(h, p)
  PROVE  Sound(q)
  <1>1. CASE p.EtherType = "ARP"
    <2>1. q = Tells(h)
      BY <1>1 DEF HostAnswers
    <2> QED
      BY <2>1, ARPSound DEF Tells
  <1>2. CASE p.EtherType # "ARP"
    <2>1. PICK source \in Pairs, ip \in Pairs : \E protocol, checksum, data :
            p.data = IPData(protocol, source, ip, checksum, data)
      BY <1>2 DEF Sound, SoundIP
    <2>2. p.data.DestinationAddress = ip
      BY <2>1 DEF IPData
    <2>3. \E data : q = Comes(ip, "UDP", OwnIPAddress, data)
      BY <1>2, <2>2 DEF HostAnswers
    <2>4. "UDP" # "ICMP" /\ OwnIPAddress \in Pairs
      BY PairFacts
    <2> QED
      BY <2>3, <2>4, ComesSound
  <1> QED
    BY <1>1, <1>2

LEMMA ClientSound ==
  ASSUME TypeOK, AllSound, NEW ip \in Clients, ClientAsks(ip)
  PROVE  \A q \in wire' : Sound(q)
  <1>1. ip \in Pairs /\ OwnIPAddress \in Pairs /\ BroadcastIPAddress \in Pairs
    BY PairFacts
  <1>2. ASSUME NEW p, Send(p), Sound(p) PROVE \A q \in wire' : Sound(q)
    BY <1>2 DEF Send, AllSound
  <1>3. CASE Send(Ethernet_Header(BroadcastMACAddress, mac[ip], "ARP",
                    ARP_Packet(ip, ARP_OPERATION_REQUEST, NULL, OwnIPAddress)))
    BY <1>2, <1>3, ARPSound
  <1>4. CASE \E word \in Payloads :
               Send(Comes(ip, "ICMP", OwnIPAddress,
                 [Type |-> ICMP_Echo_Request, data |-> word, Checksum |-> Checksum(<<ICMP_Echo_Request, word>>)]))
    <2>1. PICK word \in Payloads :
               Send(Comes(ip, "ICMP", OwnIPAddress,
                 [Type |-> ICMP_Echo_Request, data |-> word, Checksum |-> Checksum(<<ICMP_Echo_Request, word>>)]))
      BY <1>4
    <2> DEFINE ICMP == [Type |-> ICMP_Echo_Request, data |-> word,
                        Checksum |-> Checksum(<<ICMP_Echo_Request, word>>)]
    <2>2. Echo(ICMP)
      BY WordAssumption, RequestFits
    <2>3. Send(Comes(ip, "ICMP", OwnIPAddress, ICMP))
      BY <2>1
    <2> HIDE DEF ICMP
    <2>4. Sound(Comes(ip, "ICMP", OwnIPAddress, ICMP))
      BY <1>1, <2>2, ComesSound
    <2> QED
      BY <1>2, <2>3, <2>4
  <1>5. CASE \E destination \in {OwnIPAddress} \cup IF ip \in Neighbours THEN {BroadcastIPAddress} ELSE {} :
               Send(Comes(ip, "UDP", destination,
                 [SourcePort |-> UDP_PORT, DestinationPort |-> LocalPort, data |-> "ask"]))
    <2>1. PICK destination \in Pairs : \E data : Send(Comes(ip, "UDP", destination, data))
      BY <1>1, <1>5
    <2>2. PICK data : Send(Comes(ip, "UDP", destination, data))
      BY <2>1
    <2>3. "UDP" # "ICMP"
      OBVIOUS
    <2>4. Sound(Comes(ip, "UDP", destination, data))
      BY <1>1, <2>3, ComesSound
    <2> QED
      BY <1>2, <2>2, <2>4
  <1> QED
    BY <1>3, <1>4, <1>5 DEF ClientAsks

LEMMA StepSound ==
  ASSUME TypeOK, AllSound, [Next]_vars
  PROVE  AllSound'
  <1> SUFFICES \A q \in wire' : Sound(q)
    BY DEF AllSound
  <1>1. ASSUME NEW p, Send(p), Sound(p) PROVE \A q \in wire' : Sound(q)
    BY <1>1 DEF Send, AllSound
  <1>2. ASSUME NEW p \in wire, NEW answers, Exchange(p, answers), \A q \in answers : Sound(q)
        PROVE  \A q \in wire' : Sound(q)
    BY <1>2 DEF Exchange, AllSound
  <1>3. CASE \E p \in wire : processNetworkPackets(p)
    <2>1. PICK p \in wire : Exchange(p, Ethernet_Reply(p))
      BY <1>3 DEF processNetworkPackets
    <2>2. \A q \in Ethernet_Reply(p) : Sound(q)
      BY AnswerSound DEF AllSound
    <2> QED
      BY <1>2, <2>1, <2>2
  <1>4. CASE \E r \in Rules : Ask(r)
    <2>1. PICK r \in Rules : Send(Request(r))
      BY <1>4 DEF Ask
    <2> QED
      BY <1>1, <2>1, RequestSound
  <1>5. CASE sendChangedRules
    <2>1. Send(UDP_GenerateBroadcast(LocalPort, "value"))
      BY <1>5 DEF sendChangedRules
    <2>2. Sound(UDP_GenerateBroadcast(LocalPort, "value"))
      BY PairFacts, UDPSound DEF UDP_GenerateBroadcast
    <2> QED
      BY <1>1, <2>1, <2>2
  <1>6. CASE Unasked
    <2>1. PICK h \in Neighbours, ip \in Strangers :
            \E p \in {Tells(h), [Tells(h) EXCEPT !.data = [@ EXCEPT !.SenderIP = ip]]} : Send(p)
      BY <1>6 DEF Unasked
    <2>2. PICK p \in {Tells(h), [Tells(h) EXCEPT !.data = [@ EXCEPT !.SenderIP = ip]]} : Send(p)
      BY <2>1
    <2>3. p.EtherType = "ARP"
      BY DEF Tells, Ethernet_Header
    <2> QED
      BY <1>1, <2>2, <2>3 DEF Sound
  <1>7. CASE \E ip \in Clients : ClientAsks(ip)
    BY <1>7, ClientSound
  <1>8. CASE \E h \in Neighbours, p \in wire : HostReceives(h, p)
    <2>1. PICK h \in Neighbours, p \in wire : HostReceives(h, p)
      BY <1>8
    <2>2. PICK answers : /\ Exchange(p, answers)
                         /\ answers = {} \/ \E q \in HostAnswers(h, p) : answers = {q}
      BY <2>1 DEF HostReceives
    <2>3. \A q \in answers : Sound(q)
      BY <2>2, HostSound DEF AllSound
    <2> QED
      BY <1>2, <2>2, <2>3
  <1>9. CASE (\E p \in wire : Lose(p)) \/ (\E h \in Movers : Move(h)) \/ UNCHANGED vars
    <2>1. \A q \in wire' : q \in wire
      BY <1>9 DEF Lose, Move, vars
    <2> QED
      BY <2>1 DEF AllSound
  <1> QED
    BY <1>3, <1>4, <1>5, <1>6, <1>7, <1>8, <1>9 DEF Next, Device, Hosts

\* Whatever the device sends has checksums that fit: in IP headers those it sums
\* with the carries brought back, in the reply to an echo the one of the request
\* that is only corrected by the change of the type (IP.c, ICMP.c).
THEOREM ChecksumsRight == Spec => []ChecksumsFit
  <1>1. Init => AllSound
    BY DEF Init, AllSound
  <1>2. IInv /\ AllSound /\ [Next]_vars => AllSound'
    BY StepSound DEF IInv
  <1>3. AllSound => ChecksumsFit
    <2> SUFFICES ASSUME AllSound, NEW p \in Sent, p.EtherType = "IPV4"
                 PROVE  /\ ChecksumFits(p.data.Checksum, HeaderWords(p.data))
                        /\ p.data.Protocol = "ICMP" =>
                             ChecksumFits(p.data.data.Checksum, <<p.data.data.Type, p.data.data.data>>)
      BY DEF ChecksumsFit
    <2>1. SoundIP(p.data) /\ HeaderSound(p.data)
      <3>1. Sound(p) /\ p.Source = OwnMACAddress /\ p.EtherType # "ARP"
        BY DEF Sent, AllSound
      <3> QED
        BY <3>1 DEF Sound
    <2>2. p.data.Protocol = "ICMP" => Echo(p.data.data)
      <3>1. PICK source \in Pairs, to \in Pairs : \E protocol, checksum, data :
              /\ p.data = IPData(protocol, source, to, checksum, data)
              /\ protocol = "ICMP" => Echo(data)
        BY <2>1 DEF SoundIP
      <3>2. PICK protocol, checksum, data :
              /\ p.data = IPData(protocol, source, to, checksum, data)
              /\ protocol = "ICMP" => Echo(data)
        BY <3>1
      <3>3. p.data.Protocol = protocol /\ p.data.data = data
        BY <3>2 DEF IPData
      <3> QED
        BY <3>2, <3>3
    <2> QED
      BY <2>1, <2>2, EchoFits DEF HeaderSound
  <1> QED
    BY <1>1, <1>2, <1>3, Invariance, PTL DEF Spec
=============================================================================
