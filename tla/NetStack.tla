------------------------------ MODULE NetStack ------------------------------
(***************************************************************************)
(* The network stack of Lib/: ARP, IP, ICMP, UDP and SNTP on one Ethernet. *)
(*                                                                         *)
(* A packet that is answered is answered in the memory it arrived in, so   *)
(* the handlers are operators from the packet received to the one that is  *)
(* sent back, or NULL.  Where a field is written from another field of the *)
(* same packet, the order of the writes is the one of the code.            *)
(*                                                                         *)
(* An IP address is a pair of net and host, a word of a checksum has Width *)
(* bits, and the lengths and flags that every packet of PacketCheck.c has  *)
(* alike are left out.  The rules are here what the stack needs of them: a *)
(* value that is known or asked for again.  The other hosts and the router *)
(* are external, and the network loses, repeats and reorders packets.      *)
(***************************************************************************)
EXTENDS Integers, Sequences, FiniteSetsExt

CONSTANTS NULL,
          OwnIPAddress, RouterIPAddress,
          Size,          \* entries of the ARP table (10)
          Width,         \* bits of a word (16)
          ICMP_Echo_Request, \* the word of its type, 8, and code (0x0800)
          UDP_PORT,      \* the port of the time switches
          LocalPort,     \* port of a rule of this device
          Remote,        \* rules with a value of another device: address, port and SNTP or not
          Reachable,     \* those for which the network is fair
          Neighbours,    \* other hosts of the net, the router among them
          FirstMAC,      \* their MAC addresses
          Movers,        \* neighbours that may get another MAC address
          OtherMACs,     \* MAC addresses they may have later
          Clients,       \* hosts that ask this device
          Payloads,      \* words in the requests of a ping
          Strangers,     \* hosts of other nets on the same Ethernet
          MaxWire,       \* bound: packets on the way
          MaxMoves       \* bound: changes of a MAC address

OwnMACAddress == "own"
BroadcastMACAddress == "all"
Net(ip) == ip[1]
IP_compareNet(a, b) == Net(a) = Net(b)
IP_getHost(ip) == ip[2]
BroadcastIPAddress == <<Net(OwnIPAddress), 2^Width - 1>>

Rules == DOMAIN Remote

\* A request comes from UDP_PORT; the rule of an answer is told by sender and port.
ASSUME PortAssumption ==
  /\ UDP_PORT \notin {LocalPort} \cup {Remote[r].networkPort : r \in Rules}
  /\ \A r, s \in Rules :
       Remote[r].IP = Remote[s].IP /\ Remote[r].networkPort = Remote[s].networkPort => r = s

ASSUME BoundAssumption ==
  /\ Size \in Nat \ {0} /\ Width \in Nat \ {0} /\ MaxWire \in Nat \ {0}
  /\ MaxMoves \in {0, 1}

\* A fact of powers of two.
ASSUME WidthAssumption == 2^Width \in Nat \ {0, 1}

Words == 0 .. (2^Width - 1)

\* An IP address has two words.
ASSUME WordAssumption ==
  /\ ICMP_Echo_Request \in Words \ {0}
  /\ Payloads \subseteq Words
  /\ OwnIPAddress \in Words \X Words
  /\ \A ip \in Clients \cup Neighbours \cup {Remote[r].IP : r \in Rules} : ip \in Words \X Words

\* MAC addresses of other hosts.
Addresses == {FirstMAC[h] : h \in Neighbours} \cup OtherMACs

ASSUME MACAssumption ==
  /\ FirstMAC \in [Neighbours -> Addresses]
  /\ {NULL, OwnMACAddress, BroadcastMACAddress} \cap Addresses = {}

Elsewhere(ip) == ~ IP_compareNet(OwnIPAddress, ip)

\* The others in the net of this device are told apart by the number of the host,
\* which is neither zero nor that of a broadcast; those this device talks to are
\* neighbours or in other nets.
ASSUME IPAssumption ==
  /\ RouterIPAddress \in Neighbours
  /\ \A h \in Neighbours :
       /\ ~ Elsewhere(h) /\ IP_getHost(h) # 0 /\ h # BroadcastIPAddress
       /\ <<BroadcastMACAddress, h>> # NULL
       /\ \A g \in Neighbours : IP_getHost(g) = IP_getHost(h) => g = h
  /\ \A ip \in Clients \cup {Remote[r].IP : r \in Rules} : ip \in Neighbours \/ Elsewhere(ip)
  /\ \A ip \in Strangers : Elsewhere(ip)
  /\ \A h \in Movers : h \in Neighbours

VARIABLES ARP_Table, writePosition,
          overrun,    \* an address has been written behind the table
          known,      \* rules whose value is known
          wire,       \* packets on the way
          mac,        \* MAC address of each neighbour
          told,       \* history: MAC address each neighbour told this device last
          moves

vars == <<ARP_Table, writePosition, overrun, known, wire, mac, told, moves>>

-----------------------------------------------------------------------------
(* Checksums, in one's complement.                                         *)

\* The carry is lost.
MutantChecksumAdd(checksum, word) == (checksum + word) % 2^Width

\* A carry out of the highest bit comes in at the lowest.
IP_ChecksumAdd(checksum, word) ==
  LET sum == checksum + word
  IN IF sum >= 2^Width THEN (sum + 1) % 2^Width ELSE sum

Sum(words) ==
  LET sum[n \in 0 .. Len(words)] == IF n = 0 THEN 0 ELSE IP_ChecksumAdd(sum[n - 1], words[n])
  IN sum[Len(words)]
IP_Checksum(words) == 2^Width - 1 - Sum(words)

HeaderWords(ip) ==
  <<IF ip.Protocol = "UDP" THEN 17 % 2^Width ELSE 1>> \o ip.SourceAddress \o ip.DestinationAddress

ICMP_Echo_Reply == 0

-----------------------------------------------------------------------------
(* ARP.  A number of the host in a field of the network is in the wrong    *)
(* byte order.                                                             *)

CPU_TO_BE16(n) == (n % 256) * 256 + n \div 256
ARP_OPERATION_REQUEST == 1
ARP_OPERATION_REPLY == 2

\* The senders are written first.
MutantWriteHeader(ARP, operation, destination) ==
  LET own == [ARP EXCEPT !.SenderMAC = OwnMACAddress, !.SenderIP = OwnIPAddress]
  IN [own EXCEPT !.Operation = operation,
                 !.TargetMAC = IF destination = NULL THEN own.SenderMAC ELSE destination[1],
                 !.TargetIP = IF destination = NULL THEN own.SenderIP ELSE destination[2]]

\* The destination is a pair of addresses or, if NULL, the sender fields of
\* the packet itself, which are read before they are overwritten.
ARP_WriteHeader(ARP, operation, destination) ==
  LET target == [ARP EXCEPT !.Operation = operation,
                            !.TargetMAC = IF destination = NULL THEN ARP.SenderMAC ELSE destination[1],
                            !.TargetIP = IF destination = NULL THEN ARP.SenderIP ELSE destination[2]]
  IN [target EXCEPT !.SenderMAC = OwnMACAddress, !.SenderIP = OwnIPAddress]

Entries(ip) == {i \in 0 .. (Size - 1) : ARP_Table[i].IP = IP_getHost(ip)}

ARP_searchMAC(ip) == IF Entries(ip) = {} THEN NULL ELSE ARP_Table[Min(Entries(ip))].MAC

\* A host is written into the table each time it answers.
MutantSlot(ip) == writePosition

\* Where an answer is stored.
Slot(ip) == IF Entries(ip) = {} THEN writePosition ELSE Min(Entries(ip))

\* Any sender is stored.
MutantStores(ARP) == TRUE

Stores(ARP) == IP_compareNet(ARP.SenderIP, OwnIPAddress)

NextPosition == IF writePosition < Size THEN writePosition + 1 ELSE 0

\* The address of this device is stored.
MutantStored(ARP) == [IP |-> IP_getHost(ARP.SenderIP), MAC |-> ARP.TargetMAC]

Stored(ARP) == [IP |-> IP_getHost(ARP.SenderIP), MAC |-> ARP.SenderMAC]

\* The position after the last one is used, too.  The write goes to whatever the
\* build has placed behind the table: the device stops, and nothing is promised.
Store(ARP) ==
  LET slot == Slot(ARP.SenderIP)
  IN /\ IF slot \in DOMAIN ARP_Table
        THEN ARP_Table' = [ARP_Table EXCEPT ![slot] = Stored(ARP)] /\ UNCHANGED overrun
        ELSE overrun' = TRUE /\ UNCHANGED ARP_Table
     /\ writePosition' = IF Entries(ARP.SenderIP) # {} THEN writePosition ELSE NextPosition
     /\ told' = [told EXCEPT ![ARP.SenderIP] = ARP.SenderMAC]

\* Requests for this device are answered, replies to it are stored.
ARP_Reply(ARP) ==
  IF ARP.TargetIP = OwnIPAddress /\ ARP.Operation = CPU_TO_BE16(ARP_OPERATION_REQUEST)
  THEN ARP_WriteHeader(ARP, ARP_OPERATION_REPLY, NULL)
  ELSE NULL

ARP_Learn(ARP) ==
  IF /\ ARP.TargetIP = OwnIPAddress
     /\ ARP.Operation = CPU_TO_BE16(ARP_OPERATION_REPLY)
     /\ Stores(ARP)
  THEN Store(ARP)
  ELSE UNCHANGED <<ARP_Table, writePosition, overrun, told>>

-----------------------------------------------------------------------------
(* ICMP, UDP and SNTP.                                                     *)

\* Only the type and, by the difference, the checksum are changed.
ICMP_Reply(ICMP) ==
  IF ICMP.Type = ICMP_Echo_Request
  THEN [ICMP EXCEPT !.Type = ICMP_Echo_Reply,
                    !.Checksum = IP_ChecksumAdd(@, ICMP_Echo_Request - ICMP_Echo_Reply)]
  ELSE NULL

\* The empty value asks for the value of the rule at this port.
UDP_Callback_Request(UDP) == UDP.data = "ask" /\ UDP.DestinationPort = LocalPort

\* A packet from the port of the time switches is a request.
UDP_Reply(UDP) ==
  IF UDP.SourcePort = UDP_PORT /\ UDP_Callback_Request(UDP)
  THEN [SourcePort |-> UDP.DestinationPort, DestinationPort |-> UDP.SourcePort, data |-> "value"]
  ELSE NULL

\* The time of a server that has none itself is not taken.
SNTP_ProcessPacket(data) == data = "time"

\* The rules whose value another packet to that port tells: those of its sender
\* and port.
UDP_Callback_Reply(UDP, sourceIP) ==
  {r \in Rules : /\ UDP.SourcePort # UDP_PORT /\ UDP.DestinationPort = UDP_PORT
                 /\ Remote[r].networkPort = UDP.SourcePort /\ Remote[r].IP = sourceIP
                 /\ IF Remote[r].sntp THEN SNTP_ProcessPacket(UDP.data) ELSE UDP.data = "value"}

-----------------------------------------------------------------------------
(* IP and Ethernet.                                                        *)

\* As ARP_WriteHeader; the checksum is calculated when all else is written.
IP_WriteHeader(IP, destinationIP) ==
  LET header == [IP EXCEPT
        !.DestinationAddress = IF destinationIP = NULL THEN IP.SourceAddress ELSE destinationIP,
        !.SourceAddress = OwnIPAddress]
  IN [header EXCEPT !.Checksum = IP_Checksum(HeaderWords(header))]

ToThisDevice(IP) == IP.DestinationAddress \in {OwnIPAddress, BroadcastIPAddress}

IP_Reply(IP) ==
  LET reply == IF IP.Protocol = "ICMP" THEN ICMP_Reply(IP.data) ELSE UDP_Reply(IP.data)
  IN IF ToThisDevice(IP) /\ reply # NULL THEN IP_WriteHeader([IP EXCEPT !.data = reply], NULL) ELSE NULL

IP_Learn(IP) ==
  IF ToThisDevice(IP) /\ IP.Protocol = "UDP" THEN UDP_Callback_Reply(IP.data, IP.SourceAddress) ELSE {}

Ethernet_Header(destination, source, ethertype, data) ==
  [Destination |-> destination, Source |-> source, EtherType |-> ethertype, data |-> data]

Ethernet_WriteHeader(destination, ethertype, data) ==
  Ethernet_Header(destination, OwnMACAddress, ethertype, data)

\* What is sent back, to where it came from.
Ethernet_Reply(p) ==
  LET reply == IF p.EtherType = "ARP" THEN ARP_Reply(p.data) ELSE IP_Reply(p.data)
  IN IF reply = NULL THEN {} ELSE {Ethernet_WriteHeader(p.Source, p.EtherType, reply)}

Blank == [SenderMAC |-> NULL, SenderIP |-> NULL, TargetMAC |-> NULL, TargetIP |-> NULL, Operation |-> NULL]

ARP_GenerateRequest(ip) ==
  Ethernet_WriteHeader(BroadcastMACAddress, "ARP",
    ARP_WriteHeader(Blank, CPU_TO_BE16(ARP_OPERATION_REQUEST), <<BroadcastMACAddress, ip>>))

\* Without the address of the destination, a request for it.
Ethernet_GenerateUnicast(ip, data) ==
  IF ARP_searchMAC(ip) = NULL THEN ARP_GenerateRequest(ip)
  ELSE Ethernet_WriteHeader(ARP_searchMAC(ip), "IPV4", data)

\* Every host is asked for its address itself.
MutantHop(ip) == ip

\* Hosts of other nets are behind the router.
Hop(ip) == IF IP_compareNet(OwnIPAddress, ip) THEN ip ELSE RouterIPAddress

UDP_Packet(destinationIP, sourcePort, destinationPort, data) ==
  IP_WriteHeader([Protocol |-> "UDP", SourceAddress |-> NULL, DestinationAddress |-> NULL, Checksum |-> 0,
                  data |-> [SourcePort |-> sourcePort, DestinationPort |-> destinationPort, data |-> data]],
                 destinationIP)

UDP_GenerateUnicast(ip, port, data) == Ethernet_GenerateUnicast(Hop(ip), UDP_Packet(ip, UDP_PORT, port, data))

UDP_GenerateBroadcast(port, data) ==
  Ethernet_WriteHeader(BroadcastMACAddress, "IPV4", UDP_Packet(BroadcastIPAddress, port, UDP_PORT, data))

-----------------------------------------------------------------------------
(* The device.                                                             *)

Init ==
  /\ ARP_Table = [i \in 0 .. (Size - 1) |-> [IP |-> 0, MAC |-> NULL]]
  /\ writePosition = 0 /\ overrun = FALSE
  /\ known = {}
  /\ wire = {}
  /\ mac = FirstMAC
  /\ told = [h \in Neighbours |-> NULL]
  /\ moves = 0

\* A packet leaves the wire, or comes once more, and others take its place.
Exchange(p, answers) ==
  /\ \/ wire' = (wire \ {p}) \cup answers
     \/ wire' = wire \cup answers
  /\ Cardinality(wire') <= MaxWire

Arrived(p) == p.Source # OwnMACAddress /\ p.Destination \in {OwnMACAddress, BroadcastMACAddress}

processNetworkPackets(p) ==
  /\ ~ overrun
  /\ Arrived(p)
  /\ Exchange(p, Ethernet_Reply(p))
  /\ IF p.EtherType = "ARP"
     THEN ARP_Learn(p.data) /\ UNCHANGED known
     ELSE known' = known \cup IP_Learn(p.data) /\ UNCHANGED <<ARP_Table, writePosition, overrun, told>>
  /\ UNCHANGED <<mac, moves>>

Send(p) == Cardinality(wire) < MaxWire /\ wire' = wire \cup {p}

Request(r) == UDP_GenerateUnicast(Remote[r].IP, Remote[r].networkPort,
                                  IF Remote[r].sntp THEN "client" ELSE "ask")

\* A rule that is not known asks, and the one with the time does so again and again.
Ask(r) ==
  /\ ~ overrun
  /\ r \notin known \/ Remote[r].sntp
  /\ Send(Request(r))
  /\ known' = known \ {r}
  /\ UNCHANGED <<ARP_Table, writePosition, overrun, mac, told, moves>>

sendChangedRules ==
  /\ ~ overrun
  /\ Send(UDP_GenerateBroadcast(LocalPort, "value"))
  /\ UNCHANGED <<ARP_Table, writePosition, overrun, known, mac, told, moves>>

-----------------------------------------------------------------------------
(* The other hosts and the network.                                        *)

\* The neighbour that packets to and from a host go through.
Gateway(ip) == IF ip \in Neighbours THEN ip ELSE RouterIPAddress

Modulus == 2^Width - 1
Total(words) ==
  LET total[n \in 0 .. Len(words)] == IF n = 0 THEN 0 ELSE total[n - 1] + words[n]
  IN total[Len(words)]

\* The checksum other hosts send, and what they check of one they receive.
Checksum(words) == (Modulus - (Total(words) % Modulus)) % Modulus
ChecksumFits(checksum, words) == (Total(words) + checksum) % Modulus = 0

ARP_Packet(h, operation, targetMAC, targetIP) ==
  [Operation |-> CPU_TO_BE16(operation), SenderMAC |-> mac[h], SenderIP |-> h,
   TargetMAC |-> targetMAC, TargetIP |-> targetIP]

Tells(h) ==
  Ethernet_Header(OwnMACAddress, mac[h], "ARP",
    ARP_Packet(h, ARP_OPERATION_REPLY, OwnMACAddress, OwnIPAddress))

IP_Packet(protocol, source, destination, data) ==
  LET header == [Protocol |-> protocol, SourceAddress |-> source, DestinationAddress |-> destination,
                 Checksum |-> 0, data |-> data]
  IN [header EXCEPT !.Checksum = Checksum(HeaderWords(header))]

\* From a host, by way of the router if it is not a neighbour.
Comes(ip, protocol, destination, data) ==
  Ethernet_Header(OwnMACAddress, mac[Gateway(ip)], "IPV4", IP_Packet(protocol, ip, destination, data))

\* What neighbour h does with a packet: answer itself or, as the router, bring
\* the answer of a host of another net.
HostAnswers(h, p) ==
  IF p.EtherType = "ARP"
  THEN IF p.data.TargetIP = h /\ p.data.Operation = CPU_TO_BE16(ARP_OPERATION_REQUEST) THEN {Tells(h)} ELSE {}
  ELSE LET ip == p.data.DestinationAddress
           UDP == p.data.data
       IN IF /\ p.data.Protocol = "UDP" /\ UDP.SourcePort = UDP_PORT
             /\ (ip = h \/ (h = RouterIPAddress /\ Elsewhere(ip)))
          THEN {Comes(ip, "UDP", OwnIPAddress,
                  [SourcePort |-> UDP.DestinationPort, DestinationPort |-> UDP_PORT, data |-> data]) :
                data \in IF UDP.data = "client" THEN {"time", "alarm"} ELSE {"value"}}
          ELSE {}

Reaches(p, h) == p.Source = OwnMACAddress /\ p.Destination \in {mac[h], BroadcastMACAddress}

HostReceives(h, p) ==
  /\ Reaches(p, h)
  /\ IF HostAnswers(h, p) = {} THEN Exchange(p, {})
     ELSE \E answer \in HostAnswers(h, p) : Exchange(p, {answer})
  /\ UNCHANGED <<ARP_Table, writePosition, overrun, known, mac, told, moves>>

\* A neighbour tells its address although not asked, and so may a host of another
\* net on the same Ethernet.
Unasked ==
  /\ \E h \in Neighbours, ip \in Strangers :
       \E p \in {Tells(h), [Tells(h) EXCEPT !.data = [@ EXCEPT !.SenderIP = ip]]} : Send(p)
  /\ UNCHANGED <<ARP_Table, writePosition, overrun, known, mac, told, moves>>

\* Asks for the address of this device, its presence or the value of its rule, the
\* latter of all devices, too.
ClientAsks(ip) ==
  /\ \/ ip \in Neighbours /\ Send(Ethernet_Header(BroadcastMACAddress, mac[ip], "ARP",
                                     ARP_Packet(ip, ARP_OPERATION_REQUEST, NULL, OwnIPAddress)))
     \/ \E word \in Payloads :
          Send(Comes(ip, "ICMP", OwnIPAddress,
            [Type |-> ICMP_Echo_Request, data |-> word, Checksum |-> Checksum(<<ICMP_Echo_Request, word>>)]))
     \/ \E destination \in {OwnIPAddress} \cup IF ip \in Neighbours THEN {BroadcastIPAddress} ELSE {} :
          Send(Comes(ip, "UDP", destination,
            [SourcePort |-> UDP_PORT, DestinationPort |-> LocalPort, data |-> "ask"]))
  /\ UNCHANGED <<ARP_Table, writePosition, overrun, known, mac, told, moves>>

Lose(p) ==
  /\ wire' = wire \ {p}
  /\ UNCHANGED <<ARP_Table, writePosition, overrun, known, mac, told, moves>>

\* A neighbour gets another MAC address.
Move(h) ==
  /\ moves < MaxMoves /\ moves' = moves + 1
  /\ \E m \in OtherMACs : mac' = [mac EXCEPT ![h] = m]
  /\ UNCHANGED <<ARP_Table, writePosition, overrun, known, wire, told>>

Device == (\E p \in wire : processNetworkPackets(p)) \/ (\E r \in Rules : Ask(r)) \/ sendChangedRules
Hosts ==
  \/ Unasked
  \/ \E ip \in Clients : ClientAsks(ip)
  \/ \E h \in Movers : Move(h)
  \/ \E h \in Neighbours, p \in wire : HostReceives(h, p)

Next == Device \/ Hosts \/ \E p \in wire : Lose(p)

Spec == Init /\ [][Next]_vars

Room == Cardinality(wire) < MaxWire
CanAsk(r) == ~ overrun /\ Room /\ IF r \in known THEN Remote[r].sntp ELSE Request(r) \notin wire
Arrives(r) == Request(r) \in wire /\ Reaches(Request(r), Gateway(Remote[r].IP))

\* The request of a rule reaches its host and brings the answer, from a server that
\* has the time.
RequestArrives(r) ==
  /\ Arrives(r)
  /\ HostReceives(Gateway(Remote[r].IP), Request(r))
  /\ \E q \in wire' : IF Request(r).EtherType = "ARP" THEN q = Tells(Gateway(Remote[r].IP))
                                                   ELSE q.EtherType = "IPV4" /\ r \in IP_Learn(q.data)

Teaches(p, r) == ~ overrun /\ Arrived(p) /\ p.EtherType = "IPV4" /\ r \in IP_Learn(p.data)
AnswerArrives(r) == \E p \in wire : Teaches(p, r) /\ processNetworkPackets(p)
AddressArrives(h) == Tells(h) \in wire /\ processNetworkPackets(Tells(h))

\* Strong fairness, with what enables the steps: the timers make a rule ask again
\* and again, and a packet that is sent again and again arrives in the end.
FairSpec ==
  /\ Spec
  /\ []<>Room
  /\ \A r \in Reachable :
       /\ []<>CanAsk(r) => []<><<Ask(r)>>_vars
       /\ []<>Arrives(r) => []<><<RequestArrives(r)>>_vars
       /\ []<>(\E p \in wire : Teaches(p, r)) => []<><<AnswerArrives(r)>>_vars
  /\ \A h \in {Gateway(Remote[r].IP) : r \in Reachable} :
       []<>(~ overrun /\ Tells(h) \in wire) => []<><<AddressArrives(h)>>_vars

-----------------------------------------------------------------------------

TypeOK ==
  /\ ARP_Table \in [0 .. (Size - 1) -> [IP : {0} \cup {IP_getHost(h) : h \in Neighbours},
                                        MAC : Addresses \cup {NULL}]]
  /\ writePosition \in 0 .. Size /\ overrun \in BOOLEAN
  /\ known \subseteq Rules
  /\ Cardinality(wire) <= MaxWire
  /\ mac \in [Neighbours -> Addresses]
  /\ told \in [Neighbours -> Addresses \cup {NULL}]
  /\ moves \in 0 .. MaxMoves

Sent == {p \in wire : p.Source = OwnMACAddress}

\* A packet this device sends has its own addresses as sender and goes to the
\* neighbour its destination is reached through, or to all if that is what its
\* destination says: answers written over the question, requests by way of the
\* table, whatever other nets tell that use the same numbers for their hosts.
GoesToNextHop ==
  \A p \in Sent :
    LET ip == IF p.EtherType = "ARP" THEN p.data.TargetIP ELSE p.data.DestinationAddress
        source == IF p.EtherType = "ARP" THEN p.data.SenderIP ELSE p.data.SourceAddress
    IN /\ source = OwnIPAddress
       /\ p.EtherType = "ARP" => p.data.SenderMAC = OwnMACAddress /\ p.data.TargetMAC = p.Destination
       /\ p.Destination = BroadcastMACAddress =>
            (p.EtherType = "IPV4" => ip = BroadcastIPAddress)
       /\ p.Destination # BroadcastMACAddress =>
            ip # BroadcastIPAddress /\ p.Destination \in {mac[Gateway(ip)], FirstMAC[Gateway(ip)]}

\* Until one is written behind the table, the address of a neighbour that is found
\* is the one it told last, and one that has told its address is found, however
\* often it told, moved, and in which order: also if hosts of other nets with the
\* same number told theirs.
TableTellsLatest == ~ overrun => \A h \in Neighbours : ARP_searchMAC(h) = told[h]

\* "static ARP_TableEntry ARP_Table[10]": no address is written behind the last
\* entry, at which all loops end.
StaysInTable == ~ overrun

\* The checksums of a packet this device sends fit, although the one of an echo is
\* only corrected by the difference.
ChecksumsFit ==
  \A p \in Sent : p.EtherType = "IPV4" =>
    /\ ChecksumFits(p.data.Checksum, HeaderWords(p.data))
    /\ p.data.Protocol = "ICMP" =>
         ChecksumFits(p.data.data.Checksum, <<p.data.data.Type, p.data.data.data>>)

\* "Timeout 2s in case of no answer", "Timeout 1s in case of missing ARP entry": a
\* value of another device gets known in the end, also one of another net and
\* whatever is lost, unless its host has got another address, which the table never
\* learns, or an address was written behind the table.
GetsKnown == \A r \in Reachable : []<>(r \in known \/ moves > 0 \/ overrun)
=============================================================================
