------------------------------ MODULE UsbDevice ------------------------------
(***************************************************************************)
(* The USB network device around the packet buffer: the interrupt handler  *)
(* of USB.c, the main loop of Zeitschaltuhr.c and the USB host.            *)
(*                                                                         *)
(* The host sends Ethernet frames as runs of endpoint packets, the last    *)
(* one shorter than the endpoint.  The handler stores the frames PacketCheck  *)
(* accepts as input packets, the main loop turns every input packet into   *)
(* an output packet in place, and the handler sends that back.             *)
(*                                                                         *)
(* The handler is cut into one step per stage, so that each step makes at  *)
(* most one call of the packet buffer.  The main loop never runs while the *)
(* handler does; its ATOMIC_BLOCKs are single steps.                       *)
(*                                                                         *)
(* Definitions named Mutant... are broken variants of the one that follows *)
(* them; no other definition uses them.                                    *)
(***************************************************************************)
EXTENDS PacketBuffer, Sequences

CONSTANTS EpSize,       \* CDC_TXRX_EPSIZE
          Banks,        \* CDC_TXRX_BANKS
          HdrLen,       \* bytes PacketCheck reads ahead (24)
          MinLen,       \* PACKET_LEN_MIN
          Frames,       \* frames the host may send
          MaxFrames,    \* bound: frames the host sends
          MaxConfigs    \* bound: times the host sets configuration 1

\* A frame has bytes bytes, and its headers tell that it has claim bytes; claim
\* is 0 when PacketCheck returns 0, when the frame is not for this device.
ASSUME FramesAssumption ==
  \A f \in Frames : f.bytes \in Nat /\ f.claim \in {0} \cup {len \in Lens : len >= MinLen}

ASSUME SizesAssumption ==
  /\ {EpSize, Banks, HdrLen, MinLen, MaxFrames, MaxConfigs} \subseteq Nat
  /\ 0 < HdrLen /\ HdrLen <= MinLen /\ MinLen <= EpSize /\ Banks > 0

VARIABLES
  \* main()
  mainPc,       \* what it does next
  SE,           \* sleep enable bit
  packet,       \* the input packet it processes
  \* EVENT_USB_Endpoint_Interrupt()
  isrPc,        \* the stage it is in, "none" outside of it
  enable,       \* its locals enableNO, enableRX, enableTX
  tx,           \* its static variables of sending
  rx,           \* its static variables of receiving
  stored,       \* the frame whose bytes are in the packet at a slot (0: none)
  ConnectionStateIndex,
  \* USB hardware
  int,          \* endpoint interrupts that are enabled
  inBusy,       \* banks of an IN endpoint the host has not read yet
  outFifo,      \* banks of the RX endpoint that hold data
  \* the host
  configs,      \* times it set the configuration
  frames,       \* frames it started to send
  hostLeft,     \* bytes of the last one it still has to send, NULL when sent
  hostGot,      \* bytes of the frame it is receiving
  echoed        \* frames it has received

mainVars == <<mainPc, SE, packet>>
isrVars  == <<isrPc, enable>>
rxVars   == <<rx, stored>>
hwVars   == <<int, inBusy, outFifo>>
sending  == <<frames, hostLeft>>
hearing  == <<hostGot, echoed>>
vars == <<ring, mainVars, isrVars, tx, rxVars, ConnectionStateIndex, hwVars,
          configs, sending, hearing>>

Endpoints == {"NO", "RX", "TX"}

Init ==
  /\ RingInit
  /\ mainPc = "enable" /\ SE = FALSE /\ packet = NULL
  /\ isrPc = "none" /\ enable = [e \in Endpoints |-> FALSE]
  /\ tx = [packet |-> NULL, remaining |-> 0]
  /\ rx = [packet |-> NULL, remaining |-> 0, state |-> "WAITING", last |-> FALSE, buffer |-> 0]
  /\ stored = [s \in Slots |-> 0]
  /\ ConnectionStateIndex = 0
  /\ int = [e \in Endpoints |-> FALSE]
  /\ inBusy = [NO |-> 0, TX |-> 0]
  /\ outFifo = << >>
  /\ configs = 0
  /\ frames = << >> /\ hostLeft = NULL
  /\ hostGot = 0 /\ echoed = << >>

-----------------------------------------------------------------------------
(* The main loop.                                                          *)

\* From here on an interrupt that needs another round clears the bit again.
SleepEnable ==
  /\ mainPc = "enable"
  /\ SE' = TRUE
  /\ mainPc' = "get"
  /\ UNCHANGED <<ring, packet, isrVars, tx, rxVars, ConnectionStateIndex, hwVars, configs, sending, hearing>>

GetInput ==
  /\ mainPc = "get"
  /\ Packet_GetInput(packet')
  /\ mainPc' = IF packet' = NULL THEN "sleep" ELSE "resend"
  /\ UNCHANGED <<SE, isrVars, tx, rxVars, ConnectionStateIndex, hwVars, configs, sending, hearing>>

\* USB.h: called when a packet has been put into the output chain.
MutantEnableTransmitter == UNCHANGED int
USB_EnableTransmitter == int' = [int EXCEPT !["TX"] = TRUE]

\* Only one packet per round, and no further round is asked for.
MutantResend ==
  /\ mainPc = "resend"
  /\ Packet_ReattachOutput(packet)
  /\ USB_EnableTransmitter
  /\ packet' = NULL
  /\ mainPc' = "sleep"
  /\ UNCHANGED <<SE, isrVars, tx, rxVars, ConnectionStateIndex, inBusy, outFifo, configs, sending, hearing>>

\* One packet is processed; the bit makes the loop look for the next one.
Resend ==
  /\ mainPc = "resend"
  /\ SE' = FALSE
  /\ Packet_ReattachOutput(packet)
  /\ USB_EnableTransmitter
  /\ packet' = NULL
  /\ mainPc' = "sleep"
  /\ UNCHANGED <<isrVars, tx, rxVars, ConnectionStateIndex, inBusy, outFifo, configs, sending, hearing>>

SleepCpu ==
  /\ mainPc = "sleep"
  /\ mainPc' = IF SE THEN "asleep" ELSE "enable"
  /\ UNCHANGED <<ring, SE, packet, isrVars, tx, rxVars, ConnectionStateIndex, hwVars, configs, sending, hearing>>

\* The handler runs on top of the main loop.
Main == isrPc = "none" /\ (SleepEnable \/ GetInput \/ Resend \/ SleepCpu)

\* Every interrupt ends the sleep.
Awake == mainPc' = IF mainPc = "asleep" THEN "enable" ELSE mainPc

\* timer1 once a second.
Tick ==
  /\ SE' = FALSE
  /\ Awake
  /\ UNCHANGED <<ring, packet, isrVars, tx, rxVars, ConnectionStateIndex, hwVars, configs, sending, hearing>>

-----------------------------------------------------------------------------
(* The interrupt handler.                                                  *)

InReady(e) == inBusy[e] < IF e = "TX" THEN Banks ELSE 1
OutReceived == outFifo # << >>

Pending ==
  \/ \E e \in {"NO", "TX"} : int[e] /\ InReady(e)
  \/ int["RX"] /\ OutReceived

\* The enabled interrupts are remembered and disabled.
Enter ==
  /\ isrPc = "none"
  /\ Pending
  /\ enable' = int
  /\ int' = [e \in Endpoints |-> FALSE]
  /\ isrPc' = "tx"
  /\ Awake
  /\ UNCHANGED <<ring, SE, packet, tx, rxVars, ConnectionStateIndex, inBusy, outFifo, configs, sending, hearing>>

TxSkip ==
  /\ isrPc = "tx"
  /\ ~ (enable["TX"] /\ InReady("TX"))
  /\ isrPc' = "rx"
  /\ UNCHANGED <<ring, mainVars, enable, tx, rxVars, ConnectionStateIndex, hwVars, configs, sending, hearing>>

\* A packet to send: the one begun before, or the next one of the output chain.
TxGet ==
  /\ isrPc = "tx"
  /\ enable["TX"] /\ InReady("TX")
  /\ IF tx.packet # NULL
     THEN isrPc' = "txWrite" /\ UNCHANGED <<ring, enable, tx>>
     ELSE \E r \in Slots \cup {NULL} :
            /\ Packet_GetOutput(r)
            /\ IF r = NULL
               THEN /\ enable' = [enable EXCEPT !["TX"] = FALSE]
                    /\ isrPc' = "rx"
                    /\ UNCHANGED tx
               ELSE /\ tx' = [packet |-> r, remaining |-> mem[r].val]
                    /\ isrPc' = "txWrite"
                    /\ UNCHANGED enable
  /\ UNCHANGED <<mainVars, rxVars, ConnectionStateIndex, hwVars, configs, sending, hearing>>

\* The host takes a short endpoint packet for the end of a frame.
HostHears(n) ==
  IF n < EpSize
  THEN /\ echoed' = Append(echoed, [frame |-> stored[tx.packet], len |-> hostGot + n])
       /\ hostGot' = 0
  ELSE hostGot' = hostGot + n /\ UNCHANGED echoed

\* Without the empty endpoint packet behind a full one.
MutantIsLast(remaining) == remaining <= EpSize

\* A frame ends with an endpoint packet that is not full.
IsLast(remaining) == remaining < EpSize

\* A packet is sent and nobody tells the receiver.
MutantAllowReceiving == UNCHANGED enable

\* There is space again.
AllowReceiving == enable' = [enable EXCEPT !["RX"] = TRUE]

TxWrite ==
  LET final == IsLast(tx.remaining)
      n     == IF final THEN tx.remaining ELSE EpSize
  IN /\ isrPc = "txWrite"
     /\ inBusy' = [inBusy EXCEPT !["TX"] = @ + 1]
     /\ HostHears(n)
     /\ IF final
        THEN /\ Packet_ReleaseOutput(tx.packet)
             /\ tx' = [packet |-> NULL, remaining |-> 0]
             /\ AllowReceiving
        ELSE tx' = [tx EXCEPT !.remaining = @ - n] /\ UNCHANGED <<ring, enable>>
     /\ isrPc' = "rx"
     /\ UNCHANGED <<mainVars, rxVars, ConnectionStateIndex, int, outFifo, configs, sending>>

Received == enable["RX"] /\ OutReceived

RxSkip ==
  /\ isrPc = "rx"
  /\ ~ Received
  /\ isrPc' = "no"
  /\ UNCHANGED <<ring, mainVars, enable, tx, rxVars, ConnectionStateIndex, hwVars, configs, sending, hearing>>

usbLen == Head(outFifo).len
ClearOUT == outFifo' = Tail(outFifo)

\* Computed again when the headers of the endpoint packet have been read.
MutantLast == usbLen < EpSize

\* Is this the last endpoint packet of the frame?
last == IF rx.state = "NEEDSPACE" THEN rx.last ELSE usbLen < EpSize

\* In the middle of a frame, or of one the ring had no space for.
RxContinue ==
  /\ isrPc = "rx"
  /\ Received
  /\ rx.state # "WAITING"
  /\ rx' = [rx EXCEPT !.last = last]
  /\ isrPc' = IF rx.state = "READING" THEN "rxRead" ELSE "rxSpace"
  /\ UNCHANGED <<ring, mainVars, enable, tx, stored, ConnectionStateIndex, hwVars, configs, sending, hearing>>

\* Only later endpoint packets show that bytes are missing.
MutantExceeds(claim) == FALSE

\* The headers tell of more bytes than there are.
Exceeds(claim) == claim > usbLen /\ last

\* The first endpoint packet of a frame: dropped at once if it is too short or
\* the last one and shorter than its headers tell; read on otherwise.
RxCheck ==
  LET claim == Head(outFifo).claim
      begun == [rx EXCEPT !.last = last, !.remaining = claim]
  IN /\ isrPc = "rx"
     /\ Received
     /\ rx.state = "WAITING"
     /\ \/ /\ usbLen < MinLen
           /\ rx' = [rx EXCEPT !.last = last]
           /\ ClearOUT
           /\ isrPc' = "no"
        \/ /\ usbLen >= MinLen
           /\ Exceeds(claim)
           /\ rx' = begun
           /\ ClearOUT
           /\ isrPc' = "no"
        \/ /\ usbLen >= MinLen
           /\ claim > 0
           /\ ~ Exceeds(claim)
           /\ rx' = [begun EXCEPT !.state = "NEEDSPACE", !.buffer = Head(outFifo).frame]
           /\ outFifo' = [outFifo EXCEPT ![1] = [@ EXCEPT !.len = usbLen - HdrLen]]
           /\ isrPc' = "rxSpace"
        \/ /\ usbLen >= MinLen
           /\ claim = 0
           /\ rx' = [begun EXCEPT !.state = "READING"]
           /\ isrPc' = "rxRead"
           /\ UNCHANGED outFifo
     /\ UNCHANGED <<ring, mainVars, enable, tx, stored, ConnectionStateIndex, int, inBusy, configs, sending, hearing>>

\* The headers, which have been read already, are left out.
MutantNewLen == rx.remaining - HdrLen

\* The packet gets the length its headers tell.
newLen == rx.remaining

\* Without space receiving stops until a packet has been sent.
RxSpace ==
  /\ isrPc = "rxSpace"
  /\ \E r \in Slots \cup {NULL} :
       /\ Packet_New(newLen, r)
       /\ IF r = NULL
          THEN /\ rx' = [rx EXCEPT !.packet = NULL]
               /\ enable' = [enable EXCEPT !["RX"] = FALSE]
               /\ isrPc' = "no"
               /\ UNCHANGED stored
          ELSE /\ rx' = [rx EXCEPT !.packet = r, !.state = "READING", !.remaining = @ - HdrLen]
               /\ stored' = [stored EXCEPT ![r] = rx.buffer]
               /\ isrPc' = "rxRead"
               /\ UNCHANGED enable
  /\ UNCHANGED <<mainVars, tx, ConnectionStateIndex, hwVars, configs, sending, hearing>>

\* Padding is not told from the frame.
MutantReadLength == usbLen

readLength == IF usbLen < rx.remaining THEN usbLen ELSE rx.remaining

\* The last endpoint packet finishes the packet, or gives it up if bytes are missing.
RxRead ==
  LET left == (rx.remaining - readLength) % 65536
  IN /\ isrPc = "rxRead"
     /\ IF ~ rx.last \/ rx.packet = NULL
        THEN UNCHANGED <<ring, SE>>
        ELSE IF left > 0
             THEN Packet_ReleaseInput(rx.packet) /\ UNCHANGED SE
             ELSE Packet_PutInput(rx.packet) /\ SE' = FALSE
     /\ rx' = IF rx.last THEN [rx EXCEPT !.remaining = left, !.packet = NULL, !.state = "WAITING"]
                         ELSE [rx EXCEPT !.remaining = left]
     /\ ClearOUT
     /\ isrPc' = "no"
     /\ UNCHANGED <<mainPc, packet, enable, tx, stored, ConnectionStateIndex, int, inBusy,
                    configs, sending, hearing>>

\* The notification interrupt is never switched off.
MutantMoreNotices(index) == TRUE

MoreNotices(index) == index # 0

\* The network connection notifications, the last one first.
No ==
  /\ isrPc = "no"
  /\ IF enable["NO"] /\ InReady("NO")
     THEN LET index == (ConnectionStateIndex - 1) % 256
          IN /\ ConnectionStateIndex' = index
             /\ enable' = [enable EXCEPT !["NO"] = MoreNotices(index)]
             /\ inBusy' = [inBusy EXCEPT !["NO"] = 1]
     ELSE UNCHANGED <<ConnectionStateIndex, enable, inBusy>>
  /\ isrPc' = "exit"
  /\ UNCHANGED <<ring, mainVars, tx, rxVars, int, outFifo, configs, sending, hearing>>

Exit ==
  /\ isrPc = "exit"
  /\ int' = [e \in Endpoints |-> int[e] \/ enable[e]]
  /\ isrPc' = "none"
  /\ UNCHANGED <<ring, mainVars, enable, tx, rxVars, ConnectionStateIndex, inBusy, outFifo, configs, sending, hearing>>

Handler ==
  \/ TxSkip \/ TxGet \/ TxWrite
  \/ RxSkip \/ RxContinue \/ RxCheck \/ RxSpace \/ RxRead
  \/ No \/ Exit

-----------------------------------------------------------------------------
(* The host.                                                               *)

\* SetConfiguration(1): the endpoints start empty, nothing else is reset.
ConfigurationChanged ==
  /\ isrPc = "none"
  /\ configs < MaxConfigs
  /\ configs' = configs + 1
  /\ ConnectionStateIndex' = 2
  /\ int' = [e \in Endpoints |-> TRUE]
  /\ inBusy' = [NO |-> 0, TX |-> 0]
  /\ outFifo' = << >>
  /\ hostLeft' = NULL
  /\ hostGot' = 0
  /\ Awake
  /\ UNCHANGED <<ring, SE, packet, isrVars, tx, rxVars, frames, echoed>>

\* One endpoint packet with at most EpSize of the left bytes; a full one is
\* followed by another one, which may be empty.
SendChunk(f, left) ==
  LET n == IF left < EpSize THEN left ELSE EpSize
  IN /\ Len(outFifo) < Banks
     /\ outFifo' = Append(outFifo, [frame |-> Len(frames'), claim |-> f.claim, len |-> n])
     /\ hostLeft' = IF n < EpSize THEN NULL ELSE left - n

HostBegins ==
  /\ configs > 0
  /\ hostLeft = NULL
  /\ Len(frames) < MaxFrames
  /\ \E f \in Frames : frames' = Append(frames, f) /\ SendChunk(f, f.bytes)
  /\ UNCHANGED <<ring, mainVars, isrVars, tx, rxVars, ConnectionStateIndex, int, inBusy, configs, hearing>>

HostContinues ==
  /\ hostLeft # NULL
  /\ UNCHANGED frames
  /\ SendChunk(frames[Len(frames)], hostLeft)
  /\ UNCHANGED <<ring, mainVars, isrVars, tx, rxVars, ConnectionStateIndex, int, inBusy, configs, hearing>>

\* The host polls the IN endpoints.
HostReads(e) ==
  /\ inBusy[e] > 0
  /\ inBusy' = [inBusy EXCEPT ![e] = @ - 1]
  /\ UNCHANGED <<ring, mainVars, isrVars, tx, rxVars, ConnectionStateIndex, int, outFifo, configs, sending, hearing>>

-----------------------------------------------------------------------------

Step ==
  \/ Main
  \/ Tick
  \/ Enter
  \/ Handler
  \/ ConfigurationChanged
  \/ HostBegins
  \/ HostContinues
  \/ \E e \in {"NO", "TX"} : HostReads(e)

Next == ~ aborted /\ Step

Spec == Init /\ [][Next]_vars

\* The processor runs, a pending interrupt is served, and the host finishes the
\* frames it begins and polls its IN endpoints.  The timer is not relied on.
Fairness ==
  /\ WF_vars(~ aborted /\ Main)
  /\ WF_vars(~ aborted /\ Enter)
  /\ WF_vars(~ aborted /\ Handler)
  /\ WF_vars(~ aborted /\ HostContinues)
  /\ \A e \in {"NO", "TX"} : WF_vars(~ aborted /\ HostReads(e))

FairSpec == Spec /\ Fairness

-----------------------------------------------------------------------------

TypeOK ==
  /\ RingTypeOK
  /\ mainPc \in {"enable", "get", "resend", "sleep", "asleep"}
  /\ SE \in BOOLEAN
  /\ packet \in Slots \cup {NULL}
  /\ isrPc \in {"none", "tx", "txWrite", "rx", "rxSpace", "rxRead", "no", "exit"}
  /\ {enable, int} \subseteq [Endpoints -> BOOLEAN]
  /\ tx \in [packet : Slots \cup {NULL}, remaining : Nat]
  /\ rx \in [packet : Slots \cup {NULL}, remaining : Nat, last : BOOLEAN,
             state : {"NEEDSPACE", "WAITING", "READING"}, buffer : 0 .. MaxFrames]
  /\ stored \in [Slots -> 0 .. MaxFrames]
  /\ ConnectionStateIndex \in 0 .. 2
  /\ inBusy["NO"] \in 0 .. 1 /\ inBusy["TX"] \in 0 .. Banks
  /\ Len(outFifo) <= Banks
  /\ configs \in 0 .. MaxConfigs
  /\ Len(frames) <= MaxFrames

\* Frames the device has to send back: for it, long enough and complete.
Accepted(f) == f.claim > 0 /\ f.bytes >= MinLen /\ f.claim <= f.bytes

\* What the host has received is, in order, what it sent: every frame comes
\* back once, with the bytes and the length of that frame and of no other,
\* however receiving, processing and sending interleave.
EchoesInOrder ==
  \A i \in DOMAIN echoed : LET n == echoed[i].frame IN
    /\ n \in DOMAIN frames /\ Accepted(frames[n]) /\ echoed[i].len = frames[n].claim
    /\ \A j \in 1 .. (i - 1) : echoed[j].frame < n
    /\ \A m \in 1 .. (n - 1) : Accepted(frames[m]) => \E j \in 1 .. (i - 1) : echoed[j].frame = m

\* The processor never sleeps while an input packet waits to be processed: the
\* check for packets, the sleep bit and the interrupt leave no gap.
NeverSleepsOnInput ==
  mainPc = "asleep" /\ isrPc = "none"
    => \A in \in Stops(PassedByInput, InputReader) : mem[in].flag # "Input"

\* No assert() of PacketBuffer.c fails: a frame PacketCheck accepts fits into an
\* empty ring.
NoAssertFails == ~ aborted

\* Receiving is switched off for want of space only while packets are in the
\* ring whose sending will switch it on again.
OffOnlyWhileFull ==
  configs > 0 /\ isrPc = "none" /\ OutputReader = NextWriter => int["RX"]

\* No input packet is passed by the input reader: each can still be read.
NoInputPassed ==
  \A E \in SUBSET Headers : Chain(E) => \A p \in E :
    mem[p].flag = "Input" => Offset(InputReader) <= Offset(p)

\* Each accepted frame is eventually sent back, without help of the timer.
EveryFrameEchoed ==
  \A n \in 1 .. MaxFrames :
    (n \in DOMAIN frames /\ Accepted(frames[n])) ~> (\E i \in DOMAIN echoed : echoed[i].frame = n)

\* The device keeps the rules of PacketBuffer.h: it calls each function only
\* with a packet in the state that function is for, so all that holds of the
\* packet buffer under its clients holds here.
Clients == INSTANCE PacketClients
             WITH ShrinkLast <- FALSE, unfinished <- {rx.packet} \ {NULL},
                  inPacket <- packet, outPacket <- tx.packet
KeepsRules == Clients!Spec
=============================================================================
