-------------------------- MODULE UsbDeviceProofs --------------------------
(***************************************************************************)
(* The USB device uses the packet buffer as PacketBuffer.h asks, and sends *)
(* every frame back, for every size of the buffer and of the endpoints and *)
(* for any frames, under two conditions: no frame ends before the length   *)
(* its headers tell, unless its first endpoint packet shows that already,  *)
(* and the host sets the configuration once.                               *)
(***************************************************************************)
EXTENDS UsbDevice, PacketRing, SequenceTheorems

\* PacketCheck sees a frame that is too short only if it ends with the first
\* endpoint packet.
NoneEndsEarly == \A f \in Frames : f.claim <= f.bytes \/ f.bytes < EpSize

-----------------------------------------------------------------------------
(* The inductive invariant.                                                *)

Typed ==
  /\ TypeOK
  /\ inBusy \in [{"NO", "TX"} -> Nat]
  /\ outFifo \in Seq([frame : Nat, claim : Nat, len : Nat])
  /\ frames \in Seq(Frames)
  /\ hostLeft \in Nat \cup {NULL}
  /\ hostGot \in Nat
  /\ echoed \in Seq([frame : Nat, len : Nat])

(* Receiving.                                                              *)

\* The frame the next endpoint packet of the host belongs to, and what is left
\* of it.
HostNumber == IF hostLeft = NULL THEN Len(frames) + 1 ELSE Len(frames)
HostRest   == IF hostLeft = NULL THEN 0 ELSE hostLeft

Places == 1 .. Len(outFifo)

\* The frame the endpoint packet at a place of the fifo belongs to.
Number(i) == IF i \in Places THEN outFifo[i].frame ELSE HostNumber

\* The headers of the first endpoint packet have been read.
Opened == rx.state = "NEEDSPACE" \/ isrPc = "rxRead"

\* It is the last one of its frame.
Ends(i) == IF i = 1 /\ Opened THEN rx.last ELSE outFifo[i].len < EpSize

\* The endpoint packets are the frames one after the other, and rest[i] bytes of
\* the frame at place i are still to come from there on.
Stream(rest) ==
  /\ rest \in [1 .. (Len(outFifo) + 1) -> Nat]
  /\ rest[Len(outFifo) + 1] = HostRest
  /\ hostLeft # NULL => frames # << >>
  /\ \A i \in Places :
       /\ outFifo[i].frame \in DOMAIN frames
       /\ outFifo[i].claim = frames[outFifo[i].frame].claim
       /\ outFifo[i].len <= EpSize
       /\ rest[i] = outFifo[i].len + (IF Ends(i) THEN 0 ELSE rest[i + 1])
       /\ Number(i + 1) = outFifo[i].frame + (IF Ends(i) THEN 1 ELSE 0)
       /\ IF i = Len(outFifo)
          THEN Ends(i) <=> hostLeft = NULL
          ELSE Ends(i) => rest[i + 1] = frames[Number(i + 1)].bytes

\* The frame the receiver is at: the one it is receiving, or the next one.
Current == Number(1)

\* What the receiver still needs of its frame is still to come.
Receiving(rest) ==
  /\ rx.remaining <= 16382
  /\ outFifo = << >> => /\ (rx.state = "WAITING" <=> hostLeft = NULL)
                        /\ ~ Opened /\ isrPc # "rxSpace"
  /\ rx.state = "WAITING" => /\ rx.packet = NULL
                             /\ outFifo # << >> => rest[1] = frames[Current].bytes
  /\ rx.state = "NEEDSPACE" => /\ rx.packet = NULL /\ rx.buffer = Current
                               /\ Accepted(frames[Current])
                               /\ rx.remaining = frames[Current].claim
                               /\ rx.remaining <= rest[1] + HdrLen
  /\ rx.state = "READING" /\ rx.packet = NULL => ~ Accepted(frames[Current])
  /\ rx.packet # NULL => rx.remaining <= rest[1]
  /\ isrPc = "rxSpace" => rx.state = "NEEDSPACE"
  /\ isrPc = "rxRead" => rx.state = "READING"

Line == \E rest : Stream(rest) /\ Receiving(rest)

(* The ring.                                                               *)

HeldIn(E) ==
  /\ rx.packet # NULL => rx.packet \in E /\ mem[rx.packet].flag = "EndOfRing"
  /\ packet # NULL => packet = InputReader /\ packet \in E /\ mem[packet].flag = "Input"
  /\ tx.packet # NULL => tx.packet = OutputReader /\ tx.packet \in E /\ mem[tx.packet].flag = "Output"

Packets(E) == {p \in E : mem[p].flag # "StartOver"}

\* The packets of the ring are accepted frames, in the order they were sent, and
\* the one being received comes last.
Stocked(E) ==
  /\ \A p \in E : mem[p].flag # "Skip"
  /\ \A p \in E : mem[p].flag = "StartOver" => following(p) \in E
  /\ \A p \in E : mem[p].flag = "EndOfRing" => p = rx.packet
  /\ \A p \in Packets(E) :
       /\ stored[p] \in DOMAIN frames /\ Accepted(frames[stored[p]])
       /\ mem[p].val = frames[stored[p]].claim
       /\ IF p = rx.packet THEN stored[p] = Current ELSE stored[p] < Current
  /\ \A p, q \in Packets(E) : Offset(p) < Offset(q) => stored[p] < stored[q]

\* The frames sent back are in order, too, and come before those of the ring; of
\* the accepted frames up to the receiver none is missing.
Returned(E) ==
  /\ \A i \in DOMAIN echoed :
       /\ echoed[i].frame \in DOMAIN frames /\ Accepted(frames[echoed[i].frame])
       /\ echoed[i].frame < Current
       /\ echoed[i].len = frames[echoed[i].frame].claim
       /\ \A j \in 1 .. (i - 1) : echoed[j].frame < echoed[i].frame
       /\ \A p \in Packets(E) : echoed[i].frame < stored[p]
  /\ \A n \in DOMAIN frames : Accepted(frames[n]) /\ n < Current =>
       \/ \E i \in DOMAIN echoed : echoed[i].frame = n
       \/ \E p \in Packets(E) : stored[p] = n

\* The main loop has found no input, and there is none since.
Resting(E) == mainPc \in {"sleep", "asleep"} /\ SE => \A p \in E : mem[p].flag # "Input"

Whole(E) ==
  /\ Chain(E) /\ InputAhead(E) /\ HeldIn(E)
  /\ Stocked(E) /\ Returned(E) /\ Resting(E)

Stock == \E E \in SUBSET Headers : Whole(E)

(* The rest.                                                               *)

\* The interrupt of an endpoint is on, or will be again when the handler ends.
On(e) == int[e] \/ (isrPc # "none" /\ enable[e])

Control ==
  /\ isrPc = "txWrite" => tx.packet # NULL /\ inBusy["TX"] < Banks
  /\ IF tx.packet = NULL THEN hostGot = 0 ELSE tx.remaining + hostGot = mem[tx.packet].val
  /\ mainPc = "resend" <=> packet # NULL
  /\ mainPc = "asleep" => SE /\ isrPc = "none"
  /\ isrPc # "none" => int = [e \in Endpoints |-> FALSE]
  /\ IF configs = 0
     THEN /\ isrPc = "none" /\ int = [e \in Endpoints |-> FALSE]
          /\ outFifo = << >> /\ hostLeft = NULL /\ hostGot = 0 /\ frames = << >>
          /\ tx.packet = NULL
     ELSE aborted \/ On("RX") \/ OutputReader # NextWriter
  /\ On("NO") => ConnectionStateIndex > 0
  /\ aborted => isrPc = "no"

IInv == Typed /\ Line /\ Stock /\ Control

-----------------------------------------------------------------------------
(* Frames and endpoint packets.                                            *)

Receiver == [packet : Slots \cup {NULL}, remaining : Nat, last : BOOLEAN,
             state : {"NEEDSPACE", "WAITING", "READING"}, buffer : 0 .. MaxFrames]

LEMMA SizesFacts ==
  /\ EpSize \in Nat /\ Banks \in Nat /\ HdrLen \in Nat /\ MinLen \in Nat
  /\ MaxFrames \in Nat /\ MaxConfigs \in Nat
  /\ 0 < HdrLen /\ HdrLen <= MinLen /\ MinLen <= EpSize /\ Banks > 0
  BY SizesAssumption

LEMMA FrameFacts ==
  ASSUME NEW f \in Frames
  PROVE  /\ f.bytes \in Nat /\ f.claim \in Nat /\ f.claim <= 16382
         /\ f.claim > 0 => f.claim \in Lens /\ f.claim >= MinLen
  <1>1. f.bytes \in Nat /\ f.claim \in {0} \cup {len \in Lens : len >= MinLen}
    BY FramesAssumption
  <1>2. \A len \in Lens : len \in Nat /\ len <= 16382
    BY LensFacts
  <1> QED
    BY <1>1, <1>2, SMT

\* Each frame that was sent is one of Frames.
LEMMA SentFacts ==
  ASSUME Typed
  PROVE  /\ Len(frames) \in Nat /\ DOMAIN frames = 1 .. Len(frames) /\ Len(frames) <= MaxFrames
         /\ \A n \in DOMAIN frames : n \in Nat /\ n >= 1 /\ n <= Len(frames) /\ frames[n] \in Frames
         /\ HostNumber \in Nat /\ HostRest \in Nat
         /\ HostNumber = IF hostLeft = NULL THEN Len(frames) + 1 ELSE Len(frames)
         /\ Len(outFifo) \in Nat /\ Len(outFifo) <= Banks /\ (outFifo = << >> <=> Len(outFifo) = 0)
         /\ \A i \in Places : /\ outFifo[i].frame \in Nat /\ outFifo[i].claim \in Nat
                              /\ outFifo[i].len \in Nat
  <1>1. /\ outFifo \in Seq([frame : Nat, claim : Nat, len : Nat]) /\ Len(outFifo) <= Banks
        /\ frames \in Seq(Frames) /\ Len(frames) <= MaxFrames /\ hostLeft \in Nat \cup {NULL}
    BY DEF Typed, TypeOK
  <1>2. outFifo = << >> <=> Len(outFifo) = 0
    BY <1>1, EmptySeq
  <1>3. \A n \in DOMAIN frames : n \in Nat /\ n >= 1 /\ n <= Len(frames) /\ frames[n] \in Frames
    BY <1>1
  <1>4. HostNumber \in Nat /\ HostRest \in Nat
    BY <1>1, NullAssumption DEF HostNumber, HostRest
  <1>5. \A i \in Places : /\ outFifo[i].frame \in Nat /\ outFifo[i].claim \in Nat
                         /\ outFifo[i].len \in Nat
    <2> SUFFICES ASSUME NEW i \in Places
                 PROVE  /\ outFifo[i].frame \in Nat /\ outFifo[i].claim \in Nat
                        /\ outFifo[i].len \in Nat
      OBVIOUS
    <2>1. outFifo[i] \in [frame : Nat, claim : Nat, len : Nat]
      BY <1>1, ElementOfSeq DEF Places
    <2> QED
      BY <2>1
  <1> QED
    BY <1>1, <1>2, <1>3, <1>4, <1>5 DEF HostNumber

\* What the handler sees of the endpoint packet it works on.
LEMMA FirstFacts ==
  ASSUME Typed, NEW rest, Stream(rest), outFifo # << >>
  PROVE  /\ Current = outFifo[1].frame /\ Current \in DOMAIN frames
         /\ Head(outFifo).frame = Current /\ Head(outFifo).claim = frames[Current].claim
         /\ usbLen = outFifo[1].len /\ usbLen \in Nat /\ usbLen <= EpSize
         /\ rest[1] \in Nat /\ rest[2] \in Nat
         /\ rest[1] = usbLen + (IF Ends(1) THEN 0 ELSE rest[2])
         /\ Number(2) = Current + (IF Ends(1) THEN 1 ELSE 0)
  <1>1. 1 \in Places /\ Len(outFifo) \in Nat /\ Len(outFifo) >= 1
    BY SentFacts DEF Places
  <1>2. Head(outFifo) = outFifo[1] /\ outFifo[1].len \in Nat
    BY <1>1, SentFacts
  <1>3. Current = outFifo[1].frame
    BY <1>1 DEF Current, Number
  <1>4. /\ outFifo[1].frame \in DOMAIN frames /\ outFifo[1].claim = frames[outFifo[1].frame].claim
        /\ outFifo[1].len <= EpSize
        /\ rest[1] = outFifo[1].len + (IF Ends(1) THEN 0 ELSE rest[1 + 1])
        /\ Number(1 + 1) = outFifo[1].frame + (IF Ends(1) THEN 1 ELSE 0)
    BY <1>1 DEF Stream
  <1>5. rest[1] \in Nat /\ rest[2] \in Nat
    BY <1>1 DEF Stream
  <1> QED
    BY <1>1, <1>2, <1>3, <1>4, <1>5 DEF usbLen

\* The receiver is at one of the frames sent or the next one.
LEMMA CurrentFacts ==
  ASSUME Typed, Line
  PROVE  /\ Current \in Nat /\ Current >= 1 /\ Current <= Len(frames) + 1
         /\ hostLeft # NULL => Len(frames) >= 1 /\ HostNumber \in DOMAIN frames
  <1>1. PICK rest : Stream(rest)
    BY DEF Line
  <1>2. hostLeft # NULL => Len(frames) >= 1
    BY <1>1, SentFacts DEF Stream, Typed
  <1>3. CASE outFifo = << >>
    BY <1>2, <1>3, SentFacts DEF Current, Number, Places
  <1>4. CASE outFifo # << >>
    BY <1>1, <1>2, <1>4, FirstFacts, SentFacts
  <1> QED
    BY <1>2, <1>3, <1>4, SentFacts

-----------------------------------------------------------------------------
(* The line of endpoint packets.                                           *)

\* A step that neither sends nor receives.
LEMMA LineSame ==
  ASSUME Line, UNCHANGED <<frames, hostLeft, outFifo, rx>>,
         isrPc' = isrPc \/ ({isrPc, isrPc'} \cap {"rxSpace", "rxRead"} = {})
  PROVE  Line' /\ Current' = Current
  <1>1. PICK rest : Stream(rest) /\ Receiving(rest)
    BY DEF Line
  <1>2. (Opened' <=> Opened) /\ (isrPc' = "rxSpace" => isrPc = "rxSpace")
        /\ (isrPc' = "rxRead" => isrPc = "rxRead")
    BY DEF Opened
  <1>3. Stream(rest)'
    BY <1>1, <1>2 DEF Stream, HostRest, HostNumber, Places, Number, Ends
  <1>4. Receiving(rest)'
    BY <1>1, <1>2 DEF Receiving, Current, HostNumber, Places, Number, Accepted
  <1>5. Current' = Current
    BY DEF Current, HostNumber, Places, Number
  <1> QED
    BY <1>3, <1>4, <1>5 DEF Line

\* The first endpoint packet is done with.
LEMMA StreamClears ==
  ASSUME Typed, NEW rest, Stream(rest), outFifo # << >>, ClearOUT,
         UNCHANGED <<frames, hostLeft>>, ~ Opened',
         NEW r2, r2 = [i \in 1 .. Len(outFifo) |-> rest[i + 1]]
  PROVE  /\ Stream(r2)' /\ r2[1] = rest[2]
         /\ Current' = Current + (IF Ends(1) THEN 1 ELSE 0)
         /\ outFifo' = << >> => (Ends(1) <=> hostLeft = NULL)
         /\ outFifo' # << >> /\ Ends(1) => r2[1] = frames[Current'].bytes
  <1>0. PICK N \in Nat : N = Len(outFifo)
    BY SentFacts
  <1>1. N >= 1 /\ outFifo' = Tail(outFifo) /\ Len(outFifo') = N - 1
        /\ \A i \in 1 .. (N - 1) : outFifo'[i] = outFifo[i + 1]
    BY <1>0, SentFacts DEF ClearOUT, Typed
  <1>2. outFifo' = << >> <=> N = 1
    <2>1. outFifo' \in Seq([frame : Nat, claim : Nat, len : Nat])
      BY <1>1, HeadTailProperties DEF Typed
    <2>2. outFifo' = << >> <=> Len(outFifo') = 0
      BY <2>1, EmptySeq
    <2> QED
      BY <2>2, <1>0, <1>1
  <1>3. rest \in [1 .. (N + 1) -> Nat] /\ rest[N + 1] = HostRest /\ (hostLeft # NULL => frames # << >>)
    BY <1>0 DEF Stream
  <1>4. \A i \in 1 .. N :
          /\ outFifo[i].frame \in DOMAIN frames
          /\ outFifo[i].claim = frames[outFifo[i].frame].claim
          /\ outFifo[i].len <= EpSize
          /\ rest[i] = outFifo[i].len + (IF Ends(i) THEN 0 ELSE rest[i + 1])
          /\ Number(i + 1) = outFifo[i].frame + (IF Ends(i) THEN 1 ELSE 0)
          /\ IF i = N THEN Ends(i) <=> hostLeft = NULL
                      ELSE Ends(i) => rest[i + 1] = frames[Number(i + 1)].bytes
    BY <1>0 DEF Stream, Places
  <1>5. \A i \in 1 .. (N - 1) : Ends(i)' <=> Ends(i + 1)
    BY <1>1 DEF Ends
  <1>6. HostNumber' = HostNumber /\ HostRest' = HostRest
    BY DEF HostNumber, HostRest
  <1>7. \A i \in 1 .. N : Number(i)' = Number(i + 1)
    BY <1>0, <1>1, <1>6 DEF Number, Places
  <1>8. r2 \in [1 .. N -> Nat] /\ \A i \in 1 .. N : r2[i] = rest[i + 1]
    BY <1>0, <1>3
  <1>9. ASSUME NEW i \in 1 .. (N - 1)
        PROVE  /\ outFifo'[i].frame \in DOMAIN frames
               /\ outFifo'[i].claim = frames[outFifo'[i].frame].claim
               /\ outFifo'[i].len <= EpSize
               /\ r2[i] = outFifo'[i].len + (IF Ends(i)' THEN 0 ELSE r2[i + 1])
               /\ Number(i + 1)' = outFifo'[i].frame + (IF Ends(i)' THEN 1 ELSE 0)
               /\ IF i = N - 1 THEN Ends(i)' <=> hostLeft = NULL
                               ELSE Ends(i)' => r2[i + 1] = frames[Number(i + 1)'].bytes
    <2>1. i + 1 \in 1 .. N /\ i \in 1 .. N
      OBVIOUS
    <2>2. outFifo'[i] = outFifo[i + 1] /\ (Ends(i)' <=> Ends(i + 1))
      BY <1>1, <1>5
    <2>3. r2[i] = rest[i + 1] /\ r2[i + 1] = rest[(i + 1) + 1]
      BY <1>8, <2>1
    <2>4. Number(i + 1)' = Number((i + 1) + 1)
      BY <1>7, <2>1
    <2> QED
      BY <1>4, <2>1, <2>2, <2>3, <2>4
  <1>10. Stream(r2)'
    <2>1. r2 \in [1 .. (Len(outFifo') + 1) -> Nat] /\ r2[Len(outFifo') + 1] = HostRest'
      BY <1>1, <1>3, <1>6, <1>8
    <2> QED
      BY <2>1, <1>1, <1>3, <1>9 DEF Stream, Places
  <1>11. r2[1] = rest[2]
    BY <1>1, <1>8
  <1>12. Current' = Number(2)
    BY <1>1, <1>7 DEF Current
  <1>13. Number(2) = Current + (IF Ends(1) THEN 1 ELSE 0)
    BY FirstFacts
  <1>14. outFifo' = << >> => (Ends(1) <=> hostLeft = NULL)
    BY <1>2, <1>4
  <1>15. outFifo' # << >> /\ Ends(1) => r2[1] = frames[Current'].bytes
    BY <1>1, <1>2, <1>4, <1>11, <1>12
  <1> QED
    BY <1>10, <1>11, <1>12, <1>13, <1>14, <1>15

\* Only the first place is looked at.
LEMMA StreamBegins ==
  ASSUME Typed, NEW rest, Stream(rest), outFifo # << >>,
         UNCHANGED <<frames, hostLeft>>, ~ Opened, Opened', rx'.last = (outFifo[1].len < EpSize),
         NEW k \in Nat, k <= outFifo[1].len,
         Len(outFifo') = Len(outFifo),
         \A i \in Places : i # 1 => outFifo'[i] = outFifo[i],
         outFifo'[1].frame = outFifo[1].frame, outFifo'[1].claim = outFifo[1].claim,
         outFifo'[1].len = outFifo[1].len - k,
         NEW r2, r2 = [rest EXCEPT ![1] = @ - k]
  PROVE  /\ Stream(r2)' /\ r2[1] = rest[1] - k /\ Current' = Current /\ outFifo' # << >>
  <1>0. PICK N \in Nat : N = Len(outFifo)
    BY SentFacts
  <1>1. N >= 1 /\ Len(outFifo') = N /\ \A i \in 2 .. N : outFifo'[i] = outFifo[i]
    BY <1>0, SentFacts DEF Places
  <1>3. rest \in [1 .. (N + 1) -> Nat] /\ rest[N + 1] = HostRest /\ (hostLeft # NULL => frames # << >>)
    BY <1>0 DEF Stream
  <1>4. \A i \in 1 .. N :
          /\ outFifo[i].frame \in DOMAIN frames
          /\ outFifo[i].claim = frames[outFifo[i].frame].claim
          /\ outFifo[i].len <= EpSize /\ outFifo[i].len \in Nat
          /\ rest[i] = outFifo[i].len + (IF Ends(i) THEN 0 ELSE rest[i + 1])
          /\ Number(i + 1) = outFifo[i].frame + (IF Ends(i) THEN 1 ELSE 0)
          /\ IF i = N THEN Ends(i) <=> hostLeft = NULL
                      ELSE Ends(i) => rest[i + 1] = frames[Number(i + 1)].bytes
    BY <1>0, SentFacts DEF Stream, Places
  <1>5. \A i \in 1 .. N : Ends(i)' <=> Ends(i)
    <2>1. (Ends(1)' <=> Ends(1))
      BY DEF Ends
    <2>2. \A i \in 2 .. N : Ends(i)' <=> Ends(i)
      BY <1>0, <1>1 DEF Ends
    <2> QED
      BY <1>0, <2>1, <2>2
  <1>6. HostNumber' = HostNumber /\ HostRest' = HostRest
    BY DEF HostNumber, HostRest
  <1>7. \A i \in 1 .. (N + 1) : Number(i)' = Number(i)
    BY <1>0, <1>1, <1>6 DEF Number, Places
  <1>8. r2 \in [1 .. (N + 1) -> Nat] /\ r2[1] = rest[1] - k /\ \A i \in 2 .. (N + 1) : r2[i] = rest[i]
    <2>1. rest[1] \in Nat /\ rest[2] \in Nat
      BY <1>0, <1>1, <1>3
    <2>2. rest[1] >= outFifo[1].len /\ outFifo[1].len \in Nat
      BY <2>1, <1>0, <1>1, <1>4
    <2> QED
      BY <2>1, <2>2, <1>0, <1>1, <1>3
  <1>9. ASSUME NEW i \in 1 .. N
        PROVE  /\ outFifo'[i].frame \in DOMAIN frames
               /\ outFifo'[i].claim = frames[outFifo'[i].frame].claim
               /\ outFifo'[i].len <= EpSize
               /\ r2[i] = outFifo'[i].len + (IF Ends(i)' THEN 0 ELSE r2[i + 1])
               /\ Number(i + 1)' = outFifo'[i].frame + (IF Ends(i)' THEN 1 ELSE 0)
               /\ IF i = N THEN Ends(i)' <=> hostLeft = NULL
                           ELSE Ends(i)' => r2[i + 1] = frames[Number(i + 1)'].bytes
    <2>1. r2[i + 1] = rest[i + 1] /\ Number(i + 1)' = Number(i + 1) /\ (Ends(i)' <=> Ends(i))
      BY <1>5, <1>7, <1>8
    <2>2. CASE i = 1
      <3>1. rest[2] \in Nat /\ rest[1] \in Nat
        BY <1>1, <1>3
      <3>2. /\ outFifo[1].len \in Nat /\ outFifo[1].len <= EpSize
            /\ rest[1] = outFifo[1].len + (IF Ends(1) THEN 0 ELSE rest[2])
        BY <1>1, <1>4
      <3>3. outFifo'[1].len <= EpSize
        BY <3>2, SizesFacts
      <3>4. r2[1] = outFifo'[1].len + (IF Ends(1) THEN 0 ELSE rest[2])
        BY <3>1, <3>2, <1>8
      <3>5. /\ outFifo'[i].frame = outFifo[i].frame /\ outFifo'[i].claim = outFifo[i].claim
            /\ outFifo'[i].len <= EpSize
            /\ r2[i] = outFifo'[i].len + (IF Ends(i)' THEN 0 ELSE r2[i + 1])
        BY <2>1, <2>2, <3>3, <3>4
      <3> QED
        BY <2>1, <3>5, <1>4
    <2>3. CASE i # 1
      <3>1. outFifo'[i] = outFifo[i] /\ r2[i] = rest[i]
        BY <2>3, <1>1, <1>8
      <3> QED
        BY <2>1, <3>1, <1>4
    <2> QED
      BY <2>2, <2>3
  <1>10. Stream(r2)'
    <2>1. r2 \in [1 .. (Len(outFifo') + 1) -> Nat] /\ r2[Len(outFifo') + 1] = HostRest'
      BY <1>1, <1>3, <1>6, <1>8
    <2> QED
      BY <2>1, <1>1, <1>3, <1>9 DEF Stream, Places
  <1>11. Current' = Current
    BY <1>1, <1>7 DEF Current
  <1>12. outFifo' # << >>
    BY <1>1
  <1> QED
    BY <1>8, <1>10, <1>11, <1>12

\* The frame the host is sending, with what is left of it.
LEMMA HostSends ==
  ASSUME Typed, Line, HostBegins \/ HostContinues
  PROVE  \E f \in Frames, left \in Nat, n \in Nat :
           /\ frames' \in Seq(Frames) /\ Len(frames') = HostNumber /\ HostNumber >= 1
           /\ frames'[HostNumber] = f
           /\ \A k \in DOMAIN frames : k \in DOMAIN frames' /\ frames'[k] = frames[k]
           /\ IF hostLeft = NULL THEN left = f.bytes ELSE left = hostLeft
           /\ n = (IF left < EpSize THEN left ELSE EpSize)
           /\ Len(outFifo) < Banks /\ configs' = configs
           /\ outFifo' = Append(outFifo, [frame |-> HostNumber, claim |-> f.claim, len |-> n])
           /\ hostLeft' = IF n < EpSize THEN NULL ELSE left - n
           /\ Len(frames') <= MaxFrames
  <1>1. CASE HostBegins
    <2>1. PICK f \in Frames : frames' = Append(frames, f) /\ SendChunk(f, f.bytes)
      BY <1>1 DEF HostBegins
    <2>2. hostLeft = NULL /\ Len(frames) < MaxFrames /\ frames \in Seq(Frames)
      BY <1>1 DEF HostBegins, Typed
    <2>3. PICK n : n = IF f.bytes < EpSize THEN f.bytes ELSE EpSize
      OBVIOUS
    <2>4. n \in Nat /\ f.bytes \in Nat /\ Len(frames) \in Nat
      BY <2>3, FrameFacts, SizesFacts, SentFacts
    <2>5. /\ frames' \in Seq(Frames) /\ Len(frames') = Len(frames) + 1
          /\ frames'[Len(frames) + 1] = f
          /\ \A k \in 1 .. Len(frames) : k \in 1 .. (Len(frames) + 1) /\ frames'[k] = frames[k]
      BY <2>1, <2>2, <2>4, AppendProperties
    <2>6. DOMAIN frames' = 1 .. (Len(frames) + 1) /\ DOMAIN frames = 1 .. Len(frames)
      BY <2>2, <2>5, LenProperties
    <2>7. HostNumber = Len(frames) + 1
      BY <2>2 DEF HostNumber
    <2>8. /\ outFifo' = Append(outFifo, [frame |-> HostNumber, claim |-> f.claim, len |-> n])
          /\ hostLeft' = IF n < EpSize THEN NULL ELSE f.bytes - n
          /\ Len(outFifo) < Banks /\ configs' = configs
      BY <1>1, <2>1, <2>3, <2>5, <2>7 DEF SendChunk, HostBegins
    <2>9. HostNumber >= 1 /\ Len(frames') <= MaxFrames
      BY <2>2, <2>4, <2>5, <2>7, SizesFacts
    <2> QED
      BY <2>2, <2>3, <2>4, <2>5, <2>6, <2>7, <2>8, <2>9
  <1>2. CASE HostContinues
    <2>1. PICK f : f = frames[Len(frames)]
      OBVIOUS
    <2>2. hostLeft # NULL /\ hostLeft \in Nat /\ UNCHANGED frames /\ SendChunk(f, hostLeft)
      BY <1>2, <2>1 DEF HostContinues, Typed
    <2>3. HostNumber = Len(frames) /\ Len(frames) >= 1 /\ Len(frames) \in DOMAIN frames
      BY <2>2, CurrentFacts, SentFacts
    <2>4. f \in Frames /\ frames \in Seq(Frames) /\ Len(frames) <= MaxFrames
      BY <2>1, <2>3, SentFacts DEF Typed
    <2>5. PICK n : n = IF hostLeft < EpSize THEN hostLeft ELSE EpSize
      OBVIOUS
    <2>6. n \in Nat
      BY <2>2, <2>5, SizesFacts
    <2>7. /\ outFifo' = Append(outFifo, [frame |-> HostNumber, claim |-> f.claim, len |-> n])
          /\ hostLeft' = IF n < EpSize THEN NULL ELSE hostLeft - n
          /\ Len(outFifo) < Banks /\ configs' = configs
      BY <1>2, <2>2, <2>3, <2>5 DEF SendChunk, HostContinues
    <2> QED
      BY <2>1, <2>2, <2>3, <2>4, <2>5, <2>6, <2>7
  <1> QED
    BY <1>1, <1>2

\* The host adds an endpoint packet at the end.
LEMMA LineGrows ==
  ASSUME Typed, Line, HostBegins \/ HostContinues
  PROVE  Line' /\ Current' = Current
  <1>1. PICK rest : Stream(rest) /\ Receiving(rest)
    BY DEF Line
  <1>2. PICK f \in Frames, left \in Nat, n \in Nat :
           /\ frames' \in Seq(Frames) /\ Len(frames') = HostNumber /\ HostNumber >= 1
           /\ frames'[HostNumber] = f
           /\ \A k \in DOMAIN frames : k \in DOMAIN frames' /\ frames'[k] = frames[k]
           /\ IF hostLeft = NULL THEN left = f.bytes ELSE left = hostLeft
           /\ n = (IF left < EpSize THEN left ELSE EpSize)
           /\ outFifo' = Append(outFifo, [frame |-> HostNumber, claim |-> f.claim, len |-> n])
           /\ hostLeft' = IF n < EpSize THEN NULL ELSE left - n
    BY HostSends
  <1>3. UNCHANGED <<rx, isrPc>> /\ (Opened' <=> Opened)
    BY DEF HostBegins, HostContinues, rxVars, isrVars, Opened
  <1>4. PICK N \in Nat, H \in Nat : N = Len(outFifo) /\ H = HostNumber
    BY SentFacts
  <1>5. /\ Len(outFifo') = N + 1 /\ \A i \in 1 .. N : outFifo'[i] = outFifo[i]
        /\ outFifo'[N + 1] = [frame |-> H, claim |-> f.claim, len |-> n]
        /\ outFifo' # << >>
    <2>1. PICK c : c = [frame |-> H, claim |-> f.claim, len |-> n]
      OBVIOUS
    <2>2. c \in [frame : Nat, claim : Nat, len : Nat]
      BY <2>1, FrameFacts
    <2>3. outFifo' = Append(outFifo, c) /\ outFifo \in Seq([frame : Nat, claim : Nat, len : Nat])
      BY <2>1, <1>2, <1>4 DEF Typed
    <2>4. /\ Len(outFifo') = N + 1 /\ \A i \in 1 .. N : outFifo'[i] = outFifo[i]
          /\ outFifo'[N + 1] = c
      BY <2>2, <2>3, <1>4, AppendProperties
    <2>5. Len(outFifo') # Len(<< >>)
      BY <2>4, <1>4, EmptySeq
    <2> QED
      BY <2>1, <2>4, <2>5
  <1>6. H >= 1 /\ Len(frames') = H /\ frames'[H] = f /\ frames' \in Seq(Frames) /\ H \in DOMAIN frames'
        /\ frames' # << >>
    BY <1>2, <1>4
  <1>7. n <= EpSize /\ (hostLeft' = NULL <=> n < EpSize) /\ (n < EpSize => n = left)
        /\ (~ (n < EpSize) => left >= n /\ hostLeft' = left - n /\ left - n \in Nat)
    BY <1>2, SizesFacts, NullAssumption
  <1>8. HostNumber' = (IF n < EpSize THEN H + 1 ELSE H)
        /\ HostRest' = (IF n < EpSize THEN 0 ELSE left - n) /\ HostRest' \in Nat
    BY <1>6, <1>7 DEF HostNumber, HostRest
  <1>9. /\ rest \in [1 .. (N + 1) -> Nat] /\ rest[N + 1] = HostRest
        /\ hostLeft # NULL => rest[N + 1] = left
    BY <1>1, <1>2, <1>4 DEF Stream, HostRest
  <1>10. \A i \in 1 .. N :
          /\ outFifo[i].frame \in DOMAIN frames
          /\ outFifo[i].claim = frames[outFifo[i].frame].claim
          /\ outFifo[i].len <= EpSize
          /\ rest[i] = outFifo[i].len + (IF Ends(i) THEN 0 ELSE rest[i + 1])
          /\ Number(i + 1) = outFifo[i].frame + (IF Ends(i) THEN 1 ELSE 0)
          /\ IF i = N THEN Ends(i) <=> hostLeft = NULL
                      ELSE Ends(i) => rest[i + 1] = frames[Number(i + 1)].bytes
    BY <1>1, <1>4 DEF Stream, Places
  <1>11. /\ N = 0 => ~ Opened /\ (rx.state = "WAITING" <=> hostLeft = NULL)
         /\ N > 0 => outFifo # << >>
    <2>1. outFifo = << >> <=> N = 0
      BY <1>4, SentFacts
    <2> QED
      BY <2>1, <1>1, <1>4 DEF Receiving
  <1>12. (\A i \in 1 .. N : Ends(i)' <=> Ends(i)) /\ (Ends(N + 1)' <=> n < EpSize)
    <2>1. \A i \in 1 .. N : Ends(i)' <=> Ends(i)
      BY <1>3, <1>5 DEF Ends
    <2>2. outFifo'[N + 1].len = n
      BY <1>5
    <2>3. Ends(N + 1)' <=> n < EpSize
      BY <2>2, <1>3, <1>4, <1>11 DEF Ends
    <2> QED
      BY <2>1, <2>3
  <1>13. /\ \A i \in 1 .. N : Number(i)' = Number(i) /\ Number(i) = outFifo[i].frame
         /\ Number(N + 1)' = H /\ Number(N + 1) = H
         /\ Number(N + 2)' = HostNumber'
    <2>1. outFifo'[N + 1].frame = H
      BY <1>5
    <2>2. Places = 1 .. N /\ Places' = 1 .. (N + 1)
      BY <1>4, <1>5 DEF Places
    <2>3. \A i \in 1 .. N : Number(i)' = Number(i) /\ Number(i) = outFifo[i].frame
      BY <2>2, <1>5 DEF Number
    <2> QED
      BY <2>1, <2>2, <2>3, <1>4 DEF Number
  <1>14. PICK r2 : r2 = [i \in 1 .. (N + 2) |-> IF i <= N THEN rest[i]
                                               ELSE IF i = N + 1 THEN left ELSE HostRest']
    OBVIOUS
  <1>15. /\ r2 \in [1 .. (N + 2) -> Nat] /\ \A i \in 1 .. N : r2[i] = rest[i]
         /\ r2[N + 1] = left /\ r2[N + 2] = HostRest'
    BY <1>8, <1>9, <1>14
  <1>16. ASSUME NEW i \in 1 .. (N + 1)
         PROVE  /\ outFifo'[i].frame \in DOMAIN frames'
                /\ outFifo'[i].claim = frames'[outFifo'[i].frame].claim
                /\ outFifo'[i].len <= EpSize
                /\ r2[i] = outFifo'[i].len + (IF Ends(i)' THEN 0 ELSE r2[i + 1])
                /\ Number(i + 1)' = outFifo'[i].frame + (IF Ends(i)' THEN 1 ELSE 0)
                /\ IF i = N + 1 THEN Ends(i)' <=> hostLeft' = NULL
                                ELSE Ends(i)' => r2[i + 1] = frames'[Number(i + 1)'].bytes
    <2>1. CASE i = N + 1
      <3>1. outFifo'[i].frame = H /\ outFifo'[i].claim = f.claim /\ outFifo'[i].len = n
        BY <2>1, <1>5
      <3>2. r2[i] = left /\ r2[i + 1] = HostRest' /\ Number(i + 1)' = HostNumber'
            /\ (Ends(i)' <=> n < EpSize)
        BY <2>1, <1>12, <1>13, <1>15
      <3> QED
        BY <2>1, <3>1, <3>2, <1>6, <1>7, <1>8
    <2>2. CASE i = N /\ i >= 1
      <3>1. outFifo'[i] = outFifo[i] /\ r2[i] = rest[i] /\ (Ends(i)' <=> Ends(i))
        BY <2>2, <1>5, <1>12, <1>15
      <3>2. Number(i + 1)' = H /\ Number(i + 1) = H /\ r2[i + 1] = left
        BY <2>2, <1>13, <1>15
      <3>3. /\ outFifo[i].frame \in DOMAIN frames
            /\ outFifo[i].claim = frames[outFifo[i].frame].claim
            /\ outFifo[i].len <= EpSize
            /\ rest[i] = outFifo[i].len + (IF Ends(i) THEN 0 ELSE rest[i + 1])
            /\ Number(i + 1) = outFifo[i].frame + (IF Ends(i) THEN 1 ELSE 0)
            /\ Ends(i) <=> hostLeft = NULL
        BY <2>2, <1>10
      <3>4. hostLeft # NULL => rest[i + 1] = left
        BY <2>2, <1>9
      <3>5. Ends(i) => left = f.bytes
        BY <3>3, <1>2
      <3> QED
        BY <2>2, <3>1, <3>2, <3>3, <3>4, <3>5, <1>2, <1>6
    <2>3. CASE i < N
      <3>0. i \in 1 .. N /\ i + 1 \in 1 .. N /\ i # N /\ i # N + 1
        BY <2>3, <1>4
      <3>1. outFifo'[i] = outFifo[i] /\ r2[i] = rest[i] /\ (Ends(i)' <=> Ends(i))
            /\ Number(i + 1)' = Number(i + 1) /\ Number(i + 1) = outFifo[i + 1].frame
            /\ r2[i + 1] = rest[i + 1]
        BY <3>0, <1>5, <1>12, <1>13, <1>15
      <3>2. outFifo[i + 1].frame \in DOMAIN frames /\ outFifo[i].frame \in DOMAIN frames
        BY <3>0, <1>10
      <3>3. /\ outFifo[i].claim = frames[outFifo[i].frame].claim
            /\ outFifo[i].len <= EpSize
            /\ rest[i] = outFifo[i].len + (IF Ends(i) THEN 0 ELSE rest[i + 1])
            /\ Number(i + 1) = outFifo[i].frame + (IF Ends(i) THEN 1 ELSE 0)
            /\ Ends(i) => rest[i + 1] = frames[Number(i + 1)].bytes
        BY <3>0, <1>10
      <3>4. frames'[outFifo[i].frame] = frames[outFifo[i].frame] /\ outFifo[i].frame \in DOMAIN frames'
            /\ frames'[Number(i + 1)] = frames[Number(i + 1)]
        BY <3>1, <3>2, <1>2
      <3> QED
        BY <3>0, <3>1, <3>3, <3>4
    <2> QED
      BY <2>1, <2>2, <2>3
  <1>17. Stream(r2)'
    <2>1. r2 \in [1 .. (Len(outFifo') + 1) -> Nat] /\ r2[Len(outFifo') + 1] = HostRest'
      BY <1>5, <1>15
    <2> QED
      BY <2>1, <1>5, <1>6, <1>16 DEF Stream, Places
  <1>18. Current' = Current
    <2>1. CASE N = 0
      BY <2>1, <1>13 DEF Current
    <2>2. CASE N >= 1
      BY <2>2, <1>13 DEF Current
    <2> QED
      BY <2>1, <2>2
  <1>19. (N > 0 \/ hostLeft # NULL) => Current \in DOMAIN frames /\ frames'[Current] = frames[Current]
    <2>1. CASE N > 0
      <3>1. Current \in DOMAIN frames
        BY <2>1, <1>1, <1>11, FirstFacts
      <3> QED
        BY <3>1, <1>2
    <2>2. CASE N = 0 /\ hostLeft # NULL
      <3>1. Current = H /\ H \in DOMAIN frames
        BY <2>2, <1>4, <1>13, CurrentFacts DEF Current
      <3> QED
        BY <3>1, <1>2
    <2> QED
      BY <2>1, <2>2
  <1>20. N = 0 => Current = H /\ r2[1] = left
    BY <1>13, <1>15 DEF Current
  <1>21. N > 0 => r2[1] = rest[1]
    BY <1>15
  <1>22. Receiving(r2)'
    <2>1. rx.state = "WAITING" => r2[1] = frames'[Current].bytes
      <3>1. CASE N > 0
        <4>1. rx.state = "WAITING" => rest[1] = frames[Current].bytes
          BY <3>1, <1>1, <1>11 DEF Receiving
        <4> QED
          BY <3>1, <4>1, <1>19, <1>21
      <3>2. CASE N = 0 /\ rx.state = "WAITING"
        <4>1. hostLeft = NULL
          BY <3>2, <1>11
        <4> QED
          BY <3>2, <4>1, <1>2, <1>6, <1>20
      <3> QED
        BY <3>1, <3>2
    <2>2. rx.state = "NEEDSPACE" => N > 0
      BY <1>4, <1>11 DEF Opened
    <2>3. rx.state = "READING" => (N > 0 \/ hostLeft # NULL)
      BY <1>4, <1>11
    <2>4. rx.state = "NEEDSPACE" => /\ rx.packet = NULL /\ rx.buffer = Current
                                    /\ Accepted(frames'[Current])
                                    /\ rx.remaining = frames'[Current].claim
                                    /\ rx.remaining <= r2[1] + HdrLen
      BY <2>2, <1>1, <1>19, <1>21 DEF Receiving
    <2>5. rx.state = "READING" /\ rx.packet = NULL => ~ Accepted(frames'[Current])
      BY <2>3, <1>1, <1>19 DEF Receiving
    <2>6. rx.packet # NULL => rx.remaining <= r2[1]
      <3>1. rx.packet # NULL => rx.state = "READING" /\ rx.remaining <= rest[1]
        BY <1>1 DEF Receiving, Typed, TypeOK
      <3>2. CASE N > 0
        BY <3>1, <3>2, <1>21
      <3>3. CASE N = 0
        BY <3>1, <3>3, <2>3, <1>9, <1>20
      <3> QED
        BY <3>2, <3>3
    <2>7. /\ rx.remaining <= 16382 /\ (rx.state = "WAITING" => rx.packet = NULL)
          /\ (isrPc = "rxSpace" => rx.state = "NEEDSPACE") /\ (isrPc = "rxRead" => rx.state = "READING")
      BY <1>1 DEF Receiving
    <2> QED
      BY <2>1, <2>4, <2>5, <2>6, <2>7, <1>3, <1>5, <1>18 DEF Receiving, Accepted
  <1> QED
    BY <1>17, <1>18, <1>22 DEF Line

\* The receiver goes on with an endpoint packet.
LEMMA LineContinues ==
  ASSUME Typed, Line, RxContinue
  PROVE  Line' /\ Current' = Current
  <1>1. PICK rest : Stream(rest) /\ Receiving(rest)
    BY DEF Line
  <1>2. /\ isrPc = "rx" /\ rx.state # "WAITING" /\ rx' = [rx EXCEPT !.last = last]
        /\ UNCHANGED <<outFifo, frames, hostLeft, stored>> /\ outFifo # << >>
        /\ isrPc' = IF rx.state = "READING" THEN "rxRead" ELSE "rxSpace"
    BY DEF RxContinue, hwVars, sending, Received, OutReceived
  <1>3. /\ rx.state \in {"NEEDSPACE", "READING"}
        /\ rx'.packet = rx.packet /\ rx'.remaining = rx.remaining /\ rx'.state = rx.state
        /\ rx'.buffer = rx.buffer /\ rx'.last = last
    BY <1>2 DEF Typed, TypeOK
  <1>4. Current' = Current
    BY <1>2 DEF Current, Number, HostNumber, Places
  <1>5. Receiving(rest)'
    BY <1>1, <1>2, <1>3, <1>4 DEF Receiving, Accepted
  <1>6. (Opened)' /\ (Opened <=> rx.state = "NEEDSPACE")
    BY <1>2, <1>3 DEF Opened
  <1>7. usbLen = outFifo[1].len
    BY <1>1, <1>2, FirstFacts
  <1>8. \A i \in Places : Ends(i)' <=> Ends(i)
    BY <1>2, <1>3, <1>6, <1>7 DEF Ends, last
  <1>9. Stream(rest)'
    BY <1>1, <1>2, <1>8 DEF Stream, HostRest, HostNumber, Places, Number
  <1> QED
    BY <1>4, <1>5, <1>9 DEF Line

\* A frame begins: what its first endpoint packet shows of it.
LEMMA BeginFacts ==
  ASSUME Typed, NEW rest, Stream(rest), Receiving(rest),
         isrPc = "rx", Received, rx.state = "WAITING"
  PROVE  /\ outFifo # << >> /\ ~ Opened /\ rx.packet = NULL
         /\ Current \in DOMAIN frames /\ frames[Current] \in Frames
         /\ Head(outFifo).frame = Current /\ Head(outFifo).claim = frames[Current].claim
         /\ usbLen = outFifo[1].len /\ usbLen \in Nat /\ rest[1] = frames[Current].bytes
         /\ last \in BOOLEAN /\ (last <=> usbLen < EpSize) /\ (Ends(1) <=> last)
         /\ last => frames[Current].bytes = usbLen
         /\ ~ last => frames[Current].bytes >= EpSize /\ usbLen = EpSize
         /\ frames[Current].bytes >= usbLen
  <1>1. outFifo # << >> /\ ~ Opened
    BY DEF Received, OutReceived, Opened
  <1>2. rx.packet = NULL /\ rest[1] = frames[Current].bytes
    BY <1>1 DEF Receiving
  <1>3. /\ Current \in DOMAIN frames
        /\ Head(outFifo).frame = Current /\ Head(outFifo).claim = frames[Current].claim
        /\ usbLen = outFifo[1].len /\ usbLen \in Nat /\ usbLen <= EpSize
        /\ rest[1] \in Nat /\ rest[2] \in Nat
        /\ rest[1] = usbLen + (IF Ends(1) THEN 0 ELSE rest[2])
    BY <1>1, FirstFacts
  <1>4. frames[Current] \in Frames
    BY <1>3, SentFacts
  <1>5. last \in BOOLEAN /\ (last <=> usbLen < EpSize)
    BY DEF last
  <1>6. Ends(1) <=> last
    BY <1>1, <1>3, <1>5 DEF Ends
  <1> QED
    BY <1>1, <1>2, <1>3, <1>4, <1>5, <1>6, SizesFacts

\* The receiver drops a frame with its first endpoint packet only if it is not
\* complete or not for this device, and keeps no other.
LEMMA LineBegins ==
  ASSUME NoneEndsEarly, Typed, Line, RxCheck
  PROVE  /\ Line'
         /\ rx.packet = NULL /\ rx'.packet = NULL /\ UNCHANGED <<frames, hostLeft>>
         /\ Current' = Current \/ (Current' = Current + 1 /\ ~ Accepted(frames[Current]))
         /\ rx' \in Receiver
         /\ outFifo' \in Seq([frame : Nat, claim : Nat, len : Nat]) /\ Len(outFifo') <= Banks
  <1>1. PICK rest : Stream(rest) /\ Receiving(rest)
    BY DEF Line
  <1>2. isrPc = "rx" /\ Received /\ rx.state = "WAITING" /\ UNCHANGED <<frames, hostLeft>>
    BY DEF RxCheck, sending
  <1>3. PICK f \in Frames : f = frames[Current]
    BY <1>1, <1>2, BeginFacts
  <1>4. /\ outFifo # << >> /\ ~ Opened /\ rx.packet = NULL
        /\ Current \in DOMAIN frames
        /\ Head(outFifo).frame = Current /\ Head(outFifo).claim = f.claim
        /\ usbLen = outFifo[1].len /\ usbLen \in Nat /\ rest[1] = f.bytes
        /\ last \in BOOLEAN /\ (last <=> usbLen < EpSize) /\ (Ends(1) <=> last)
        /\ last => f.bytes = usbLen
        /\ ~ last => f.bytes >= EpSize
        /\ f.bytes >= usbLen
    BY <1>1, <1>2, <1>3, BeginFacts
  <1>5. f.bytes \in Nat /\ f.claim \in Nat /\ f.claim <= 16382 /\ (f.claim > 0 => f.claim >= MinLen)
    BY FrameFacts
  <1>6. /\ rx \in Receiver
        /\ outFifo \in Seq([frame : Nat, claim : Nat, len : Nat]) /\ Len(outFifo) <= Banks
        /\ Len(outFifo) \in Nat
    BY SentFacts DEF Typed, TypeOK, Receiver
  <1>7. rx.remaining <= 16382 /\ rx.remaining \in Nat
    BY <1>1, <1>6 DEF Receiving, Receiver
  <1>8. PICK r2 : r2 = [i \in 1 .. Len(outFifo) |-> rest[i + 1]]
    OBVIOUS
  <1>9. ASSUME ~ Accepted(f), last, ClearOUT, isrPc' = "no",
               rx'.state = "WAITING", rx'.packet = NULL, rx'.remaining \in Nat, rx'.remaining <= 16382
        PROVE  /\ Line' /\ Current' = Current + 1
               /\ outFifo' \in Seq([frame : Nat, claim : Nat, len : Nat]) /\ Len(outFifo') <= Banks
    <2>1. ~ Opened'
      BY <1>9 DEF Opened
    <2>2. /\ Stream(r2)'
          /\ Current' = Current + 1
          /\ outFifo' = << >> => hostLeft = NULL
          /\ outFifo' # << >> => r2[1] = frames[Current'].bytes
      BY <2>1, <1>1, <1>2, <1>4, <1>8, <1>9, StreamClears
    <2>3. Receiving(r2)'
      BY <2>1, <2>2, <1>2, <1>9 DEF Receiving
    <2>4. outFifo' \in Seq([frame : Nat, claim : Nat, len : Nat]) /\ Len(outFifo') <= Banks
      BY <1>4, <1>6, <1>9, HeadTailProperties, SizesFacts DEF ClearOUT
    <2> QED
      BY <2>2, <2>3, <2>4 DEF Line
  <1>10. CASE /\ usbLen < MinLen /\ ClearOUT /\ isrPc' = "no"
              /\ rx' = [rx EXCEPT !.last = last]
    <2>1. last /\ ~ Accepted(f)
      BY <1>4, <1>5, <1>10, SizesFacts DEF Accepted
    <2>2. /\ rx' \in Receiver
          /\ rx'.state = "WAITING" /\ rx'.packet = NULL /\ rx'.remaining = rx.remaining
      <3>1. rx \in Receiver /\ last \in BOOLEAN /\ rx' = [rx EXCEPT !.last = last]
        BY <1>4, <1>6, <1>10
      <3> QED
        BY <3>1, <1>2, <1>4 DEF Receiver
    <2> QED
      BY <2>1, <2>2, <1>2, <1>3, <1>4, <1>7, <1>9, <1>10
  <1>11. CASE /\ usbLen >= MinLen /\ Exceeds(f.claim) /\ ClearOUT /\ isrPc' = "no"
              /\ rx' = [rx EXCEPT !.last = last, !.remaining = f.claim]
    <2>1. last /\ ~ Accepted(f)
      BY <1>4, <1>5, <1>11, SizesFacts DEF Accepted, Exceeds
    <2>2. /\ rx' \in Receiver
          /\ rx'.state = "WAITING" /\ rx'.packet = NULL /\ rx'.remaining = f.claim
      <3>1. /\ rx \in Receiver /\ last \in BOOLEAN /\ f.claim \in Nat
            /\ rx' = [rx EXCEPT !.last = last, !.remaining = f.claim]
        BY <1>4, <1>5, <1>6, <1>11
      <3>2. rx' \in Receiver /\ rx'.state = rx.state /\ rx'.packet = rx.packet /\ rx'.remaining = f.claim
        BY <3>1 DEF Receiver
      <3> QED
        BY <3>2, <1>2, <1>4
    <2> QED
      BY <2>1, <2>2, <1>2, <1>3, <1>4, <1>5, <1>9, <1>11
  <1>12. CASE /\ usbLen >= MinLen /\ f.claim > 0 /\ ~ Exceeds(f.claim)
              /\ rx' = [rx EXCEPT !.last = last, !.remaining = f.claim,
                                  !.state = "NEEDSPACE", !.buffer = Current]
              /\ outFifo' = [outFifo EXCEPT ![1] = [@ EXCEPT !.len = usbLen - HdrLen]]
              /\ isrPc' = "rxSpace"
    <2>1. Accepted(f)
      BY <1>4, <1>5, <1>12, SizesFacts DEF Accepted, Exceeds, NoneEndsEarly
    <2>2. Current \in 0 .. MaxFrames
      BY <1>4, SentFacts, SizesFacts
    <2>3. /\ rx' \in Receiver
          /\ rx'.state = "NEEDSPACE" /\ rx'.packet = NULL /\ rx'.remaining = f.claim
          /\ rx'.buffer = Current /\ rx'.last = last
      <3>1. /\ rx \in Receiver /\ last \in BOOLEAN /\ f.claim \in Nat
            /\ rx' = [rx EXCEPT !.last = last, !.remaining = f.claim,
                                !.state = "NEEDSPACE", !.buffer = Current]
        BY <1>4, <1>5, <1>6, <1>12
      <3>2. /\ rx' \in Receiver /\ rx'.state = "NEEDSPACE" /\ rx'.packet = rx.packet
            /\ rx'.remaining = f.claim /\ rx'.buffer = Current /\ rx'.last = last
        BY <3>1, <2>2 DEF Receiver
      <3> QED
        BY <3>2, <1>4
    <2> DEFINE c == [outFifo[1] EXCEPT !.len = usbLen - HdrLen]
    <2>4. outFifo' = [outFifo EXCEPT ![1] = c]
      BY <1>12
    <2>5. HdrLen \in Nat /\ HdrLen <= outFifo[1].len /\ 1 \in 1 .. Len(outFifo)
      <3>1. Len(outFifo) # 0 /\ usbLen >= MinLen
        BY <1>4, <1>12, SentFacts
      <3> QED
        BY <3>1, <1>4, <1>6, SizesFacts
    <2>6. outFifo[1] \in [frame : Nat, claim : Nat, len : Nat]
      BY <2>5, <1>6, ElementOfSeq
    <2>7. /\ c \in [frame : Nat, claim : Nat, len : Nat]
          /\ c.frame = outFifo[1].frame /\ c.claim = outFifo[1].claim
          /\ c.len = outFifo[1].len - HdrLen
      BY <2>5, <2>6, <1>4
    <2> HIDE DEF c
    <2>8. outFifo' = [outFifo EXCEPT ![1] = c]
      BY <2>4 DEF c
    <2>9. /\ outFifo' \in Seq([frame : Nat, claim : Nat, len : Nat]) /\ Len(outFifo') = Len(outFifo)
          /\ \A j \in 1 .. Len(outFifo) : outFifo'[j] = IF j = 1 THEN c ELSE outFifo[j]
      BY <2>5, <2>7, <2>8, <1>6, ExceptSeq
    <2>10. Opened'
      BY <2>3 DEF Opened
    <2>11. PICK r3 : r3 = [rest EXCEPT ![1] = @ - HdrLen]
      OBVIOUS
    <2>12. rx'.last = (outFifo[1].len < EpSize)
      BY <2>3, <1>4
    <2>13. /\ \A i \in Places : i # 1 => outFifo'[i] = outFifo[i]
           /\ outFifo'[1].frame = outFifo[1].frame /\ outFifo'[1].claim = outFifo[1].claim
           /\ outFifo'[1].len = outFifo[1].len - HdrLen
      BY <2>5, <2>7, <2>9 DEF Places
    <2>14. /\ Stream(r3)' /\ r3[1] = rest[1] - HdrLen /\ Current' = Current /\ outFifo' # << >>
      <3>1. /\ HdrLen \in Nat /\ HdrLen <= outFifo[1].len /\ Len(outFifo') = Len(outFifo)
            /\ outFifo # << >> /\ ~ Opened /\ UNCHANGED <<frames, hostLeft>>
        BY <2>5, <2>9, <1>2, <1>4
      <3> QED
        BY <3>1, <2>10, <2>11, <2>12, <2>13, <1>1, StreamBegins
    <2>15. Receiving(r3)'
      BY <2>1, <2>3, <2>5, <2>14, <1>2, <1>3, <1>4, <1>5, <1>12 DEF Receiving, Accepted
    <2> QED
      BY <2>3, <2>9, <2>14, <2>15, <1>2, <1>4, <1>6 DEF Line
  <1>13. CASE /\ usbLen >= MinLen /\ f.claim = 0
              /\ rx' = [rx EXCEPT !.last = last, !.remaining = f.claim, !.state = "READING"]
              /\ isrPc' = "rxRead"
              /\ UNCHANGED outFifo
    <2>1. ~ Accepted(f)
      BY <1>13 DEF Accepted
    <2>2. /\ rx' \in Receiver
          /\ rx'.state = "READING" /\ rx'.packet = NULL /\ rx'.remaining = 0 /\ rx'.last = last
      <3>1. /\ rx \in Receiver /\ last \in BOOLEAN
            /\ rx' = [rx EXCEPT !.last = last, !.remaining = 0, !.state = "READING"]
        BY <1>4, <1>6, <1>13
      <3>2. /\ rx' \in Receiver /\ rx'.state = "READING" /\ rx'.packet = rx.packet
            /\ rx'.remaining = 0 /\ rx'.last = last
        BY <3>1 DEF Receiver
      <3> QED
        BY <3>2, <1>4
    <2>3. Opened'
      BY <1>13 DEF Opened
    <2>4. PICK r3 : r3 = [rest EXCEPT ![1] = @ - 0]
      OBVIOUS
    <2>5. rx'.last = (outFifo[1].len < EpSize) /\ outFifo[1].len - 0 = outFifo[1].len
      BY <2>2, <1>4
    <2>6. 0 \in Nat /\ 0 <= outFifo[1].len
      BY <1>4
    <2>7. /\ Stream(r3)' /\ Current' = Current /\ outFifo' # << >>
      BY <2>3, <2>4, <2>5, <2>6, <1>1, <1>2, <1>4, <1>13, StreamBegins
    <2>8. Receiving(r3)'
      BY <2>1, <2>2, <2>7, <1>2, <1>3, <1>13 DEF Receiving, Accepted
    <2> QED
      BY <2>2, <2>7, <2>8, <1>2, <1>4, <1>6, <1>13 DEF Line
  <1> QED
    BY <1>4, <1>10, <1>11, <1>12, <1>13 DEF RxCheck

\* What the receiver holds while it asks for space.
LEMMA SpaceFacts ==
  ASSUME Typed, Line, isrPc = "rxSpace"
  PROVE  /\ rx.state = "NEEDSPACE" /\ rx.packet = NULL /\ rx.buffer = Current /\ outFifo # << >>
         /\ Current \in DOMAIN frames /\ frames[Current] \in Frames /\ Accepted(frames[Current])
         /\ newLen = frames[Current].claim /\ newLen \in Lens /\ newLen \in Nat /\ newLen >= MinLen
         /\ rx \in Receiver
  <1>1. PICK rest : Stream(rest) /\ Receiving(rest)
    BY DEF Line
  <1>2. rx.state = "NEEDSPACE" /\ outFifo # << >>
    BY <1>1 DEF Receiving
  <1>3. /\ rx.packet = NULL /\ rx.buffer = Current /\ Accepted(frames[Current])
        /\ rx.remaining = frames[Current].claim
    BY <1>1, <1>2 DEF Receiving
  <1>4. Current \in DOMAIN frames
    BY <1>1, <1>2, FirstFacts
  <1>5. frames[Current] \in Frames
    BY <1>4, SentFacts
  <1>6. PICK f \in Frames : f = frames[Current]
    BY <1>5
  <1>7. f.claim > 0 /\ f.claim \in Nat /\ f.claim \in Lens /\ f.claim >= MinLen
    BY <1>3, <1>6, FrameFacts DEF Accepted
  <1>8. rx \in Receiver
    BY DEF Typed, TypeOK, Receiver
  <1> QED
    BY <1>2, <1>3, <1>4, <1>5, <1>6, <1>7, <1>8 DEF newLen

LEMMA LineSpace ==
  ASSUME Typed, Line, RxSpace
  PROVE  /\ Line' /\ Current' = Current /\ UNCHANGED <<frames, hostLeft, outFifo>>
         /\ rx' \in Receiver
         /\ \E r \in Slots \cup {NULL} :
              /\ Packet_New(newLen, r)
              /\ rx'.packet = r
              /\ IF r = NULL
                 THEN /\ enable' = [enable EXCEPT !["RX"] = FALSE] /\ isrPc' = "no" /\ UNCHANGED stored
                 ELSE /\ UNCHANGED enable /\ isrPc' = "rxRead"
                      /\ stored' = [stored EXCEPT ![r] = Current]
  <1>1. PICK rest : Stream(rest) /\ Receiving(rest)
    BY DEF Line
  <1>2. isrPc = "rxSpace" /\ UNCHANGED <<frames, hostLeft, outFifo>>
    BY DEF RxSpace, sending, hwVars
  <1>3. /\ rx.state = "NEEDSPACE" /\ rx.packet = NULL /\ rx.buffer = Current /\ outFifo # << >>
        /\ Accepted(frames[Current]) /\ newLen = frames[Current].claim /\ newLen \in Nat
        /\ newLen >= MinLen /\ rx \in Receiver
    BY <1>2, SpaceFacts
  <1>4. rx.remaining = newLen /\ rx.remaining <= 16382 /\ rx.remaining <= rest[1] + HdrLen
        /\ rest[1] \in Nat
    BY <1>1, <1>3, FirstFacts DEF Receiving, newLen
  <1>5. PICK r \in Slots \cup {NULL} :
          /\ Packet_New(newLen, r)
          /\ IF r = NULL
             THEN /\ rx' = [rx EXCEPT !.packet = NULL]
                  /\ enable' = [enable EXCEPT !["RX"] = FALSE]
                  /\ isrPc' = "no"
                  /\ UNCHANGED stored
             ELSE /\ rx' = [rx EXCEPT !.packet = r, !.state = "READING", !.remaining = @ - HdrLen]
                  /\ stored' = [stored EXCEPT ![r] = rx.buffer]
                  /\ isrPc' = "rxRead"
                  /\ UNCHANGED enable
    BY DEF RxSpace
  <1>6. Current' = Current
    BY <1>2 DEF Current, Number, HostNumber, Places
  <1>7. CASE r = NULL
    <2>1. rx' = [rx EXCEPT !.packet = NULL] /\ isrPc' = "no"
      BY <1>5, <1>7
    <2>2. /\ rx' \in Receiver /\ rx'.packet = NULL /\ rx'.state = rx.state /\ rx'.last = rx.last
          /\ rx'.remaining = rx.remaining /\ rx'.buffer = rx.buffer
      BY <2>1, <1>3 DEF Receiver
    <2>3. Opened /\ Opened'
      BY <2>2, <1>3 DEF Opened
    <2>4. \A i \in Places : Ends(i)' <=> Ends(i)
      BY <2>2, <2>3, <1>2 DEF Ends
    <2>5. Stream(rest)'
      BY <2>4, <1>1, <1>2 DEF Stream, HostRest, HostNumber, Places, Number
    <2>6. Receiving(rest)'
      BY <2>1, <2>2, <1>1, <1>2, <1>3, <1>6 DEF Receiving, Accepted
    <2> QED
      BY <2>2, <2>5, <2>6, <1>2, <1>5, <1>6, <1>7 DEF Line
  <1>8. CASE r # NULL
    <2>1. rx' = [rx EXCEPT !.packet = r, !.state = "READING", !.remaining = @ - HdrLen]
          /\ isrPc' = "rxRead" /\ stored' = [stored EXCEPT ![r] = Current]
      BY <1>3, <1>5, <1>8
    <2>2. newLen - HdrLen \in Nat /\ rx.remaining - HdrLen = newLen - HdrLen
          /\ newLen - HdrLen <= rest[1] /\ newLen - HdrLen <= 16382
      BY <1>3, <1>4, SizesFacts
    <2>3. /\ rx' \in Receiver /\ rx'.packet = r /\ rx'.state = "READING" /\ rx'.last = rx.last
          /\ rx'.remaining = newLen - HdrLen
      <3>1. /\ rx \in Receiver /\ r \in Slots \cup {NULL} /\ rx.remaining - HdrLen \in Nat
            /\ rx' = [rx EXCEPT !.packet = r, !.state = "READING", !.remaining = @ - HdrLen]
        BY <2>1, <2>2, <1>3
      <3>2. /\ rx' \in Receiver /\ rx'.packet = r /\ rx'.state = "READING" /\ rx'.last = rx.last
            /\ rx'.remaining = rx.remaining - HdrLen
        BY <3>1 DEF Receiver
      <3> QED
        BY <3>2, <2>2
    <2>4. Opened /\ Opened'
      BY <2>1, <1>3 DEF Opened
    <2>5. \A i \in Places : Ends(i)' <=> Ends(i)
      BY <2>3, <2>4, <1>2 DEF Ends
    <2>6. Stream(rest)'
      BY <2>5, <1>1, <1>2 DEF Stream, HostRest, HostNumber, Places, Number
    <2>7. Receiving(rest)'
      BY <2>1, <2>2, <2>3, <1>2, <1>3, <1>6, <1>8 DEF Receiving
    <2> QED
      BY <2>1, <2>3, <2>6, <2>7, <1>2, <1>5, <1>6, <1>8 DEF Line
  <1> QED
    BY <1>7, <1>8

\* Of a packet that is kept no byte is missing at the end.
LEMMA LineReads ==
  ASSUME Typed, Line, RxRead
  PROVE  /\ Line' /\ UNCHANGED <<frames, hostLeft>>
         /\ rx' \in Receiver
         /\ Current \in DOMAIN frames
         /\ Current' = Current + (IF rx.last THEN 1 ELSE 0)
         /\ rx'.packet = IF rx.last THEN NULL ELSE rx.packet
         /\ rx.packet = NULL => ~ Accepted(frames[Current])
         /\ IF ~ rx.last \/ rx.packet = NULL
            THEN UNCHANGED <<ring, SE>>
            ELSE Packet_PutInput(rx.packet) /\ SE' = FALSE
         /\ outFifo' \in Seq([frame : Nat, claim : Nat, len : Nat]) /\ Len(outFifo') <= Banks
  <1>1. PICK rest : Stream(rest) /\ Receiving(rest)
    BY DEF Line
  <1>2. isrPc = "rxRead" /\ UNCHANGED <<frames, hostLeft>> /\ ClearOUT /\ isrPc' = "no"
    BY DEF RxRead, sending
  <1>3. rx.state = "READING" /\ Opened /\ outFifo # << >> /\ rx.remaining <= 16382
        /\ (rx.packet = NULL => ~ Accepted(frames[Current]))
        /\ (rx.packet # NULL => rx.remaining <= rest[1])
    BY <1>1, <1>2 DEF Receiving, Opened
  <1>4. /\ rx \in Receiver /\ rx.remaining \in Nat /\ rx.last \in BOOLEAN
        /\ rx.packet \in Slots \cup {NULL}
    BY DEF Typed, TypeOK, Receiver
  <1>5. /\ Current \in DOMAIN frames /\ usbLen \in Nat /\ rest[1] \in Nat /\ rest[2] \in Nat
        /\ rest[1] = usbLen + (IF Ends(1) THEN 0 ELSE rest[2])
    BY <1>1, <1>3, FirstFacts
  <1>6. Ends(1) <=> rx.last
    BY <1>3 DEF Ends
  <1>7. PICK left : left = (rx.remaining - readLength) % 65536
    OBVIOUS
  <1>8. left = (IF usbLen < rx.remaining THEN rx.remaining - usbLen ELSE 0)
    <2>1. readLength = IF usbLen < rx.remaining THEN usbLen ELSE rx.remaining
      BY DEF readLength
    <2>2. PICK d : d = rx.remaining - readLength
      OBVIOUS
    <2>3. d \in Nat /\ d <= 16382 /\ d = (IF usbLen < rx.remaining THEN rx.remaining - usbLen ELSE 0)
      BY <2>1, <2>2, <1>3, <1>4, <1>5, SMT
    <2>4. d % 65536 = d
      BY <2>3, SMT
    <2> QED
      BY <2>2, <2>3, <2>4, <1>7
  <1>9. left \in Nat /\ left <= 16382
    BY <1>3, <1>4, <1>5, <1>8, SMT
  <1>10. rx.packet # NULL /\ rx.last => left = 0
    BY <1>3, <1>4, <1>5, <1>6, <1>8
  <1>11. rx.packet # NULL /\ ~ rx.last => left <= rest[2]
    BY <1>3, <1>4, <1>5, <1>6, <1>8
  <1>12. rx' = IF rx.last THEN [rx EXCEPT !.remaining = left, !.packet = NULL, !.state = "WAITING"]
                          ELSE [rx EXCEPT !.remaining = left]
    BY <1>7 DEF RxRead
  <1>13. /\ rx' \in Receiver /\ rx'.remaining = left
         /\ rx'.state = (IF rx.last THEN "WAITING" ELSE "READING")
         /\ rx'.packet = (IF rx.last THEN NULL ELSE rx.packet)
    <2>1. CASE rx.last
      <3>1. /\ rx \in Receiver /\ left \in Nat
            /\ rx' = [rx EXCEPT !.remaining = left, !.packet = NULL, !.state = "WAITING"]
        BY <2>1, <1>4, <1>9, <1>12
      <3>2. /\ rx' \in Receiver /\ rx'.remaining = left /\ rx'.state = "WAITING"
            /\ rx'.packet = NULL
        BY <3>1 DEF Receiver
      <3> QED
        BY <3>2, <2>1
    <2>2. CASE ~ rx.last
      BY <2>2, <1>3, <1>4, <1>9, <1>12 DEF Receiver
    <2> QED
      BY <2>1, <2>2
  <1>14. ~ Opened'
    BY <1>2, <1>13 DEF Opened
  <1>15. PICK r2 : r2 = [i \in 1 .. Len(outFifo) |-> rest[i + 1]]
    OBVIOUS
  <1>16. /\ Stream(r2)' /\ r2[1] = rest[2]
         /\ Current' = Current + (IF rx.last THEN 1 ELSE 0)
         /\ outFifo' = << >> => (rx.last <=> hostLeft = NULL)
         /\ outFifo' # << >> /\ rx.last => r2[1] = frames[Current'].bytes
    <2>1. /\ Stream(r2)' /\ r2[1] = rest[2]
          /\ Current' = Current + (IF Ends(1) THEN 1 ELSE 0)
          /\ outFifo' = << >> => (Ends(1) <=> hostLeft = NULL)
          /\ outFifo' # << >> /\ Ends(1) => r2[1] = frames[Current'].bytes
      BY <1>1, <1>2, <1>3, <1>14, <1>15, StreamClears
    <2> QED
      BY <2>1, <1>6
  <1>17. Receiving(r2)'
    <2>1. CASE rx.last
      BY <2>1, <1>2, <1>9, <1>13, <1>14, <1>16 DEF Receiving
    <2>2. CASE ~ rx.last
      <3>1. Current' = Current
        BY <2>2, <1>5, <1>16, SentFacts
      <3> QED
        BY <2>2, <3>1, <1>2, <1>3, <1>9, <1>11, <1>13, <1>14, <1>16 DEF Receiving, Accepted
    <2> QED
      BY <2>1, <2>2
  <1>18. IF ~ rx.last \/ rx.packet = NULL
         THEN UNCHANGED <<ring, SE>>
         ELSE Packet_PutInput(rx.packet) /\ SE' = FALSE
    <2>1. IF ~ rx.last \/ rx.packet = NULL
          THEN UNCHANGED <<ring, SE>>
          ELSE IF left > 0
               THEN Packet_ReleaseInput(rx.packet) /\ UNCHANGED SE
               ELSE Packet_PutInput(rx.packet) /\ SE' = FALSE
      BY <1>7 DEF RxRead
    <2> QED
      BY <2>1, <1>10
  <1>19. outFifo' \in Seq([frame : Nat, claim : Nat, len : Nat]) /\ Len(outFifo') <= Banks
    <2>1. /\ outFifo \in Seq([frame : Nat, claim : Nat, len : Nat]) /\ Len(outFifo) <= Banks
          /\ Len(outFifo) \in Nat
      BY SentFacts DEF Typed
    <2> QED
      BY <2>1, <1>2, <1>3, HeadTailProperties, SizesFacts DEF ClearOUT
  <1> QED
    BY <1>2, <1>3, <1>5, <1>13, <1>16, <1>17, <1>18, <1>19 DEF Line

-----------------------------------------------------------------------------
(* The packets of the ring.                                                *)

LEMMA StockFacts ==
  ASSUME Typed
  PROVE  /\ RingTypeOK
         /\ rx.packet \in Slots \cup {NULL} /\ packet \in Slots \cup {NULL}
         /\ tx.packet \in Slots \cup {NULL} /\ NULL \notin Slots
         /\ \A p \in Slots : stored[p] \in Nat
         /\ stored \in [Slots -> 0 .. MaxFrames]
         /\ Len(echoed) \in Nat /\ DOMAIN echoed = 1 .. Len(echoed)
         /\ \A i \in DOMAIN echoed : echoed[i].frame \in Nat
  <1>1. /\ RingTypeOK /\ rx.packet \in Slots \cup {NULL} /\ packet \in Slots \cup {NULL}
        /\ tx.packet \in Slots \cup {NULL} /\ stored \in [Slots -> 0 .. MaxFrames]
        /\ echoed \in Seq([frame : Nat, len : Nat])
    BY DEF Typed, TypeOK
  <1>2. NULL \notin Slots
    BY SlotsFacts, NullAssumption
  <1>3. \A p \in Slots : stored[p] \in Nat
    BY <1>1, SizesFacts
  <1>4. Len(echoed) \in Nat /\ DOMAIN echoed = 1 .. Len(echoed)
    BY <1>1
  <1>5. ASSUME NEW i \in DOMAIN echoed
        PROVE  echoed[i].frame \in Nat
    <2>1. echoed[i] \in [frame : Nat, len : Nat]
      BY <1>1, <1>4, ElementOfSeq
    <2> QED
      BY <2>1
  <1> QED
    BY <1>1, <1>2, <1>3, <1>4, <1>5

\* A step that leaves the ring alone and sends nothing back; the receiver may
\* have passed a frame it keeps nothing of.
LEMMA StockSame ==
  ASSUME Typed, NEW E \in SUBSET Headers, Whole(E), Current \in Nat,
         UNCHANGED <<mem, NextWriter, InputReader, OutputReader, stored, echoed, packet>>,
         tx'.packet = tx.packet, rx'.packet = rx.packet,
         Current' = Current
           \/ (Current' = Current + 1 /\ rx.packet = NULL /\ ~ Accepted(frames[Current])),
         \A n \in DOMAIN frames : n \in DOMAIN frames' /\ frames'[n] = frames[n],
         \A n \in DOMAIN frames' : n \in Nat /\ (n < Current' => n \in DOMAIN frames),
         mainPc' \in {"sleep", "asleep"} /\ SE' => mainPc \in {"sleep", "asleep"} /\ SE
  PROVE  Stock'
  <1>1. /\ Chain(E)' /\ InputAhead(E)' /\ E \in SUBSET Headers'
        /\ \A p \in E : following(p)' = following(p) /\ Offset(p)' = Offset(p)
    BY DEF Whole, Chain, InputAhead, Headers, following, packetEnd, Offset
  <1>2. HeldIn(E)' /\ Packets(E)' = Packets(E)
    BY DEF Whole, HeldIn, Packets
  <1>3. \A p \in E : p \in Slots /\ stored[p] \in Nat
    BY StockFacts DEF Headers
  <1>4. Stocked(E)'
    <2>1. ASSUME NEW p \in Packets(E)
          PROVE  /\ stored[p] \in DOMAIN frames' /\ Accepted(frames'[stored[p]])
                 /\ mem[p].val = frames'[stored[p]].claim
                 /\ IF p = rx.packet THEN stored[p] = Current' ELSE stored[p] < Current'
      <3>1. /\ stored[p] \in DOMAIN frames /\ Accepted(frames[stored[p]])
            /\ mem[p].val = frames[stored[p]].claim
            /\ IF p = rx.packet THEN stored[p] = Current ELSE stored[p] < Current
        BY DEF Whole, Stocked
      <3>2. p \in E /\ stored[p] \in Nat /\ p # NULL
        BY <1>3, StockFacts DEF Packets
      <3>3. IF p = rx.packet THEN stored[p] = Current' ELSE stored[p] < Current'
        BY <3>1, <3>2
      <3> QED
        BY <3>1, <3>3
    <2>2. (\A p \in E : mem[p].flag # "Skip")'
      BY DEF Whole, Stocked
    <2>3. (\A p \in E : mem[p].flag = "StartOver" => following(p) \in E)'
      BY <1>1 DEF Whole, Stocked
    <2>4. (\A p \in E : mem[p].flag = "EndOfRing" => p = rx.packet)'
      BY DEF Whole, Stocked
    <2>5. (\A p, q \in Packets(E) : Offset(p) < Offset(q) => stored[p] < stored[q])'
      BY <1>1, <1>2 DEF Whole, Stocked, Packets
    <2> QED
      BY <2>1, <2>2, <2>3, <2>4, <2>5, <1>2 DEF Stocked, Accepted
  <1>5. Returned(E)'
    <2>1. ASSUME NEW i \in DOMAIN echoed
          PROVE  /\ echoed[i].frame \in DOMAIN frames' /\ Accepted(frames'[echoed[i].frame])
                 /\ echoed[i].frame < Current'
                 /\ echoed[i].len = frames'[echoed[i].frame].claim
                 /\ \A j \in 1 .. (i - 1) : echoed[j].frame < echoed[i].frame
                 /\ \A p \in Packets(E) : echoed[i].frame < stored[p]
      <3>1. /\ echoed[i].frame \in DOMAIN frames /\ Accepted(frames[echoed[i].frame])
            /\ echoed[i].frame < Current
            /\ echoed[i].len = frames[echoed[i].frame].claim
            /\ \A j \in 1 .. (i - 1) : echoed[j].frame < echoed[i].frame
            /\ \A p \in Packets(E) : echoed[i].frame < stored[p]
        BY DEF Whole, Returned
      <3>2. echoed[i].frame < Current'
        BY <3>1, StockFacts
      <3> QED
        BY <3>1, <3>2
    <2>2. ASSUME NEW n \in DOMAIN frames', Accepted(frames'[n]), n < Current'
          PROVE  \/ \E i \in DOMAIN echoed : echoed[i].frame = n
                 \/ \E p \in Packets(E) : stored[p] = n
      <3>1. n \in DOMAIN frames /\ Accepted(frames[n]) /\ n \in Nat
        BY <2>2
      <3>2. n < Current
        BY <2>2, <3>1
      <3> QED
        BY <3>1, <3>2 DEF Whole, Returned
    <2> QED
      BY <2>1, <2>2, <1>2 DEF Returned, Accepted
  <1>6. Resting(E)'
    BY DEF Whole, Resting
  <1> QED
    BY <1>1, <1>2, <1>4, <1>5, <1>6 DEF Stock, Whole

\* A ring that is not empty holds a packet.
LEMMA SomePacket ==
  ASSUME RingTypeOK, NEW E \in SUBSET Headers, Chain(E), Stocked(E), NEW p \in E
  PROVE  \E q \in E : mem[q].flag # "StartOver"
  <1>1. CASE mem[p].flag # "StartOver"
    BY <1>1
  <1>2. CASE mem[p].flag = "StartOver"
    <2>1. following(p) = 0 /\ 0 \in E
      BY <1>2 DEF Stocked, following
    <2>2. Offset(0) < Offset(following(0)) /\ Offset(0) \in Int
      BY <2>1, EntryFacts, OffsetFacts, SlotsFacts
    <2>3. following(0) # 0
      BY <2>2
    <2>4. mem[0].flag # "StartOver"
      BY <2>3 DEF following
    <2> QED
      BY <2>1, <2>4
  <1> QED
    BY <1>1, <1>2

\* The packets readers leave are still in order.
LEMMA ReadersStock ==
  ASSUME Typed, NEW E \in SUBSET Headers, Whole(E), ReadersStep(E),
         UNCHANGED <<stored, rx, frames>>, Current' = Current,
         NEW F \in SUBSET E, F = {q \in E : Offset(q) >= Offset(OutputReader')}
  PROVE  /\ F \in SUBSET Headers' /\ Chain(F)' /\ InputAhead(F)' /\ Stocked(F)'
         /\ OutputReader' \in Slots /\ InputReader' \in Slots
         /\ Packets(F)' = Packets(F)
  <1>1. RingTypeOK /\ Chain(E) /\ Stocked(E) /\ UNCHANGED <<mem, NextWriter>> /\ E \subseteq Slots
    BY StockFacts DEF Whole, ReadersStep, Headers
  <1>2. /\ F \in SUBSET Headers' /\ Chain(F)' /\ InputAhead(F)'
        /\ OutputReader' \in Slots /\ InputReader' \in Slots
        /\ \A q \in F : Offset(q)' = Offset(q) - Offset(OutputReader') /\ following(q)' = following(q)
    BY <1>1, ReadersLeave
  <1>3. Packets(F)' = Packets(F) /\ Packets(F) \subseteq Packets(E)
    BY <1>1 DEF Packets
  <1>4. \A q \in F : q \in Slots /\ Offset(q) \in Int
    BY <1>1, OffsetFacts
  <1>5. Offset(OutputReader') \in Int
    BY <1>1, <1>2, OffsetFacts
  <1>6. Stocked(F)'
    <2>1. (\A p \in F : mem[p].flag # "Skip")'
      BY <1>1 DEF Stocked
    <2>2. ASSUME NEW p \in F, mem[p].flag = "StartOver"
          PROVE  following(p) \in F
      <3>1. following(p) \in E
        BY <1>1, <2>2 DEF Stocked
      <3>2. Offset(p) < Offset(following(p)) /\ Offset(following(p)) \in Int
            /\ Offset(p) >= Offset(OutputReader')
        BY <3>1, <1>1, EntryFacts, OffsetFacts
      <3>3. Offset(following(p)) >= Offset(OutputReader')
        BY <3>2, <1>4, <1>5
      <3> QED
        BY <3>1, <3>3
    <2>3. (\A p \in F : mem[p].flag = "EndOfRing" => p = rx.packet)'
      BY <1>1 DEF Stocked
    <2>4. (\A p \in Packets(F) :
             /\ stored[p] \in DOMAIN frames /\ Accepted(frames[stored[p]])
             /\ mem[p].val = frames[stored[p]].claim
             /\ IF p = rx.packet THEN stored[p] = Current ELSE stored[p] < Current)'
      BY <1>1, <1>3 DEF Stocked, Accepted
    <2>5. (\A p, q \in Packets(F) : Offset(p) < Offset(q) => stored[p] < stored[q])'
      <3> SUFFICES ASSUME NEW p \in Packets(F), NEW q \in Packets(F), Offset(p)' < Offset(q)'
                   PROVE  stored[p] < stored[q]
        BY <1>3
      <3>1. p \in F /\ q \in F /\ p \in Packets(E) /\ q \in Packets(E)
        BY <1>3 DEF Packets
      <3>2. Offset(p) < Offset(q)
        BY <3>1, <1>2, <1>4, <1>5
      <3> QED
        BY <3>1, <3>2, <1>1 DEF Stocked
    <2> QED
      BY <2>1, <2>2, <2>3, <2>4, <2>5, <1>1, <1>2 DEF Stocked
  <1> QED
    BY <1>2, <1>3, <1>6

\* Readers that get a packet, or none, leave all packets.
LEMMA GetsStock ==
  ASSUME Typed, NEW E \in SUBSET Headers, Whole(E), ReadersStep(E),
         \A q \in E : mem[q].flag \notin PassedByOutput => Offset(OutputReader') <= Offset(q),
         UNCHANGED <<stored, rx, frames, echoed>>, Current' = Current,
         NEW F \in SUBSET E, F = {q \in E : Offset(q) >= Offset(OutputReader')}
  PROVE  /\ Returned(F)' /\ Packets(F) = Packets(E)
         /\ OutputReader # NextWriter => OutputReader' # NextWriter'
  <1>1. RingTypeOK /\ Chain(E) /\ Stocked(E) /\ UNCHANGED <<mem, NextWriter>> /\ E \subseteq Slots
        /\ OutputReader \in E \cup {NextWriter}
    BY StockFacts DEF Whole, ReadersStep, Headers, Chain
  <1>2. Packets(F)' = Packets(F) /\ OutputReader' \in Slots
    BY ReadersStock
  <1>3. ASSUME NEW q \in Packets(E)
        PROVE  q \in F /\ Offset(OutputReader') <= Offset(q)
    <2>1. q \in E /\ q \in Slots /\ mem[q].flag \notin PassedByOutput
      BY <1>1 DEF Packets, Stocked, PassedByOutput
    <2>2. Offset(OutputReader') <= Offset(q)
      BY <2>1
    <2>3. Offset(q) >= Offset(OutputReader')
      BY <2>1, <2>2, <1>1, <1>2, OffsetFacts
    <2> QED
      BY <2>1, <2>2, <2>3
  <1>4. Packets(F) = Packets(E)
    BY <1>3 DEF Packets
  <1>5. Returned(F)'
    <2>1. /\ echoed' = echoed /\ frames' = frames /\ stored' = stored /\ Current' = Current
          /\ Packets(F)' = Packets(E)
      BY <1>2, <1>4
    <2>2. Returned(E)
      BY DEF Whole
    <2> QED
      BY <2>1, <2>2 DEF Returned, Accepted
  <1>6. ASSUME OutputReader # NextWriter
        PROVE  OutputReader' # NextWriter'
    <2>1. OutputReader \in E
      BY <1>1, <1>6
    <2>2. PICK q \in E : mem[q].flag # "StartOver"
      BY <2>1, <1>1, SomePacket
    <2>3. q \in Packets(E)
      BY <2>2 DEF Packets
    <2>4. Offset(OutputReader') <= Offset(q) /\ Offset(q) < Offset(NextWriter)
      BY <2>2, <2>3, <1>1, <1>3 DEF Chain
    <2>5. Offset(OutputReader') \in Int /\ Offset(q) \in Int /\ Offset(NextWriter) \in Int
      BY <2>2, <1>1, <1>2, OffsetFacts
    <2>6. OutputReader' # NextWriter
      BY <2>4, <2>5
    <2> QED
      BY <2>6, <1>1
  <1> QED
    BY <1>4, <1>5, <1>6

\* The main loop finds a packet, or none is there.
LEMMA StockGetsInput ==
  ASSUME Typed, NEW E \in SUBSET Headers, Whole(E), Control, GetInput, Current' = Current
  PROVE  /\ Stock' /\ OutputReader' \in Slots /\ InputReader' \in Slots
         /\ packet' \in Slots \cup {NULL} /\ UNCHANGED <<mem, NextWriter, aborted>>
         /\ OutputReader # NextWriter => OutputReader' # NextWriter'
  <1>1. /\ RingTypeOK /\ Chain(E) /\ InputAhead(E) /\ E \subseteq Slots /\ Stocked(E)
        /\ HeldIn(E)
    BY StockFacts DEF Whole, Headers
  <1>2. /\ Packet_GetInput(packet')
        /\ mainPc' = IF packet' = NULL THEN "sleep" ELSE "resend"
        /\ UNCHANGED <<SE, tx, rx, stored, frames, echoed>>
    BY DEF GetInput, rxVars, sending, hearing
  <1>3. /\ ReadersStep(E)
        /\ \A q \in E : mem[q].flag \notin PassedByOutput => Offset(OutputReader') <= Offset(q)
        /\ mem[OutputReader].flag \notin PassedByOutput => UNCHANGED OutputReader
        /\ mem[InputReader'].flag \notin PassedByInput
        /\ packet' = IF mem[InputReader'].flag = "Input" THEN InputReader' ELSE NULL
    BY <1>1, <1>2, GetInputMoves
  <1>4. PICK F \in SUBSET E : F = {q \in E : Offset(q) >= Offset(OutputReader')}
    OBVIOUS
  <1>5. /\ F \in SUBSET Headers' /\ Chain(F)' /\ InputAhead(F)' /\ Stocked(F)'
        /\ OutputReader' \in Slots /\ InputReader' \in Slots
    BY <1>2, <1>3, <1>4, ReadersStock
  <1>6. /\ Returned(F)' /\ Packets(F) = Packets(E)
        /\ OutputReader # NextWriter => OutputReader' # NextWriter'
    BY <1>2, <1>3, <1>4, GetsStock
  <1>7. /\ UNCHANGED <<mem, NextWriter, aborted>> /\ InputReader' \in E \cup {NextWriter}
        /\ \A q \in E : mem[q].flag \in {"EndOfRing", "Input"} => Offset(InputReader') <= Offset(q)
    BY <1>3 DEF ReadersStep
  <1>8. \A q \in E : mem[q].flag # "StartOver" => q \in F
    BY <1>6 DEF Packets
  <1>9. mem[NextWriter].flag = "EndOfRing" /\ NextWriter \in Slots
    BY <1>1, OffsetFacts DEF Chain, EndMark
  <1>10. HeldIn(F)'
    <2>1. rx.packet # NULL => rx.packet \in F /\ mem[rx.packet].flag = "EndOfRing"
      BY <1>1, <1>8 DEF HeldIn
    <2>2. packet' # NULL => packet' = InputReader' /\ packet' \in F /\ mem[packet'].flag = "Input"
      BY <1>3, <1>7, <1>8, <1>9
    <2>3. tx.packet # NULL => tx.packet = OutputReader' /\ tx.packet \in F /\ mem[tx.packet].flag = "Output"
      BY <1>1, <1>3, <1>8 DEF HeldIn, PassedByOutput
    <2> QED
      BY <2>1, <2>2, <2>3, <1>2, <1>7 DEF HeldIn
  <1>11. Resting(F)'
    <2> SUFFICES ASSUME packet' = NULL, NEW q \in F, mem[q].flag = "Input"
                 PROVE  FALSE
      BY <1>2, <1>7 DEF Resting
    <2>1. mem[InputReader'].flag # "Input" /\ InputReader' # NULL
      BY <1>3, <1>5, StockFacts
    <2>2. Offset(InputReader') <= Offset(q) /\ q \in E /\ q \in Slots
      BY <1>1, <1>7
    <2>3. Offset(InputReader') \in Int /\ Offset(q) \in Int /\ Offset(NextWriter) \in Int
          /\ Offset(q) < Offset(NextWriter)
      BY <2>2, <1>1, <1>5, <1>9, OffsetFacts DEF Chain
    <2>4. InputReader' \in E
      BY <2>2, <2>3, <1>7
    <2>5. mem[InputReader'].flag = "EndOfRing"
      <3>1. mem[InputReader'].flag \in Flags
        BY <1>1, <1>5 DEF RingTypeOK, Word
      <3> QED
        BY <2>1, <2>4, <3>1, <1>1, <1>3 DEF Flags, PassedByInput, PassedByOutput, Chain
    <2>6. InputReader' = rx.packet
      BY <2>4, <2>5, <1>1 DEF Stocked
    <2>7. InputReader' \in Packets(E) /\ q \in Packets(E) /\ q # InputReader'
      BY <2>2, <2>4, <2>5 DEF Packets
    <2>8. Offset(InputReader') < Offset(q)
      BY <2>2, <2>3, <2>7, <1>1, <1>5, OffsetFacts
    <2>9. stored[InputReader'] = Current /\ stored[q] < Current /\ stored[InputReader'] < stored[q]
      BY <2>6, <2>7, <2>8, <1>1 DEF Stocked
    <2>10. stored[q] \in Nat /\ stored[InputReader'] \in Nat
      BY <2>2, <1>5, StockFacts
    <2> QED
      BY <2>9, <2>10
  <1> QED
    BY <1>2, <1>3, <1>5, <1>6, <1>7, <1>10, <1>11, StockFacts DEF Stock, Whole

\* The handler finds a packet to send, or none is there.
LEMMA StockGetsOutput ==
  ASSUME Typed, NEW E \in SUBSET Headers, Whole(E), TxGet, tx.packet = NULL, Current' = Current
  PROVE  /\ Stock' /\ OutputReader' \in Slots /\ InputReader' \in Slots
         /\ UNCHANGED <<mem, NextWriter, aborted>>
         /\ OutputReader # NextWriter => OutputReader' # NextWriter'
         /\ \E r \in Slots \cup {NULL} :
              IF r = NULL
              THEN /\ enable' = [enable EXCEPT !["TX"] = FALSE] /\ isrPc' = "rx" /\ UNCHANGED tx
              ELSE /\ tx' = [packet |-> r, remaining |-> mem[r].val]
                   /\ isrPc' = "txWrite" /\ UNCHANGED enable /\ mem[r].val \in Nat
  <1>1. /\ RingTypeOK /\ Chain(E) /\ InputAhead(E) /\ E \subseteq Slots /\ Stocked(E)
        /\ HeldIn(E)
    BY StockFacts DEF Whole, Headers
  <1>2. PICK r \in Slots \cup {NULL} :
          /\ Packet_GetOutput(r)
          /\ IF r = NULL
             THEN /\ enable' = [enable EXCEPT !["TX"] = FALSE] /\ isrPc' = "rx" /\ UNCHANGED tx
             ELSE /\ tx' = [packet |-> r, remaining |-> mem[r].val]
                  /\ isrPc' = "txWrite" /\ UNCHANGED enable
    BY DEF TxGet
  <1>3. UNCHANGED <<SE, mainPc, packet, rx, stored, frames, echoed>>
    BY DEF TxGet, mainVars, rxVars, sending, hearing
  <1>4. /\ ReadersStep(E)
        /\ \A q \in E : mem[q].flag \notin PassedByOutput => Offset(OutputReader') <= Offset(q)
        /\ mem[InputReader].flag \notin PassedByOutput => UNCHANGED InputReader
        /\ r = IF mem[OutputReader'].flag = "Output" THEN OutputReader' ELSE NULL
    BY <1>1, <1>2, GetOutputMoves
  <1>5. PICK F \in SUBSET E : F = {q \in E : Offset(q) >= Offset(OutputReader')}
    OBVIOUS
  <1>6. /\ F \in SUBSET Headers' /\ Chain(F)' /\ InputAhead(F)' /\ Stocked(F)'
        /\ OutputReader' \in Slots /\ InputReader' \in Slots
    BY <1>3, <1>4, <1>5, ReadersStock
  <1>7. /\ Returned(F)' /\ Packets(F) = Packets(E)
        /\ OutputReader # NextWriter => OutputReader' # NextWriter'
    BY <1>3, <1>4, <1>5, GetsStock
  <1>8. UNCHANGED <<mem, NextWriter, aborted>> /\ OutputReader' \in E \cup {NextWriter}
    BY <1>4 DEF ReadersStep
  <1>9. \A q \in E : mem[q].flag # "StartOver" => q \in F
    BY <1>7 DEF Packets
  <1>10. mem[NextWriter].flag = "EndOfRing"
    BY <1>1 DEF Chain, EndMark
  <1>11. /\ tx'.packet = r /\ tx'.packet \in Slots \cup {NULL}
         /\ r # NULL => r = OutputReader' /\ mem[r].flag = "Output" /\ r \in E /\ r \in F
    <2>1. r # NULL => r = OutputReader' /\ mem[r].flag = "Output"
      BY <1>4
    <2>2. r # NULL => r \in E /\ r \in F
      BY <2>1, <1>8, <1>9, <1>10
    <2> QED
      BY <2>1, <2>2, <1>2
  <1>12. HeldIn(F)'
    <2>1. rx.packet # NULL => rx.packet \in F /\ mem[rx.packet].flag = "EndOfRing"
      BY <1>1, <1>9 DEF HeldIn
    <2>2. packet # NULL => packet = InputReader' /\ packet \in F /\ mem[packet].flag = "Input"
      BY <1>1, <1>4, <1>9 DEF HeldIn, PassedByOutput
    <2> QED
      BY <2>1, <2>2, <1>3, <1>8, <1>11 DEF HeldIn
  <1>13. Resting(F)'
    BY <1>3, <1>8 DEF Whole, Resting
  <1>14. r # NULL => mem[r].val \in Nat
    BY <1>1, <1>11 DEF RingTypeOK, Word
  <1>15. Stock'
    BY <1>6, <1>7, <1>12, <1>13 DEF Stock, Whole
  <1> QED
    BY <1>2, <1>6, <1>7, <1>8, <1>14, <1>15

\* The host has received the rest of the packet at the output reader.
LEMMA StockReleases ==
  ASSUME Typed, NEW E \in SUBSET Headers, Whole(E), tx.packet # NULL,
         Packet_ReleaseOutput(tx.packet), tx'.packet = NULL,
         UNCHANGED <<rx, stored, frames, packet, mainPc, SE>>, Current' = Current, Current \in Nat,
         NEW e, e = [frame |-> stored[tx.packet], len |-> mem[tx.packet].val],
         echoed' = Append(echoed, e)
  PROVE  /\ Stock' /\ OutputReader' \in Slots /\ InputReader' \in Slots
         /\ UNCHANGED <<mem, NextWriter, aborted>>
         /\ echoed' \in Seq([frame : Nat, len : Nat])
  <1>1. /\ RingTypeOK /\ Chain(E) /\ InputAhead(E) /\ E \subseteq Slots /\ Stocked(E)
        /\ HeldIn(E) /\ Returned(E)
    BY StockFacts DEF Whole, Headers
  <1>2. PICK p \in E : p = tx.packet /\ p = OutputReader /\ mem[p].flag = "Output"
    BY <1>1 DEF HeldIn
  <1>3. /\ ReadersStep(E)
        /\ \A q \in E : q # p <=> Offset(q) >= Offset(OutputReader')
        /\ InputReader # p => UNCHANGED InputReader
    BY <1>1, <1>2, ReleaseOutputMoves
  <1>4. PICK F \in SUBSET E : F = {q \in E : Offset(q) >= Offset(OutputReader')}
    OBVIOUS
  <1>5. /\ F \in SUBSET Headers' /\ Chain(F)' /\ InputAhead(F)' /\ Stocked(F)'
        /\ OutputReader' \in Slots /\ InputReader' \in Slots /\ Packets(F)' = Packets(F)
    BY <1>3, <1>4, ReadersStock
  <1>6. UNCHANGED <<mem, NextWriter, aborted>>
    BY <1>3 DEF ReadersStep
  <1>7. F = E \ {p} /\ Packets(F) = Packets(E) \ {p}
    BY <1>3, <1>4 DEF Packets
  <1>8. HeldIn(F)'
    <2>1. rx.packet # NULL => rx.packet \in F /\ mem[rx.packet].flag = "EndOfRing"
      BY <1>1, <1>2, <1>7 DEF HeldIn
    <2>2. packet # NULL => packet = InputReader' /\ packet \in F /\ mem[packet].flag = "Input"
      BY <1>1, <1>2, <1>3, <1>7 DEF HeldIn
    <2> QED
      BY <2>1, <2>2, <1>6 DEF HeldIn
  <1>9. /\ p \in Packets(E) /\ p \in Slots /\ p # rx.packet
        /\ stored[p] \in DOMAIN frames /\ Accepted(frames[stored[p]])
        /\ mem[p].val = frames[stored[p]].claim /\ stored[p] < Current
        /\ stored[p] \in Nat /\ mem[p].val \in Nat
    <2>1. p \in Packets(E) /\ p \in Slots
      BY <1>1, <1>2 DEF Packets
    <2>2. p # rx.packet
      BY <1>1, <1>2, StockFacts DEF HeldIn
    <2>3. mem[p].val \in Nat
      BY <2>1, <1>1 DEF RingTypeOK, Word
    <2> QED
      BY <2>1, <2>2, <2>3, <1>1, StockFacts DEF Stocked
  <1>10. ASSUME NEW q \in Packets(F)
         PROVE  stored[p] < stored[q]
    <2>1. q \in Packets(E) /\ q # p /\ q \in Slots
      BY <1>1, <1>7 DEF Packets
    <2>2. Offset(p) < Offset(q)
      BY <2>1, <1>1, <1>2, <1>9, OffsetFacts
    <2> QED
      BY <2>1, <2>2, <1>1, <1>9 DEF Stocked
  <1>11. PICK n \in Nat : n = Len(echoed)
    BY StockFacts
  <1>12. /\ e \in [frame : Nat, len : Nat] /\ e.frame = stored[p] /\ e.len = mem[p].val
    BY <1>2, <1>9
  <1>13. /\ echoed' \in Seq([frame : Nat, len : Nat]) /\ Len(echoed') = n + 1
         /\ DOMAIN echoed' = 1 .. (n + 1) /\ DOMAIN echoed = 1 .. n
         /\ \A i \in 1 .. n : echoed'[i] = echoed[i]
         /\ echoed'[n + 1] = e
    <2>1. echoed \in Seq([frame : Nat, len : Nat])
      BY DEF Typed
    <2> QED
      BY <2>1, <1>11, <1>12, AppendProperties, LenProperties
  <1>14. ASSUME NEW i \in 1 .. (n + 1)
         PROVE  /\ echoed'[i].frame \in DOMAIN frames /\ Accepted(frames[echoed'[i].frame])
                /\ echoed'[i].frame < Current
                /\ echoed'[i].len = frames[echoed'[i].frame].claim
                /\ \A j \in 1 .. (i - 1) : echoed'[j].frame < echoed'[i].frame
                /\ \A q \in Packets(F) : echoed'[i].frame < stored[q]
    <2>1. CASE i \in 1 .. n
      <3>1. /\ echoed[i].frame \in DOMAIN frames /\ Accepted(frames[echoed[i].frame])
            /\ echoed[i].frame < Current
            /\ echoed[i].len = frames[echoed[i].frame].claim
            /\ \A j \in 1 .. (i - 1) : echoed[j].frame < echoed[i].frame
            /\ \A q \in Packets(E) : echoed[i].frame < stored[q]
        BY <2>1, <1>1, <1>13 DEF Returned
      <3>2. \A j \in 1 .. (i - 1) : j \in 1 .. n
        BY <2>1
      <3> QED
        BY <2>1, <3>1, <3>2, <1>7, <1>13
    <2>2. CASE i = n + 1
      <3>1. echoed'[i].frame = stored[p] /\ echoed'[i].len = mem[p].val
        BY <2>2, <1>12, <1>13
      <3>2. \A j \in 1 .. (i - 1) : j \in 1 .. n
        BY <2>2
      <3>3. \A j \in 1 .. n : echoed[j].frame < stored[p]
        BY <1>1, <1>9, <1>13 DEF Returned
      <3>4. \A j \in 1 .. (i - 1) : echoed'[j].frame < stored[p]
        BY <3>2, <3>3, <1>13
      <3> QED
        BY <3>1, <3>4, <1>9, <1>10
    <2>3. i \in 1 .. n \/ i = n + 1
      BY <1>11
    <2> QED
      BY <2>1, <2>2, <2>3
  <1>15. ASSUME NEW k \in DOMAIN frames, Accepted(frames[k]), k < Current
         PROVE  \/ \E i \in 1 .. (n + 1) : echoed'[i].frame = k
                \/ \E q \in Packets(F) : stored[q] = k
    <2>1. CASE \E i \in DOMAIN echoed : echoed[i].frame = k
      <3>1. PICK i \in 1 .. n : echoed[i].frame = k
        BY <2>1, <1>13
      <3>2. i \in 1 .. (n + 1) /\ echoed'[i].frame = k
        BY <3>1, <1>13
      <3> QED
        BY <3>2
    <2>2. CASE \E q \in Packets(E) : stored[q] = k
      <3>1. PICK q \in Packets(E) : stored[q] = k
        BY <2>2
      <3>2. CASE q = p
        <4>1. n + 1 \in 1 .. (n + 1) /\ echoed'[n + 1].frame = k
          BY <3>1, <3>2, <1>12, <1>13
        <4> QED
          BY <4>1
      <3>3. CASE q # p
        BY <3>1, <3>3, <1>7
      <3> QED
        BY <3>2, <3>3
    <2> QED
      BY <2>1, <2>2, <1>1, <1>15 DEF Returned
  <1>16. Returned(F)'
    <2>1. frames' = frames /\ stored' = stored /\ Current' = Current /\ Packets(F)' = Packets(F)
      BY <1>5
    <2>2. (\A i \in DOMAIN echoed :
             /\ echoed[i].frame \in DOMAIN frames /\ Accepted(frames[echoed[i].frame])
             /\ echoed[i].frame < Current
             /\ echoed[i].len = frames[echoed[i].frame].claim
             /\ \A j \in 1 .. (i - 1) : echoed[j].frame < echoed[i].frame
             /\ \A q \in Packets(F) : echoed[i].frame < stored[q])'
      <3> SUFFICES ASSUME NEW i \in 1 .. (n + 1)
                   PROVE  /\ echoed'[i].frame \in DOMAIN frames'
                          /\ Accepted(frames[echoed[i].frame])'
                          /\ echoed'[i].frame < Current'
                          /\ echoed'[i].len = frames'[echoed'[i].frame].claim
                          /\ \A j \in 1 .. (i - 1) : echoed'[j].frame < echoed'[i].frame
                          /\ \A q \in Packets(F)' : echoed'[i].frame < stored'[q]
        BY <1>13
      <3>1. Accepted(frames[echoed[i].frame])' <=> Accepted(frames[echoed'[i].frame])
        BY <2>1 DEF Accepted
      <3>2. /\ echoed'[i].frame \in DOMAIN frames /\ Accepted(frames[echoed'[i].frame])
            /\ echoed'[i].frame < Current
            /\ echoed'[i].len = frames[echoed'[i].frame].claim
            /\ \A j \in 1 .. (i - 1) : echoed'[j].frame < echoed'[i].frame
            /\ \A q \in Packets(F) : echoed'[i].frame < stored[q]
        BY <1>14
      <3> QED
        BY <2>1, <3>1, <3>2
    <2>3. (\A k \in DOMAIN frames : Accepted(frames[k]) /\ k < Current =>
             \/ \E i \in DOMAIN echoed : echoed[i].frame = k
             \/ \E q \in Packets(F) : stored[q] = k)'
      BY <2>1, <1>13, <1>15 DEF Accepted
    <2> QED
      BY <2>2, <2>3 DEF Returned
  <1>17. Resting(F)'
    BY <1>6 DEF Whole, Resting
  <1> QED
    BY <1>5, <1>6, <1>8, <1>13, <1>16, <1>17 DEF Stock, Whole

\* A packet that gets another flag stays what it is; if it is the one being
\* received, the receiver goes on to the next frame.
LEMMA FlagsStock ==
  ASSUME Typed, NEW E \in SUBSET Headers, Whole(E), Current \in Nat,
         NEW p \in E, mem[p].flag \in {"EndOfRing", "Input"}, NEW f \in {"Input", "Output"},
         mem' = [mem EXCEPT ![p].flag = f],
         UNCHANGED <<OutputReader, stored, frames, echoed>>,
         \A q \in E : following(q)' = following(q),
         IF rx.packet = p THEN rx'.packet = NULL /\ Current' = Current + 1
                          ELSE rx'.packet = rx.packet /\ Current' = Current
  PROVE  /\ Packets(E)' = Packets(E) /\ Stocked(E)' /\ Returned(E)'
         /\ mem'[p].flag = f /\ \A q \in E : q # p => mem'[q] = mem[q]
         /\ \A q \in E : mem'[q].val = mem[q].val
  <1>1. /\ RingTypeOK /\ E \subseteq Slots /\ Stocked(E) /\ Returned(E) /\ HeldIn(E)
        /\ NULL \notin Slots
    BY StockFacts DEF Whole, Headers
  <1>2. /\ \A q \in E : q # p => mem'[q] = mem[q]
        /\ mem'[p].flag = f /\ mem'[p].val = mem[p].val
    BY <1>1 DEF RingTypeOK, Word
  <1>3. /\ \A q \in E : /\ mem'[q].val = mem[q].val
                        /\ mem'[q].flag = "StartOver" <=> mem[q].flag = "StartOver"
                        /\ mem'[q].flag # "Skip"
                        /\ mem'[q].flag = "EndOfRing" => mem[q].flag = "EndOfRing" /\ q # p
        /\ Packets(E)' = Packets(E)
    <2>1. \A q \in E : mem[q].flag # "Skip"
      BY <1>1 DEF Stocked
    <2> QED
      BY <2>1, <1>2 DEF Packets
  <1>4. \A q \in Slots : Offset(q)' = Offset(q)
    BY DEF Offset
  <1>5. ASSUME NEW q \in Packets(E)
        PROVE  /\ stored[q] \in DOMAIN frames /\ Accepted(frames[stored[q]])
               /\ mem'[q].val = frames[stored[q]].claim
               /\ IF q = rx'.packet THEN stored[q] = Current' ELSE stored[q] < Current'
    <2>1. q \in E /\ q \in Slots /\ stored[q] \in Nat
      BY <1>1, StockFacts DEF Packets
    <2>2. /\ stored[q] \in DOMAIN frames /\ Accepted(frames[stored[q]])
          /\ mem[q].val = frames[stored[q]].claim
          /\ IF q = rx.packet THEN stored[q] = Current ELSE stored[q] < Current
      BY <1>1 DEF Stocked
    <2>3. IF q = rx'.packet THEN stored[q] = Current' ELSE stored[q] < Current'
      BY <2>1, <2>2, <1>1
    <2> QED
      BY <2>1, <2>2, <2>3, <1>3
  <1>6. Stocked(E)'
    <2>1. (\A q \in E : mem[q].flag # "Skip")'
      BY <1>3
    <2>2. (\A q \in E : mem[q].flag = "StartOver" => following(q) \in E)'
      BY <1>1, <1>3 DEF Stocked
    <2>3. (\A q \in E : mem[q].flag = "EndOfRing" => q = rx.packet)'
      BY <1>1, <1>3 DEF Stocked
    <2>4. (\A q \in Packets(E) :
             /\ stored[q] \in DOMAIN frames /\ Accepted(frames[stored[q]])
             /\ mem[q].val = frames[stored[q]].claim
             /\ IF q = rx.packet THEN stored[q] = Current ELSE stored[q] < Current)'
      BY <1>3, <1>5 DEF Accepted
    <2>5. (\A q, s \in Packets(E) : Offset(q) < Offset(s) => stored[q] < stored[s])'
      <3> SUFFICES ASSUME NEW q \in Packets(E), NEW s \in Packets(E), Offset(q)' < Offset(s)'
                   PROVE  stored[q] < stored[s]
        BY <1>3
      <3>1. q \in Slots /\ s \in Slots
        BY <1>1 DEF Packets
      <3> QED
        BY <3>1, <1>1, <1>4 DEF Stocked
    <2> QED
      BY <2>1, <2>2, <2>3, <2>4, <2>5 DEF Stocked
  <1>7. ASSUME NEW i \in DOMAIN echoed
        PROVE  /\ echoed[i].frame \in DOMAIN frames /\ Accepted(frames[echoed[i].frame])
               /\ echoed[i].frame < Current'
               /\ echoed[i].len = frames[echoed[i].frame].claim
               /\ \A j \in 1 .. (i - 1) : echoed[j].frame < echoed[i].frame
               /\ \A q \in Packets(E) : echoed[i].frame < stored[q]
    <2>1. /\ echoed[i].frame \in DOMAIN frames /\ Accepted(frames[echoed[i].frame])
          /\ echoed[i].frame < Current
          /\ echoed[i].len = frames[echoed[i].frame].claim
          /\ \A j \in 1 .. (i - 1) : echoed[j].frame < echoed[i].frame
          /\ \A q \in Packets(E) : echoed[i].frame < stored[q]
      BY <1>1 DEF Returned
    <2>2. echoed[i].frame < Current'
      BY <2>1, StockFacts
    <2> QED
      BY <2>1, <2>2
  <1>8. ASSUME NEW n \in DOMAIN frames, Accepted(frames[n]), n < Current'
        PROVE  \/ \E i \in DOMAIN echoed : echoed[i].frame = n
               \/ \E q \in Packets(E) : stored[q] = n
    <2>1. CASE n < Current
      BY <2>1, <1>1, <1>8 DEF Returned
    <2>2. CASE ~ (n < Current)
      <3>1. rx.packet = p /\ n = Current
        BY <2>2, <1>8, SentFacts
      <3>2. p \in Packets(E) /\ stored[p] = Current
        BY <3>1, <1>1 DEF Packets, Stocked
      <3> QED
        BY <3>1, <3>2
    <2> QED
      BY <2>1, <2>2
  <1>9. Returned(E)'
    <2>1. frames' = frames /\ stored' = stored /\ echoed' = echoed /\ Packets(E)' = Packets(E)
      BY <1>3
    <2>2. (\A i \in DOMAIN echoed :
             /\ echoed[i].frame \in DOMAIN frames /\ Accepted(frames[echoed[i].frame])
             /\ echoed[i].frame < Current
             /\ echoed[i].len = frames[echoed[i].frame].claim
             /\ \A j \in 1 .. (i - 1) : echoed[j].frame < echoed[i].frame
             /\ \A q \in Packets(E) : echoed[i].frame < stored[q])'
      BY <2>1, <1>7 DEF Accepted
    <2>3. (\A n \in DOMAIN frames : Accepted(frames[n]) /\ n < Current =>
             \/ \E i \in DOMAIN echoed : echoed[i].frame = n
             \/ \E q \in Packets(E) : stored[q] = n)'
      BY <2>1, <1>8 DEF Accepted
    <2> QED
      BY <2>2, <2>3 DEF Returned
  <1> QED
    BY <1>2, <1>3, <1>6, <1>9

\* The main loop makes the input packet an output packet.
LEMMA StockResends ==
  ASSUME Typed, NEW E \in SUBSET Headers, Whole(E), Current \in Nat, Current' = Current,
         packet # NULL, Resend
  PROVE  /\ Stock' /\ UNCHANGED <<NextWriter, OutputReader, aborted>>
         /\ mem' \in [Slots -> Word] /\ InputReader' \in Slots
         /\ tx.packet # NULL => mem'[tx.packet].val = mem[tx.packet].val
  <1>1. /\ RingTypeOK /\ Chain(E) /\ InputAhead(E) /\ E \subseteq Slots /\ HeldIn(E)
    BY StockFacts DEF Whole, Headers
  <1>2. PICK p \in E : p = packet /\ p = InputReader /\ mem[p].flag = "Input"
    BY <1>1 DEF HeldIn
  <1>3. /\ Packet_ReattachOutput(p) /\ SE' = FALSE /\ packet' = NULL
        /\ UNCHANGED <<tx, rx, stored, frames, echoed>>
    BY <1>2 DEF Resend, rxVars, sending, hearing
  <1>4. /\ UNCHANGED <<NextWriter, OutputReader, aborted>>
        /\ mem' = [mem EXCEPT ![p].flag = "Output"] /\ mem' \in [Slots -> Word]
        /\ InputReader' \in Slots
        /\ E \in SUBSET Headers' /\ Chain(E)' /\ InputAhead(E)'
        /\ \A q \in E : following(q)' = following(q)
    BY <1>1, <1>2, <1>3, ReattachMoves
  <1>5. rx.packet # p /\ tx.packet # p
    BY <1>1, <1>2 DEF HeldIn
  <1>6. /\ Packets(E)' = Packets(E) /\ Stocked(E)' /\ Returned(E)'
        /\ \A q \in E : q # p => mem'[q] = mem[q]
    <2>1. /\ mem[p].flag \in {"EndOfRing", "Input"} /\ p \in E
          /\ IF rx.packet = p THEN rx'.packet = NULL /\ Current' = Current + 1
                              ELSE rx'.packet = rx.packet /\ Current' = Current
          /\ UNCHANGED <<OutputReader, stored, frames, echoed>>
      BY <1>2, <1>3, <1>5, <1>4
    <2>2. /\ mem' = [mem EXCEPT ![p].flag = "Output"]
          /\ \A q \in E : following(q)' = following(q)
      BY <1>4
    <2> QED
      BY <2>1, <2>2, FlagsStock
  <1>7. HeldIn(E)'
    BY <1>1, <1>3, <1>4, <1>5, <1>6 DEF HeldIn
  <1>8. Resting(E)'
    BY <1>3 DEF Resting
  <1>9. tx.packet # NULL => mem'[tx.packet].val = mem[tx.packet].val
    BY <1>1, <1>5, <1>6 DEF HeldIn
  <1> QED
    BY <1>4, <1>6, <1>7, <1>8, <1>9 DEF Stock, Whole

\* The handler makes the packet it has received an input packet.
LEMMA StockPuts ==
  ASSUME Typed, NEW E \in SUBSET Headers, Whole(E), Current \in Nat, Current' = Current + 1,
         rx.packet # NULL, Packet_PutInput(rx.packet), SE' = FALSE, rx'.packet = NULL,
         UNCHANGED <<tx, packet, stored, frames, echoed>>
  PROVE  /\ Stock' /\ UNCHANGED <<NextWriter, InputReader, OutputReader, aborted>>
         /\ mem' \in [Slots -> Word]
         /\ tx.packet # NULL => mem'[tx.packet].val = mem[tx.packet].val
  <1>1. /\ RingTypeOK /\ Chain(E) /\ InputAhead(E) /\ E \subseteq Slots /\ HeldIn(E)
    BY StockFacts DEF Whole, Headers
  <1>2. PICK p \in E : p = rx.packet /\ mem[p].flag = "EndOfRing"
    BY <1>1 DEF HeldIn
  <1>3. SetFlag(p, "Input")
    BY <1>2 DEF Packet_PutInput
  <1>4. /\ UNCHANGED <<NextWriter, InputReader, OutputReader, aborted>>
        /\ mem' = [mem EXCEPT ![p].flag = "Input"] /\ mem' \in [Slots -> Word]
        /\ E \in SUBSET Headers' /\ Chain(E)' /\ InputAhead(E)'
        /\ \A q \in E : following(q)' = following(q)
    BY <1>1, <1>2, <1>3, PutMoves
  <1>5. packet # p /\ tx.packet # p
    BY <1>1, <1>2 DEF HeldIn
  <1>6. /\ Packets(E)' = Packets(E) /\ Stocked(E)' /\ Returned(E)'
        /\ \A q \in E : q # p => mem'[q] = mem[q]
    <2>1. /\ mem[p].flag \in {"EndOfRing", "Input"} /\ p \in E
          /\ IF rx.packet = p THEN rx'.packet = NULL /\ Current' = Current + 1
                              ELSE rx'.packet = rx.packet /\ Current' = Current
          /\ UNCHANGED <<OutputReader, stored, frames, echoed>>
      BY <1>2, <1>4
    <2>2. /\ mem' = [mem EXCEPT ![p].flag = "Input"]
          /\ \A q \in E : following(q)' = following(q)
      BY <1>4
    <2> QED
      BY <2>1, <2>2, FlagsStock
  <1>7. HeldIn(E)'
    BY <1>1, <1>4, <1>5, <1>6 DEF HeldIn
  <1>8. Resting(E)'
    BY DEF Resting
  <1>9. tx.packet # NULL => mem'[tx.packet].val = mem[tx.packet].val
    BY <1>1, <1>5, <1>6 DEF HeldIn
  <1> QED
    BY <1>4, <1>6, <1>7, <1>8, <1>9 DEF Stock, Whole

\* There is no space for a packet.
LEMMA StockIsFull ==
  ASSUME Typed, NEW E \in SUBSET Headers, Whole(E), Line, RxSpace, Current' = Current,
         UNCHANGED <<mem, NextWriter, InputReader, OutputReader, stored, frames>>,
         rx'.packet = NULL
  PROVE  Stock'
  <1>1. rx.packet = NULL /\ Current \in Nat
    BY SpaceFacts, CurrentFacts DEF RxSpace
  <1>2. UNCHANGED <<echoed, packet, tx, mainPc, SE>>
    BY DEF RxSpace, mainVars, hearing
  <1>3. \A n \in DOMAIN frames : n \in DOMAIN frames' /\ frames'[n] = frames[n]
    OBVIOUS
  <1>4. \A n \in DOMAIN frames' : n \in Nat /\ (n < Current' => n \in DOMAIN frames)
    BY SentFacts
  <1> QED
    BY <1>1, <1>2, <1>3, <1>4, StockSame

\* Offsets are counted from the output reader.
Distances == (\A s \in Slots : Offset(s) \in Int /\ 0 <= Offset(s)) /\ Offset(OutputReader) = 0

LEMMA DistancesFacts == RingTypeOK => Distances
  BY OffsetFacts DEF Distances

\* A packet is created behind all others.
LEMMA StockCreates ==
  ASSUME Typed, NEW E \in SUBSET Headers, Whole(E), Line, RxSpace, Current' = Current,
         NEW r, Created(E, r), mem'[r] = Unfinished(newLen), \A p \in E : mem'[p] = mem[p],
         rx'.packet = r, stored' = [stored EXCEPT ![r] = Current]
  PROVE  /\ Stock' /\ OutputReader' # NextWriter'
         /\ tx.packet # NULL => mem'[tx.packet].val = mem[tx.packet].val
  <1>1. /\ RingTypeOK /\ Chain(E) /\ InputAhead(E) /\ E \subseteq Slots
        /\ HeldIn(E) /\ Stocked(E) /\ Returned(E) /\ Resting(E) /\ NULL \notin Slots
    BY StockFacts DEF Whole, Headers
  <1>2. /\ rx.packet = NULL /\ Current \in DOMAIN frames /\ Current \in Nat
        /\ Accepted(frames[Current]) /\ newLen = frames[Current].claim
    BY SpaceFacts, CurrentFacts DEF RxSpace
  <1>3. /\ UNCHANGED <<echoed, packet, tx, mainPc, SE, frames>>
    BY DEF RxSpace, mainVars, hearing, sending
  <1>4. PICK G \in SUBSET Slots :
          /\ G \in SUBSET Headers' /\ E \cup {r} \subseteq G /\ Chain(G)' /\ InputAhead(G)'
          /\ \A q \in G \ (E \cup {r}) : mem'[q].flag = "StartOver" /\ following(q)' = r
          /\ \A q \in E : /\ Offset(q)' = Offset(q) /\ Offset(q)' < Offset(r)'
                          /\ following(q)' = following(q)
    BY DEF Created
  <1>5. /\ mem' \in [Slots -> Word] /\ NextWriter' \in Slots
        /\ InputReader' \in Slots /\ OutputReader' \in Slots
        /\ r \in Slots /\ r \notin E /\ r \in G
        /\ E # {} => UNCHANGED <<InputReader, OutputReader>>
        /\ mem'[r].flag = "EndOfRing" /\ mem'[r].val = newLen
    BY <1>4 DEF Created, Unfinished
  <1>6. /\ \A s \in Slots : Offset(s)' \in Int /\ 0 <= Offset(s)'
        /\ (Offset(OutputReader) = 0)'
    <2>1. RingTypeOK'
      BY <1>1, <1>5 DEF RingTypeOK, Created
    <2>2. RingTypeOK' => Distances'
      BY DistancesFacts, PTL
    <2> QED
      BY <2>1, <2>2 DEF Distances
  <1>7. OutputReader' # NextWriter'
    <2>1. (Offset(r) < Offset(NextWriter))'
      BY <1>4, <1>5 DEF Chain
    <2> QED
      BY <2>1, <1>5, <1>6
  <1>8. Packets(G)' = Packets(E) \cup {r}
    <2>1. \A q \in G : mem'[q].flag # "StartOver" <=> q \in Packets(E) \cup {r}
      BY <1>4, <1>5 DEF Packets
    <2>2. Packets(E) \cup {r} \subseteq G
      BY <1>4 DEF Packets
    <2> QED
      BY <2>1, <2>2 DEF Packets
  <1>9. \A q \in Packets(E) : q \in E /\ q \in Slots /\ q # r /\ mem'[q] = mem[q]
    BY <1>1, <1>5 DEF Packets
  <1>10. stored'[r] = Current /\ \A q \in Packets(E) : stored'[q] = stored[q]
    BY <1>5, <1>9, StockFacts
  <1>11. \A q \in Packets(E) :
           /\ stored[q] \in DOMAIN frames /\ Accepted(frames[stored[q]])
           /\ mem[q].val = frames[stored[q]].claim /\ stored[q] < Current
    BY <1>1, <1>2, <1>9 DEF Stocked
  <1>12. HeldIn(G)'
    <2>1. packet # NULL => packet = InputReader' /\ packet \in G /\ mem'[packet].flag = "Input"
      BY <1>1, <1>4, <1>5 DEF HeldIn
    <2>2. tx.packet # NULL =>
            tx.packet = OutputReader' /\ tx.packet \in G /\ mem'[tx.packet].flag = "Output"
      BY <1>1, <1>4, <1>5 DEF HeldIn
    <2> QED
      BY <2>1, <2>2, <1>3, <1>5 DEF HeldIn
  <1>13. Stocked(G)'
    <2>1. (\A q \in G : mem[q].flag # "Skip")'
      BY <1>1, <1>4, <1>5 DEF Stocked
    <2>2. (\A q \in G : mem[q].flag = "StartOver" => following(q) \in G)'
      BY <1>1, <1>4, <1>5 DEF Stocked
    <2>3. (\A q \in G : mem[q].flag = "EndOfRing" => q = rx.packet)'
      BY <1>1, <1>2, <1>4 DEF Stocked
    <2>4. (\A q \in Packets(G) :
             /\ stored[q] \in DOMAIN frames /\ Accepted(frames[stored[q]])
             /\ mem[q].val = frames[stored[q]].claim
             /\ IF q = rx.packet THEN stored[q] = Current ELSE stored[q] < Current)'
      <3> SUFFICES ASSUME NEW q \in Packets(E) \cup {r}
                   PROVE  /\ stored'[q] \in DOMAIN frames /\ Accepted(frames[stored'[q]])
                          /\ mem'[q].val = frames[stored'[q]].claim
                          /\ IF q = r THEN stored'[q] = Current ELSE stored'[q] < Current
        BY <1>3, <1>8 DEF Accepted
      <3>1. CASE q = r
        BY <3>1, <1>2, <1>5, <1>10
      <3>2. CASE q # r
        BY <3>2, <1>9, <1>10, <1>11
      <3> QED
        BY <3>1, <3>2
    <2>5. (\A p, q \in Packets(G) : Offset(p) < Offset(q) => stored[p] < stored[q])'
      <3> SUFFICES ASSUME NEW p \in Packets(E) \cup {r}, NEW q \in Packets(E) \cup {r},
                          Offset(p)' < Offset(q)'
                   PROVE  stored'[p] < stored'[q]
        BY <1>8
      <3>1. CASE p = r
        BY <3>1, <1>4, <1>5, <1>6, <1>9
      <3>2. CASE p # r /\ q = r
        BY <3>2, <1>10, <1>11
      <3>3. CASE p # r /\ q # r
        <4>1. p \in Packets(E) /\ q \in Packets(E)
          BY <3>3
        <4>2. Offset(p) < Offset(q)
          BY <4>1, <1>4, <1>9
        <4> QED
          BY <4>1, <4>2, <1>1, <1>10 DEF Stocked
      <3> QED
        BY <3>1, <3>2, <3>3
    <2> QED
      BY <2>1, <2>2, <2>3, <2>4, <2>5 DEF Stocked
  <1>14. Returned(G)'
    <2>1. ASSUME NEW i \in DOMAIN echoed
          PROVE  /\ echoed[i].frame \in DOMAIN frames /\ Accepted(frames[echoed[i].frame])
                 /\ echoed[i].frame < Current
                 /\ echoed[i].len = frames[echoed[i].frame].claim
                 /\ \A j \in 1 .. (i - 1) : echoed[j].frame < echoed[i].frame
                 /\ \A q \in Packets(E) \cup {r} : echoed[i].frame < stored'[q]
      BY <1>1, <1>10 DEF Returned
    <2>2. (\A i \in DOMAIN echoed :
             /\ echoed[i].frame \in DOMAIN frames /\ Accepted(frames[echoed[i].frame])
             /\ echoed[i].frame < Current
             /\ echoed[i].len = frames[echoed[i].frame].claim
             /\ \A j \in 1 .. (i - 1) : echoed[j].frame < echoed[i].frame
             /\ \A q \in Packets(G) : echoed[i].frame < stored[q])'
      BY <2>1, <1>3, <1>8 DEF Accepted
    <2>3. (\A n \in DOMAIN frames : Accepted(frames[n]) /\ n < Current =>
             \/ \E i \in DOMAIN echoed : echoed[i].frame = n
             \/ \E q \in Packets(G) : stored[q] = n)'
      BY <1>1, <1>3, <1>8, <1>10 DEF Returned, Accepted
    <2> QED
      BY <2>2, <2>3 DEF Returned
  <1>15. Resting(G)'
    BY <1>1, <1>3, <1>4, <1>5 DEF Resting
  <1>16. tx.packet # NULL => mem'[tx.packet].val = mem[tx.packet].val
    BY <1>1 DEF HeldIn
  <1> QED
    BY <1>4, <1>7, <1>12, <1>13, <1>14, <1>15, <1>16 DEF Stock, Whole

\* What asking for space does to the ring.
LEMMA StockSpace ==
  ASSUME Typed, Line, Stock, RxSpace
  PROVE  /\ Line' /\ Stock' /\ Current' = Current /\ UNCHANGED <<frames, hostLeft, outFifo>>
         /\ rx' \in Receiver /\ RingTypeOK' /\ stored' \in [Slots -> 0 .. MaxFrames]
         /\ tx.packet # NULL => mem'[tx.packet].val = mem[tx.packet].val
         /\ aborted' \/ OutputReader' # NextWriter'
         /\ \/ enable' = [enable EXCEPT !["RX"] = FALSE] /\ isrPc' = "no"
            \/ UNCHANGED <<enable, aborted>> /\ isrPc' = "rxRead"
  <1>1. PICK E \in SUBSET Headers : Whole(E)
    BY DEF Stock
  <1>2. /\ RingTypeOK /\ Chain(E) /\ InputAhead(E) /\ stored \in [Slots -> 0 .. MaxFrames]
        /\ NULL \notin Slots
    BY <1>1, StockFacts DEF Whole
  <1>3. /\ Line' /\ Current' = Current /\ UNCHANGED <<frames, hostLeft, outFifo>>
        /\ rx' \in Receiver
    BY LineSpace
  <1>4. PICK r \in Slots \cup {NULL} :
          /\ Packet_New(newLen, r)
          /\ rx'.packet = r
          /\ IF r = NULL
             THEN /\ enable' = [enable EXCEPT !["RX"] = FALSE] /\ isrPc' = "no" /\ UNCHANGED stored
             ELSE /\ UNCHANGED enable /\ isrPc' = "rxRead"
                  /\ stored' = [stored EXCEPT ![r] = Current]
    BY LineSpace
  <1>5. newLen \in Nat /\ Current \in 0 .. MaxFrames
    BY SpaceFacts, SentFacts, SizesFacts DEF RxSpace
  <1>6. Found(mem, E) /\ allocateNew(mem, newLen, r)
    BY <1>2, <1>4 DEF Found, Packet_New, RingTypeOK
  <1>7. \/ /\ r = NULL /\ aborted' \in BOOLEAN /\ (~ aborted' => NextWriter # OutputReader)
           /\ UNCHANGED <<mem, NextWriter, InputReader, OutputReader>>
        \/ Created(E, r) /\ mem'[r] = Unfinished(newLen) /\ \A p \in E : mem'[p] = mem[p]
    BY <1>2, <1>5, <1>6, AllocateCreates
  <1>8. CASE /\ r = NULL /\ aborted' \in BOOLEAN /\ (~ aborted' => NextWriter # OutputReader)
             /\ UNCHANGED <<mem, NextWriter, InputReader, OutputReader>>
    <2>1. Stock'
      BY <1>1, <1>3, <1>4, <1>8, StockIsFull
    <2>2. RingTypeOK'
      BY <1>2, <1>8 DEF RingTypeOK
    <2> QED
      BY <2>1, <2>2, <1>2, <1>3, <1>4, <1>8
  <1>9. CASE Created(E, r) /\ mem'[r] = Unfinished(newLen) /\ \A p \in E : mem'[p] = mem[p]
    <2>1. r \in Slots /\ r # NULL /\ RingTypeOK' /\ UNCHANGED aborted
      BY <1>2, <1>9 DEF Created, RingTypeOK
    <2>2. /\ UNCHANGED enable /\ isrPc' = "rxRead"
          /\ stored' = [stored EXCEPT ![r] = Current]
      BY <2>1, <1>4
    <2>3. /\ Stock' /\ OutputReader' # NextWriter'
          /\ tx.packet # NULL => mem'[tx.packet].val = mem[tx.packet].val
      BY <2>2, <1>1, <1>3, <1>4, <1>9, StockCreates
    <2>4. stored' \in [Slots -> 0 .. MaxFrames]
      BY <2>1, <2>2, <1>2, <1>5
    <2> QED
      BY <2>1, <2>2, <2>3, <2>4, <1>3
  <1> QED
    BY <1>7, <1>8, <1>9

-----------------------------------------------------------------------------
(* The inductive invariant holds initially, and every step keeps it.       *)

LEMMA InitIInv == Init => IInv
  <1> SUFFICES ASSUME Init PROVE IInv
    OBVIOUS
  <1>1. /\ mem = [s \in Slots |-> EndMark] /\ 0 \in Slots
        /\ NextWriter = 0 /\ InputReader = 0 /\ OutputReader = 0 /\ aborted = FALSE
    BY SlotsFacts DEF Init, RingInit
  <1>2. RingTypeOK
    BY <1>1 DEF RingTypeOK, Word, Flags, EndMark
  <1>3. Typed
    <2>1. /\ outFifo = << >> /\ frames = << >> /\ echoed = << >>
          /\ Len(outFifo) = 0 /\ Len(frames) = 0
      BY DEF Init
    <2>2. /\ rx \in Receiver /\ tx \in [packet : Slots \cup {NULL}, remaining : Nat]
          /\ stored \in [Slots -> 0 .. MaxFrames]
      BY SizesFacts DEF Init, Receiver
    <2>3. /\ {enable, int} \subseteq [Endpoints -> BOOLEAN]
          /\ inBusy = [e \in {"NO", "TX"} |-> 0]
      BY DEF Init
    <2>4. TypeOK
      <3>1. /\ mainPc = "enable" /\ SE = FALSE /\ packet = NULL /\ isrPc = "none"
            /\ ConnectionStateIndex = 0 /\ configs = 0
        BY DEF Init
      <3>2. inBusy["NO"] \in 0 .. 1 /\ inBusy["TX"] \in 0 .. Banks
        BY <2>3, SizesFacts
      <3>3. Len(outFifo) <= Banks /\ Len(frames) <= MaxFrames /\ configs \in 0 .. MaxConfigs
        BY <2>1, <3>1, SizesFacts
      <3> QED
        <4>1. /\ mainPc \in {"enable", "get", "resend", "sleep", "asleep"}
              /\ packet \in Slots \cup {NULL} /\ ConnectionStateIndex \in 0 .. 2
              /\ isrPc \in {"none", "tx", "txWrite", "rx", "rxSpace", "rxRead", "no", "exit"}
          BY <3>1
        <4>2. SE \in BOOLEAN
          BY <3>1
        <4>3. rx \in [packet : Slots \cup {NULL}, remaining : Nat, last : BOOLEAN,
                      state : {"NEEDSPACE", "WAITING", "READING"}, buffer : 0 .. MaxFrames]
          BY <2>2 DEF Receiver
        <4> QED
          BY <1>2, <2>2, <2>3, <3>2, <3>3, <4>1, <4>2, <4>3 DEF TypeOK
    <2> QED
      BY <2>1, <2>3, <2>4 DEF Typed, Init
  <1>4. Line
    <2>1. /\ outFifo = << >> /\ Len(outFifo) = 0 /\ hostLeft = NULL /\ rx.packet = NULL
          /\ rx.state = "WAITING" /\ rx.remaining = 0 /\ isrPc = "none"
      BY DEF Init
    <2>2. PICK rest : rest = [i \in 1 .. 1 |-> 0]
      OBVIOUS
    <2>3. Stream(rest)
      BY <2>1, <2>2 DEF Stream, Places, HostRest
    <2>4. Receiving(rest)
      BY <2>1 DEF Receiving, Opened
    <2> QED
      BY <2>3, <2>4 DEF Line
  <1>5. Stock
    <2>1. Chain({}) /\ InputAhead({})
      BY <1>1 DEF Chain, InputAhead
    <2>2. HeldIn({}) /\ Stocked({}) /\ Returned({}) /\ Resting({})
      BY DEF Init, HeldIn, Stocked, Returned, Resting, Packets
    <2> QED
      BY <2>1, <2>2 DEF Stock, Whole
  <1>6. Control
    BY <1>1 DEF Init, Control, On, Endpoints
  <1> QED
    BY <1>3, <1>4, <1>5, <1>6 DEF IInv

\* A step that leaves the ring, the line and what is sent back alone.
LEMMA IdleStep ==
  ASSUME IInv, UNCHANGED <<ring, packet, tx, rx, stored, frames, hostLeft, outFifo, echoed>>,
         isrPc' = isrPc \/ ({isrPc, isrPc'} \cap {"rxSpace", "rxRead"} = {}),
         mainPc' \in {"sleep", "asleep"} /\ SE' => mainPc \in {"sleep", "asleep"} /\ SE
  PROVE  Line' /\ Stock'
  <1>1. Typed /\ Line /\ Stock
    BY DEF IInv
  <1>2. Line' /\ Current' = Current /\ Current \in Nat
    BY <1>1, LineSame, CurrentFacts
  <1>3. PICK E \in SUBSET Headers : Whole(E)
    BY <1>1 DEF Stock
  <1>4. UNCHANGED <<mem, NextWriter, InputReader, OutputReader, stored, echoed, packet>>
    BY DEF ring
  <1>5. /\ \A n \in DOMAIN frames : n \in DOMAIN frames' /\ frames'[n] = frames[n]
        /\ \A n \in DOMAIN frames' : n \in Nat /\ (n < Current' => n \in DOMAIN frames)
    BY <1>1, SentFacts
  <1> QED
    BY <1>1, <1>2, <1>3, <1>4, <1>5, StockSame

LEMMA SleepEnableKeeps ==
  ASSUME IInv, ~ aborted, isrPc = "none", SleepEnable
  PROVE  IInv'
  <1>1. Line' /\ Stock'
    BY IdleStep DEF SleepEnable, isrVars, rxVars, hwVars, sending, hearing
  <1>2. Typed'
    BY DEF IInv, Typed, TypeOK, RingTypeOK, SleepEnable, ring, isrVars, rxVars, hwVars, sending, hearing
  <1>3. Control'
    BY DEF IInv, Control, On, SleepEnable, ring, isrVars, rxVars, hwVars, sending, hearing
  <1> QED
    BY <1>1, <1>2, <1>3 DEF IInv

LEMMA SleepCpuKeeps ==
  ASSUME IInv, ~ aborted, isrPc = "none", SleepCpu
  PROVE  IInv'
  <1>1. Line' /\ Stock'
    BY IdleStep DEF SleepCpu, isrVars, rxVars, hwVars, sending, hearing
  <1>2. Typed'
    BY DEF IInv, Typed, TypeOK, RingTypeOK, SleepCpu, ring, isrVars, rxVars, hwVars, sending, hearing
  <1>3. Control'
    BY DEF IInv, Control, On, SleepCpu, ring, isrVars, rxVars, hwVars, sending, hearing
  <1> QED
    BY <1>1, <1>2, <1>3 DEF IInv

LEMMA TickKeeps ==
  ASSUME IInv, ~ aborted, Tick
  PROVE  IInv'
  <1>1. Line' /\ Stock'
    BY IdleStep DEF Tick, isrVars, rxVars, hwVars, sending, hearing
  <1>2. Typed'
    BY DEF IInv, Typed, TypeOK, RingTypeOK, Tick, Awake, ring, isrVars, rxVars, hwVars, sending, hearing
  <1>3. Control'
    BY DEF IInv, Control, On, Tick, Awake, ring, isrVars, rxVars, hwVars, sending, hearing
  <1> QED
    BY <1>1, <1>2, <1>3 DEF IInv

LEMMA EnterKeeps ==
  ASSUME IInv, ~ aborted, Enter
  PROVE  IInv'
  <1>1. Line' /\ Stock'
    BY IdleStep DEF Enter, Awake, isrVars, rxVars, hwVars, sending, hearing
  <1>2. Typed'
    BY DEF IInv, Typed, TypeOK, RingTypeOK, Enter, Awake, ring, isrVars, rxVars, hwVars, sending, hearing
  <1>3. int \in [Endpoints -> BOOLEAN] /\ enable' = int /\ int' = [e \in Endpoints |-> FALSE]
    BY DEF IInv, Typed, TypeOK, Enter
  <1>4. configs # 0
    BY DEF IInv, Control, Enter, Pending, Endpoints
  <1>5. On("RX")' <=> On("RX")
    BY <1>3 DEF On, Enter, Endpoints
  <1>6. On("NO")' <=> On("NO")
    BY <1>3 DEF On, Enter, Endpoints
  <1>7. Control'
    BY <1>3, <1>4, <1>5, <1>6 DEF IInv, Control, Enter, Awake, ring, rxVars, sending, hearing
  <1> QED
    BY <1>1, <1>2, <1>7 DEF IInv

LEMMA TxSkipKeeps ==
  ASSUME IInv, ~ aborted, TxSkip
  PROVE  IInv'
  <1>1. Line' /\ Stock'
    BY IdleStep DEF TxSkip, mainVars, rxVars, hwVars, sending, hearing
  <1>2. Typed'
    BY DEF IInv, Typed, TypeOK, RingTypeOK, TxSkip, ring, mainVars, rxVars, hwVars, sending, hearing
  <1>3. Control'
    BY DEF IInv, Control, On, TxSkip, ring, mainVars, rxVars, hwVars, sending, hearing
  <1> QED
    BY <1>1, <1>2, <1>3 DEF IInv

LEMMA RxSkipKeeps ==
  ASSUME IInv, ~ aborted, RxSkip
  PROVE  IInv'
  <1>1. Line' /\ Stock'
    BY IdleStep DEF RxSkip, mainVars, rxVars, hwVars, sending, hearing
  <1>2. Typed'
    BY DEF IInv, Typed, TypeOK, RingTypeOK, RxSkip, ring, mainVars, rxVars, hwVars, sending, hearing
  <1>3. Control'
    BY DEF IInv, Control, On, RxSkip, ring, mainVars, rxVars, hwVars, sending, hearing
  <1> QED
    BY <1>1, <1>2, <1>3 DEF IInv

LEMMA ExitKeeps ==
  ASSUME IInv, ~ aborted, Exit
  PROVE  IInv'
  <1>1. Line' /\ Stock'
    BY IdleStep DEF Exit, mainVars, rxVars, sending, hearing
  <1>2. {enable, int} \subseteq [Endpoints -> BOOLEAN]
    BY DEF IInv, Typed, TypeOK
  <1>3. int' \in [Endpoints -> BOOLEAN]
    BY <1>2 DEF Exit
  <1>4. Typed'
    BY <1>3 DEF IInv, Typed, TypeOK, RingTypeOK, Exit, ring, mainVars, rxVars, sending, hearing
  <1>5. configs # 0
    BY DEF IInv, Control, Exit
  <1>6. (On("RX")' <=> On("RX")) /\ (On("NO")' <=> On("NO"))
    BY <1>2 DEF On, Exit, Endpoints
  <1>7. Control'
    BY <1>5, <1>6 DEF IInv, Control, Exit, ring, mainVars, rxVars, sending, hearing
  <1> QED
    BY <1>1, <1>4, <1>7 DEF IInv

LEMMA NoKeeps ==
  ASSUME IInv, ~ aborted, No
  PROVE  IInv'
  <1>1. Line' /\ Stock'
    BY IdleStep DEF No, mainVars, rxVars, sending, hearing
  <1>2. /\ enable \in [Endpoints -> BOOLEAN] /\ int = [e \in Endpoints |-> FALSE]
        /\ ConnectionStateIndex \in 0 .. 2 /\ isrPc = "no" /\ isrPc' = "exit"
        /\ inBusy \in [{"NO", "TX"} -> Nat] /\ inBusy["NO"] \in 0 .. 1
        /\ inBusy["TX"] \in 0 .. Banks /\ configs # 0 /\ UNCHANGED int
        /\ On("NO") => ConnectionStateIndex > 0
    BY DEF IInv, Typed, TypeOK, Control, No
  <1>3. /\ enable' \in [Endpoints -> BOOLEAN] /\ ConnectionStateIndex' \in 0 .. 2
        /\ inBusy' \in [{"NO", "TX"} -> Nat] /\ inBusy'["NO"] \in 0 .. 1
        /\ inBusy'["TX"] = inBusy["TX"]
        /\ enable'["RX"] = enable["RX"]
        /\ enable'["NO"] => ConnectionStateIndex' > 0
    <2>1. CASE enable["NO"] /\ InReady("NO")
      <3>1. PICK index : index = (ConnectionStateIndex - 1) % 256
        OBVIOUS
      <3>2. /\ ConnectionStateIndex' = index
            /\ enable' = [enable EXCEPT !["NO"] = (index # 0)]
            /\ inBusy' = [inBusy EXCEPT !["NO"] = 1]
        BY <2>1, <3>1 DEF No, MoreNotices
      <3>3. ConnectionStateIndex > 0
        BY <2>1, <1>2 DEF On
      <3>4. index = ConnectionStateIndex - 1
        BY <3>1, <3>3, <1>2, SMT
      <3>5. index \in 0 .. 2 /\ (index # 0 => index > 0)
        BY <3>3, <3>4, <1>2
      <3>6. PICK more \in BOOLEAN : more = (index # 0)
        OBVIOUS
      <3>7. enable' = [enable EXCEPT !["NO"] = more]
        BY <3>2, <3>6
      <3>8. /\ enable' \in [Endpoints -> BOOLEAN] /\ enable'["RX"] = enable["RX"]
            /\ enable'["NO"] = more
        BY <3>7, <1>2 DEF Endpoints
      <3>9. /\ inBusy' \in [{"NO", "TX"} -> Nat] /\ inBusy'["NO"] \in 0 .. 1
            /\ inBusy'["TX"] = inBusy["TX"]
        BY <3>2, <1>2
      <3> QED
        BY <3>2, <3>5, <3>6, <3>8, <3>9
    <2>2. CASE ~ (enable["NO"] /\ InReady("NO"))
      BY <2>2, <1>2 DEF No, On
    <2> QED
      BY <2>1, <2>2
  <1>4. Typed'
    BY <1>2, <1>3 DEF IInv, Typed, TypeOK, RingTypeOK, No, ring, mainVars, rxVars, sending, hearing
  <1>5. (On("RX")' <=> On("RX")) /\ (On("NO")' <=> enable'["NO"])
    BY <1>2, <1>3 DEF On, Endpoints
  <1>6. Control'
    BY <1>2, <1>3, <1>5 DEF IInv, Control, No, ring, mainVars, rxVars, sending, hearing
  <1> QED
    BY <1>1, <1>4, <1>6 DEF IInv

LEMMA HostReadsKeeps ==
  ASSUME IInv, ~ aborted, NEW e \in {"NO", "TX"}, HostReads(e)
  PROVE  IInv'
  <1>1. Line' /\ Stock'
    BY IdleStep DEF HostReads, mainVars, isrVars, rxVars, sending, hearing
  <1>2. /\ inBusy \in [{"NO", "TX"} -> Nat] /\ inBusy["NO"] \in 0 .. 1
        /\ inBusy["TX"] \in 0 .. Banks /\ inBusy[e] > 0
        /\ inBusy' = [inBusy EXCEPT ![e] = @ - 1]
    BY DEF IInv, Typed, TypeOK, HostReads
  <1>3. /\ inBusy' \in [{"NO", "TX"} -> Nat] /\ inBusy'["NO"] \in 0 .. 1
        /\ inBusy'["TX"] \in 0 .. Banks /\ inBusy'["TX"] <= inBusy["TX"]
    BY <1>2, SizesFacts
  <1>4. Typed'
    BY <1>3 DEF IInv, Typed, TypeOK, RingTypeOK, HostReads, ring, mainVars, isrVars, rxVars, sending, hearing
  <1>5. isrPc = "txWrite" /\ inBusy["TX"] < Banks => inBusy'["TX"] < Banks
    BY <1>2, <1>3, SizesFacts
  <1>6. Control'
    BY <1>5 DEF IInv, Control, On, HostReads, ring, mainVars, isrVars, rxVars, sending, hearing
  <1> QED
    BY <1>1, <1>4, <1>6 DEF IInv

\* Nothing of the line is touched, so the receiver stays at its frame.
LEMMA SameFrame ==
  ASSUME IInv, UNCHANGED <<frames, hostLeft, outFifo, rx>>,
         isrPc' = isrPc \/ ({isrPc, isrPc'} \cap {"rxSpace", "rxRead"} = {})
  PROVE  Typed /\ Line /\ Line' /\ Current' = Current /\ Current \in Nat
  BY LineSame, CurrentFacts DEF IInv

LEMMA GetInputKeeps ==
  ASSUME IInv, ~ aborted, isrPc = "none", GetInput
  PROVE  IInv'
  <1>1. /\ Typed /\ Line' /\ Current' = Current /\ Control
    BY SameFrame DEF GetInput, IInv, isrVars, rxVars, hwVars, sending, hearing
  <1>2. PICK E \in SUBSET Headers : Whole(E)
    BY DEF IInv, Stock
  <1>3. /\ Stock' /\ OutputReader' \in Slots /\ InputReader' \in Slots
        /\ packet' \in Slots \cup {NULL} /\ UNCHANGED <<mem, NextWriter, aborted>>
        /\ OutputReader # NextWriter => OutputReader' # NextWriter'
    BY <1>1, <1>2, StockGetsInput
  <1>4. RingTypeOK'
    BY <1>1, <1>3 DEF Typed, TypeOK, RingTypeOK
  <1>5. Typed'
    BY <1>1, <1>3, <1>4 DEF Typed, TypeOK, GetInput, isrVars, rxVars, hwVars, sending, hearing
  <1>6. (On("RX")' <=> On("RX")) /\ (On("NO")' <=> On("NO"))
    BY DEF On, GetInput, isrVars, hwVars
  <1>7. Control'
    BY <1>1, <1>3, <1>6 DEF Control, GetInput, isrVars, rxVars, hwVars, sending, hearing
  <1> QED
    BY <1>1, <1>3, <1>5, <1>7 DEF IInv

LEMMA ResendKeeps ==
  ASSUME IInv, ~ aborted, isrPc = "none", Resend
  PROVE  IInv'
  <1>1. /\ Typed /\ Line' /\ Current' = Current /\ Current \in Nat /\ Control
    BY SameFrame DEF Resend, IInv, isrVars, rxVars, sending, hearing
  <1>2. PICK E \in SUBSET Headers : Whole(E)
    BY DEF IInv, Stock
  <1>3. packet # NULL
    BY <1>1 DEF Control, Resend
  <1>4. /\ Stock' /\ UNCHANGED <<NextWriter, OutputReader, aborted>>
        /\ mem' \in [Slots -> Word] /\ InputReader' \in Slots
        /\ tx.packet # NULL => mem'[tx.packet].val = mem[tx.packet].val
    BY <1>1, <1>2, <1>3, StockResends
  <1>5. RingTypeOK'
    BY <1>1, <1>4 DEF Typed, TypeOK, RingTypeOK
  <1>6. /\ int \in [Endpoints -> BOOLEAN] /\ enable \in [Endpoints -> BOOLEAN]
        /\ int' = [int EXCEPT !["TX"] = TRUE]
    BY <1>1 DEF Typed, TypeOK, Resend, USB_EnableTransmitter
  <1>7. int' \in [Endpoints -> BOOLEAN] /\ int'["RX"] = int["RX"] /\ int'["NO"] = int["NO"]
    BY <1>6 DEF Endpoints
  <1>8. Typed'
    BY <1>1, <1>5, <1>6, <1>7 DEF Typed, TypeOK, Resend, isrVars, rxVars, sending, hearing
  <1>9. (On("RX")' <=> On("RX")) /\ (On("NO")' <=> On("NO"))
    BY <1>7 DEF On, Resend, isrVars
  <1>10. configs # 0
    <2>1. configs = 0 => frames = << >>
      BY <1>1 DEF Control
    <2>2. PICK p \in E : mem[p].flag = "Input"
      BY <1>2, <1>3 DEF Whole, HeldIn
    <2>3. p \in Packets(E)
      BY <2>2 DEF Packets
    <2>4. stored[p] \in DOMAIN frames
      BY <2>3, <1>2 DEF Whole, Stocked
    <2>5. frames # << >>
      BY <2>4
    <2> QED
      BY <2>1, <2>5
  <1>11. Control'
    BY <1>1, <1>4, <1>9, <1>10 DEF Control, Resend, isrVars, rxVars, sending, hearing
  <1> QED
    BY <1>1, <1>4, <1>8, <1>11 DEF IInv

LEMMA TxGetKeeps ==
  ASSUME IInv, ~ aborted, TxGet
  PROVE  IInv'
  <1>1. /\ Typed /\ Control /\ Line' /\ Current' = Current /\ isrPc = "tx"
        /\ isrPc' \in {"rx", "txWrite"}
    <2>1. isrPc = "tx" /\ isrPc' \in {"rx", "txWrite"}
      BY DEF TxGet
    <2> QED
      BY <2>1, SameFrame DEF TxGet, IInv, rxVars, hwVars, sending, hearing
  <1>2. PICK E \in SUBSET Headers : Whole(E)
    BY DEF IInv, Stock
  <1>3. inBusy["TX"] < Banks
    BY DEF TxGet, InReady
  <1>4. CASE tx.packet # NULL
    <2>1. isrPc' = "txWrite" /\ UNCHANGED <<ring, enable, tx>>
      BY <1>4 DEF TxGet
    <2>2. Stock'
      BY <1>1, <2>1, IdleStep DEF TxGet, mainVars, rxVars, hwVars, sending, hearing
    <2>3. Typed'
      BY <1>1, <2>1 DEF Typed, TypeOK, RingTypeOK, TxGet, ring, mainVars, rxVars, hwVars, sending, hearing
    <2>4. Control'
      BY <1>1, <1>3, <1>4, <2>1 DEF Control, On, TxGet, ring, mainVars, rxVars, hwVars, sending, hearing
    <2> QED
      BY <1>1, <2>2, <2>3, <2>4 DEF IInv
  <1>5. CASE tx.packet = NULL
    <2>1. /\ Stock' /\ OutputReader' \in Slots /\ InputReader' \in Slots
          /\ UNCHANGED <<mem, NextWriter, aborted>>
          /\ OutputReader # NextWriter => OutputReader' # NextWriter'
      BY <1>1, <1>2, <1>5, StockGetsOutput
    <2>2. PICK r \in Slots \cup {NULL} :
            IF r = NULL
            THEN /\ enable' = [enable EXCEPT !["TX"] = FALSE] /\ isrPc' = "rx" /\ UNCHANGED tx
            ELSE /\ tx' = [packet |-> r, remaining |-> mem[r].val]
                 /\ isrPc' = "txWrite" /\ UNCHANGED enable /\ mem[r].val \in Nat
      BY <1>1, <1>2, <1>5, StockGetsOutput
    <2>3. /\ enable \in [Endpoints -> BOOLEAN] /\ int \in [Endpoints -> BOOLEAN]
          /\ tx \in [packet : Slots \cup {NULL}, remaining : Nat]
      BY <1>1 DEF Typed, TypeOK
    <2>4. /\ enable' \in [Endpoints -> BOOLEAN]
          /\ enable'["RX"] = enable["RX"] /\ enable'["NO"] = enable["NO"]
      BY <2>2, <2>3 DEF Endpoints
    <2>5. /\ tx' \in [packet : Slots \cup {NULL}, remaining : Nat]
          /\ tx'.packet = r
          /\ r # NULL => tx'.remaining = mem[r].val
          /\ isrPc' = "txWrite" <=> r # NULL
      BY <1>5, <2>2, <2>3
    <2>6. RingTypeOK'
      BY <1>1, <2>1 DEF Typed, TypeOK, RingTypeOK
    <2>7. Typed'
      BY <1>1, <2>3, <2>4, <2>5, <2>6 DEF Typed, TypeOK, TxGet, mainVars, rxVars, hwVars, sending, hearing
    <2>8. (On("RX")' <=> On("RX")) /\ (On("NO")' <=> On("NO"))
      BY <1>1, <2>4 DEF On, TxGet, hwVars
    <2>9. hostGot = 0 /\ configs # 0
      BY <1>1, <1>5 DEF Control
    <2>10. IF tx'.packet = NULL THEN hostGot' = 0
           ELSE tx'.remaining + hostGot' = mem'[tx'.packet].val
      <3>1. hostGot' = 0
        BY <2>9 DEF TxGet, hearing
      <3>2. tx'.packet # NULL => tx'.remaining = mem'[tx'.packet].val /\ tx'.remaining \in Nat
        BY <2>1, <2>5
      <3> QED
        BY <3>1, <3>2
    <2>11. Control'
      BY <1>1, <1>3, <2>1, <2>5, <2>8, <2>9, <2>10
         DEF Control, TxGet, mainVars, rxVars, hwVars, sending, hearing
    <2> QED
      BY <1>1, <2>1, <2>7, <2>11 DEF IInv
  <1> QED
    BY <1>4, <1>5

LEMMA TxWriteKeeps ==
  ASSUME IInv, ~ aborted, TxWrite
  PROVE  IInv'
  <1>1. /\ Typed /\ Control /\ Line' /\ Current' = Current /\ Current \in Nat
        /\ isrPc = "txWrite" /\ isrPc' = "rx"
    <2>1. isrPc = "txWrite" /\ isrPc' = "rx"
      BY DEF TxWrite
    <2> QED
      BY <2>1, SameFrame DEF TxWrite, IInv, rxVars, sending
  <1>2. PICK E \in SUBSET Headers : Whole(E)
    BY DEF IInv, Stock
  <1>3. /\ tx \in [packet : Slots \cup {NULL}, remaining : Nat] /\ tx.packet # NULL
        /\ tx.remaining + hostGot = mem[tx.packet].val /\ hostGot \in Nat
        /\ enable \in [Endpoints -> BOOLEAN] /\ int \in [Endpoints -> BOOLEAN]
        /\ inBusy \in [{"NO", "TX"} -> Nat] /\ inBusy["NO"] \in 0 .. 1 /\ inBusy["TX"] < Banks
        /\ inBusy' = [inBusy EXCEPT !["TX"] = @ + 1] /\ configs # 0
    BY <1>1 DEF Typed, TypeOK, Control, TxWrite
  <1>4. /\ inBusy' \in [{"NO", "TX"} -> Nat] /\ inBusy'["NO"] \in 0 .. 1
        /\ inBusy'["TX"] \in 0 .. Banks
    BY <1>3, SizesFacts
  <1>5. UNCHANGED <<mainPc, SE, packet, rx, stored, ConnectionStateIndex, int, outFifo, configs,
                    frames, hostLeft>>
    BY DEF TxWrite, mainVars, rxVars, sending
  <1>6. CASE IsLast(tx.remaining)
    <2>1. /\ HostHears(tx.remaining) /\ Packet_ReleaseOutput(tx.packet)
          /\ tx' = [packet |-> NULL, remaining |-> 0]
          /\ enable' = [enable EXCEPT !["RX"] = TRUE]
      BY <1>6 DEF TxWrite, AllowReceiving
    <2>2. PICK e : e = [frame |-> stored[tx.packet], len |-> mem[tx.packet].val]
      OBVIOUS
    <2>3. hostGot' = 0 /\ echoed' = Append(echoed, e)
      <3>1. hostGot + tx.remaining = mem[tx.packet].val
        BY <1>3
      <3>2. /\ hostGot' = 0
            /\ echoed' = Append(echoed, [frame |-> stored[tx.packet], len |-> hostGot + tx.remaining])
        BY <2>1, <1>6 DEF HostHears, IsLast
      <3> QED
        BY <3>1, <3>2, <2>2
    <2>4. /\ Stock' /\ OutputReader' \in Slots /\ InputReader' \in Slots
          /\ UNCHANGED <<mem, NextWriter, aborted>>
          /\ echoed' \in Seq([frame : Nat, len : Nat])
      <3>1. tx'.packet = NULL /\ UNCHANGED <<rx, stored, frames, packet, mainPc, SE>>
        BY <2>1, <1>5
      <3> QED
        BY <3>1, <1>1, <1>2, <1>3, <2>1, <2>2, <2>3, StockReleases
    <2>5. /\ enable' \in [Endpoints -> BOOLEAN] /\ enable'["RX"] /\ enable'["NO"] = enable["NO"]
      BY <2>1, <1>3 DEF Endpoints
    <2>6. tx' \in [packet : Slots \cup {NULL}, remaining : Nat] /\ tx'.packet = NULL
      BY <2>1
    <2>7. RingTypeOK'
      BY <1>1, <2>4 DEF Typed, TypeOK, RingTypeOK
    <2>8. Typed'
      BY <1>1, <1>3, <1>4, <1>5, <2>3, <2>4, <2>5, <2>6, <2>7 DEF Typed, TypeOK
    <2>9. On("RX")' /\ (On("NO")' <=> On("NO"))
      BY <1>1, <1>5, <2>5 DEF On
    <2>10. Control'
      BY <1>1, <1>3, <1>5, <2>3, <2>4, <2>6, <2>9 DEF Control
    <2> QED
      BY <1>1, <2>4, <2>8, <2>10 DEF IInv
  <1>7. CASE ~ IsLast(tx.remaining)
    <2>1. /\ HostHears(EpSize) /\ UNCHANGED <<ring, enable>>
          /\ tx' = [tx EXCEPT !.remaining = @ - EpSize]
      BY <1>7 DEF TxWrite
    <2>2. hostGot' = hostGot + EpSize /\ UNCHANGED echoed
      BY <2>1, SizesFacts DEF HostHears
    <2>3. tx.remaining - EpSize \in Nat /\ hostGot' \in Nat
      BY <1>3, <1>7, <2>2, SizesFacts DEF IsLast
    <2>4. /\ tx' \in [packet : Slots \cup {NULL}, remaining : Nat]
          /\ tx'.packet = tx.packet /\ tx'.remaining = tx.remaining - EpSize
      BY <2>1, <2>3, <1>3
    <2>5. UNCHANGED <<mem, NextWriter, InputReader, OutputReader, aborted>>
      BY <2>1 DEF ring
    <2>6. Stock'
      <3>1. tx.packet = tx'.packet /\ rx'.packet = rx.packet
        BY <2>4, <1>5
      <3>2. /\ \A n \in DOMAIN frames : n \in DOMAIN frames' /\ frames'[n] = frames[n]
            /\ \A n \in DOMAIN frames' : n \in Nat /\ (n < Current' => n \in DOMAIN frames)
        BY <1>1, <1>5, SentFacts
      <3>3. UNCHANGED <<mem, NextWriter, InputReader, OutputReader, stored, echoed, packet>>
        BY <1>5, <2>2, <2>5
      <3> QED
        BY <3>1, <3>2, <3>3, <1>1, <1>2, <1>5, StockSame
    <2>7. Typed'
      BY <1>1, <1>4, <1>5, <2>1, <2>2, <2>3, <2>4, <2>5 DEF Typed, TypeOK, RingTypeOK
    <2>8. tx'.remaining + hostGot' = mem'[tx'.packet].val
      <3>1. tx.remaining - EpSize + (hostGot + EpSize) = tx.remaining + hostGot
        BY <1>3, SizesFacts
      <3> QED
        BY <3>1, <1>3, <2>2, <2>4, <2>5
    <2>9. Control'
      BY <1>1, <1>3, <1>5, <2>1, <2>4, <2>5, <2>8 DEF Control, On
    <2> QED
      BY <1>1, <2>6, <2>7, <2>9 DEF IInv
  <1> QED
    BY <1>6, <1>7

LEMMA RxContinueKeeps ==
  ASSUME IInv, ~ aborted, RxContinue
  PROVE  IInv'
  <1>1. /\ Typed /\ Control /\ Line' /\ Current' = Current /\ Current \in Nat
    BY LineContinues, CurrentFacts DEF IInv
  <1>2. PICK E \in SUBSET Headers : Whole(E)
    BY DEF IInv, Stock
  <1>3. /\ isrPc = "rx" /\ isrPc' \in {"rxRead", "rxSpace"} /\ rx' = [rx EXCEPT !.last = last]
        /\ UNCHANGED <<ring, mainPc, SE, packet, enable, tx, stored, ConnectionStateIndex, int,
                       inBusy, outFifo, configs, frames, hostLeft, hostGot, echoed>>
    BY DEF RxContinue, mainVars, hwVars, sending, hearing
  <1>4. rx' \in Receiver /\ rx'.packet = rx.packet
    <2>1. rx \in Receiver
      BY <1>1 DEF Typed, TypeOK, Receiver
    <2>2. last \in BOOLEAN
      <3>1. rx.last \in BOOLEAN
        BY <2>1 DEF Receiver
      <3>2. CASE rx.state = "NEEDSPACE"
        BY <3>1, <3>2 DEF last
      <3>3. CASE rx.state # "NEEDSPACE"
        <4>1. last = (usbLen < EpSize)
          BY <3>3 DEF last
        <4> QED
          BY <4>1
      <3> QED
        BY <3>2, <3>3
    <2> QED
      BY <2>1, <2>2, <1>3 DEF Receiver
  <1>5. Stock'
    <2>1. /\ tx'.packet = tx.packet /\ UNCHANGED <<mem, NextWriter, InputReader, OutputReader, stored, echoed, packet>>
      BY <1>3 DEF ring
    <2>2. /\ \A n \in DOMAIN frames : n \in DOMAIN frames' /\ frames'[n] = frames[n]
          /\ \A n \in DOMAIN frames' : n \in Nat /\ (n < Current' => n \in DOMAIN frames)
      BY <1>1, <1>3, SentFacts
    <2> QED
      BY <2>1, <2>2, <1>1, <1>2, <1>3, <1>4, StockSame
  <1>6. Typed'
    BY <1>1, <1>3, <1>4 DEF Typed, TypeOK, RingTypeOK, ring, Receiver
  <1>7. Control'
    BY <1>1, <1>3 DEF Control, On, ring
  <1> QED
    BY <1>1, <1>5, <1>6, <1>7 DEF IInv

LEMMA RxCheckKeeps ==
  ASSUME NoneEndsEarly, IInv, ~ aborted, RxCheck
  PROVE  IInv'
  <1>1. Typed /\ Control /\ Line /\ Current \in Nat
    BY CurrentFacts DEF IInv
  <1>2. PICK E \in SUBSET Headers : Whole(E)
    BY DEF IInv, Stock
  <1>3. /\ Line' /\ rx.packet = NULL /\ rx'.packet = NULL /\ UNCHANGED <<frames, hostLeft>>
        /\ Current' = Current \/ (Current' = Current + 1 /\ ~ Accepted(frames[Current]))
        /\ rx' \in Receiver
        /\ outFifo' \in Seq([frame : Nat, claim : Nat, len : Nat]) /\ Len(outFifo') <= Banks
    BY <1>1, LineBegins
  <1>4. /\ isrPc = "rx" /\ isrPc' \in {"rxRead", "rxSpace", "no"}
        /\ UNCHANGED <<ring, mainPc, SE, packet, enable, tx, stored, ConnectionStateIndex, int,
                       inBusy, configs, frames, hostLeft, hostGot, echoed>>
    BY DEF RxCheck, mainVars, sending, hearing
  <1>5. Stock'
    <2>1. /\ tx'.packet = tx.packet /\ UNCHANGED <<mem, NextWriter, InputReader, OutputReader, stored, echoed, packet>>
      BY <1>4 DEF ring
    <2>2. /\ \A n \in DOMAIN frames : n \in DOMAIN frames' /\ frames'[n] = frames[n]
          /\ \A n \in DOMAIN frames' : n \in Nat /\ (n < Current' => n \in DOMAIN frames)
      BY <1>1, <1>3, SentFacts
    <2> QED
      BY <2>1, <2>2, <1>1, <1>2, <1>3, <1>4, StockSame
  <1>6. Typed'
    BY <1>1, <1>3, <1>4 DEF Typed, TypeOK, RingTypeOK, ring, Receiver
  <1>7. Control'
    BY <1>1, <1>4 DEF Control, On, ring
  <1> QED
    BY <1>3, <1>5, <1>6, <1>7 DEF IInv

LEMMA RxSpaceKeeps ==
  ASSUME IInv, ~ aborted, RxSpace
  PROVE  IInv'
  <1>1. Typed /\ Control /\ Line /\ Stock /\ isrPc = "rxSpace"
    BY DEF IInv, RxSpace
  <1>2. /\ Line' /\ Stock' /\ Current' = Current /\ UNCHANGED <<frames, hostLeft, outFifo>>
        /\ rx' \in Receiver /\ RingTypeOK' /\ stored' \in [Slots -> 0 .. MaxFrames]
        /\ tx.packet # NULL => mem'[tx.packet].val = mem[tx.packet].val
        /\ aborted' \/ OutputReader' # NextWriter'
        /\ \/ enable' = [enable EXCEPT !["RX"] = FALSE] /\ isrPc' = "no"
           \/ UNCHANGED <<enable, aborted>> /\ isrPc' = "rxRead"
    BY <1>1, StockSpace
  <1>3. UNCHANGED <<mainPc, SE, packet, tx, ConnectionStateIndex, int, inBusy, outFifo, configs,
                    frames, hostLeft, hostGot, echoed>>
    BY DEF RxSpace, mainVars, hwVars, sending, hearing
  <1>4. enable' \in [Endpoints -> BOOLEAN] /\ enable'["NO"] = enable["NO"]
    <2>1. enable \in [Endpoints -> BOOLEAN]
      BY <1>1 DEF Typed, TypeOK
    <2> QED
      BY <2>1, <1>2 DEF Endpoints
  <1>5. Typed'
    BY <1>1, <1>2, <1>3, <1>4 DEF Typed, TypeOK, Receiver
  <1>6. On("NO")' <=> On("NO")
    BY <1>1, <1>2, <1>3, <1>4 DEF On
  <1>7. Control'
    BY <1>1, <1>2, <1>3, <1>6 DEF Control
  <1> QED
    BY <1>2, <1>5, <1>7 DEF IInv

LEMMA RxReadKeeps ==
  ASSUME IInv, ~ aborted, RxRead
  PROVE  IInv'
  <1>1. /\ Typed /\ Control /\ Line /\ Current \in Nat /\ isrPc = "rxRead" /\ isrPc' = "no"
        /\ rx.last \in BOOLEAN
    BY CurrentFacts DEF IInv, RxRead, Typed, TypeOK
  <1>2. PICK E \in SUBSET Headers : Whole(E)
    BY DEF IInv, Stock
  <1>3. /\ Line' /\ UNCHANGED <<frames, hostLeft>>
        /\ rx' \in Receiver
        /\ Current \in DOMAIN frames
        /\ Current' = Current + (IF rx.last THEN 1 ELSE 0)
        /\ rx'.packet = IF rx.last THEN NULL ELSE rx.packet
        /\ rx.packet = NULL => ~ Accepted(frames[Current])
        /\ IF ~ rx.last \/ rx.packet = NULL
           THEN UNCHANGED <<ring, SE>>
           ELSE Packet_PutInput(rx.packet) /\ SE' = FALSE
        /\ outFifo' \in Seq([frame : Nat, claim : Nat, len : Nat]) /\ Len(outFifo') <= Banks
    BY <1>1, LineReads
  <1>4. UNCHANGED <<mainPc, packet, enable, tx, stored, ConnectionStateIndex, int, inBusy, configs,
                    frames, hostLeft, hostGot, echoed>>
    BY DEF RxRead, sending, hearing
  <1>5. CASE ~ rx.last \/ rx.packet = NULL
    <2>1. UNCHANGED <<mem, NextWriter, InputReader, OutputReader, aborted, SE>>
      BY <1>3, <1>5 DEF ring
    <2>2. /\ rx'.packet = rx.packet
          /\ Current' = Current
               \/ (Current' = Current + 1 /\ rx.packet = NULL /\ ~ Accepted(frames[Current]))
      BY <1>1, <1>3, <1>5
    <2>3. Stock'
      <3>1. /\ tx'.packet = tx.packet
            /\ UNCHANGED <<mem, NextWriter, InputReader, OutputReader, stored, echoed, packet>>
        BY <1>4, <2>1
      <3>2. /\ \A n \in DOMAIN frames : n \in DOMAIN frames' /\ frames'[n] = frames[n]
            /\ \A n \in DOMAIN frames' : n \in Nat /\ (n < Current' => n \in DOMAIN frames)
        BY <1>1, <1>3, <2>2, SentFacts
      <3> QED
        BY <3>1, <3>2, <2>1, <2>2, <1>1, <1>2, <1>4, StockSame
    <2>4. Typed'
      BY <1>1, <1>3, <1>4, <2>1 DEF Typed, TypeOK, RingTypeOK, Receiver
    <2>5. Control'
      BY <1>1, <1>4, <2>1 DEF Control, On
    <2> QED
      BY <1>3, <2>3, <2>4, <2>5 DEF IInv
  <1>6. CASE rx.last /\ rx.packet # NULL
    <2>1. Packet_PutInput(rx.packet) /\ SE' = FALSE /\ rx'.packet = NULL /\ Current' = Current + 1
      BY <1>3, <1>6
    <2>2. /\ Stock' /\ UNCHANGED <<NextWriter, InputReader, OutputReader, aborted>>
          /\ mem' \in [Slots -> Word]
          /\ tx.packet # NULL => mem'[tx.packet].val = mem[tx.packet].val
      BY <1>1, <1>2, <1>4, <1>6, <2>1, StockPuts
    <2>3. RingTypeOK'
      BY <1>1, <2>2 DEF Typed, TypeOK, RingTypeOK
    <2>4. Typed'
      BY <1>1, <1>3, <1>4, <2>1, <2>3 DEF Typed, TypeOK, Receiver
    <2>5. mainPc # "asleep"
      BY <1>1 DEF Control
    <2>6. Control'
      BY <1>1, <1>4, <2>1, <2>2, <2>5 DEF Control, On
    <2> QED
      BY <1>3, <2>2, <2>4, <2>6 DEF IInv
  <1> QED
    BY <1>5, <1>6, <1>1

LEMMA ConfigurationKeeps ==
  ASSUME MaxConfigs <= 1, IInv, ~ aborted, ConfigurationChanged
  PROVE  IInv'
  <1>1. configs = 0 /\ configs' = 1 /\ MaxConfigs = 1
    <2>1. configs \in 0 .. MaxConfigs /\ configs < MaxConfigs /\ configs' = configs + 1
      BY DEF IInv, Typed, TypeOK, ConfigurationChanged
    <2> QED
      BY <2>1, SizesFacts
  <1>2. outFifo = << >> /\ hostLeft = NULL /\ hostGot = 0 /\ isrPc = "none" /\ tx.packet = NULL
    BY <1>1 DEF IInv, Control
  <1>3. /\ UNCHANGED <<ring, SE, packet, isrPc, enable, tx, rx, stored, frames, echoed>>
        /\ outFifo' = outFifo /\ hostLeft' = hostLeft /\ hostGot' = 0
        /\ int' = [e \in Endpoints |-> TRUE] /\ ConnectionStateIndex' = 2
        /\ inBusy' = [NO |-> 0, TX |-> 0]
        /\ mainPc' = IF mainPc = "asleep" THEN "enable" ELSE mainPc
    BY <1>2 DEF ConfigurationChanged, isrVars, rxVars, Awake
  <1>4. Line' /\ Stock'
    BY <1>3, IdleStep
  <1>5. /\ inBusy' \in [{"NO", "TX"} -> Nat] /\ inBusy'["NO"] \in 0 .. 1
        /\ inBusy'["TX"] \in 0 .. Banks
    BY <1>3, SizesFacts
  <1>6. Typed'
    BY <1>1, <1>3, <1>5 DEF IInv, Typed, TypeOK, RingTypeOK, ring
  <1>7. On("RX")'
    BY <1>3 DEF On, Endpoints
  <1>8. Control'
    BY <1>1, <1>2, <1>3, <1>7 DEF IInv, Control, ring
  <1> QED
    BY <1>4, <1>6, <1>8 DEF IInv

LEMMA HostSendsKeeps ==
  ASSUME IInv, ~ aborted, HostBegins \/ HostContinues
  PROVE  IInv'
  <1>1. Typed /\ Control /\ Line /\ Current \in Nat /\ Current <= Len(frames) + 1
    BY CurrentFacts DEF IInv
  <1>2. PICK E \in SUBSET Headers : Whole(E)
    BY DEF IInv, Stock
  <1>3. Line' /\ Current' = Current
    BY <1>1, LineGrows
  <1>4. PICK f \in Frames, left \in Nat, n \in Nat :
           /\ frames' \in Seq(Frames) /\ Len(frames') = HostNumber
           /\ \A k \in DOMAIN frames : k \in DOMAIN frames' /\ frames'[k] = frames[k]
           /\ n = (IF left < EpSize THEN left ELSE EpSize)
           /\ Len(outFifo) < Banks
           /\ outFifo' = Append(outFifo, [frame |-> HostNumber, claim |-> f.claim, len |-> n])
           /\ hostLeft' = IF n < EpSize THEN NULL ELSE left - n
           /\ Len(frames') <= MaxFrames
    BY <1>1, HostSends
  <1>5. UNCHANGED <<ring, mainPc, SE, packet, isrPc, enable, tx, rx, stored, ConnectionStateIndex,
                    int, inBusy, configs, hostGot, echoed>>
    BY DEF HostBegins, HostContinues, mainVars, isrVars, rxVars, hearing
  <1>6. configs # 0
    <2>1. CASE HostBegins
      BY <2>1 DEF HostBegins
    <2>2. CASE HostContinues
      BY <2>2, <1>1 DEF HostContinues, Control
    <2> QED
      BY <2>1, <2>2
  <1>7. Stock'
    <2>1. /\ tx'.packet = tx.packet /\ rx'.packet = rx.packet
          /\ UNCHANGED <<mem, NextWriter, InputReader, OutputReader, stored, echoed, packet>>
      BY <1>5 DEF ring
    <2>2. \A k \in DOMAIN frames : k \in DOMAIN frames' /\ frames'[k] = frames[k]
      BY <1>4
    <2>3. \A k \in DOMAIN frames' : k \in Nat /\ (k < Current' => k \in DOMAIN frames)
      <3>1. \A k \in DOMAIN frames' : k \in Nat /\ 1 <= k
        BY <1>4
      <3>2. DOMAIN frames = 1 .. Len(frames) /\ Len(frames) \in Nat
        BY <1>1, SentFacts
      <3> QED
        BY <3>1, <3>2, <1>1, <1>3
    <2> QED
      BY <2>1, <2>2, <2>3, <1>1, <1>2, <1>3, <1>5, StockSame
  <1>8. outFifo' \in Seq([frame : Nat, claim : Nat, len : Nat]) /\ Len(outFifo') <= Banks
    <2>1. PICK new : new = [frame |-> HostNumber, claim |-> f.claim, len |-> n]
      OBVIOUS
    <2>2. new \in [frame : Nat, claim : Nat, len : Nat]
      <3>1. HostNumber \in Nat /\ f.claim \in Nat /\ n \in Nat
        BY <1>1, <1>4, SentFacts, FrameFacts
      <3> QED
        BY <3>1, <2>1
    <2>3. outFifo \in Seq([frame : Nat, claim : Nat, len : Nat]) /\ Len(outFifo) < Banks
          /\ outFifo' = Append(outFifo, new)
      BY <1>1, <1>4, <2>1 DEF Typed
    <2> QED
      BY <2>2, <2>3, AppendProperties, LenProperties, SizesFacts
  <1>9. hostLeft' \in Nat \cup {NULL}
    BY <1>4, SizesFacts
  <1>10. Typed'
    <2>1. /\ frames' \in Seq(Frames) /\ Len(frames') <= MaxFrames
      BY <1>4
    <2>2. TypeOK'
      <3>1. RingTypeOK'
        BY <1>1, <1>5 DEF Typed, TypeOK, RingTypeOK, ring
      <3>2. /\ UNCHANGED <<mainPc, SE, packet, isrPc, enable, tx, rx, stored, ConnectionStateIndex,
                           int, inBusy, configs>>
            /\ Len(outFifo') <= Banks /\ Len(frames') <= MaxFrames
        BY <1>5, <1>8, <2>1
      <3> QED
        BY <1>1, <3>1, <3>2 DEF Typed, TypeOK
    <2> QED
      BY <1>1, <1>5, <1>8, <1>9, <2>1, <2>2 DEF Typed
  <1>11. Control'
    BY <1>1, <1>5, <1>6 DEF Control, On, ring
  <1> QED
    BY <1>3, <1>7, <1>10, <1>11 DEF IInv

LEMMA StutterKeeps ==
  ASSUME IInv, UNCHANGED vars
  PROVE  IInv'
  <1>1. UNCHANGED <<ring, mainPc, SE, packet, isrPc, enable, tx, rx, stored, ConnectionStateIndex,
                    int, inBusy, outFifo, configs, frames, hostLeft, hostGot, echoed>>
    BY DEF vars, mainVars, isrVars, rxVars, hwVars, sending, hearing
  <1>2. Line' /\ Stock'
    BY <1>1, IdleStep
  <1>3. Typed'
    BY <1>1 DEF IInv, Typed, TypeOK, RingTypeOK, ring
  <1>4. Control'
    BY <1>1 DEF IInv, Control, On, ring
  <1> QED
    BY <1>2, <1>3, <1>4 DEF IInv

LEMMA StepKeeps ==
  ASSUME NoneEndsEarly, MaxConfigs <= 1, IInv, [Next]_vars
  PROVE  IInv'
  <1>1. CASE UNCHANGED vars
    BY <1>1, StutterKeeps
  <1>2. CASE ~ aborted /\ Main
    BY <1>2, SleepEnableKeeps, GetInputKeeps, ResendKeeps, SleepCpuKeeps DEF Main
  <1>3. CASE ~ aborted /\ Tick
    BY <1>3, TickKeeps
  <1>4. CASE ~ aborted /\ Enter
    BY <1>4, EnterKeeps
  <1>5. CASE ~ aborted /\ Handler
    <2>1. CASE TxSkip \/ TxGet \/ TxWrite
      BY <1>5, <2>1, TxSkipKeeps, TxGetKeeps, TxWriteKeeps
    <2>2. CASE RxSkip \/ RxContinue \/ RxCheck \/ RxSpace \/ RxRead
      BY <1>5, <2>2, RxSkipKeeps, RxContinueKeeps, RxCheckKeeps, RxSpaceKeeps, RxReadKeeps
    <2>3. CASE No \/ Exit
      BY <1>5, <2>3, NoKeeps, ExitKeeps
    <2> QED
      BY <2>1, <2>2, <2>3, <1>5 DEF Handler
  <1>6. CASE ~ aborted /\ ConfigurationChanged
    BY <1>6, ConfigurationKeeps
  <1>7. CASE ~ aborted /\ (HostBegins \/ HostContinues)
    BY <1>7, HostSendsKeeps
  <1>8. CASE ~ aborted /\ \E e \in {"NO", "TX"} : HostReads(e)
    BY <1>8, HostReadsKeeps
  <1> QED
    BY <1>1, <1>2, <1>3, <1>4, <1>5, <1>6, <1>7, <1>8 DEF Next, Step

\* The invariant holds in every state the device reaches.
LEMMA Invariance ==
  ASSUME NoneEndsEarly, MaxConfigs <= 1
  PROVE  Spec => []IInv
  <1>1. IInv /\ [Next]_vars => IInv'
    BY StepKeeps
  <1> QED
    BY <1>1, InitIInv, PTL DEF Spec

-----------------------------------------------------------------------------
(* What the invariant says about the device.                               *)

\* Main loop, handler, receiver and ring keep their types under every
\* interleaving: no length underflows and no cursor leaves the ring.
THEOREM TypeCorrect ==
  ASSUME NoneEndsEarly, MaxConfigs <= 1
  PROVE  Spec => []TypeOK
  <1>1. IInv => TypeOK
    BY DEF IInv, Typed
  <1> QED
    BY <1>1, Invariance, PTL

LEMMA OrderKept == IInv => EchoesInOrder
  <1> SUFFICES ASSUME IInv, NEW i \in DOMAIN echoed, NEW n, n = echoed[i].frame
               PROVE  /\ n \in DOMAIN frames /\ Accepted(frames[n])
                      /\ echoed[i].len = frames[n].claim
                      /\ \A j \in 1 .. (i - 1) : echoed[j].frame < n
                      /\ \A m \in 1 .. (n - 1) : Accepted(frames[m]) =>
                           \E j \in 1 .. (i - 1) : echoed[j].frame = m
    BY DEF EchoesInOrder
  <1>1. PICK E \in SUBSET Headers : Whole(E)
    BY DEF IInv, Stock
  <1>2. Returned(E) /\ Typed /\ E \subseteq Slots
    BY <1>1 DEF Whole, IInv, Headers
  <1>3. /\ n \in DOMAIN frames /\ Accepted(frames[n]) /\ n < Current
        /\ echoed[i].len = frames[n].claim
        /\ \A j \in 1 .. (i - 1) : echoed[j].frame < n
        /\ \A p \in Packets(E) : n < stored[p]
    BY <1>2 DEF Returned
  <1>4. /\ Len(echoed) \in Nat /\ DOMAIN echoed = 1 .. Len(echoed) /\ Current \in Nat /\ n \in Nat
        /\ \A k \in DOMAIN echoed : echoed[k].frame \in Nat
        /\ \A p \in Slots : stored[p] \in Nat
        /\ DOMAIN frames = 1 .. Len(frames) /\ Len(frames) \in Nat /\ n <= Len(frames)
    BY <1>2, <1>3, StockFacts, SentFacts, CurrentFacts DEF IInv
  <1>5. ASSUME NEW m \in 1 .. (n - 1), Accepted(frames[m])
        PROVE  \E j \in 1 .. (i - 1) : echoed[j].frame = m
    <2>1. m \in DOMAIN frames /\ m < Current /\ m \in Nat /\ m < n
      BY <1>3, <1>4
    <2>2. ~ \E p \in Packets(E) : stored[p] = m
      <3> SUFFICES ASSUME NEW p \in Packets(E), stored[p] = m PROVE FALSE
        OBVIOUS
      <3> QED
        BY <1>3, <1>4, <2>1
    <2>3. PICK k \in DOMAIN echoed : echoed[k].frame = m
      BY <1>2, <1>5, <2>1, <2>2 DEF Returned
    <2>4. ~ (k >= i)
      <3>1. CASE k = i
        BY <3>1, <2>1, <2>3, <1>4
      <3>2. CASE k > i
        <4>1. i \in 1 .. (k - 1)
          BY <3>2, <1>4
        <4>2. echoed[i].frame < echoed[k].frame
          BY <4>1, <1>2 DEF Returned
        <4> QED
          BY <4>2, <2>1, <2>3, <1>4
      <3> QED
        BY <3>1, <3>2, <1>4
    <2>5. k \in 1 .. (i - 1)
      BY <2>4, <1>4
    <2> QED
      BY <2>3, <2>5
  <1> QED
    BY <1>3, <1>5

\* Every accepted frame comes back once and in order, with its own bytes and
\* its own length, although receiving, processing and sending share one ring
\* and interleave freely: nothing is lost, doubled, mixed up or overtaken.
THEOREM FramesComeBackInOrder ==
  ASSUME NoneEndsEarly, MaxConfigs <= 1
  PROVE  Spec => []EchoesInOrder
  BY OrderKept, Invariance, PTL

LEMMA InputWakes == IInv => NeverSleepsOnInput
  <1> SUFFICES ASSUME IInv, mainPc = "asleep", NEW in \in Stops(PassedByInput, InputReader)
               PROVE  mem[in].flag # "Input"
    BY DEF NeverSleepsOnInput
  <1>1. PICK E \in SUBSET Headers : Whole(E)
    BY DEF IInv, Stock
  <1>2. /\ RingTypeOK /\ Chain(E) /\ Resting(E) /\ SE
        /\ InputReader \in E \cup {NextWriter} /\ mem[NextWriter] = EndMark
    BY <1>1 DEF Whole, IInv, Typed, TypeOK, Control, Chain
  <1>3. "EndOfRing" \notin PassedByInput
    BY DEF PassedByInput, PassedByOutput
  <1>4. in \in E \cup {NextWriter}
    BY <1>2, <1>3, WalkStays
  <1>5. \A p \in E : mem[p].flag # "Input"
    BY <1>2 DEF Resting
  <1>6. mem[NextWriter].flag # "Input"
    BY <1>2 DEF EndMark
  <1> QED
    BY <1>4, <1>5, <1>6

\* Between the check for input and the sleep instruction no interrupt slips in
\* unnoticed: the processor never sleeps on a packet it has to process.
THEOREM NeverSleepsOnWork ==
  ASSUME NoneEndsEarly, MaxConfigs <= 1
  PROVE  Spec => []NeverSleepsOnInput
  BY InputWakes, Invariance, PTL

\* Receiving that was switched off for want of space stays off only while there
\* is a packet whose sending will switch it on: an empty ring cannot block it.
THEOREM ReceivingComesBack ==
  ASSUME NoneEndsEarly, MaxConfigs <= 1
  PROVE  Spec => []OffOnlyWhileFull
  <1>1. IInv => OffOnlyWhileFull
    BY DEF IInv, Control, On, OffOnlyWhileFull
  <1> QED
    BY <1>1, Invariance, PTL

-----------------------------------------------------------------------------
(* The rules of the packet buffer.                                         *)

LEMMA RulesOfRing ==
  /\ \A len, r : Packet_New(len, r) <=> Clients!Packet_New(len, r)
  /\ \A p : Packet_PutInput(p) <=> Clients!Packet_PutInput(p)
  /\ \A r : Packet_GetInput(r) <=> Clients!Packet_GetInput(r)
  /\ \A r : Packet_GetOutput(r) <=> Clients!Packet_GetOutput(r)
  /\ \A p : Packet_ReattachOutput(p) <=> Clients!Packet_ReattachOutput(p)
  /\ \A p : Packet_ReleaseOutput(p) <=> Clients!Packet_ReleaseOutput(p)
  /\ RingInit <=> Clients!RingInit
  /\ Clients!ring = ring /\ Clients!Slots = Slots
  <1>1. /\ \A p : packetEnd(p) = Clients!packetEnd(p)
        /\ \A p : following(p) = Clients!following(p)
        /\ \A p, len : getNextPacket(p, len) = Clients!getNextPacket(p, len)
        /\ Clients!ring = ring /\ Clients!Slots = Slots
        /\ PassedByInput = Clients!PassedByInput /\ PassedByOutput = Clients!PassedByOutput
    BY DEF packetEnd, Clients!packetEnd, following, Clients!following,
           getNextPacket, Clients!getNextPacket, Units, Clients!Units,
           ring, Clients!ring, Slots, Clients!Slots,
           PassedByInput, Clients!PassedByInput, PassedByOutput, Clients!PassedByOutput
  <1>2. /\ \A F : Skipped(F) = Clients!Skipped(F)
        /\ \A V, F, from : Closed(V, F, from) <=> Clients!Closed(V, F, from)
    BY <1>1 DEF Skipped, Clients!Skipped, Closed, Clients!Closed
  <1>3. \A F, from : Passed(F, from) = Clients!Passed(F, from)
    BY <1>1, <1>2 DEF Passed, Clients!Passed
  <1>4. \A F, from : Stops(F, from) = Clients!Stops(F, from)
    BY <1>1, <1>3 DEF Stops, Clients!Stops
  <1>5. \A r : Packet_GetInput(r) <=> Clients!Packet_GetInput(r)
    BY <1>1, <1>4 DEF Packet_GetInput, Clients!Packet_GetInput
  <1>6. \A r : Packet_GetOutput(r) <=> Clients!Packet_GetOutput(r)
    BY <1>1, <1>3, <1>4 DEF Packet_GetOutput, Clients!Packet_GetOutput
  <1>7. \A p : Packet_PutInput(p) <=> Clients!Packet_PutInput(p)
    BY DEF Packet_PutInput, Clients!Packet_PutInput, SetFlag, Clients!SetFlag,
           AssertFails, Clients!AssertFails
  <1>8. \A p : Packet_ReattachOutput(p) <=> Clients!Packet_ReattachOutput(p)
    BY <1>1 DEF Packet_ReattachOutput, Clients!Packet_ReattachOutput, AssertFails, Clients!AssertFails
  <1>9. \A p : Packet_ReleaseOutput(p) <=> Clients!Packet_ReleaseOutput(p)
    BY <1>1 DEF Packet_ReleaseOutput, Clients!Packet_ReleaseOutput
  <1>10. RingInit <=> Clients!RingInit
    BY <1>1 DEF RingInit, Clients!RingInit, EndMark, Clients!EndMark
  <1>11. \A m, w, len : Written(m, w, len) = Clients!Written(m, w, len)
    BY <1>1 DEF Written, Clients!Written, Unfinished, Clients!Unfinished, Data, Clients!Data,
                EndMark, Clients!EndMark
  <1>12. \A m, w, len : Store(m, w, len) <=> Clients!Store(m, w, len)
    BY <1>1, <1>11 DEF Store, Clients!Store
  <1>13. \A len, r : Packet_New(len, r) <=> Clients!Packet_New(len, r)
    <2> TAKE len, r
    <2>1. StoreBehind(mem, len, r) <=> Clients!StoreBehind(mem, len, r)
      BY <1>1, <1>12 DEF StoreBehind, Clients!StoreBehind
    <2>2. WrapAround(mem, len, r) <=> Clients!WrapAround(mem, len, r)
      BY <1>1, <1>12 DEF WrapAround, Clients!WrapAround, StartOver, Clients!StartOver
    <2>3. Restart(mem, len, r) <=> Clients!Restart(mem, len, r)
      BY <1>1, <1>12 DEF Restart, Clients!Restart, AssertFails, Clients!AssertFails
    <2>4. Full(len, r) <=> Clients!Full(len, r)
      BY <1>1 DEF Full, Clients!Full, ring, Clients!ring
    <2> QED
      BY <2>1, <2>2, <2>3, <2>4 DEF Packet_New, Clients!Packet_New, allocateNew, Clients!allocateNew
  <1> QED
    BY <1>1, <1>5, <1>6, <1>7, <1>8, <1>9, <1>10, <1>13

\* What the clients of the ring are here.
LEMMA ClientsFacts ==
  /\ Clients!Init <=> RingInit /\ {rx.packet} \ {NULL} = {} /\ packet = NULL /\ tx.packet = NULL
  /\ UNCHANGED <<ring, packet>> /\ rx'.packet = rx.packet /\ tx'.packet = tx.packet
       => UNCHANGED Clients!vars
  <1>1. Clients!Init <=> RingInit /\ {rx.packet} \ {NULL} = {} /\ packet = NULL /\ tx.packet = NULL
    BY RulesOfRing DEF Clients!Init
  <1>2. ASSUME UNCHANGED <<ring, packet>>, rx'.packet = rx.packet, tx'.packet = tx.packet
        PROVE  UNCHANGED Clients!vars
    BY <1>2 DEF ring, Clients!vars, Clients!ring, Clients!clients
  <1> QED
    BY <1>1, <1>2

\* Every step of the device is a call its rules allow, or none at all.
LEMMA StepAllowed ==
  ASSUME NoneEndsEarly, IInv, [Next]_vars
  PROVE  [Clients!Next]_(Clients!vars)
  <1>1. Typed /\ Line /\ Control
    BY DEF IInv
  <1>2. CASE UNCHANGED vars
    BY <1>2, ClientsFacts DEF vars, mainVars, rxVars
  <1>3. CASE ~ aborted /\ Main /\ ~ GetInput /\ ~ Resend
    BY <1>3, ClientsFacts DEF Main, SleepEnable, SleepCpu, rxVars
  <1>4. CASE ~ aborted /\ GetInput
    <2>1. packet = NULL /\ Packet_GetInput(packet') /\ UNCHANGED <<rx, tx>>
      BY <1>1, <1>4 DEF GetInput, Control, rxVars
    <2>2. Clients!GetInput
      BY <2>1, RulesOfRing DEF Clients!GetInput
    <2> QED
      BY <2>2, <1>4 DEF Clients!Next, Clients!Step
  <1>5. CASE ~ aborted /\ Resend
    <2>1. packet # NULL /\ Packet_ReattachOutput(packet) /\ packet' = NULL /\ UNCHANGED <<rx, tx>>
      BY <1>1, <1>5 DEF Resend, Control, rxVars
    <2>2. Clients!ReattachOutput
      BY <2>1, RulesOfRing DEF Clients!ReattachOutput
    <2> QED
      BY <2>2, <1>5 DEF Clients!Next, Clients!Step
  <1>6. CASE ~ aborted /\ (Tick \/ Enter \/ ConfigurationChanged)
    BY <1>6, ClientsFacts DEF Tick, Enter, ConfigurationChanged, rxVars
  <1>7. CASE ~ aborted /\ (HostBegins \/ HostContinues \/ \E e \in {"NO", "TX"} : HostReads(e))
    BY <1>7, ClientsFacts DEF HostBegins, HostContinues, HostReads, mainVars, rxVars
  <1>8. CASE ~ aborted /\ (TxSkip \/ RxSkip \/ No \/ Exit)
    BY <1>8, ClientsFacts DEF TxSkip, RxSkip, No, Exit, mainVars, rxVars
  <1>9. CASE ~ aborted /\ TxGet
    <2>1. UNCHANGED <<packet, rx>>
      BY <1>9 DEF TxGet, mainVars, rxVars
    <2>2. CASE tx.packet # NULL
      BY <1>9, <2>1, <2>2, ClientsFacts DEF TxGet
    <2>3. CASE tx.packet = NULL
      <3>1. Packet_GetOutput(tx'.packet)
        BY <1>9, <2>3 DEF TxGet
      <3>2. Clients!GetOutput
        BY <2>1, <2>3, <3>1, RulesOfRing DEF Clients!GetOutput
      <3> QED
        BY <3>2, <1>9 DEF Clients!Next, Clients!Step
    <2> QED
      BY <2>2, <2>3
  <1>10. CASE ~ aborted /\ TxWrite
    <2>1. UNCHANGED <<packet, rx>> /\ tx.packet # NULL
          /\ tx \in [packet : Slots \cup {NULL}, remaining : Nat]
      BY <1>1, <1>10 DEF TxWrite, mainVars, rxVars, Control, Typed, TypeOK
    <2>2. CASE IsLast(tx.remaining)
      <3>1. Packet_ReleaseOutput(tx.packet) /\ tx'.packet = NULL
        BY <1>10, <2>2 DEF TxWrite
      <3>2. Clients!ReleaseOutput
        BY <2>1, <3>1, RulesOfRing DEF Clients!ReleaseOutput
      <3> QED
        BY <3>2, <1>10 DEF Clients!Next, Clients!Step
    <2>3. CASE ~ IsLast(tx.remaining)
      <3>1. tx' = [tx EXCEPT !.remaining = @ - EpSize] /\ UNCHANGED ring
        BY <1>10, <2>3 DEF TxWrite
      <3>2. tx'.packet = tx.packet
        BY <2>1, <3>1
      <3> QED
        BY <2>1, <3>1, <3>2, ClientsFacts
    <2> QED
      BY <2>2, <2>3
  <1>11. CASE ~ aborted /\ RxContinue
    <2>1. UNCHANGED <<ring, packet, tx>> /\ rx' = [rx EXCEPT !.last = last] /\ rx \in Receiver
      BY <1>1, <1>11 DEF RxContinue, mainVars, Typed, TypeOK, Receiver
    <2>2. rx'.packet = rx.packet
      BY <2>1 DEF Receiver
    <2> QED
      BY <2>1, <2>2, ClientsFacts
  <1>12. CASE ~ aborted /\ RxCheck
    <2>1. UNCHANGED <<ring, packet, tx>>
      BY <1>12 DEF RxCheck, mainVars
    <2>2. rx'.packet = rx.packet
      BY <1>1, <1>12, LineBegins
    <2> QED
      BY <2>1, <2>2, ClientsFacts
  <1>13. CASE ~ aborted /\ RxSpace
    <2>1. UNCHANGED <<packet, tx>> /\ rx.packet = NULL /\ newLen \in Lens
      BY <1>1, <1>13, SpaceFacts DEF RxSpace, mainVars
    <2>2. PICK r \in Slots \cup {NULL} : Packet_New(newLen, r) /\ rx'.packet = r
      BY <1>1, <1>13, LineSpace
    <2>3. {r} \ {NULL} = ({rx.packet} \ {NULL}) \cup ({r} \ {NULL})
      BY <2>1
    <2>4. Clients!New
      BY <2>1, <2>2, <2>3, RulesOfRing DEF Clients!New
    <2> QED
      BY <2>4, <1>13 DEF Clients!Next, Clients!Step
  <1>14. CASE ~ aborted /\ RxRead
    <2>1. UNCHANGED <<packet, tx>>
      BY <1>14 DEF RxRead
    <2>2. /\ rx'.packet = IF rx.last THEN NULL ELSE rx.packet
          /\ IF ~ rx.last \/ rx.packet = NULL
             THEN UNCHANGED ring
             ELSE Packet_PutInput(rx.packet)
      BY <1>1, <1>14, LineReads
    <2>3. CASE ~ rx.last \/ rx.packet = NULL
      BY <2>1, <2>2, <2>3, ClientsFacts
    <2>4. CASE rx.last /\ rx.packet # NULL
      <3>1. PICK p \in {rx.packet} \ {NULL} : p = rx.packet
        BY <2>4
      <3>2. {rx'.packet} \ {NULL} = ({rx.packet} \ {NULL}) \ {p}
        BY <2>2, <2>4, <3>1
      <3>3. Clients!PutInput(p)
        BY <2>1, <2>2, <2>4, <3>1, <3>2, RulesOfRing DEF Clients!PutInput
      <3> QED
        BY <3>1, <3>3, <1>14 DEF Clients!Next, Clients!Step
    <2> QED
      BY <2>3, <2>4
  <1> QED
    BY <1>2, <1>3, <1>4, <1>5, <1>6, <1>7, <1>8, <1>9, <1>10, <1>11, <1>12, <1>13, <1>14
       DEF Next, Step, Main, Handler

\* The device keeps the rules of PacketBuffer.h in every interleaving of its
\* handler and its main loop: it hands every function a packet in the state
\* that function is for, so what is proved of the packet buffer holds here.
THEOREM RulesKept ==
  ASSUME NoneEndsEarly, MaxConfigs <= 1
  PROVE  Spec => KeepsRules
  <1>1. Init => Clients!Init
    BY ClientsFacts DEF Init
  <1>2. IInv /\ [Next]_vars => [Clients!Next]_(Clients!vars)
    BY StepAllowed
  <1> QED
    BY <1>1, <1>2, Invariance, PTL DEF Spec, KeepsRules, Clients!Spec

\* If the longest packet fits into an empty ring, no assert() of PacketBuffer.c
\* fails, neither the one on the space nor the ones on the flag of a packet.
THEOREM AssertsHold ==
  ASSUME NoneEndsEarly, MaxConfigs <= 1, \A len \in Lens : getNextPacket(0, len) <= End
  PROVE  Spec => []NoAssertFails
  <1>1. Init => NoAssertFails
    BY DEF Init, RingInit, NoAssertFails
  <1>2. ASSUME IInv, NoAssertFails, [Next]_vars
        PROVE  NoAssertFails'
    <2>1. Typed /\ Line /\ Control /\ ~ aborted
      BY <1>2 DEF IInv, NoAssertFails
    <2>2. PICK E \in SUBSET Headers : HeldIn(E)
      BY <1>2 DEF IInv, Stock, Whole
    <2>3. CASE UNCHANGED aborted
      BY <2>1, <2>3 DEF NoAssertFails
    <2>4. CASE Resend
      <3>1. Packet_ReattachOutput(packet) /\ mem[packet].flag = "Input"
        BY <2>1, <2>2, <2>4 DEF Resend, Control, HeldIn
      <3> QED
        BY <3>1, <2>1 DEF Packet_ReattachOutput, NoAssertFails
    <2>5. CASE RxSpace
      <3>1. newLen \in Lens
        BY <2>1, <2>5, SpaceFacts DEF RxSpace
      <3>2. PICK r : allocateNew(mem, newLen, r)
        BY <2>5 DEF RxSpace, Packet_New
      <3>3. UNCHANGED aborted
        BY <3>1, <3>2
           DEF allocateNew, StoreBehind, WrapAround, Restart, Full, ring
      <3> QED
        BY <2>3, <3>3
    <2>6. CASE RxRead
      <3>1. IF ~ rx.last \/ rx.packet = NULL
            THEN UNCHANGED <<ring, SE>>
            ELSE Packet_PutInput(rx.packet) /\ SE' = FALSE
        BY <2>1, <2>6, LineReads
      <3>2. rx.packet # NULL => mem[rx.packet].flag = "EndOfRing"
        BY <2>2 DEF HeldIn
      <3>3. UNCHANGED aborted
        BY <3>1, <3>2 DEF ring, Packet_PutInput, SetFlag
      <3> QED
        BY <2>3, <3>3
    <2>7. CASE Main /\ ~ Resend
      <3>1. UNCHANGED aborted
        BY <2>7 DEF Main, SleepEnable, GetInput, SleepCpu, Packet_GetInput, ring
      <3> QED
        BY <2>3, <3>1
    <2>8. CASE Handler /\ ~ RxSpace /\ ~ RxRead
      <3>1. UNCHANGED aborted
        BY <2>8 DEF Handler, TxSkip, TxGet, TxWrite, RxSkip, RxContinue, RxCheck, No, Exit,
                    Packet_GetOutput, Packet_ReleaseOutput, ring
      <3> QED
        BY <2>3, <3>1
    <2>9. CASE Tick \/ Enter \/ ConfigurationChanged \/ HostBegins \/ HostContinues
               \/ (\E e \in {"NO", "TX"} : HostReads(e)) \/ UNCHANGED vars
      <3>1. UNCHANGED aborted
        BY <2>9 DEF Tick, Enter, ConfigurationChanged, HostBegins, HostContinues, HostReads, vars, ring
      <3> QED
        BY <2>3, <3>1
    <2> QED
      BY <1>2, <2>4, <2>5, <2>6, <2>7, <2>8, <2>9 DEF Next, Step
  <1> QED
    BY <1>1, <1>2, Invariance, PTL DEF Spec
=============================================================================
