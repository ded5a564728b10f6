------------------------- MODULE PacketBufferProofs -------------------------
(***************************************************************************)
(* The ring of PacketBuffer.c stays intact for every size of the buffer,   *)
(* every set of packet lengths and every legal interleaving of its calls.  *)
(***************************************************************************)
EXTENDS PacketClients, PacketRing

-----------------------------------------------------------------------------
(* One lemma per action: it keeps the types and the ring.                  *)

Whole(E) == Chain(E) /\ InputAhead(E) /\ HeldIn(E)

IInv == TypeOK /\ RingIntact

LEMMA PutKeeps ==
  ASSUME TypeOK, NEW E \in SUBSET Headers, Whole(E),
         NEW p \in unfinished, PutInput(p) \/ PutOutput(p)
  PROVE  TypeOK' /\ RingIntact'
  <1>1. p \in E /\ mem[p].flag = "EndOfRing" /\ RingTypeOK /\ Chain(E) /\ InputAhead(E)
    BY DEF Whole, HeldIn, TypeOK
  <1>2. PICK f \in {"Input", "Output"} : SetFlag(p, f)
    BY <1>1 DEF PutInput, PutOutput, Packet_PutInput, Packet_PutOutput
  <1>3. UNCHANGED <<inPacket, outPacket>> /\ unfinished' = unfinished \ {p}
    BY DEF PutInput, PutOutput
  <1>4. /\ UNCHANGED <<NextWriter, InputReader, OutputReader, aborted>>
        /\ mem' = [mem EXCEPT ![p].flag = f] /\ mem' \in [Slots -> Word]
        /\ E \in SUBSET Headers' /\ Chain(E)' /\ InputAhead(E)'
    BY <1>1, <1>2, PutMoves
  <1>5. \A q \in E \ {p} : mem'[q] = mem[q]
    BY <1>1, <1>4 DEF TypeOK, RingTypeOK, Headers
  <1>6. TypeOK'
    BY <1>3, <1>4 DEF TypeOK, RingTypeOK
  <1>7. HeldIn(E)'
    BY <1>1, <1>3, <1>4, <1>5 DEF Whole, HeldIn
  <1> QED
    BY <1>4, <1>6, <1>7 DEF RingIntact

\* Giving an input packet back or sending it on: the input reader steps over it.
LEMMA InputLeavesKeeps ==
  ASSUME TypeOK, NEW E \in SUBSET Headers, Whole(E), ReleaseInput \/ ReattachOutput
  PROVE  TypeOK' /\ RingIntact'
  <1> DEFINE p == inPacket
  <1>1. /\ p \in E /\ p = InputReader /\ mem[p].flag = "Input"
        /\ RingTypeOK /\ Chain(E) /\ p \in Slots /\ E \subseteq Slots
    BY DEF Whole, HeldIn, TypeOK, ReleaseInput, ReattachOutput, Headers
  <1>2. /\ packetEnd(p) = following(p) /\ packetEnd(p) \in Slots
        /\ packetEnd(p) \in E \cup {NextWriter}
        /\ Offset(p) < Offset(packetEnd(p))
        /\ \A q \in E \cup {NextWriter} : q # p =>
             (Offset(q) >= Offset(p) => Offset(q) >= Offset(packetEnd(p)))
    <2>1. packetEnd(p) = following(p)
      BY <1>1 DEF following
    <2>2. NextWriter \in Slots
      BY <1>1 DEF RingTypeOK
    <2> QED
      BY <2>1, <2>2, <1>1, EntryFacts, OffsetFacts
  <1>3. /\ UNCHANGED <<NextWriter, aborted, unfinished, outPacket>>
        /\ inPacket' = NULL /\ InputReader' = packetEnd(p)
    BY <1>1 DEF ReleaseInput, ReattachOutput, Packet_ReleaseInput, Packet_ReattachOutput
  <1>4. ASSUME NEW q \in E, q # p, mem[q].flag \in {"EndOfRing", "Input"}
        PROVE  Offset(packetEnd(p)) <= Offset(q)
    BY <1>1, <1>2, <1>4 DEF Whole, InputAhead
  <1>5. CASE OutputReader = p /\ ReleaseInput
    <2>1. UNCHANGED mem /\ OutputReader' = packetEnd(p)
      BY <1>5 DEF ReleaseInput, Packet_ReleaseInput
    <2>0. PICK F \in SUBSET E : F = {q \in E : Offset(q) >= Offset(packetEnd(p))}
      OBVIOUS
    <2>2. Offset(OutputReader') <= Offset(InputReader')
      BY <2>1, <1>2, <1>3, <1>1, OffsetFacts
    <2>3. F \in SUBSET Headers' /\ Chain(F)'
      <3>1. F = {q \in E : Offset(q) >= Offset(OutputReader')}
        BY <2>0, <2>1
      <3>2. F \in SUBSET Headers'
        BY <3>1, <2>1 DEF Headers
      <3> QED
        BY <3>1, <3>2, <2>1, <2>2, <1>1, <1>2, <1>3, ReadersMove
    <2>4. Offset(InputReader)' = 0
      BY <2>1, <1>2, <1>3, SlotsFacts DEF Offset
    <2>5. \A q \in F : Offset(q)' >= 0
      BY <2>0, <2>1, <1>1, <1>2, SlotsFacts, OffsetFacts DEF Offset
    <2>6. InputAhead(F)'
      BY <2>4, <2>5, <2>1 DEF InputAhead
    <2>7. unfinished \subseteq F /\ outPacket = NULL
      BY <2>0, <1>1, <1>4, <1>5 DEF Whole, HeldIn
    <2>8. HeldIn(F)'
      BY <2>1, <2>7, <1>3 DEF Whole, HeldIn
    <2>9. TypeOK'
      BY <2>1, <1>2, <1>3 DEF TypeOK, RingTypeOK
    <2> QED
      BY <2>3, <2>6, <2>8, <2>9 DEF RingIntact
  <1>6. CASE ~ (OutputReader = p /\ ReleaseInput)
    <2>1. PICK f \in {"Skip", "Output"} : mem' = [mem EXCEPT ![p].flag = f]
      BY <1>1, <1>6 DEF ReleaseInput, ReattachOutput, Packet_ReleaseInput, Packet_ReattachOutput
    <2>2. UNCHANGED OutputReader
      BY <1>1, <1>6 DEF ReleaseInput, ReattachOutput, Packet_ReleaseInput, Packet_ReattachOutput
    <2>3. E \in SUBSET Headers' /\ Chain(E)' /\ mem' \in [Slots -> Word]
      BY <1>1, <1>2, <1>3, <2>1, <2>2, FlagChanges
    <2>4. /\ mem'[p].flag \in {"Skip", "Output"}
          /\ \A q \in E \ {p} : mem'[q] = mem[q]
      BY <1>1, <2>1 DEF RingTypeOK, Word
    <2>5. InputAhead(E)'
      <3> SUFFICES ASSUME NEW q \in E, mem'[q].flag \in {"EndOfRing", "Input"}
                   PROVE  Offset(packetEnd(p)) <= Offset(q)
        BY <1>3, <2>2 DEF InputAhead, Offset
      <3> QED
        BY <2>4, <1>4
    <2>6. HeldIn(E)'
      BY <2>2, <2>4, <1>1, <1>3 DEF Whole, HeldIn
    <2>7. TypeOK'
      BY <2>2, <2>3, <1>2, <1>3 DEF TypeOK, RingTypeOK
    <2> QED
      BY <2>3, <2>5, <2>6, <2>7 DEF RingIntact
  <1> QED
    BY <1>5, <1>6

\* Readers that move along the chain without passing an unread packet, or one
\* in the hands of a client, keep the ring.
LEMMA ReadersKeep ==
  ASSUME TypeOK, NEW E \in SUBSET Headers, Whole(E),
         ReadersStep(E), UNCHANGED unfinished,
         inPacket' # NULL => /\ inPacket' = InputReader' /\ InputReader' \in Slots
                             /\ mem[inPacket'].flag = "Input",
         outPacket' # NULL => /\ outPacket' = OutputReader' /\ OutputReader' \in Slots
                              /\ mem[outPacket'].flag = "Output"
  PROVE  TypeOK' /\ RingIntact'
  <1>1. RingTypeOK /\ Chain(E) /\ E \subseteq Slots /\ mem[NextWriter].flag = "EndOfRing"
    BY DEF TypeOK, Whole, Headers, Chain, EndMark
  <1>2. PICK F \in SUBSET E : F = {q \in E : Offset(q) >= Offset(OutputReader')}
    OBVIOUS
  <1>3. /\ F \in SUBSET Headers' /\ Chain(F)' /\ InputAhead(F)'
        /\ OutputReader' \in Slots /\ InputReader' \in Slots
    BY <1>1, <1>2, ReadersLeave
  <1>4. TypeOK' /\ UNCHANGED <<mem, NextWriter>>
    BY <1>1, <1>3 DEF TypeOK, RingTypeOK, ReadersStep
  <1>5. unfinished \subseteq F
    <2> SUFFICES ASSUME NEW q \in unfinished PROVE q \in F
      OBVIOUS
    <2>1. /\ q \in E /\ q \in Slots /\ Offset(InputReader') <= Offset(q)
          /\ Offset(OutputReader') <= Offset(InputReader')
      BY <1>1 DEF Whole, HeldIn, ReadersStep
    <2> QED
      BY <2>1, <1>1, <1>2, <1>3, OffsetFacts
  <1>6. inPacket' # NULL => inPacket' \in F
    BY <1>1, <1>2 DEF ReadersStep
  <1>7. outPacket' # NULL => outPacket' \in F
    BY <1>1, <1>2, OffsetFacts DEF ReadersStep
  <1>8. HeldIn(F)'
    BY <1>4, <1>5, <1>6, <1>7 DEF Whole, HeldIn
  <1> QED
    BY <1>3, <1>4, <1>8 DEF RingIntact

LEMMA ReleaseOutputKeeps ==
  ASSUME TypeOK, NEW E \in SUBSET Headers, Whole(E), ReleaseOutput
  PROVE  TypeOK' /\ RingIntact'
  <1>1. /\ OutputReader \in E /\ mem[OutputReader].flag = "Output"
        /\ RingTypeOK /\ Chain(E) /\ InputAhead(E) /\ Packet_ReleaseOutput(OutputReader)
        /\ UNCHANGED <<unfinished, inPacket>> /\ outPacket' = NULL
    BY DEF Whole, HeldIn, TypeOK, ReleaseOutput
  <1>2. /\ ReadersStep(E)
        /\ InputReader # OutputReader => UNCHANGED InputReader
    BY <1>1, ReleaseOutputMoves
  <1>3. inPacket' # NULL => /\ inPacket' = InputReader' /\ InputReader' \in Slots
                            /\ mem[inPacket'].flag = "Input"
    BY <1>1, <1>2 DEF Whole, HeldIn, RingTypeOK
  <1> QED
    BY <1>1, <1>2, <1>3, ReadersKeep

LEMMA GetOutputKeeps ==
  ASSUME TypeOK, NEW E \in SUBSET Headers, Whole(E), GetOutput
  PROVE  TypeOK' /\ RingIntact'
  <1>1. /\ RingTypeOK /\ Chain(E) /\ InputAhead(E) /\ Packet_GetOutput(outPacket')
        /\ UNCHANGED <<unfinished, inPacket>>
    BY DEF TypeOK, Whole, GetOutput
  <1>2. /\ ReadersStep(E)
        /\ mem[InputReader].flag \notin PassedByOutput => UNCHANGED InputReader
        /\ outPacket' = IF mem[OutputReader'].flag = "Output" THEN OutputReader' ELSE NULL
    BY <1>1, GetOutputMoves
  <1>3. OutputReader' \in Slots /\ InputReader' \in Slots
    BY <1>1, <1>2 DEF RingTypeOK, Headers, ReadersStep
  <1>4. inPacket' # NULL => inPacket' = InputReader' /\ mem[inPacket'].flag = "Input"
    BY <1>1, <1>2 DEF Whole, HeldIn, PassedByOutput
  <1>5. outPacket' # NULL => outPacket' = OutputReader' /\ mem[outPacket'].flag = "Output"
    BY <1>2
  <1> QED
    BY <1>1, <1>2, <1>3, <1>4, <1>5, ReadersKeep

LEMMA GetInputKeeps ==
  ASSUME TypeOK, NEW E \in SUBSET Headers, Whole(E), GetInput
  PROVE  TypeOK' /\ RingIntact'
  <1>1. /\ RingTypeOK /\ Chain(E) /\ InputAhead(E) /\ Packet_GetInput(inPacket')
        /\ UNCHANGED <<unfinished, outPacket>>
    BY DEF TypeOK, Whole, GetInput
  <1>2. /\ ReadersStep(E)
        /\ mem[OutputReader].flag \notin PassedByOutput => UNCHANGED OutputReader
        /\ inPacket' = IF mem[InputReader'].flag = "Input" THEN InputReader' ELSE NULL
    BY <1>1, GetInputMoves
  <1>3. OutputReader' \in Slots /\ InputReader' \in Slots
    BY <1>1, <1>2 DEF RingTypeOK, Headers, ReadersStep
  <1>4. inPacket' # NULL => inPacket' = InputReader' /\ mem[inPacket'].flag = "Input"
    BY <1>2
  <1>5. outPacket' # NULL => outPacket' = OutputReader' /\ mem[outPacket'].flag = "Output"
    BY <1>1, <1>2 DEF Whole, HeldIn, PassedByOutput
  <1> QED
    BY <1>1, <1>2, <1>3, <1>4, <1>5, ReadersKeep

-----------------------------------------------------------------------------
(* Creating a packet.                                                      *)

\* A new packet that takes the place of the packets M, in the hands of the
\* same clients.
LEMMA CreatedKeeps ==
  ASSUME TypeOK, NEW E \in SUBSET Headers, Whole(E), NEW r, Created(E, r),
         NEW M \in SUBSET unfinished, \A q \in E \ M : mem'[q] = mem[q],
         unfinished' = (unfinished \ M) \cup {r}, UNCHANGED <<inPacket, outPacket>>
  PROVE  TypeOK' /\ RingIntact'
  <1>1. PICK G \in SUBSET Slots :
          G \in SUBSET Headers' /\ E \cup {r} \subseteq G /\ Chain(G)' /\ InputAhead(G)'
    BY DEF Created
  <1>2. TypeOK'
    BY DEF Created, TypeOK, RingTypeOK
  <1>3. HeldIn(G)'
    <2>1. (unfinished \subseteq G /\ \A p \in unfinished : mem[p].flag = "EndOfRing")'
      BY <1>1 DEF Whole, HeldIn, Created
    <2>2. ASSUME NEW p \in E, mem[p].flag # "EndOfRing"
          PROVE  mem'[p] = mem[p]
      BY <2>2 DEF Whole, HeldIn
    <2>3. (inPacket # NULL => inPacket = InputReader /\ inPacket \in G /\ mem[inPacket].flag = "Input")'
      BY <2>2, <1>1 DEF Whole, HeldIn, Created
    <2>4. (outPacket # NULL => outPacket = OutputReader /\ outPacket \in G /\ mem[outPacket].flag = "Output")'
      BY <2>2, <1>1 DEF Whole, HeldIn, Created
    <2> QED
      BY <2>1, <2>3, <2>4 DEF HeldIn
  <1> QED
    BY <1>1, <1>2, <1>3 DEF RingIntact

\* Nothing happens to the ring, apart from a failed assertion.
LEMMA NothingKeeps ==
  ASSUME TypeOK, RingIntact, aborted' \in BOOLEAN,
         UNCHANGED <<mem, NextWriter, InputReader, OutputReader, clients>>
  PROVE  TypeOK' /\ RingIntact'
  <1>1. PICK E \in SUBSET Headers : Chain(E) /\ InputAhead(E) /\ HeldIn(E)
    BY DEF RingIntact
  <1>2. /\ Chain(E)' /\ InputAhead(E)' /\ HeldIn(E)' /\ E \in SUBSET Headers'
    BY <1>1 DEF Chain, InputAhead, HeldIn, Headers, following, packetEnd, Offset, clients
  <1>3. TypeOK'
    BY DEF TypeOK, RingTypeOK, clients
  <1> QED
    BY <1>2, <1>3 DEF RingIntact

LEMMA NewKeeps ==
  ASSUME TypeOK, NEW E \in SUBSET Headers, Whole(E), New
  PROVE  TypeOK' /\ RingIntact'
  <1>1. PICK len \in Lens, r \in Slots \cup {NULL} :
          /\ allocateNew(mem, len, r)
          /\ unfinished' = unfinished \cup ({r} \ {NULL})
          /\ UNCHANGED <<inPacket, outPacket>>
    BY DEF New, Packet_New
  <1>2. RingTypeOK /\ Chain(E) /\ InputAhead(E) /\ Found(mem, E)
    BY DEF TypeOK, RingTypeOK, Whole, Found
  <1>3. CASE /\ r = NULL /\ aborted' \in BOOLEAN
             /\ UNCHANGED <<mem, NextWriter, InputReader, OutputReader>>
    BY <1>1, <1>3, NothingKeeps DEF Whole, RingIntact, clients
  <1>4. CASE Created(E, r) /\ \A p \in E : mem'[p] = mem[p]
    <2>1. r # NULL
      BY <1>4, SlotsFacts, NullAssumption DEF Created
    <2>2. /\ {} \in SUBSET unfinished /\ \A q \in E \ {} : mem'[q] = mem[q]
          /\ unfinished' = (unfinished \ {}) \cup {r}
      BY <2>1, <1>1, <1>4
    <2> QED
      BY <2>2, <1>1, <1>4, CreatedKeeps
  <1> QED
    BY <1>1, <1>2, <1>3, <1>4, LensFacts, AllocateCreates

-----------------------------------------------------------------------------
(* Resizing a packet.                                                      *)

\* What the client of a packet knows about it.
LEMMA UnfinishedFacts ==
  ASSUME TypeOK, NEW E \in SUBSET Headers, Whole(E), NEW p \in unfinished
  PROVE  /\ RingTypeOK /\ Chain(E) /\ InputAhead(E) /\ E \subseteq Slots
         /\ p \in E /\ p \in Slots /\ mem[p].flag = "EndOfRing" /\ mem[p].val \in Nat
         /\ following(p) = packetEnd(p) /\ packetEnd(p) \in Slots /\ p < packetEnd(p)
  <1>1. /\ RingTypeOK /\ Chain(E) /\ InputAhead(E) /\ E \subseteq Slots
        /\ p \in E /\ mem[p].flag = "EndOfRing"
    BY DEF TypeOK, Whole, HeldIn, Headers
  <1> QED
    BY <1>1, EntryFacts, EntryWords

\* p keeps its place among the entries E and has len bytes now; readers skip
\* what is new.
Resized(E, p, len) ==
  /\ UNCHANGED <<InputReader, OutputReader>>
  /\ mem'[p] = Unfinished(len)
  /\ \A q \in E \ {p} : mem'[q] = mem[q]
  /\ \E G \in SUBSET Headers' : /\ E \subseteq G /\ Chain(G)'
                               /\ \A q \in G \ E : mem'[q].flag = "Skip"

\* The length changes, the words stay the packet's.
LEMMA SameEndKeeps ==
  ASSUME TypeOK, NEW E \in SUBSET Headers, Whole(E), NEW p \in unfinished,
         NEW len \in Nat, getNextPacket(p, len) = packetEnd(p),
         mem' = [mem EXCEPT ![p] = Unfinished(len)],
         UNCHANGED <<NextWriter, InputReader, OutputReader, aborted, clients>>
  PROVE  TypeOK' /\ RingIntact' /\ Resized(E, p, len)
  <1>1. /\ RingTypeOK /\ Chain(E) /\ E \subseteq Slots /\ p \in E /\ p \in Slots
        /\ mem[p].flag = "EndOfRing"
    BY UnfinishedFacts
  <1>2. mem' \in [Slots -> Word]
    <2>1. Unfinished(len) \in Word
      BY DEF Unfinished, Word, Flags
    <2> QED
      BY <2>1, <1>1 DEF RingTypeOK
  <1>3. mem'[p] = Unfinished(len) /\ \A s \in Slots : s # p => mem'[s] = mem[s]
    BY <1>1 DEF RingTypeOK
  <1>4. packetEnd(p)' = packetEnd(p)
    BY <1>3 DEF packetEnd, Unfinished
  <1>5. ASSUME NEW q \in E
        PROVE  /\ mem'[q].flag \notin {"Data", "StartOver"} \/ mem'[q] = mem[q]
               /\ mem[q].flag # "StartOver" \/ mem'[q] = mem[q]
               /\ packetEnd(q)' = packetEnd(q)
               /\ mem'[q].flag = mem[q].flag
    <2>1. CASE q = p
      BY <2>1, <1>1, <1>3, <1>4 DEF Unfinished
    <2>2. CASE q # p
      BY <2>2, <1>1, <1>3 DEF packetEnd
    <2> QED
      BY <2>1, <2>2
  <1>6. E \in SUBSET Headers' /\ Chain(E)'
    BY <1>1, <1>3, <1>5, ChainKept DEF Chain
  <1>7. InputAhead(E)'
    BY <1>5 DEF Whole, InputAhead, Offset
  <1>8. HeldIn(E)'
    BY <1>5 DEF Whole, HeldIn, clients
  <1>9. TypeOK'
    BY <1>2 DEF TypeOK, RingTypeOK, clients
  <1>10. Resized(E, p, len)
    BY <1>1, <1>3, <1>6 DEF Resized
  <1> QED
    BY <1>6, <1>7, <1>8, <1>9, <1>10 DEF RingIntact

\* The remainder becomes an entry of its own, which every reader skips.
LEMMA RemainderKeeps ==
  ASSUME TypeOK, NEW E \in SUBSET Headers, Whole(E), NEW p \in unfinished,
         NEW len \in Nat, NEW n, n = getNextPacket(p, len),
         NEW e, e = packetEnd(p), n < e,
         mem' \in [Slots -> Word],
         \A s \in Slots : mem'[s] = IF s = p THEN Unfinished(len)
                                    ELSE IF s = n THEN Skip(LenOfUnits(e - n))
                                    ELSE IF n < s /\ s < e THEN Data(n) ELSE mem[s],
         UNCHANGED <<NextWriter, InputReader, OutputReader, aborted, clients>>
  PROVE  TypeOK' /\ RingIntact' /\ Resized(E, p, len)
  <1> DEFINE G == E \cup {n}
  <1>1. /\ RingTypeOK /\ Chain(E) /\ InputAhead(E) /\ E \subseteq Slots /\ p \in E /\ p \in Slots
        /\ mem[p].flag = "EndOfRing" /\ e \in Slots /\ p < e /\ following(p) = e
        /\ End \in Nat /\ NextWriter \in Slots /\ InputReader \in Slots /\ OutputReader \in Slots
    BY UnfinishedFacts, OffsetFacts DEF RingTypeOK
  <1>2. n \in Slots /\ p < n
    <2>1. n \in Int /\ p < n
      BY <1>1, UnitsFacts, SlotsFacts DEF getNextPacket
    <2> QED
      BY <2>1, <1>1, SlotsFacts
  <1>3. e - n \in Nat \ {0} /\ LenOfUnits(e - n) \in Nat /\ Units(LenOfUnits(e - n)) = e - n
    <2>1. e - n \in Nat \ {0}
      BY <1>1, <1>2, SlotsFacts
    <2> QED
      BY <2>1, LenOfUnitsFacts
  <1>6. mem'[p] = Unfinished(len) /\ mem'[n] = Skip(LenOfUnits(e - n))
    BY <1>1, <1>2, SlotsFacts
  <1>7. packetEnd(p)' = n /\ following(p)' = n /\ packetEnd(n)' = e /\ following(n)' = e
    <2>1. packetEnd(p)' = n /\ following(p)' = n
      BY <1>6 DEF packetEnd, following, Unfinished
    <2>2. packetEnd(n)' = e /\ following(n)' = e
      BY <1>1, <1>2, <1>3, <1>6, SlotsFacts DEF packetEnd, following, getNextPacket, Skip
    <2> QED
      BY <2>1, <2>2
  <1>8. /\ \A s \in Slots : Offset(s)' = Offset(s)
        /\ Offset(p) < Offset(e)
    BY <1>1, EntryFacts DEF Offset
  <1>9. Offset(p) < Offset(n) /\ Offset(n) < Offset(e)
    BY <1>1, <1>2, <1>8, SlotsFacts DEF Offset
  <1>10. ASSUME NEW q \in E
         PROVE  /\ q \in Slots
                /\ Offset(q) <= Offset(p) \/ Offset(q) >= Offset(e)
                /\ q # p => Offset(following(q)) <= Offset(p) \/ Offset(q) >= Offset(e)
    BY <1>1, EntryFacts, OffsetFacts
  <1>11. ASSUME NEW s \in Slots, Offset(s) < Offset(n) \/ Offset(s) >= Offset(e), s # p
         PROVE  mem'[s] = mem[s]
    <2>1. s # n /\ ~ (n < s /\ s < e)
      BY <1>1, <1>2, <1>9, <1>11, SlotsFacts DEF Offset
    <2> QED
      BY <2>1, <1>11
  <1>12. ASSUME NEW q \in E, q # p
         PROVE  /\ mem'[q] = mem[q] /\ following(q)' = following(q)
                /\ packetEnd(q)' = packetEnd(q)
                /\ mem[q].flag # "StartOver" =>
                     \A s \in (q + 1) .. (packetEnd(q) - 1) : mem'[s] = Data(q)
    <2>1. mem'[q] = mem[q]
      BY <1>10, <1>11, <1>12, <1>9, <1>1, <1>2, OffsetFacts
    <2>2. following(q)' = following(q) /\ packetEnd(q)' = packetEnd(q)
      BY <2>1 DEF following, packetEnd
    <2>3. ASSUME mem[q].flag # "StartOver", NEW s \in (q + 1) .. (packetEnd(q) - 1)
          PROVE  mem'[s] = Data(q)
      <3>1. /\ q \in Int /\ q < s /\ s < packetEnd(q) /\ following(q) = packetEnd(q)
            /\ packetEnd(q) \in Slots /\ q \in Slots /\ s \in Slots
            /\ mem[s] = Data(q) /\ Offset(s) < Offset(packetEnd(q))
            /\ Offset(q) < Offset(packetEnd(q))
        <4>1. s \in q .. (packetEnd(q) - 1) /\ q \in Slots
          BY <1>1, <2>3, EntryFacts, EntryWords, SlotsFacts
        <4> QED
          BY <4>1, <1>1, <2>3, EntryFacts, EntryWords, SlotsFacts
      <3>2. Offset(q) < Offset(s)
        BY <3>1, <1>1, SlotsFacts DEF Offset
      <3>3. Offset(s) < Offset(n) \/ Offset(s) >= Offset(e)
        <4>1. Offset(following(q)) <= Offset(p) \/ Offset(q) >= Offset(e)
          BY <1>10, <1>12
        <4>2. \A t \in {q, s, n, e, p, packetEnd(q)} : Offset(t) \in Int
          BY <3>1, <1>1, <1>2, OffsetFacts
        <4> QED
          BY <3>1, <3>2, <4>1, <4>2, <1>9
      <3>4. s # p
        BY <3>1, <1>1 DEF Data
      <3> QED
        BY <3>1, <3>3, <3>4, <1>11
    <2> QED
      BY <2>1, <2>2, <2>3
  <1>13. mem'[NextWriter] = mem[NextWriter] /\ n # NextWriter
    <2>1. Offset(NextWriter) >= Offset(e) /\ NextWriter # p
      BY <1>1, EntryFacts, OffsetFacts DEF Chain
    <2> QED
      BY <2>1, <1>1, <1>2, <1>9, <1>11, OffsetFacts
  <1>14. Chain(G)'
    <2>1. (mem[NextWriter] = EndMark)'
      BY <1>1, <1>13 DEF Chain
    <2>2. ({OutputReader, InputReader} \subseteq G \cup {NextWriter})'
      BY <1>1 DEF Chain
    <2>3. (/\ mem[p].flag # "Data"
           /\ Offset(p) < Offset(NextWriter)
           /\ following(p) \in G \cup {NextWriter}
           /\ Offset(p) < Offset(following(p))
           /\ \A q \in G : Offset(q) <= Offset(p) \/ Offset(q) >= Offset(following(p))
           /\ mem[p].flag # "StartOver"
           /\ \A s \in (p + 1) .. (packetEnd(p) - 1) : mem[s] = Data(p))'
      <3>1. mem'[p].flag = "EndOfRing"
        BY <1>6 DEF Unfinished
      <3>2. (Offset(p) < Offset(NextWriter) /\ Offset(p) < Offset(following(p)))'
        BY <1>1, <1>2, <1>7, <1>8, <1>9 DEF Chain
      <3>3. (\A q \in G : Offset(q) <= Offset(p) \/ Offset(q) >= Offset(following(p)))'
        BY <1>1, <1>2, <1>7, <1>8, <1>9, <1>10, OffsetFacts
      <3>4. ASSUME NEW s \in (p + 1) .. (n - 1)
            PROVE  mem'[s] = Data(p)
        <4>1. /\ s \in Slots /\ s < n /\ s # p
              /\ s \in (p + 1) .. (packetEnd(p) - 1)
          BY <1>1, <1>2, SlotsFacts
        <4>2. mem[s] = Data(p)
          BY <4>1, <1>1, EntryWords
        <4> QED
          BY <4>1, <4>2, <1>2, SlotsFacts
      <3> QED
        BY <3>1, <3>2, <3>3, <3>4, <1>7 DEF Data
    <2>4. (/\ mem[n].flag # "Data"
           /\ Offset(n) < Offset(NextWriter)
           /\ following(n) \in G \cup {NextWriter}
           /\ Offset(n) < Offset(following(n))
           /\ \A q \in G : Offset(q) <= Offset(n) \/ Offset(q) >= Offset(following(n))
           /\ mem[n].flag # "StartOver"
           /\ \A s \in (n + 1) .. (packetEnd(n) - 1) : mem[s] = Data(n))'
      <3>1. mem'[n].flag = "Skip"
        BY <1>6 DEF Skip
      <3>2. (Offset(n) < Offset(NextWriter) /\ Offset(n) < Offset(following(n)))'
        BY <1>1, <1>2, <1>7, <1>8, <1>9, EntryFacts, OffsetFacts
      <3>3. (\A q \in G : Offset(q) <= Offset(n) \/ Offset(q) >= Offset(following(n)))'
        BY <1>1, <1>2, <1>7, <1>8, <1>9, <1>10, OffsetFacts
      <3>4. ASSUME NEW s \in (n + 1) .. (e - 1)
            PROVE  mem'[s] = Data(n)
        BY <1>1, <1>2, SlotsFacts
      <3>5. (following(n) \in G \cup {NextWriter})'
        BY <1>1, <1>7 DEF Chain
      <3> QED
        BY <3>1, <3>2, <3>3, <3>4, <3>5, <1>7 DEF Data
    <2>5. ASSUME NEW q \in E, q # p
          PROVE  (/\ mem[q].flag # "Data"
                  /\ Offset(q) < Offset(NextWriter)
                  /\ following(q) \in G \cup {NextWriter}
                  /\ Offset(q) < Offset(following(q))
                  /\ \A t \in G : Offset(t) <= Offset(q) \/ Offset(t) >= Offset(following(q))
                  /\ IF mem[q].flag = "StartOver"
                     THEN NextWriter < OutputReader /\ OutputReader <= q
                     ELSE \A s \in (q + 1) .. (packetEnd(q) - 1) : mem[s] = Data(q))'
      <3>1. /\ mem'[q] = mem[q] /\ following(q)' = following(q) /\ packetEnd(q)' = packetEnd(q)
            /\ mem[q].flag # "StartOver" =>
                 \A s \in (q + 1) .. (packetEnd(q) - 1) : mem'[s] = Data(q)
        BY <1>12, <2>5
      <3>2. /\ q \in Slots /\ following(q) \in Slots /\ following(q) \in E \cup {NextWriter}
            /\ mem[q].flag # "Data" /\ Offset(q) < Offset(following(q))
            /\ Offset(q) < Offset(NextWriter)
            /\ \A t \in E : Offset(t) <= Offset(q) \/ Offset(t) >= Offset(following(q))
        BY <1>1, EntryFacts DEF Chain
      <3>3. (Offset(q) < Offset(NextWriter) /\ Offset(q) < Offset(following(q)))'
        BY <3>1, <3>2, <1>1, <1>8
      <3>4. Offset(n) <= Offset(q) \/ Offset(n) >= Offset(following(q))
        BY <3>2, <2>5, <1>1, <1>2, <1>9, <1>10, OffsetFacts
      <3>5. (\A t \in G : Offset(t) <= Offset(q) \/ Offset(t) >= Offset(following(q)))'
        BY <3>1, <3>2, <3>4, <1>1, <1>2, <1>8
      <3>6. CASE mem[q].flag = "StartOver"
        BY <3>1, <3>2, <3>3, <3>5, <3>6, <1>1 DEF Chain
      <3>7. CASE mem[q].flag # "StartOver"
        <4>1. (\A s \in (q + 1) .. (packetEnd(q) - 1) : mem[s] = Data(q))'
          BY <3>1, <3>7 DEF Data
        <4> QED
          BY <3>1, <3>2, <3>3, <3>5, <3>7, <4>1
      <3> QED
        BY <3>6, <3>7
    <2> QED
      BY <2>1, <2>2, <2>3, <2>4, <2>5 DEF Chain
  <1>15. G \in SUBSET Headers'
    <2>1. \A q \in E : mem'[q].flag # "Data"
      BY <1>6, <1>12, <1>1, EntryFacts DEF Unfinished
    <2> QED
      BY <2>1, <1>1, <1>2, <1>6 DEF Headers, Skip
  <1>16. InputAhead(G)'
    BY <1>1, <1>6, <1>8, <1>12 DEF InputAhead, Skip
  <1>17. HeldIn(G)'
    <2>1. (unfinished \subseteq G /\ \A q \in unfinished : mem[q].flag = "EndOfRing")'
      BY <1>6, <1>12 DEF Whole, HeldIn, Unfinished, clients
    <2>2. ASSUME NEW q \in E, mem[q].flag # "EndOfRing"
          PROVE  mem'[q] = mem[q]
      BY <2>2, <1>1, <1>12
    <2> QED
      BY <2>1, <2>2 DEF Whole, HeldIn, clients
  <1>18. TypeOK'
    BY DEF TypeOK, RingTypeOK, clients
  <1>19. Resized(E, p, len)
    BY <1>6, <1>12, <1>14, <1>15 DEF Resized, Skip
  <1> QED
    BY <1>14, <1>15, <1>16, <1>17, <1>18, <1>19 DEF RingIntact

\* The last packet grows in its place.
LEMMA ExtendKeeps ==
  ASSUME TypeOK, NEW E \in SUBSET Headers, Whole(E), NEW p \in unfinished,
         NEW len \in Nat, NEW r, Extend(p, len, r), UNCHANGED clients
  PROVE  TypeOK' /\ RingIntact' /\ Resized(E, p, len)
  <1>0. PICK e : e = getNextPacket(p, len)
    OBVIOUS
  <1>1. /\ RingTypeOK /\ Chain(E) /\ InputAhead(E) /\ E \subseteq Slots /\ p \in E /\ p \in Slots
        /\ mem[p].flag = "EndOfRing" /\ following(p) = NextWriter /\ p < NextWriter
        /\ End \in Nat /\ NextWriter \in Slots /\ InputReader \in Slots /\ OutputReader \in Slots
        /\ Store(mem, p, len) /\ UNCHANGED <<InputReader, OutputReader, aborted>>
        /\ mem \in [Slots -> Word]
    BY UnfinishedFacts, OffsetFacts DEF RingTypeOK, Extend, CanExtend
  <1>2. e \in Slots /\ NextWriter < e /\ (p < OutputReader => e < OutputReader)
    <2>1. /\ IF p < OutputReader THEN e < OutputReader ELSE e <= End
          /\ NextWriter < e
      BY <1>0, <1>1 DEF Extend, CanExtend
    <2>2. e \in Int
      BY <1>0, <1>1, SlotsFacts, UnitsFacts DEF getNextPacket
    <2> QED
      BY <2>1, <2>2, <1>1, SlotsFacts
  <1>3. /\ mem' \in [Slots -> Word] /\ NextWriter' = e
        /\ mem'[p] = Unfinished(len) /\ mem'[e] = EndMark
        /\ \A s \in (p + 1) .. (e - 1) : mem'[s] = Data(p)
        /\ \A s \in Slots : s < p \/ s > e => mem'[s] = mem[s]
    BY <1>0, <1>1, <1>2, WrittenFacts
  <1>4. packetEnd(p)' = e /\ following(p)' = e /\ mem'[p].flag = "EndOfRing"
    BY <1>0, <1>3 DEF packetEnd, following, Unfinished
  <1>5. /\ \A s \in Slots : Offset(s)' = Offset(s)
        /\ Offset(p) < Offset(NextWriter) /\ Offset(NextWriter) < Offset(e)
    <2>1. Offset(p) < Offset(NextWriter)
      BY <1>1 DEF Chain
    <2> QED
      BY <2>1, <1>1, <1>2, SlotsFacts DEF Offset
  <1>6. \A s \in Slots : Offset(s) < Offset(p) => s < p \/ s > e
    BY <1>1, <1>2, SlotsFacts DEF Offset
  <1>7. ASSUME NEW q \in E, q # p
        PROVE  /\ Offset(q) < Offset(p) /\ Offset(following(q)) <= Offset(p)
               /\ q \in Slots /\ following(q) \in E /\ Offset(q) < Offset(following(q))
    <2>1. /\ q \in Slots /\ following(q) \in Slots /\ following(q) \in E \cup {NextWriter}
          /\ Offset(q) < Offset(following(q)) /\ Offset(q) < Offset(NextWriter)
          /\ Offset(q) <= Offset(p) \/ Offset(q) >= Offset(NextWriter)
          /\ Offset(p) <= Offset(q) \/ Offset(p) >= Offset(following(q))
      BY <1>1, EntryFacts DEF Chain
    <2> QED
      BY <2>1, <1>1, <1>5, <1>7, OffsetFacts
  <1>8. ASSUME NEW q \in E, q # p
        PROVE  /\ mem'[q] = mem[q] /\ following(q)' = following(q)
               /\ packetEnd(q)' = packetEnd(q)
               /\ mem[q].flag # "StartOver" =>
                    \A s \in (q + 1) .. (packetEnd(q) - 1) : mem'[s] = Data(q)
    <2>1. mem'[q] = mem[q]
      BY <1>3, <1>6, <1>7, <1>8
    <2>2. following(q)' = following(q) /\ packetEnd(q)' = packetEnd(q)
      BY <2>1 DEF following, packetEnd
    <2>3. ASSUME mem[q].flag # "StartOver", NEW s \in (q + 1) .. (packetEnd(q) - 1)
          PROVE  mem'[s] = Data(q)
      <3>1. /\ s \in Slots /\ mem[s] = Data(q) /\ Offset(s) < Offset(following(q))
            /\ following(q) \in Slots
        <4>1. s \in q .. (packetEnd(q) - 1)
          BY <1>1, <1>7, <1>8, <2>3, EntryWords, SlotsFacts
        <4> QED
          BY <4>1, <1>1, <2>3, EntryWords
      <3>2. Offset(following(q)) <= Offset(p)
        BY <1>7, <1>8
      <3>3. \A t \in {s, p, following(q)} : Offset(t) \in Int
        BY <3>1, <1>1, OffsetFacts
      <3>4. Offset(s) < Offset(p)
        BY <3>1, <3>2, <3>3
      <3> QED
        BY <3>1, <3>4, <1>3, <1>6
    <2> QED
      BY <2>1, <2>2, <2>3
  <1>9. Chain(E)'
    <2>1. (mem[NextWriter] = EndMark)'
      BY <1>3
    <2>2. ({OutputReader, InputReader} \subseteq E)'
      <3>1. Offset(InputReader) <= Offset(p) /\ Offset(OutputReader) <= Offset(p)
        BY <1>1, OffsetFacts DEF InputAhead
      <3>2. InputReader # NextWriter /\ OutputReader # NextWriter
        BY <3>1, <1>1, <1>5, OffsetFacts
      <3> QED
        BY <3>2, <1>1 DEF Chain
    <2>3. (/\ mem[p].flag # "Data"
           /\ Offset(p) < Offset(NextWriter)
           /\ following(p) = NextWriter
           /\ \A q \in E : Offset(q) <= Offset(p)
           /\ mem[p].flag # "StartOver"
           /\ \A s \in (p + 1) .. (packetEnd(p) - 1) : mem[s] = Data(p))'
      <3>1. (Offset(p) < Offset(NextWriter))'
        BY <1>1, <1>2, <1>3, <1>5, OffsetFacts
      <3>2. (\A q \in E : Offset(q) <= Offset(p))'
        BY <1>1, <1>5, <1>7, OffsetFacts
      <3>3. (\A s \in (p + 1) .. (packetEnd(p) - 1) : mem[s] = Data(p))'
        BY <1>3, <1>4 DEF Data
      <3> QED
        BY <3>1, <3>2, <3>3, <1>3, <1>4
    <2>4. ASSUME NEW q \in E, q # p
          PROVE  (/\ mem[q].flag # "Data"
                  /\ Offset(q) < Offset(NextWriter)
                  /\ following(q) \in E
                  /\ Offset(q) < Offset(following(q))
                  /\ \A t \in E : Offset(t) <= Offset(q) \/ Offset(t) >= Offset(following(q))
                  /\ IF mem[q].flag = "StartOver"
                     THEN NextWriter < OutputReader /\ OutputReader <= q
                     ELSE \A s \in (q + 1) .. (packetEnd(q) - 1) : mem[s] = Data(q))'
      <3>1. /\ mem'[q] = mem[q] /\ following(q)' = following(q) /\ packetEnd(q)' = packetEnd(q)
            /\ mem[q].flag # "StartOver" =>
                 \A s \in (q + 1) .. (packetEnd(q) - 1) : mem'[s] = Data(q)
        BY <1>8, <2>4
      <3>2. /\ q \in Slots /\ following(q) \in Slots /\ following(q) \in E
            /\ mem[q].flag # "Data" /\ Offset(q) < Offset(following(q))
            /\ Offset(q) < Offset(p)
            /\ \A t \in E : Offset(t) <= Offset(q) \/ Offset(t) >= Offset(following(q))
        BY <1>1, <1>7, <2>4, EntryFacts
      <3>3. (Offset(q) < Offset(NextWriter) /\ Offset(q) < Offset(following(q)))'
        BY <3>1, <3>2, <1>1, <1>2, <1>3, <1>5, OffsetFacts
      <3>4. (\A t \in E : Offset(t) <= Offset(q) \/ Offset(t) >= Offset(following(q)))'
        BY <3>1, <3>2, <1>1, <1>5
      <3>5. CASE mem[q].flag = "StartOver"
        <4>1. NextWriter < OutputReader /\ OutputReader <= q
          BY <3>5, <1>1 DEF Chain
        <4>2. e < OutputReader
          BY <4>1, <1>1, <1>2, SlotsFacts
        <4> QED
          BY <3>1, <3>2, <3>3, <3>4, <3>5, <4>1, <4>2, <1>1, <1>3
      <3>6. CASE mem[q].flag # "StartOver"
        <4>1. (\A s \in (q + 1) .. (packetEnd(q) - 1) : mem[s] = Data(q))'
          BY <3>1, <3>6 DEF Data
        <4> QED
          BY <3>1, <3>2, <3>3, <3>4, <3>6, <4>1
      <3> QED
        BY <3>5, <3>6
    <2> QED
      BY <2>1, <2>2, <2>3, <2>4 DEF Chain
  <1>10. \A q \in E : mem'[q].flag = mem[q].flag
    BY <1>1, <1>4, <1>8
  <1>11. E \in SUBSET Headers'
    BY <1>1, <1>10, EntryFacts DEF Headers
  <1>12. InputAhead(E)'
    BY <1>1, <1>10 DEF InputAhead, Offset
  <1>13. HeldIn(E)'
    BY <1>1, <1>10 DEF Whole, HeldIn, clients
  <1>14. TypeOK'
    BY <1>1, <1>2, <1>3 DEF TypeOK, RingTypeOK, clients
  <1>15. Resized(E, p, len)
    BY <1>1, <1>3, <1>8, <1>9, <1>11 DEF Resized
  <1> QED
    BY <1>9, <1>11, <1>12, <1>13, <1>14, <1>15 DEF RingIntact

\* The packet is marked Skip and a new one is created.
LEMMA MoveKeeps ==
  ASSUME TypeOK, NEW E \in SUBSET Headers, Whole(E), NEW p \in unfinished,
         NEW len \in Nat, NEW r \in Slots \cup {NULL}, Move(p, len, r),
         unfinished' = IF r = NULL THEN unfinished ELSE (unfinished \ {p}) \cup {r},
         UNCHANGED <<inPacket, outPacket>>
  PROVE  TypeOK' /\ RingIntact'
  <1>0. PICK m : m = [mem EXCEPT ![p] = Skip(mem[p].val)]
    OBVIOUS
  <1>1. /\ RingTypeOK /\ Chain(E) /\ InputAhead(E) /\ E \subseteq Slots /\ p \in E /\ p \in Slots
        /\ mem[p].flag = "EndOfRing" /\ mem[p].val \in Nat
    BY UnfinishedFacts
  <1>2. allocateNew(m, len, r)
    BY <1>0 DEF Move
  <1>3. Found(m, E) /\ \A q \in E \ {p} : m[q] = mem[q]
    <2>1. Skip(mem[p].val) \in Word
      BY <1>1 DEF Skip, Word, Flags
    <2>2. /\ m \in [Slots -> Word] /\ m[p] = Skip(mem[p].val)
          /\ \A s \in Slots : s # p => m[s] = mem[s]
      BY <2>1, <1>0, <1>1 DEF RingTypeOK
    <2> QED
      BY <2>2, <1>1 DEF Found
  <1>4. CASE /\ r = NULL /\ aborted' \in BOOLEAN
             /\ UNCHANGED <<mem, NextWriter, InputReader, OutputReader>>
    BY <1>4, NothingKeeps DEF Whole, RingIntact, clients
  <1>5. CASE Created(E, r) /\ \A q \in E : mem'[q] = m[q]
    <2>1. r # NULL
      BY <1>5, SlotsFacts, NullAssumption DEF Created
    <2>0. PICK M : M = {p}
      OBVIOUS
    <2>2. /\ M \in SUBSET unfinished /\ \A q \in E \ M : mem'[q] = mem[q]
          /\ unfinished' = (unfinished \ M) \cup {r}
      BY <2>0, <2>1, <1>3, <1>5
    <2> QED
      BY <2>2, <1>5, CreatedKeeps
  <1> QED
    BY <1>1, <1>2, <1>3, <1>4, <1>5, AllocateCreates

LEMMA ShrinkKeeps ==
  ASSUME TypeOK, NEW E \in SUBSET Headers, Whole(E), NEW p \in unfinished,
         NEW len \in Nat, NEW r, Shrink(p, len, r), UNCHANGED clients,
         getNextPacket(p, len) >= packetEnd(p) \/ NextWriter # packetEnd(p)
  PROVE  TypeOK' /\ RingIntact' /\ Resized(E, p, len)
  <1>0. PICK n, e : n = getNextPacket(p, len) /\ e = packetEnd(p)
    OBVIOUS
  <1>1. /\ RingTypeOK /\ Chain(E) /\ E \subseteq Slots /\ p \in Slots
        /\ mem[p].flag = "EndOfRing" /\ e \in Slots /\ p < e
        /\ p \in Int /\ e \in Int
    BY <1>0, UnfinishedFacts, SlotsFacts
  <1>2. n \in Int /\ p < n /\ e - n >= 0 /\ n <= e /\ n \in Slots
    <2>1. n \in Int /\ p < n
      BY <1>0, <1>1, UnitsFacts, SlotsFacts DEF getNextPacket
    <2>2. e - n >= 0
      BY <1>0 DEF Shrink
    <2>3. n <= e
      BY <2>1, <2>2, <1>1
    <2>4. n \in Slots
      BY <2>1, <2>3, <1>1, SlotsFacts, EndAssumption
    <2> QED
      BY <2>1, <2>2, <2>3, <2>4
  <1>3. UNCHANGED <<InputReader, OutputReader, aborted>>
    BY DEF Shrink
  <1>4. CASE n < e
    <2>1. NextWriter # e
      BY <1>0, <1>1, <1>2, <1>4, SlotsFacts
    <2>2. e - n > 0
      BY <1>1, <1>2, <1>4, SlotsFacts
    <2>3. /\ NextWriter' = NextWriter
          /\ mem' = [s \in Slots |->
                       CASE s = p                      -> Unfinished(len)
                         [] s = n                      -> Skip(LenOfUnits(e - n))
                         [] s > n /\ s < e             -> Data(n)
                         [] s # p /\ (s < n \/ s >= e) -> mem[s]]
      BY <2>1, <2>2, <1>0 DEF Shrink
    <2>4. \A s \in Slots : s \in Int
      BY SlotsFacts
    <2>5. \A s \in Slots : mem'[s] = IF s = p THEN Unfinished(len)
                                     ELSE IF s = n THEN Skip(LenOfUnits(e - n))
                                     ELSE IF n < s /\ s < e THEN Data(n) ELSE mem[s]
      <3> SUFFICES ASSUME NEW s \in Slots
                   PROVE  mem'[s] = IF s = p THEN Unfinished(len)
                                    ELSE IF s = n THEN Skip(LenOfUnits(e - n))
                                    ELSE IF n < s /\ s < e THEN Data(n) ELSE mem[s]
        OBVIOUS
      <3>1. s \in Int
        BY <2>4
      <3>2. CASE s = p
        BY <3>1, <3>2, <2>3, <1>1, <1>2
      <3>3. CASE s = n
        <4>1. s # p /\ ~ (s > n /\ s < e) /\ ~ (s < n \/ s >= e)
          BY <3>1, <3>3, <1>1, <1>2, <1>4
        <4> QED
          BY <4>1, <3>3, <2>3
      <3>4. CASE n < s /\ s < e
        BY <3>1, <3>4, <2>3, <1>1, <1>2
      <3>5. CASE s # p /\ s # n /\ ~ (n < s /\ s < e)
        <4>1. s < n \/ s >= e
          BY <3>1, <3>5, <1>1, <1>2
        <4> QED
          BY <3>1, <3>5, <4>1, <2>3, <1>1, <1>2
      <3> QED
        BY <3>2, <3>3, <3>4, <3>5
    <2>6. mem' \in [Slots -> Word]
      <3>1. e - n \in Nat \ {0}
        BY <2>2, <1>1, <1>2, SlotsFacts
      <3>2. /\ Unfinished(len) \in Word /\ Skip(LenOfUnits(e - n)) \in Word
            /\ Data(n) \in Word
        BY <3>1, <1>2, LenOfUnitsFacts, SlotsFacts DEF Unfinished, Skip, Data, Word, Flags
      <3>3. \A s \in Slots : mem'[s] \in Word
        BY <3>2, <2>5, <1>1 DEF RingTypeOK
      <3> QED
        BY <3>3, <2>3
    <2>7. NextWriter' = NextWriter
      BY <2>3
    <2> QED
      BY <2>5, <2>6, <2>7, <1>0, <1>3, <1>4, RemainderKeeps
  <1>5. CASE n = e
    <2>1. ~ (e - n > 0)
      BY <1>1, <1>2, <1>5, SlotsFacts
    <2>2. mem' = [mem EXCEPT ![p] = Unfinished(len)] /\ NextWriter' = NextWriter
      BY <2>1, <1>0, <1>5 DEF Shrink
    <2> QED
      BY <2>2, <1>0, <1>3, <1>5, SameEndKeeps
  <1> QED
    BY <1>1, <1>2, <1>4, <1>5, SlotsFacts

LEMMA ResizeKeeps ==
  ASSUME TypeOK, NEW E \in SUBSET Headers, Whole(E), NEW p \in unfinished, Resize(p),
         ~ ShrinkLast
  PROVE  TypeOK' /\ RingIntact'
  <1>1. PICK len \in Lens, r \in Slots \cup {NULL} :
          /\ getNextPacket(p, len) >= packetEnd(p) \/ NextWriter # packetEnd(p)
          /\ Packet_Resize(p, len, r)
          /\ unfinished' = IF r = NULL THEN unfinished ELSE (unfinished \ {p}) \cup {r}
          /\ UNCHANGED <<inPacket, outPacket>>
    BY DEF Resize
  <1>2. len \in Nat /\ mem[p].flag = "EndOfRing" /\ p \in Slots
    BY LensFacts, UnfinishedFacts
  <1>3. ASSUME r = p
        PROVE  UNCHANGED clients
    BY <1>1, <1>2, <1>3, SlotsFacts, NullAssumption DEF clients
  <1>4. CASE Shrink(p, len, r)
    BY <1>1, <1>2, <1>3, <1>4, ShrinkKeeps DEF Shrink
  <1>5. CASE Extend(p, len, r)
    BY <1>1, <1>2, <1>3, <1>5, ExtendKeeps DEF Extend
  <1>6. CASE Move(p, len, r)
    BY <1>1, <1>2, <1>6, MoveKeeps
  <1> QED
    BY <1>1, <1>2, <1>4, <1>5, <1>6 DEF Packet_Resize

-----------------------------------------------------------------------------
(* The theorems.                                                           *)

LEMMA InitIntact ==
  ASSUME Init
  PROVE  TypeOK /\ RingIntact
  <1>1. mem = [s \in Slots |-> EndMark] /\ 0 \in Slots
    BY SlotsFacts DEF Init, RingInit
  <1>2. EndMark \in Word
    BY DEF EndMark, Word, Flags
  <1>3. TypeOK
    BY <1>1, <1>2 DEF Init, RingInit, TypeOK, RingTypeOK
  <1>4. Chain({}) /\ InputAhead({}) /\ HeldIn({})
    BY <1>1 DEF Init, RingInit, Chain, InputAhead, HeldIn
  <1> QED
    BY <1>3, <1>4 DEF RingIntact

LEMMA NextIntact ==
  ASSUME ~ ShrinkLast, TypeOK, RingIntact, [Next]_vars
  PROVE  TypeOK' /\ RingIntact'
  <1>1. PICK E \in SUBSET Headers : Whole(E)
    BY DEF RingIntact, Whole
  <1>2. CASE New
    BY <1>1, <1>2, NewKeeps
  <1>3. CASE \E p \in unfinished : Resize(p)
    BY <1>1, <1>3, ResizeKeeps
  <1>4. CASE \E p \in unfinished : PutInput(p) \/ PutOutput(p)
    BY <1>1, <1>4, PutKeeps
  <1>5. CASE GetInput
    BY <1>1, <1>5, GetInputKeeps
  <1>6. CASE GetOutput
    BY <1>1, <1>6, GetOutputKeeps
  <1>7. CASE ReleaseInput \/ ReattachOutput
    BY <1>1, <1>7, InputLeavesKeeps
  <1>8. CASE ReleaseOutput
    BY <1>1, <1>8, ReleaseOutputKeeps
  <1>9. CASE UNCHANGED vars
    <2>1. /\ UNCHANGED <<mem, NextWriter, InputReader, OutputReader, clients>>
          /\ aborted' \in BOOLEAN
      BY <1>9 DEF vars, ring, TypeOK, RingTypeOK
    <2> QED
      BY <2>1, NothingKeeps
  <1> QED
    BY <1>2, <1>3, <1>4, <1>5, <1>6, <1>7, <1>8, <1>9 DEF Next, Step

\* Whatever the size of the ring and the lengths of the packets, cursors stay
\* inside the ring and its words keep their form, as long as nobody makes the
\* last packet smaller.
THEOREM TypeCorrect ==
  ASSUME ~ ShrinkLast
  PROVE  Spec => []TypeOK
  <1>1. Init => TypeOK /\ RingIntact
    BY InitIntact
  <1>2. TypeOK /\ RingIntact /\ [Next]_vars => TypeOK' /\ RingIntact'
    BY NextIntact
  <1> QED
    BY <1>1, <1>2, PTL DEF Spec

\* Under the same condition the entries between the output reader and the
\* writer stay one chain without overlaps, the input reader passes no packet
\* that is still to be read, and each client finds its packets as it left them.
THEOREM RingStaysIntact ==
  ASSUME ~ ShrinkLast
  PROVE  Spec => []RingIntact
  <1>1. Init => TypeOK /\ RingIntact
    BY InitIntact
  <1>2. TypeOK /\ RingIntact /\ [Next]_vars => TypeOK' /\ RingIntact'
    BY NextIntact
  <1> QED
    BY <1>1, <1>2, PTL DEF Spec

LEMMA AllocateAsserts ==
  ASSUME NEW m, NEW len, NEW r, allocateNew(m, len, r), getNextPacket(0, len) <= End
  PROVE  UNCHANGED aborted
  BY DEF allocateNew, StoreBehind, WrapAround, Restart, Full, ring

\* If the longest packet fits into an empty ring, no assert() fails: neither the
\* one of allocateNew nor the ones on the flags of a packet a client hands in.
THEOREM AssertsHold ==
  ASSUME ~ ShrinkLast, \A len \in Lens : getNextPacket(0, len) <= End
  PROVE  Spec => []NoAssertFails
  <1>1. Init => TypeOK /\ RingIntact /\ NoAssertFails
    BY InitIntact DEF Init, RingInit, NoAssertFails
  <1>2. ASSUME TypeOK, RingIntact, NoAssertFails, [Next]_vars
        PROVE  NoAssertFails'
    <2>1. PICK E \in SUBSET Headers : HeldIn(E)
      BY <1>2 DEF RingIntact
    <2>2. \A p \in unfinished : mem[p].flag = "EndOfRing"
      BY <2>1 DEF HeldIn
    <2>3. inPacket # NULL => mem[inPacket].flag = "Input"
      BY <2>1 DEF HeldIn
    <2>4. CASE New
      BY <2>4, <1>2, AllocateAsserts DEF New, Packet_New, NoAssertFails
    <2>5. CASE \E p \in unfinished : Resize(p)
      <3>1. PICK p \in unfinished, len \in Lens, r \in Slots \cup {NULL} : Packet_Resize(p, len, r)
        BY <2>5 DEF Resize
      <3>2. CASE Shrink(p, len, r) \/ Extend(p, len, r)
        BY <3>2, <1>2 DEF Shrink, Extend, NoAssertFails
      <3>3. CASE Move(p, len, r)
        BY <3>3, <1>2, AllocateAsserts DEF Move, NoAssertFails
      <3> QED
        BY <3>1, <3>2, <3>3, <2>2 DEF Packet_Resize
    <2>6. CASE \E p \in unfinished : PutInput(p) \/ PutOutput(p)
      BY <2>2, <2>6, <1>2
         DEF PutInput, PutOutput, Packet_PutInput, Packet_PutOutput, SetFlag, NoAssertFails
    <2>7. CASE GetInput \/ GetOutput
      BY <2>7, <1>2 DEF GetInput, GetOutput, Packet_GetInput, Packet_GetOutput, NoAssertFails
    <2>8. CASE ReleaseInput \/ ReattachOutput
      BY <2>3, <2>8, <1>2
         DEF ReleaseInput, ReattachOutput, Packet_ReleaseInput, Packet_ReattachOutput, NoAssertFails
    <2>9. CASE ReleaseOutput
      BY <2>9, <1>2 DEF ReleaseOutput, Packet_ReleaseOutput, NoAssertFails
    <2>10. CASE UNCHANGED vars
      BY <2>10, <1>2 DEF vars, ring, NoAssertFails
    <2> QED
      BY <1>2, <2>4, <2>5, <2>6, <2>7, <2>8, <2>9, <2>10 DEF Next, Step
  <1>3. TypeOK /\ RingIntact /\ [Next]_vars => TypeOK' /\ RingIntact'
    BY NextIntact
  <1> QED
    BY <1>1, <1>2, <1>3, PTL DEF Spec

\* Every word of a packet a client holds is data of that packet.
HeldWordsOwn == \A p \in Held : \A s \in (p + 1) .. (packetEnd(p) - 1) : mem[s] = Data(p)

LEMMA HeldFacts == RingIntact => HeldWordsOwn
  <1> SUFFICES ASSUME RingIntact, NEW p \in Held
               PROVE  \A s \in (p + 1) .. (packetEnd(p) - 1) : mem[s] = Data(p)
    BY DEF HeldWordsOwn
  <1>1. PICK E \in SUBSET Headers : Chain(E) /\ HeldIn(E)
    BY DEF RingIntact
  <1>2. p \in E /\ mem[p].flag \in {"EndOfRing", "Input", "Output"}
    BY <1>1 DEF Held, HeldIn
  <1> QED
    BY <1>1, <1>2 DEF Chain

\* Under the same condition no call ever writes into a packet that a client holds
\* and does not resize: zero copy is safe (PacketBuffer.c 82 to 182).
THEOREM HeldWordsStay ==
  ASSUME ~ ShrinkLast
  PROVE  Spec => HeldWordsStable
  <1>1. Init => TypeOK /\ RingIntact
    BY InitIntact
  <1>2. TypeOK /\ RingIntact /\ [Next]_vars => TypeOK' /\ RingIntact'
    BY NextIntact
  <1>3. RingIntact' => HeldWordsOwn'
    BY HeldFacts, PTL
  <1>4. TypeOK /\ RingIntact /\ RingIntact' =>
          \A p \in Held \cap Held' :
            mem'[p].val = mem[p].val
              => \A s \in p .. (packetEnd(p) - 1) : mem'[s].val = mem[s].val
    <2> SUFFICES ASSUME TypeOK, RingIntact, RingIntact',
                        NEW p \in Held \cap Held', mem'[p].val = mem[p].val,
                        NEW s \in p .. (packetEnd(p) - 1)
                 PROVE  mem'[s].val = mem[s].val
      OBVIOUS
    <2>1. CASE s = p
      BY <2>1
    <2>2. CASE s # p
      <3>1. p \in Int /\ packetEnd(p) \in Int /\ packetEnd(p)' = packetEnd(p)
        <4>1. p \in Slots
          BY DEF Held, TypeOK
        <4>2. mem[p].val \in Nat
          BY <4>1 DEF TypeOK, RingTypeOK, Word
        <4> QED
          BY <4>1, <4>2, SlotsFacts, UnitsFacts DEF packetEnd, getNextPacket
      <3>2. s \in (p + 1) .. (packetEnd(p) - 1)
        BY <2>2, <3>1
      <3>3. mem[s] = Data(p)
        BY <3>2, HeldFacts DEF HeldWordsOwn
      <3>4. mem'[s] = Data(p)
        BY <3>1, <3>2, <1>3 DEF HeldWordsOwn
      <3> QED
        BY <3>3, <3>4
    <2> QED
      BY <2>1, <2>2
  <1> QED
    BY <1>1, <1>2, <1>4, PTL DEF Spec, HeldWordsStable

\* Under the same condition a reader never stands on the data of a packet, as the
\* comments on the flags say (PacketBuffer.c 36 to 48); finding it there is what
\* making the last packet smaller leads to.
THEOREM ReadersStayOnEntries ==
  ASSUME ~ ShrinkLast
  PROVE  Spec => []ReadersOnEntries
  <1>1. Init => TypeOK /\ RingIntact
    BY InitIntact
  <1>2. TypeOK /\ RingIntact /\ [Next]_vars => TypeOK' /\ RingIntact'
    BY NextIntact
  <1>3. ASSUME RingIntact PROVE ReadersOnEntries
    <2>1. PICK E \in SUBSET Headers : Chain(E)
      BY <1>3 DEF RingIntact
    <2>2. \A p \in E \cup {NextWriter} : mem[p].flag # "Data"
      BY <2>1 DEF Chain, EndMark
    <2> QED
      BY <2>1, <2>2 DEF Chain, ReadersOnEntries
  <1> QED
    BY <1>1, <1>2, <1>3, PTL DEF Spec
=============================================================================
