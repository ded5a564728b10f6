----------------------------- MODULE PacketRing -----------------------------
(***************************************************************************)
(* Lemmas about the ring of PacketBuffer.c and its calls: what each does   *)
(* to the chain of entries, whoever the clients are.                       *)
(***************************************************************************)
EXTENDS PacketBuffer, TLAPS

-----------------------------------------------------------------------------
(* Arithmetic of slots, so that the division is met once.                  *)

LEMMA SlotsFacts ==
  /\ \A s \in Slots : s \in Int /\ 0 <= s /\ s <= End
  /\ \A s \in Int : 0 <= s /\ s <= End => s \in Slots
  /\ 0 \in Slots
  BY EndAssumption DEF Slots

LEMMA UnitsFacts ==
  ASSUME NEW len \in Nat
  PROVE  Units(len) \in Nat /\ Units(len) >= 1
  BY DEF Units

LEMMA LenOfUnitsFacts ==
  ASSUME NEW n \in Nat \ {0}
  PROVE  LenOfUnits(n) \in Nat /\ Units(LenOfUnits(n)) = n
  BY DEF Units, LenOfUnits

LEMMA LensFacts ==
  ASSUME NEW len \in Lens
  PROVE  len \in Nat /\ len <= 16382
  <1>1. len \in 0 .. 16382
    BY LensAssumption
  <1> QED
    BY <1>1

-----------------------------------------------------------------------------
(* Moving readers along the chain.                                         *)

\* The output reader may move to any entry of the chain that is not behind
\* the input reader: the chain from there on is a chain.
LEMMA ReadersMove ==
  ASSUME RingTypeOK, NEW E \in SUBSET Headers, Chain(E),
         UNCHANGED <<mem, NextWriter>>,
         OutputReader' \in E \cup {NextWriter}, InputReader' \in E \cup {NextWriter},
         Offset(OutputReader') <= Offset(InputReader'),
         NEW F, F = {p \in E : Offset(p) >= Offset(OutputReader')}
  PROVE  Chain(F)'
  <1>0. E \subseteq Slots /\ End \in Nat /\ NextWriter \in Slots /\ OutputReader \in Slots
        /\ OutputReader' \in Slots
    BY EndAssumption DEF Headers, RingTypeOK
  <1>1. \A p \in E : following(p) \in Slots
    BY <1>0 DEF Chain
  <1>2. \A p \in E \cup {NextWriter} : Offset(p) <= Offset(NextWriter)
    BY <1>0, SlotsFacts DEF Chain, Offset
  <1>3. \A s \in Slots : Offset(s) >= Offset(OutputReader') =>
             Offset(s)' = Offset(s) - Offset(OutputReader')
    BY <1>0, SlotsFacts DEF Offset
  <1>4. (mem[NextWriter] = EndMark)'
    BY DEF Chain, EndMark
  <1>5. ({OutputReader, InputReader} \subseteq F \cup {NextWriter})'
    <2>1. Offset(OutputReader') \in Int /\ Offset(OutputReader') <= Offset(OutputReader')
      BY <1>0, SlotsFacts DEF Offset
    <2>2. OutputReader' \in F \cup {NextWriter} /\ InputReader' \in F \cup {NextWriter}
      BY <2>1
    <2> QED
      BY <2>2
  <1>6. ASSUME NEW p \in F
        PROVE  (/\ mem[p].flag # "Data"
                /\ Offset(p) < Offset(NextWriter)
                /\ following(p) \in F \cup {NextWriter}
                /\ Offset(p) < Offset(following(p))
                /\ \A q \in F : Offset(q) <= Offset(p) \/ Offset(q) >= Offset(following(p))
                /\ IF mem[p].flag = "StartOver"
                   THEN NextWriter < OutputReader /\ OutputReader <= p
                   ELSE \A s \in (p + 1) .. (packetEnd(p) - 1) : mem[s] = Data(p))'
    <2>1. p \in E /\ p \in Slots /\ Offset(p) >= Offset(OutputReader') /\ following(p)' = following(p)
          /\ packetEnd(p)' = packetEnd(p)
      BY <1>0 DEF following, packetEnd
    <2>2. mem'[p].flag # "Data"
      BY <2>1 DEF Chain
    <2>3. Offset(p) < Offset(NextWriter) /\ Offset(p) < Offset(following(p))
          /\ following(p) \in E \cup {NextWriter}
          /\ \A q \in E : Offset(q) <= Offset(p) \/ Offset(q) >= Offset(following(p))
      BY <2>1 DEF Chain
    <2>4. Offset(following(p)) >= Offset(OutputReader') /\ Offset(NextWriter) >= Offset(OutputReader')
      BY <2>1, <2>3, <1>0, <1>1, SlotsFacts DEF Offset
    <2>5. Offset(p)' < Offset(NextWriter)' /\ Offset(p)' < Offset(following(p))'
      BY <1>3, <2>1, <2>3, <2>4, <1>0, <1>1, SlotsFacts DEF Offset
    <2>6. following(p)' \in F \cup {NextWriter'}
      BY <2>1, <2>3, <2>4
    <2>7. (\A q \in F : Offset(q) <= Offset(p) \/ Offset(q) >= Offset(following(p)))'
      <3> SUFFICES ASSUME NEW q \in F
                   PROVE  (Offset(q) <= Offset(p) \/ Offset(q) >= Offset(following(p)))'
        OBVIOUS
      <3>1. q \in E /\ q \in Slots /\ Offset(q) >= Offset(OutputReader')
        BY <1>0
      <3> QED
        BY <3>1, <1>3, <2>1, <2>3, <2>4, <1>0, <1>1, SlotsFacts DEF Offset
    <2>8. ASSUME mem[p].flag = "StartOver"
          PROVE  NextWriter < OutputReader' /\ OutputReader' <= p
      BY <2>1, <2>8, <1>0, <1>2, SlotsFacts DEF Chain, Offset
    <2>9. ASSUME mem[p].flag # "StartOver"
          PROVE  \A s \in (p + 1) .. (packetEnd(p) - 1) : mem[s] = Data(p)
      BY <2>1, <2>9 DEF Chain
    <2> QED
      BY <2>1, <2>2, <2>5, <2>6, <2>7, <2>8, <2>9 DEF Data
  <1> QED
    BY <1>4, <1>5, <1>6 DEF Chain

-----------------------------------------------------------------------------
(* Order of the chain.                                                     *)

LEMMA OffsetFacts ==
  ASSUME RingTypeOK
  PROVE  /\ \A s \in Slots : Offset(s) \in Int /\ 0 <= Offset(s) /\ Offset(s) <= End
         /\ \A s, t \in Slots : Offset(s) = Offset(t) => s = t
         /\ Offset(OutputReader) = 0
         /\ End \in Nat /\ NextWriter \in Slots /\ InputReader \in Slots /\ OutputReader \in Slots
  BY EndAssumption, SlotsFacts DEF RingTypeOK, Offset

\* Between two slots that ring and memory order alike, the two orders agree.
LEMMA OffsetBetween ==
  ASSUME RingTypeOK, NEW p \in Slots, NEW s \in Slots, NEW e \in Slots,
         p <= s, s < e, Offset(p) < Offset(e)
  PROVE  Offset(s) < Offset(e)
  <1>1. End \in Nat /\ OutputReader \in Slots
    BY OffsetFacts
  <1> QED
    BY <1>1, SlotsFacts DEF Offset

\* What a chain says of each of its entries, in a form easy to cite.
LEMMA EntryFacts ==
  ASSUME RingTypeOK, NEW E \in SUBSET Headers, Chain(E), NEW p \in E
  PROVE  /\ p \in Slots /\ mem[p] \in Word /\ mem[p].val \in Nat
         /\ mem[p].flag # "Data"
         /\ following(p) \in Slots /\ following(p) \in E \cup {NextWriter}
         /\ Offset(p) < Offset(following(p))
         /\ Offset(following(p)) <= Offset(NextWriter)
         /\ \A q \in E \cup {NextWriter} :
              Offset(q) <= Offset(p) \/ Offset(q) >= Offset(following(p))
  <1>1. p \in Slots /\ mem[p] \in Word
    BY DEF Headers, RingTypeOK
  <1>2. mem[p].val \in Nat
    BY <1>1 DEF Word
  <1>3. E \subseteq Slots /\ NextWriter \in Slots
    BY DEF Headers, RingTypeOK
  <1>4. /\ mem[p].flag # "Data"
        /\ following(p) \in E \cup {NextWriter}
        /\ Offset(p) < Offset(following(p))
        /\ \A q \in E : Offset(q) <= Offset(p) \/ Offset(q) >= Offset(following(p))
    BY DEF Chain
  <1>5. \A q \in E \cup {NextWriter} : q \in Slots /\ Offset(q) <= Offset(NextWriter)
    <2>1. \A q \in E : Offset(q) < Offset(NextWriter)
      BY DEF Chain
    <2> QED
      BY <2>1, <1>3, OffsetFacts
  <1> QED
    BY <1>1, <1>2, <1>3, <1>4, <1>5

\* The words of a packet lie before the writer, and none is cut by the end
\* of memory.
LEMMA EntryWords ==
  ASSUME RingTypeOK, NEW E \in SUBSET Headers, Chain(E),
         NEW p \in E, mem[p].flag # "StartOver"
  PROVE  /\ following(p) = packetEnd(p) /\ packetEnd(p) \in Slots /\ p < packetEnd(p)
         /\ \A s \in (p + 1) .. (packetEnd(p) - 1) : s \in Slots /\ mem[s] = Data(p)
         /\ \A s \in p .. (packetEnd(p) - 1) :
              /\ s \in Slots
              /\ Offset(s) < Offset(packetEnd(p))
              /\ Offset(s) < Offset(NextWriter)
  <1>1. following(p) = packetEnd(p) /\ packetEnd(p) \in Slots
    BY EntryFacts DEF following
  <1>2. p < packetEnd(p)
    BY EntryFacts, UnitsFacts, SlotsFacts DEF packetEnd, getNextPacket
  <1>3. ASSUME NEW s \in p .. (packetEnd(p) - 1)
        PROVE  s \in Slots /\ Offset(s) < Offset(packetEnd(p)) /\ Offset(s) < Offset(NextWriter)
    <2>1. s \in Int /\ p <= s /\ s < packetEnd(p) /\ p \in Slots
      BY <1>1, SlotsFacts, EntryFacts
    <2>2. s \in Slots
      BY <2>1, <1>1, SlotsFacts, EndAssumption
    <2>3. Offset(s) < Offset(packetEnd(p))
      BY <2>1, <2>2, <1>1, EntryFacts, OffsetBetween
    <2>4. Offset(packetEnd(p)) <= Offset(NextWriter)
      BY <1>1, EntryFacts
    <2>5. /\ Offset(s) \in Int /\ Offset(packetEnd(p)) \in Int
          /\ Offset(NextWriter) \in Int
      BY <2>2, <1>1, OffsetFacts
    <2> QED
      BY <2>2, <2>3, <2>4, <2>5
  <1>4. \A s \in (p + 1) .. (packetEnd(p) - 1) : mem[s] = Data(p)
    BY DEF Chain
  <1>5. (p + 1) .. (packetEnd(p) - 1) \subseteq p .. (packetEnd(p) - 1)
    BY <1>1, SlotsFacts, EntryFacts
  <1> QED
    BY <1>1, <1>2, <1>3, <1>4, <1>5

-----------------------------------------------------------------------------
(* Readers that skip entries.                                              *)

LEMMA PassedClosed ==
  ASSUME NEW F, NEW from
  PROVE  /\ Passed(F, from) \subseteq Skipped(F)
         /\ from \in Skipped(F) => from \in Passed(F, from)
         /\ \A v \in Passed(F, from) :
              following(v) \in Skipped(F) => following(v) \in Passed(F, from)
  BY DEF Passed, Closed

\* Passed is contained in every set that is closed the same way.
LEMMA PassedLeast ==
  ASSUME NEW F, NEW from, NEW V \in SUBSET Skipped(F), Closed(V, F, from)
  PROVE  Passed(F, from) \subseteq V
  BY DEF Passed

LEMMA StopsFacts ==
  ASSUME NEW F, NEW from, NEW stop \in Stops(F, from)
  PROVE  /\ stop \in Slots
         /\ mem[stop].flag \notin F
         /\ stop = from \/ \E v \in Passed(F, from) : stop = following(v)
  BY DEF Stops

\* A reader that starts on the chain and skips neither the end mark nor
\* unfinished packets stays on the chain.
LEMMA WalkStays ==
  ASSUME RingTypeOK, NEW E \in SUBSET Headers, Chain(E),
         NEW F, "EndOfRing" \notin F,
         NEW from \in E \cup {NextWriter}, NEW stop \in Stops(F, from)
  PROVE  /\ Passed(F, from) \subseteq E
         /\ stop \in E \cup {NextWriter}
         /\ Offset(from) <= Offset(stop)
  <1> DEFINE V == {p \in E \cap Skipped(F) : Offset(from) <= Offset(p)}
  <1>1. NextWriter \notin Skipped(F)
    BY DEF Chain, EndMark, Skipped
  <1>2. from \in Slots
    BY DEF Headers, RingTypeOK
  <1>3. Closed(V, F, from)
    <2>1. from \in Skipped(F) => from \in V
      BY <1>1, <1>2, OffsetFacts
    <2>2. ASSUME NEW v \in V, following(v) \in Skipped(F)
          PROVE  following(v) \in V
      <3>1. v \in E /\ following(v) \in E
        BY <2>2, <1>1, EntryFacts
      <3>2. Offset(from) <= Offset(following(v))
        BY <3>1, <1>2, EntryFacts, OffsetFacts
      <3> QED
        BY <3>1, <3>2, <2>2
    <2> QED
      BY <2>1, <2>2 DEF Closed
  <1>4. Passed(F, from) \subseteq V
    <2> HIDE DEF V
    <2>1. V \in SUBSET Skipped(F)
      BY DEF V
    <2> QED
      BY <2>1, <1>3, PassedLeast
  <1>5. CASE stop = from
    BY <1>4, <1>5, <1>2, OffsetFacts
  <1>6. CASE \E v \in Passed(F, from) : stop = following(v)
    <2>1. PICK v \in Passed(F, from) : stop = following(v)
      BY <1>6
    <2>2. v \in E /\ Offset(from) <= Offset(v)
      BY <1>4
    <2> QED
      BY <2>1, <2>2, <1>2, <1>4, EntryFacts, OffsetFacts
  <1> QED
    BY <1>5, <1>6, StopsFacts

\* It never gets past a slot of the chain it has not stepped over.
LEMMA WalkNotPast ==
  ASSUME RingTypeOK, NEW E \in SUBSET Headers, Chain(E),
         NEW F, "EndOfRing" \notin F,
         NEW from \in E \cup {NextWriter}, NEW stop \in Stops(F, from),
         NEW t \in E \cup {NextWriter}, Offset(from) <= Offset(t), t \notin Passed(F, from)
  PROVE  Offset(stop) <= Offset(t)
  <1> DEFINE V == {p \in Passed(F, from) : Offset(p) < Offset(t)}
  <1>1. Passed(F, from) \subseteq E
    BY WalkStays
  <1>2. from \in Slots /\ t \in Slots
    BY DEF Headers, RingTypeOK
  <1>3. Closed(V, F, from)
    <2>1. from \in Skipped(F) => from \in V
      BY <1>2, PassedClosed, OffsetFacts
    <2>2. ASSUME NEW v \in V, following(v) \in Skipped(F)
          PROVE  following(v) \in V
      <3>1. v \in E /\ following(v) \in Passed(F, from)
        BY <2>2, <1>1, PassedClosed
      <3>2. Offset(t) >= Offset(following(v)) /\ following(v) # t
        BY <3>1, <1>2, EntryFacts, OffsetFacts
      <3> QED
        BY <3>1, <3>2, <1>2, EntryFacts, OffsetFacts
    <2> QED
      BY <2>1, <2>2 DEF Closed
  <1>4. Passed(F, from) \subseteq V
    <2> HIDE DEF V
    <2>1. V \in SUBSET Skipped(F)
      BY PassedClosed DEF V
    <2> QED
      BY <2>1, <1>3, PassedLeast
  <1>5. CASE stop = from
    BY <1>5
  <1>6. CASE \E v \in Passed(F, from) : stop = following(v)
    <2>1. PICK v \in Passed(F, from) : stop = following(v)
      BY <1>6
    <2>2. v \in E /\ Offset(v) < Offset(t)
      BY <1>4, <1>1
    <2> QED
      BY <2>1, <2>2, <1>2, EntryFacts, OffsetFacts
  <1> QED
    BY <1>5, <1>6, StopsFacts

-----------------------------------------------------------------------------
(* Changing the flag of an entry.                                          *)

\* If no entry moves, the chain is kept.
LEMMA ChainKept ==
  ASSUME RingTypeOK, NEW E \in SUBSET Headers, Chain(E),
         UNCHANGED <<NextWriter, OutputReader>>, InputReader' \in E \cup {NextWriter},
         \A s \in Slots : s \notin E => mem'[s] = mem[s],
         \A p \in E : /\ mem'[p].flag \notin {"Data", "StartOver"} \/ mem'[p] = mem[p]
                      /\ mem[p].flag # "StartOver" \/ mem'[p] = mem[p]
                      /\ packetEnd(p)' = packetEnd(p)
  PROVE  E \in SUBSET Headers' /\ Chain(E)' /\ \A q \in E : following(q)' = following(q)
  <1>1. E \subseteq Slots /\ NextWriter \in Slots /\ NextWriter \notin E
    BY OffsetFacts DEF Headers, RingTypeOK, Chain
  <1>2. ASSUME NEW q \in E
        PROVE  /\ mem'[q].flag # "Data"
               /\ (mem'[q].flag = "StartOver") <=> (mem[q].flag = "StartOver")
               /\ following(q)' = following(q) /\ packetEnd(q)' = packetEnd(q)
               /\ Offset(q)' = Offset(q) /\ Offset(following(q))' = Offset(following(q))
    <2>1. /\ mem'[q].flag # "Data"
          /\ (mem'[q].flag = "StartOver") <=> (mem[q].flag = "StartOver")
          /\ packetEnd(q)' = packetEnd(q)
      BY EntryFacts
    <2>2. following(q)' = following(q)
      BY <2>1 DEF following
    <2>3. Offset(q)' = Offset(q) /\ Offset(following(q))' = Offset(following(q))
      BY <2>2 DEF Offset
    <2> QED
      BY <2>1, <2>2, <2>3
  <1>3. ASSUME NEW q \in E, mem[q].flag # "StartOver",
               NEW s \in (q + 1) .. (packetEnd(q) - 1)
        PROVE  mem'[s] = Data(q)
    <2>1. s \in Slots /\ mem[s] = Data(q)
      BY <1>3, EntryWords
    <2>2. s \notin E
      BY <2>1, EntryFacts DEF Data
    <2> QED
      BY <2>1, <2>2
  <1>4. Chain(E)'
    <2>1. (mem[NextWriter] = EndMark)'
      BY <1>1 DEF Chain, EndMark
    <2>2. ({OutputReader, InputReader} \subseteq E \cup {NextWriter})'
      BY DEF Chain
    <2>3. ASSUME NEW q \in E
          PROVE  (/\ mem[q].flag # "Data"
                  /\ Offset(q) < Offset(NextWriter)
                  /\ following(q) \in E \cup {NextWriter}
                  /\ Offset(q) < Offset(following(q))
                  /\ \A t \in E : Offset(t) <= Offset(q) \/ Offset(t) >= Offset(following(q))
                  /\ IF mem[q].flag = "StartOver"
                     THEN NextWriter < OutputReader /\ OutputReader <= q
                     ELSE \A s \in (q + 1) .. (packetEnd(q) - 1) : mem[s] = Data(q))'
      <3>1. (mem[q].flag # "Data")'
        BY <1>2
      <3>2. (Offset(q) < Offset(NextWriter) /\ Offset(q) < Offset(following(q)))'
        BY <1>2 DEF Chain, Offset
      <3>3. (following(q) \in E \cup {NextWriter})'
        BY <1>2 DEF Chain
      <3>4. (\A t \in E : Offset(t) <= Offset(q) \/ Offset(t) >= Offset(following(q)))'
        BY <1>2 DEF Chain
      <3>5. CASE mem[q].flag = "StartOver"
        BY <3>1, <3>2, <3>3, <3>4, <3>5, <1>2 DEF Chain
      <3>6. CASE mem[q].flag # "StartOver"
        <4>1. (\A s \in (q + 1) .. (packetEnd(q) - 1) : mem[s] = Data(q))'
          BY <1>2, <1>3, <3>6 DEF Data
        <4> QED
          BY <3>1, <3>2, <3>3, <3>4, <3>6, <4>1, <1>2
      <3> QED
        BY <3>5, <3>6
    <2> QED
      BY <2>1, <2>2, <2>3 DEF Chain
  <1>5. E \in SUBSET Headers'
    BY <1>1, <1>2 DEF Headers
  <1> QED
    BY <1>2, <1>4, <1>5

LEMMA FlagChanges ==
  ASSUME RingTypeOK, NEW E \in SUBSET Headers, Chain(E),
         NEW p \in E, mem[p].flag # "StartOver",
         NEW f \in {"Input", "Output", "Skip"}, mem' = [mem EXCEPT ![p].flag = f],
         UNCHANGED <<NextWriter, OutputReader>>, InputReader' \in E \cup {NextWriter}
  PROVE  E \in SUBSET Headers' /\ Chain(E)' /\ mem' \in [Slots -> Word]
         /\ \A q \in E : following(q)' = following(q)
  <1>1. E \subseteq Slots
    BY DEF Headers
  <1>2. mem' \in [Slots -> Word]
    <2>1. [mem[p] EXCEPT !.flag = f] \in Word
      BY EntryFacts DEF Word, Flags
    <2> QED
      BY <2>1, <1>1 DEF RingTypeOK
  <1>3. /\ mem'[p].flag = f /\ mem'[p].val = mem[p].val
        /\ \A s \in Slots : s # p => mem'[s] = mem[s]
    BY <1>1, EntryFacts DEF RingTypeOK, Word
  <1>4. ASSUME NEW q \in E
        PROVE  /\ mem'[q].flag \notin {"Data", "StartOver"} \/ mem'[q] = mem[q]
               /\ mem[q].flag # "StartOver" \/ mem'[q] = mem[q]
               /\ packetEnd(q)' = packetEnd(q)
    <2>1. mem'[q].val = mem[q].val
      BY <1>1, <1>3
    <2> QED
      BY <2>1, <1>1, <1>3 DEF packetEnd
  <1> QED
    BY <1>2, <1>3, <1>4, ChainKept

-----------------------------------------------------------------------------
(* One lemma per call: where it takes the readers and what it leaves.      *)

\* The readers move along the chain E and pass no unread packet.
ReadersStep(E) ==
  /\ UNCHANGED <<mem, NextWriter, aborted>>
  /\ OutputReader' \in E \cup {NextWriter} /\ InputReader' \in E \cup {NextWriter}
  /\ Offset(OutputReader') <= Offset(InputReader')
  /\ \A q \in E : mem[q].flag \in {"EndOfRing", "Input"} => Offset(InputReader') <= Offset(q)

\* What they leave is the chain that begins at the output reader.
LEMMA ReadersLeave ==
  ASSUME RingTypeOK, NEW E \in SUBSET Headers, Chain(E), ReadersStep(E),
         NEW F \in SUBSET E, F = {q \in E : Offset(q) >= Offset(OutputReader')}
  PROVE  /\ F \in SUBSET Headers' /\ Chain(F)' /\ InputAhead(F)'
         /\ OutputReader' \in Slots /\ InputReader' \in Slots
         /\ \A q \in F : Offset(q)' = Offset(q) - Offset(OutputReader') /\ following(q)' = following(q)
  <1>1. /\ E \subseteq Slots /\ OutputReader' \in Slots /\ InputReader' \in Slots
        /\ UNCHANGED <<mem, NextWriter>>
        /\ OutputReader' \in E \cup {NextWriter} /\ InputReader' \in E \cup {NextWriter}
        /\ Offset(OutputReader') <= Offset(InputReader')
        /\ \A q \in E : mem[q].flag \in {"EndOfRing", "Input"} => Offset(InputReader') <= Offset(q)
    BY DEF RingTypeOK, Headers, ReadersStep
  <1>2. F \in SUBSET Headers' /\ Chain(F)'
    <2>1. F \in SUBSET Headers'
      BY <1>1 DEF Headers
    <2> QED
      BY <2>1, <1>1, ReadersMove
  <1>3. ASSUME NEW q \in F
        PROVE  Offset(q)' = Offset(q) - Offset(OutputReader')
    <2>1. q \in Slots /\ Offset(q) >= Offset(OutputReader')
      BY <1>1
    <2> QED
      BY <2>1, <1>1, SlotsFacts, OffsetFacts DEF Offset
  <1>4. InputAhead(F)'
    <2> SUFFICES ASSUME NEW q \in F, mem[q].flag \in {"EndOfRing", "Input"}
                 PROVE  Offset(InputReader)' <= Offset(q)'
      BY <1>1 DEF InputAhead
    <2>1. q \in Slots /\ Offset(q) >= Offset(OutputReader') /\ Offset(InputReader') <= Offset(q)
      BY <1>1
    <2> QED
      BY <2>1, <1>1, SlotsFacts, OffsetFacts DEF Offset
  <1>5. \A q \in F : following(q)' = following(q)
    BY <1>1 DEF following, packetEnd
  <1> QED
    BY <1>1, <1>2, <1>3, <1>4, <1>5

LEMMA GetOutputMoves ==
  ASSUME RingTypeOK, NEW E \in SUBSET Headers, Chain(E), InputAhead(E),
         NEW r, Packet_GetOutput(r)
  PROVE  /\ ReadersStep(E)
         /\ \A q \in E : mem[q].flag \notin PassedByOutput => Offset(OutputReader') <= Offset(q)
         /\ mem[InputReader].flag \notin PassedByOutput => UNCHANGED InputReader
         /\ r = IF mem[OutputReader'].flag = "Output" THEN OutputReader' ELSE NULL
  <1>1. /\ E \subseteq Slots
        /\ OutputReader \in E \cup {NextWriter} /\ InputReader \in E \cup {NextWriter}
    BY DEF Headers, Chain
  <1>2. PICK out \in Stops(PassedByOutput, OutputReader) :
          /\ OutputReader' = out
          /\ InputReader' = IF InputReader \in Passed(PassedByOutput, OutputReader)
                            THEN out ELSE InputReader
          /\ r = IF mem[out].flag = "Output" THEN out ELSE NULL
          /\ UNCHANGED <<mem, NextWriter, aborted>>
    BY DEF Packet_GetOutput
  <1>3. "EndOfRing" \notin PassedByOutput /\ "Input" \notin PassedByOutput
    BY DEF PassedByOutput
  <1>4. out \in E \cup {NextWriter}
    BY <1>1, <1>2, <1>3, WalkStays
  <1>5. \A t \in E \cup {NextWriter} :
          t \notin Passed(PassedByOutput, OutputReader) => Offset(out) <= Offset(t)
    BY <1>1, <1>2, <1>3, WalkNotPast, OffsetFacts DEF RingTypeOK
  <1>6. \A t : t \in Passed(PassedByOutput, OutputReader) => mem[t].flag \in PassedByOutput
    BY PassedClosed DEF Skipped
  <1>7. Offset(OutputReader') <= Offset(InputReader')
    <2>1. out \in Slots
      BY StopsFacts
    <2> QED
      BY <2>1, <1>1, <1>2, <1>5, OffsetFacts
  <1>8. ASSUME NEW q \in E, mem[q].flag \in {"EndOfRing", "Input"}
        PROVE  Offset(InputReader') <= Offset(q)
    <2>1. q \notin Passed(PassedByOutput, OutputReader)
      BY <1>3, <1>6, <1>8
    <2>2. Offset(InputReader) <= Offset(q)
      BY <1>8 DEF InputAhead
    <2> QED
      BY <2>1, <2>2, <1>2, <1>5
  <1>9. InputReader' \in E \cup {NextWriter}
    BY <1>1, <1>2, <1>4
  <1> QED
    BY <1>2, <1>4, <1>5, <1>6, <1>7, <1>8, <1>9 DEF ReadersStep

LEMMA GetInputMoves ==
  ASSUME RingTypeOK, NEW E \in SUBSET Headers, Chain(E), InputAhead(E),
         NEW r, Packet_GetInput(r)
  PROVE  /\ ReadersStep(E)
         /\ \A q \in E : mem[q].flag \notin PassedByOutput => Offset(OutputReader') <= Offset(q)
         /\ mem[OutputReader].flag \notin PassedByOutput => UNCHANGED OutputReader
         /\ mem[InputReader'].flag \notin PassedByInput
         /\ r = IF mem[InputReader'].flag = "Input" THEN InputReader' ELSE NULL
  <1>1. /\ E \subseteq Slots
        /\ OutputReader \in E \cup {NextWriter} /\ InputReader \in E \cup {NextWriter}
        /\ OutputReader \in Slots /\ InputReader \in Slots /\ NextWriter \in Slots
    BY DEF Headers, Chain, RingTypeOK
  <1>2. PICK in \in Stops(PassedByInput, InputReader),
             out \in IF OutputReader = InputReader
                    THEN Stops(PassedByOutput, OutputReader) ELSE {OutputReader} :
          /\ InputReader' = in
          /\ OutputReader' = out
          /\ r = IF mem[in].flag = "Input" THEN in ELSE NULL
          /\ UNCHANGED <<mem, NextWriter, aborted>>
    BY DEF Packet_GetInput
  <1>3. /\ "EndOfRing" \notin PassedByOutput /\ "EndOfRing" \notin PassedByInput
        /\ "Input" \notin PassedByInput
        /\ PassedByOutput \subseteq PassedByInput
    BY DEF PassedByOutput, PassedByInput
  <1>4. in \in E \cup {NextWriter} /\ Offset(InputReader) <= Offset(in)
        /\ mem[in].flag \notin PassedByInput
    BY <1>1, <1>2, <1>3, WalkStays, StopsFacts
  <1>5. out \in E \cup {NextWriter}
    BY <1>1, <1>2, <1>3, WalkStays
  <1>6. ASSUME NEW t \in E \cup {NextWriter}, mem[t].flag \notin PassedByOutput
        PROVE  Offset(out) <= Offset(t)
    <2>1. CASE OutputReader = InputReader
      <3>1. t \notin Passed(PassedByOutput, OutputReader)
        BY <1>6, PassedClosed DEF Skipped
      <3>2. Offset(OutputReader) <= Offset(t)
        BY <1>1, OffsetFacts
      <3> QED
        BY <3>1, <3>2, <2>1, <1>1, <1>2, <1>3, WalkNotPast
    <2>2. CASE OutputReader # InputReader
      BY <2>2, <1>1, <1>2, OffsetFacts
    <2> QED
      BY <2>1, <2>2
  <1>7. Offset(out) <= Offset(in)
    BY <1>3, <1>4, <1>6
  <1>8. ASSUME NEW q \in E, mem[q].flag \in {"EndOfRing", "Input"}
        PROVE  Offset(in) <= Offset(q)
    <2>1. q \notin Passed(PassedByInput, InputReader)
      BY <1>3, <1>8, PassedClosed DEF Skipped
    <2>2. Offset(InputReader) <= Offset(q)
      BY <1>8 DEF InputAhead
    <2> QED
      BY <2>1, <2>2, <1>1, <1>2, <1>3, WalkNotPast
  <1>9. ASSUME mem[OutputReader].flag \notin PassedByOutput
        PROVE  out = OutputReader
    <2>1. Offset(out) <= 0 /\ out \in Slots
      BY <1>1, <1>5, <1>6, <1>9, OffsetFacts
    <2> QED
      BY <2>1, <1>1, OffsetFacts
  <1> QED
    BY <1>2, <1>4, <1>5, <1>6, <1>7, <1>8, <1>9 DEF ReadersStep

LEMMA ReleaseOutputMoves ==
  ASSUME RingTypeOK, NEW E \in SUBSET Headers, Chain(E), InputAhead(E),
         OutputReader \in E, mem[OutputReader].flag = "Output", Packet_ReleaseOutput(OutputReader)
  PROVE  /\ ReadersStep(E)
         /\ \A q \in E : q # OutputReader <=> Offset(q) >= Offset(OutputReader')
         /\ InputReader # OutputReader => UNCHANGED InputReader
  <1> DEFINE p == OutputReader
  <1>1. p \in Slots /\ E \subseteq Slots /\ NextWriter \in Slots /\ InputReader \in E \cup {NextWriter}
    BY DEF Headers, Chain, RingTypeOK
  <1>2. /\ packetEnd(p) \in Slots /\ packetEnd(p) \in E \cup {NextWriter}
        /\ Offset(p) < Offset(packetEnd(p))
        /\ \A q \in E \cup {NextWriter} : q # p => Offset(q) >= Offset(packetEnd(p))
    <2>1. packetEnd(p) = following(p)
      BY DEF following
    <2> QED
      BY <2>1, <1>1, EntryFacts, OffsetFacts
  <1>3. /\ UNCHANGED <<mem, NextWriter, aborted>> /\ OutputReader' = packetEnd(p)
        /\ InputReader' = IF InputReader = p THEN packetEnd(p) ELSE InputReader
    BY DEF Packet_ReleaseOutput
  <1>4. /\ InputReader' \in E \cup {NextWriter}
        /\ Offset(OutputReader') <= Offset(InputReader')
    BY <1>1, <1>2, <1>3, OffsetFacts
  <1>5. ASSUME NEW q \in E, mem[q].flag \in {"EndOfRing", "Input"}
        PROVE  Offset(InputReader') <= Offset(q)
    <2>1. q # p /\ Offset(InputReader) <= Offset(q)
      BY <1>5 DEF InputAhead
    <2> QED
      BY <2>1, <1>2, <1>3
  <1>6. \A q \in E : q # p <=> Offset(q) >= Offset(OutputReader')
    BY <1>1, <1>2, <1>3, OffsetFacts
  <1> QED
    BY <1>2, <1>3, <1>4, <1>5, <1>6 DEF ReadersStep

\* What follows the input packet at the input reader.
LEMMA InputFollowed ==
  ASSUME RingTypeOK, NEW E \in SUBSET Headers, Chain(E), InputAhead(E),
         InputReader \in E, mem[InputReader].flag = "Input", NEW e, e = packetEnd(InputReader)
  PROVE  /\ e = following(InputReader) /\ e \in Slots /\ e \in E \cup {NextWriter}
         /\ Offset(InputReader) < Offset(e)
         /\ \A q \in E : q # InputReader /\ mem[q].flag \in {"EndOfRing", "Input"} =>
              Offset(e) <= Offset(q)
  <1>1. E \subseteq Slots /\ InputReader \in Slots
    BY DEF Headers, RingTypeOK
  <1>2. e = following(InputReader)
    BY DEF following
  <1>3. /\ e \in Slots /\ e \in E \cup {NextWriter} /\ Offset(InputReader) < Offset(e)
        /\ \A q \in E : Offset(q) <= Offset(InputReader) \/ Offset(q) >= Offset(e)
    BY <1>2, EntryFacts
  <1>4. ASSUME NEW q \in E, q # InputReader, mem[q].flag \in {"EndOfRing", "Input"}
        PROVE  Offset(e) <= Offset(q)
    <2>1. Offset(InputReader) <= Offset(q)
      BY <1>4 DEF InputAhead
    <2>2. Offset(q) # Offset(InputReader)
      BY <1>1, <1>4, OffsetFacts
    <2> QED
      BY <2>1, <2>2, <1>1, <1>3, OffsetFacts
  <1> QED
    BY <1>2, <1>3, <1>4

LEMMA ReattachMoves ==
  ASSUME RingTypeOK, NEW E \in SUBSET Headers, Chain(E), InputAhead(E),
         InputReader \in E, mem[InputReader].flag = "Input", Packet_ReattachOutput(InputReader)
  PROVE  /\ UNCHANGED <<NextWriter, OutputReader, aborted>>
         /\ mem' = [mem EXCEPT ![InputReader].flag = "Output"] /\ mem' \in [Slots -> Word]
         /\ InputReader' \in Slots
         /\ E \in SUBSET Headers' /\ Chain(E)' /\ InputAhead(E)'
         /\ \A q \in E : following(q)' = following(q)
  <1> DEFINE p == InputReader
  <1>1. p \in Slots /\ E \subseteq Slots
    BY DEF Headers, RingTypeOK
  <1>2. /\ UNCHANGED <<NextWriter, OutputReader, aborted>> /\ InputReader' = packetEnd(p)
        /\ mem' = [mem EXCEPT ![p].flag = "Output"]
    BY DEF Packet_ReattachOutput
  <1>3. InputReader' \in Slots /\ InputReader' \in E \cup {NextWriter}
    BY <1>2, InputFollowed
  <1>4. /\ E \in SUBSET Headers' /\ Chain(E)' /\ mem' \in [Slots -> Word]
        /\ \A q \in E : following(q)' = following(q)
    BY <1>2, <1>3, FlagChanges
  <1>5. mem'[p].flag = "Output" /\ \A q \in E \ {p} : mem'[q] = mem[q]
    BY <1>1, <1>2 DEF RingTypeOK, Word
  <1>6. InputAhead(E)'
    <2> SUFFICES ASSUME NEW q \in E, mem'[q].flag \in {"EndOfRing", "Input"}
                 PROVE  Offset(packetEnd(p)) <= Offset(q)
      BY <1>2 DEF InputAhead, Offset
    <2>1. q # p /\ mem[q].flag \in {"EndOfRing", "Input"}
      BY <1>5
    <2> QED
      BY <2>1, InputFollowed
  <1> QED
    BY <1>2, <1>3, <1>4, <1>6

\* A finished packet stays where it is.
LEMMA PutMoves ==
  ASSUME RingTypeOK, NEW E \in SUBSET Headers, Chain(E), InputAhead(E),
         NEW p \in E, mem[p].flag = "EndOfRing", NEW f \in {"Input", "Output"}, SetFlag(p, f)
  PROVE  /\ UNCHANGED <<NextWriter, InputReader, OutputReader, aborted>>
         /\ mem' = [mem EXCEPT ![p].flag = f] /\ mem' \in [Slots -> Word]
         /\ E \in SUBSET Headers' /\ Chain(E)' /\ InputAhead(E)'
         /\ \A q \in E : following(q)' = following(q)
  <1>1. E \subseteq Slots
    BY DEF Headers
  <1>2. /\ UNCHANGED <<NextWriter, InputReader, OutputReader, aborted>>
        /\ mem' = [mem EXCEPT ![p].flag = f]
    BY DEF SetFlag
  <1>3. /\ E \in SUBSET Headers' /\ Chain(E)' /\ mem' \in [Slots -> Word]
        /\ \A q \in E : following(q)' = following(q)
    BY <1>2, FlagChanges DEF Chain
  <1>4. \A q \in E \ {p} : mem'[q] = mem[q]
    BY <1>1, <1>2 DEF RingTypeOK
  <1>5. InputAhead(E)'
    BY <1>2, <1>4 DEF InputAhead, Offset
  <1> QED
    BY <1>2, <1>3, <1>5

-----------------------------------------------------------------------------
(* Creating a packet.  m is the memory as allocateNew finds it: the one of *)
(* the ring, or that with the packet to be moved already marked Skip.      *)

Found(m, E) ==
  /\ m \in [Slots -> Word]
  /\ \A s \in Slots : \/ m[s] = mem[s]
                      \/ s \in E /\ mem[s].flag = "EndOfRing" /\ m[s] = Skip(mem[s].val)

LEMMA WrittenFacts ==
  ASSUME RingTypeOK, NEW m \in [Slots -> Word], NEW w \in Slots, NEW len \in Nat,
         getNextPacket(w, len) \in Slots, Store(m, w, len)
  PROVE  /\ mem' \in [Slots -> Word]
         /\ w < getNextPacket(w, len)
         /\ mem'[w] = Unfinished(len)
         /\ mem'[getNextPacket(w, len)] = EndMark
         /\ \A s \in (w + 1) .. (getNextPacket(w, len) - 1) : mem'[s] = Data(w)
         /\ \A s \in Slots : s < w \/ s > getNextPacket(w, len) => mem'[s] = m[s]
         /\ NextWriter' = getNextPacket(w, len)
  <1> DEFINE e == getNextPacket(w, len)
  <1>1. w \in Int /\ e \in Int /\ w < e /\ w \in Nat
    BY SlotsFacts, UnitsFacts DEF getNextPacket
  <1> HIDE DEF e
  <1>2. Unfinished(len) \in Word /\ Data(w) \in Word /\ EndMark \in Word
    BY <1>1 DEF Unfinished, Data, EndMark, Word, Flags
  <1>3. mem' = [s \in Slots |->
                  CASE s = w         -> Unfinished(len)
                    [] s > w /\ s < e -> Data(w)
                    [] s = e         -> EndMark
                    [] s < w \/ s > e -> m[s]]
    BY DEF Store, Written, e
  <1>4. \A s \in Slots : s \in Int
    BY SlotsFacts
  <1>5. \A s \in Slots : mem'[s] = IF s = w THEN Unfinished(len)
                                   ELSE IF s = e THEN EndMark
                                   ELSE IF w < s /\ s < e THEN Data(w) ELSE m[s]
    BY <1>1, <1>3, <1>4
  <1>6. e \in Slots /\ w \in Slots
    BY DEF e
  <1>7. mem' \in [Slots -> Word]
    <2>1. \A s \in Slots : mem'[s] \in Word
      BY <1>2, <1>5
    <2> QED
      BY <2>1, <1>3
  <1>8. \A s \in (w + 1) .. (e - 1) : s \in Slots /\ s # w /\ s # e /\ w < s /\ s < e
    BY <1>1, <1>6, SlotsFacts, EndAssumption
  <1>9. \A s \in Slots : s < w \/ s > e => s # w /\ s # e /\ ~ (w < s /\ s < e)
    BY <1>1, <1>4
  <1>10. NextWriter' = e
    BY DEF Store, e
  <1> QED
    BY <1>1, <1>5, <1>6, <1>7, <1>8, <1>9, <1>10 DEF e

\* Writes beyond the writer leave every entry as it was found.
LEMMA EntriesKept ==
  ASSUME RingTypeOK, NEW E \in SUBSET Headers, Chain(E), NEW m, Found(m, E),
         UNCHANGED OutputReader,
         \A s \in Slots : Offset(s) < Offset(NextWriter) => mem'[s] = m[s],
         NEW p \in E
  PROVE  /\ mem'[p] = m[p] /\ mem'[p].flag # "Data"
         /\ (mem'[p].flag = "StartOver") <=> (mem[p].flag = "StartOver")
         /\ mem'[p].flag \in {"EndOfRing", "Input"} => mem'[p].flag = mem[p].flag
         /\ following(p)' = following(p) /\ packetEnd(p)' = packetEnd(p)
         /\ Offset(p)' = Offset(p) /\ Offset(following(p))' = Offset(following(p))
         /\ mem[p].flag # "StartOver" =>
              \A s \in (p + 1) .. (packetEnd(p) - 1) : mem'[s] = Data(p)
  <1>1. p \in Slots /\ Offset(p) < Offset(NextWriter) /\ mem[p].flag # "Data"
    BY EntryFacts DEF Chain
  <1>2. /\ mem'[p] = m[p]
        /\ \/ m[p] = mem[p]
           \/ mem[p].flag = "EndOfRing" /\ m[p] = Skip(mem[p].val)
    <2>1. mem'[p] = m[p]
      BY <1>1
    <2>2. m[p] = mem[p] \/ (mem[p].flag = "EndOfRing" /\ m[p] = Skip(mem[p].val))
      BY <1>1 DEF Found
    <2> QED
      BY <2>1, <2>2
  <1>3. /\ mem'[p].flag # "Data" /\ mem'[p].val = mem[p].val
        /\ (mem'[p].flag = "StartOver") <=> (mem[p].flag = "StartOver")
        /\ mem'[p].flag \in {"EndOfRing", "Input"} => mem'[p].flag = mem[p].flag
    BY <1>1, <1>2 DEF Skip
  <1>4. following(p)' = following(p) /\ packetEnd(p)' = packetEnd(p)
    BY <1>3 DEF following, packetEnd
  <1>5. Offset(p)' = Offset(p) /\ Offset(following(p))' = Offset(following(p))
    BY <1>4 DEF Offset
  <1>6. ASSUME mem[p].flag # "StartOver", NEW s \in (p + 1) .. (packetEnd(p) - 1)
        PROVE  mem'[s] = Data(p)
    <2>1. s \in p .. (packetEnd(p) - 1)
      BY <1>1, <1>6, EntryWords, SlotsFacts
    <2>2. s \in Slots /\ mem[s] = Data(p) /\ Offset(s) < Offset(NextWriter)
      BY <1>6, <2>1, EntryWords
    <2>3. mem'[s] = m[s] /\ m[s] = mem[s]
      BY <2>2 DEF Found, Data
    <2> QED
      BY <2>2, <2>3
  <1>7. mem[p].flag # "StartOver" =>
          \A s \in (p + 1) .. (packetEnd(p) - 1) : mem'[s] = Data(p)
    BY <1>6
  <1>8. mem'[p] = m[p]
    BY <1>2
  <1> QED
    BY <1>3, <1>4, <1>5, <1>7, <1>8

\* r is a new unfinished packet at the end of the chain, behind a StartOver
\* entry if memory has started over.
Created(E, r) ==
  /\ mem' \in [Slots -> Word] /\ NextWriter' \in Slots
  /\ InputReader' \in Slots /\ OutputReader' \in Slots /\ UNCHANGED aborted
  /\ r \in Slots /\ r \notin E /\ mem'[r].flag = "EndOfRing"
  /\ E # {} => UNCHANGED <<InputReader, OutputReader>>
  /\ \E G \in SUBSET Slots :
       /\ G \in SUBSET Headers' /\ E \cup {r} \subseteq G /\ Chain(G)' /\ InputAhead(G)'
       /\ \A q \in G \ (E \cup {r}) : mem'[q].flag = "StartOver" /\ following(q)' = r
       /\ \A q \in E : /\ Offset(q)' = Offset(q) /\ Offset(q)' < Offset(r)'
                       /\ following(q)' = following(q)

LEMMA StoreBehindCreates ==
  ASSUME RingTypeOK, NEW E \in SUBSET Headers, Chain(E), InputAhead(E),
         NEW m, Found(m, E), NEW len \in Nat, NEW r, StoreBehind(m, len, r)
  PROVE  Created(E, r) /\ mem'[r] = Unfinished(len) /\ \A p \in E : mem'[p] = m[p]
  <1> DEFINE G == E \cup {r}
  <1>0. PICK e : e = getNextPacket(NextWriter, len)
    OBVIOUS
  <1>1. /\ r = NextWriter /\ NextWriter \in Slots /\ Store(m, r, len) /\ m \in [Slots -> Word]
        /\ UNCHANGED <<InputReader, OutputReader, aborted>>
        /\ End \in Nat /\ OutputReader \in Slots /\ InputReader \in Slots /\ E \subseteq Slots
    BY OffsetFacts DEF StoreBehind, Found, Headers
  <1>2. e \in Slots /\ NextWriter < e /\ Offset(NextWriter) < Offset(e)
    <2>1. IF NextWriter >= OutputReader THEN e <= End ELSE e < OutputReader
      BY <1>0 DEF StoreBehind
    <2>2. e \in Int /\ NextWriter < e
      BY <1>0, <1>1, SlotsFacts, UnitsFacts DEF getNextPacket
    <2>3. e \in Slots
      BY <2>1, <2>2, <1>1, SlotsFacts
    <2> QED
      BY <2>1, <2>2, <2>3, <1>1, SlotsFacts DEF Offset
  <1>3. /\ mem' \in [Slots -> Word] /\ NextWriter' = e
        /\ mem'[r] = Unfinished(len) /\ mem'[e] = EndMark
        /\ \A s \in (r + 1) .. (e - 1) : mem'[s] = Data(r)
        /\ \A s \in Slots : s < r \/ s > e => mem'[s] = m[s]
    BY <1>0, <1>1, <1>2, WrittenFacts
  <1>4. \A s \in Slots : Offset(s) < Offset(NextWriter) => mem'[s] = m[s]
    <2> SUFFICES ASSUME NEW s \in Slots, Offset(s) < Offset(NextWriter) PROVE s < r \/ s > e
      BY <1>3
    <2>1. IF NextWriter >= OutputReader THEN e <= End ELSE e < OutputReader
      BY <1>0 DEF StoreBehind
    <2> QED
      BY <2>1, <1>1, <1>2, SlotsFacts DEF Offset
  <1>5. Offset(r)' = Offset(r) /\ Offset(e)' = Offset(e) /\ Offset(r) = Offset(NextWriter)
    BY <1>1 DEF Offset
  <1>6. following(r)' = e /\ packetEnd(r)' = e
    BY <1>0, <1>1, <1>3 DEF following, packetEnd, Unfinished
  <1>7. \A q \in E : Offset(q) < Offset(r) /\ q # r /\ Offset(q)' = Offset(q)
                     /\ Offset(following(q)) <= Offset(r)
    BY <1>1, EntryFacts, EntriesKept, <1>4, OffsetFacts DEF Chain
  <1>8. Chain(G)'
    <2>1. (mem[NextWriter] = EndMark)'
      BY <1>3
    <2>2. ({OutputReader, InputReader} \subseteq G \cup {NextWriter})'
      BY <1>1 DEF Chain
    <2>3. (/\ mem[r].flag # "Data"
           /\ Offset(r) < Offset(NextWriter)
           /\ following(r) \in G \cup {NextWriter}
           /\ Offset(r) < Offset(following(r))
           /\ \A q \in G : Offset(q) <= Offset(r) \/ Offset(q) >= Offset(following(r))
           /\ mem[r].flag # "StartOver"
           /\ \A s \in (r + 1) .. (packetEnd(r) - 1) : mem[s] = Data(r))'
      <3>1. mem'[r].flag = "EndOfRing"
        BY <1>3 DEF Unfinished
      <3>2. (Offset(r) < Offset(NextWriter) /\ Offset(r) < Offset(following(r)))'
        BY <1>2, <1>3, <1>5, <1>6 DEF Offset
      <3>3. (\A q \in G : Offset(q) <= Offset(r))'
        BY <1>5, <1>7, <1>1, OffsetFacts
      <3>4. (\A s \in (r + 1) .. (packetEnd(r) - 1) : mem[s] = Data(r))'
        BY <1>3, <1>6 DEF Data
      <3> QED
        BY <3>1, <3>2, <3>3, <3>4, <1>3, <1>6
    <2>4. ASSUME NEW p \in E
          PROVE  (/\ mem[p].flag # "Data"
                  /\ Offset(p) < Offset(NextWriter)
                  /\ following(p) \in G \cup {NextWriter}
                  /\ Offset(p) < Offset(following(p))
                  /\ \A q \in G : Offset(q) <= Offset(p) \/ Offset(q) >= Offset(following(p))
                  /\ IF mem[p].flag = "StartOver"
                     THEN NextWriter < OutputReader /\ OutputReader <= p
                     ELSE \A s \in (p + 1) .. (packetEnd(p) - 1) : mem[s] = Data(p))'
      <3>1. /\ mem'[p].flag # "Data"
            /\ (mem'[p].flag = "StartOver") <=> (mem[p].flag = "StartOver")
            /\ following(p)' = following(p) /\ packetEnd(p)' = packetEnd(p)
            /\ Offset(p)' = Offset(p) /\ Offset(following(p))' = Offset(following(p))
            /\ mem[p].flag # "StartOver" =>
                 \A s \in (p + 1) .. (packetEnd(p) - 1) : mem'[s] = Data(p)
        BY <1>1, <1>4, EntriesKept
      <3>2. /\ following(p) \in E \cup {NextWriter} /\ Offset(p) < Offset(following(p))
            /\ \A q \in E \cup {NextWriter} :
                 Offset(q) <= Offset(p) \/ Offset(q) >= Offset(following(p))
        BY EntryFacts
      <3>3. (Offset(p) < Offset(NextWriter))'
        BY <1>1, <1>2, <1>3, <1>5, <1>7, <3>1, OffsetFacts DEF Offset
      <3>4. (\A q \in G : Offset(q) <= Offset(p) \/ Offset(q) >= Offset(following(p)))'
        BY <3>1, <3>2, <1>1, <1>5, <1>7
      <3>5. (following(p) \in G)'
        BY <3>1, <3>2, <1>1
      <3>6. CASE mem[p].flag = "StartOver"
        <4>1. NextWriter < OutputReader /\ OutputReader <= p
          BY <3>6 DEF Chain
        <4>2. e < OutputReader
          BY <4>1, <1>0, <1>1, SlotsFacts DEF StoreBehind
        <4> QED
          BY <3>1, <3>2, <3>3, <3>4, <3>5, <3>6, <4>1, <4>2, <1>1, <1>3
      <3>7. CASE mem[p].flag # "StartOver"
        <4>1. (\A s \in (p + 1) .. (packetEnd(p) - 1) : mem[s] = Data(p))'
          BY <3>1, <3>7 DEF Data
        <4> QED
          BY <3>1, <3>2, <3>3, <3>4, <3>5, <3>7, <4>1
      <3> QED
        BY <3>6, <3>7
    <2> QED
      BY <2>1, <2>2, <2>3, <2>4 DEF Chain
  <1>9. InputAhead(G)'
    <2>1. Offset(InputReader)' <= Offset(r)'
      BY <1>1, <1>5, <1>7, OffsetFacts DEF Chain, Offset
    <2>2. ASSUME NEW p \in E, mem'[p].flag \in {"EndOfRing", "Input"}
          PROVE  Offset(InputReader)' <= Offset(p)'
      <3>1. mem[p].flag \in {"EndOfRing", "Input"} /\ Offset(p)' = Offset(p)
        BY <1>1, <1>4, <2>2, EntriesKept
      <3> QED
        BY <3>1, <1>1 DEF InputAhead, Offset
    <2> QED
      BY <2>1, <2>2 DEF InputAhead
  <1>10. G \in SUBSET Headers' /\ G \in SUBSET Slots
    BY <1>1, <1>3, <1>4, EntriesKept DEF Headers, Unfinished
  <1>11. \A p \in E : mem'[p] = m[p]
    BY <1>1, <1>4, EntriesKept
  <1>12. r \notin E /\ mem'[r].flag = "EndOfRing"
    BY <1>3, <1>7 DEF Unfinished
  <1>13. \A q \in E : /\ Offset(q)' = Offset(q) /\ Offset(q)' < Offset(r)'
                      /\ following(q)' = following(q)
    BY <1>1, <1>4, <1>5, <1>7, EntriesKept
  <1>14. \A q \in G \ (E \cup {r}) : mem'[q].flag = "StartOver" /\ following(q)' = r
    OBVIOUS
  <1> HIDE DEF G
  <1>15. E \cup {r} \subseteq G
    BY DEF G
  <1> QED
    BY <1>1, <1>2, <1>3, <1>8, <1>9, <1>10, <1>11, <1>12, <1>13, <1>14, <1>15 DEF Created

LEMMA WrapAroundCreates ==
  ASSUME RingTypeOK, NEW E \in SUBSET Headers, Chain(E), InputAhead(E),
         NEW m, Found(m, E), NEW len \in Nat, NEW r, WrapAround(m, len, r)
  PROVE  Created(E, r) /\ mem'[r] = Unfinished(len) /\ \A p \in E : mem'[p] = m[p]
  <1>0. PICK e, w : e = getNextPacket(0, len) /\ w = NextWriter
    OBVIOUS
  <1> DEFINE G == E \cup {w, 0}
             n == [m EXCEPT ![w] = StartOver]
  <1>1. /\ r = 0 /\ w \in Slots /\ Store(n, 0, len) /\ m \in [Slots -> Word]
        /\ UNCHANGED <<InputReader, OutputReader, aborted>>
        /\ End \in Nat /\ OutputReader \in Slots /\ InputReader \in Slots /\ E \subseteq Slots
        /\ 0 \in Slots
    BY <1>0, OffsetFacts, SlotsFacts DEF WrapAround, Found, Headers
  <1>2. n \in [Slots -> Word]
    <2>1. StartOver \in Word
      BY DEF StartOver, Word, Flags
    <2> QED
      BY <2>1, <1>1
  <1>3. e \in Slots /\ 0 < e /\ e < OutputReader /\ OutputReader < w
    <2>1. e < OutputReader /\ OutputReader < w
      BY <1>0, <1>1, SlotsFacts DEF WrapAround
    <2>2. e \in Int /\ 0 < e
      BY <1>0, UnitsFacts DEF getNextPacket
    <2> QED
      BY <2>1, <2>2, <1>1, SlotsFacts
  <1>4. /\ mem' \in [Slots -> Word] /\ NextWriter' = e
        /\ mem'[0] = Unfinished(len) /\ mem'[e] = EndMark
        /\ \A s \in (0 + 1) .. (e - 1) : mem'[s] = Data(0)
        /\ \A s \in Slots : s < 0 \/ s > e => mem'[s] = n[s]
    <2> HIDE DEF n
    <2> QED
      BY <1>0, <1>1, <1>2, <1>3, WrittenFacts
  <1>5. \A s \in Slots : s > e => mem'[s] = IF s = w THEN StartOver ELSE m[s]
    BY <1>1, <1>4
  <1>6. mem'[w] = StartOver
    BY <1>1, <1>3, <1>5, SlotsFacts
  <1>7. \A s \in Slots : Offset(s) < Offset(w) => OutputReader <= s /\ s < w
    BY <1>1, <1>3, SlotsFacts DEF Offset
  <1>8. \A s \in Slots : Offset(s) < Offset(NextWriter) => mem'[s] = m[s]
    BY <1>0, <1>1, <1>3, <1>5, <1>7, SlotsFacts
  <1>9. /\ \A s \in Slots : Offset(s)' = Offset(s)
        /\ Offset(w) < Offset(0) /\ Offset(0) < Offset(e)
    BY <1>1, <1>3, SlotsFacts DEF Offset
  <1>10. /\ following(0)' = e /\ packetEnd(0)' = e /\ following(w)' = 0
    BY <1>0, <1>4, <1>6 DEF following, packetEnd, Unfinished, StartOver
  <1>11. \A q \in E : /\ Offset(q) < Offset(w) /\ q # w /\ q # 0
                      /\ Offset(following(q)) <= Offset(w) /\ following(q) \in E \cup {w}
                      /\ following(q) \in Slots
    BY <1>0, <1>1, <1>9, EntryFacts, OffsetFacts DEF Chain
  <1>12. Chain(G)'
    <2>1. (mem[NextWriter] = EndMark)'
      BY <1>4
    <2>2. ({OutputReader, InputReader} \subseteq G \cup {NextWriter})'
      BY <1>0, <1>1 DEF Chain
    <2>3. (/\ mem[0].flag # "Data"
           /\ Offset(0) < Offset(NextWriter)
           /\ following(0) \in G \cup {NextWriter}
           /\ Offset(0) < Offset(following(0))
           /\ \A q \in G : Offset(q) <= Offset(0) \/ Offset(q) >= Offset(following(0))
           /\ mem[0].flag # "StartOver"
           /\ \A s \in (0 + 1) .. (packetEnd(0) - 1) : mem[s] = Data(0))'
      <3>1. mem'[0].flag = "EndOfRing"
        BY <1>4 DEF Unfinished
      <3>2. (Offset(0) < Offset(NextWriter) /\ Offset(0) < Offset(following(0)))'
        BY <1>1, <1>3, <1>4, <1>9, <1>10
      <3>3. (\A q \in G : Offset(q) <= Offset(0))'
        BY <1>1, <1>9, <1>11, OffsetFacts
      <3>4. (\A s \in (0 + 1) .. (packetEnd(0) - 1) : mem[s] = Data(0))'
        BY <1>4, <1>10 DEF Data
      <3> QED
        BY <3>1, <3>2, <3>3, <3>4, <1>4, <1>10
    <2>4. (/\ mem[w].flag = "StartOver"
           /\ Offset(w) < Offset(NextWriter)
           /\ following(w) \in G \cup {NextWriter}
           /\ Offset(w) < Offset(following(w))
           /\ \A q \in G : Offset(q) <= Offset(w) \/ Offset(q) >= Offset(following(w))
           /\ NextWriter < OutputReader /\ OutputReader <= w)'
      <3>1. mem'[w].flag = "StartOver"
        BY <1>6 DEF StartOver
      <3>2. (Offset(w) < Offset(NextWriter) /\ Offset(w) < Offset(following(w)))'
        BY <1>1, <1>3, <1>4, <1>9, <1>10, OffsetFacts
      <3>3. (\A q \in G : Offset(q) <= Offset(w) \/ Offset(q) >= Offset(following(w)))'
        BY <1>1, <1>9, <1>10, <1>11, OffsetFacts
      <3> QED
        BY <3>1, <3>2, <3>3, <1>1, <1>3, <1>4, <1>10, SlotsFacts
    <2>5. ASSUME NEW p \in E
          PROVE  (/\ mem[p].flag # "Data"
                  /\ Offset(p) < Offset(NextWriter)
                  /\ following(p) \in G \cup {NextWriter}
                  /\ Offset(p) < Offset(following(p))
                  /\ \A q \in G : Offset(q) <= Offset(p) \/ Offset(q) >= Offset(following(p))
                  /\ mem[p].flag # "StartOver"
                  /\ \A s \in (p + 1) .. (packetEnd(p) - 1) : mem[s] = Data(p))'
      <3>1. /\ mem'[p].flag # "Data"
            /\ (mem'[p].flag = "StartOver") <=> (mem[p].flag = "StartOver")
            /\ following(p)' = following(p) /\ packetEnd(p)' = packetEnd(p)
            /\ mem[p].flag # "StartOver" =>
                 \A s \in (p + 1) .. (packetEnd(p) - 1) : mem'[s] = Data(p)
        BY <1>1, <1>8, EntriesKept
      <3>2. /\ p \in Slots /\ Offset(p) < Offset(following(p))
            /\ \A q \in E : Offset(q) <= Offset(p) \/ Offset(q) >= Offset(following(p))
        BY EntryFacts
      <3>3. mem[p].flag # "StartOver"
        BY <1>0, <1>1, <1>3, SlotsFacts DEF Chain
      <3>4. (Offset(p) < Offset(NextWriter))'
        BY <3>2, <1>1, <1>3, <1>4, <1>9, <1>11, OffsetFacts
      <3>5. (\A q \in G : Offset(q) <= Offset(p) \/ Offset(q) >= Offset(following(p)))'
        BY <3>1, <3>2, <1>1, <1>9, <1>11, OffsetFacts
      <3>6. (following(p) \in G)' /\ (Offset(p) < Offset(following(p)))'
        BY <3>1, <3>2, <1>1, <1>9, <1>11
      <3>7. (\A s \in (p + 1) .. (packetEnd(p) - 1) : mem[s] = Data(p))'
        BY <3>1, <3>3 DEF Data
      <3> QED
        BY <3>1, <3>3, <3>4, <3>5, <3>6, <3>7
    <2> QED
      BY <2>1, <2>2, <2>3, <2>4, <2>5 DEF Chain
  <1>13. InputAhead(G)'
    <2>1. Offset(InputReader)' = Offset(InputReader) /\ Offset(InputReader) <= Offset(w)
      BY <1>0, <1>1, <1>9, <1>11, OffsetFacts DEF Chain, Offset
    <2>2. Offset(InputReader)' <= Offset(0)' /\ Offset(InputReader)' <= Offset(w)'
      BY <2>1, <1>1, <1>9, OffsetFacts
    <2>3. ASSUME NEW p \in E, mem'[p].flag \in {"EndOfRing", "Input"}
          PROVE  Offset(InputReader)' <= Offset(p)'
      <3>1. mem[p].flag \in {"EndOfRing", "Input"} /\ Offset(p)' = Offset(p)
        BY <1>1, <1>8, <2>3, EntriesKept
      <3> QED
        BY <3>1, <2>1 DEF InputAhead
    <2> QED
      BY <2>2, <2>3 DEF InputAhead
  <1>14. G \in SUBSET Headers' /\ G \in SUBSET Slots
    <2>1. \A q \in E : mem'[q].flag # "Data"
      BY <1>1, <1>8, EntriesKept
    <2> QED
      BY <2>1, <1>1, <1>4, <1>6 DEF Headers, Unfinished, StartOver
  <1>15. \A p \in E : mem'[p] = m[p]
    BY <1>1, <1>8, EntriesKept
  <1>16. r \notin E /\ mem'[r].flag = "EndOfRing"
    BY <1>1, <1>4, <1>11 DEF Unfinished
  <1>17. \A q \in E : /\ Offset(q)' = Offset(q) /\ Offset(q)' < Offset(r)'
                      /\ following(q)' = following(q)
    BY <1>1, <1>8, <1>9, <1>11, EntriesKept, OffsetFacts
  <1>18. \A q \in G \ (E \cup {r}) : mem'[q].flag = "StartOver" /\ following(q)' = r
    BY <1>1, <1>6, <1>10 DEF StartOver
  <1>19. E \cup {r} \subseteq G
    BY <1>1
  <1> HIDE DEF G
  <1> QED
    BY <1>1, <1>3, <1>4, <1>12, <1>13, <1>14, <1>15, <1>16, <1>17, <1>18, <1>19 DEF Created

LEMMA RestartCreates ==
  ASSUME RingTypeOK, NEW E \in SUBSET Headers, Chain(E), InputAhead(E),
         NEW m, Found(m, E), NEW len \in Nat, NEW r, Restart(m, len, r),
         getNextPacket(0, len) <= End
  PROVE  Created(E, r) /\ mem'[r] = Unfinished(len) /\ \A p \in E : mem'[p] = m[p]
  <1>0. PICK e : e = getNextPacket(0, len)
    OBVIOUS
  <1>1. /\ r = 0 /\ Store(m, 0, len) /\ m \in [Slots -> Word] /\ 0 \in Slots /\ UNCHANGED aborted
        /\ End \in Nat /\ OutputReader' = 0 /\ InputReader' = 0 /\ NextWriter = OutputReader
    BY OffsetFacts, SlotsFacts DEF Restart, Found
  <1>2. E = {}
    BY <1>1, EntryFacts, OffsetFacts DEF Chain
  <1>3. e \in Slots /\ 0 < e
    BY <1>0, <1>1, UnitsFacts, SlotsFacts DEF getNextPacket
  <1>4. /\ mem' \in [Slots -> Word] /\ NextWriter' = e
        /\ mem'[0] = Unfinished(len) /\ mem'[e] = EndMark
        /\ \A s \in (0 + 1) .. (e - 1) : mem'[s] = Data(0)
    BY <1>0, <1>1, <1>3, WrittenFacts
  <1>5. /\ following(0)' = e /\ packetEnd(0)' = e /\ Offset(0)' = 0 /\ Offset(e)' = e
        /\ mem'[0].flag = "EndOfRing" /\ Offset(InputReader)' = 0
    BY <1>0, <1>1, <1>3, <1>4, SlotsFacts DEF following, packetEnd, Unfinished, Offset
  <1>6. Chain({0})'
    <2>1. (\A s \in (0 + 1) .. (packetEnd(0) - 1) : mem[s] = Data(0))'
      BY <1>4, <1>5 DEF Data
    <2>2. (Offset(0) < Offset(NextWriter) /\ Offset(0) < Offset(following(0)))'
      BY <1>3, <1>4, <1>5, SlotsFacts DEF Offset
    <2>3. (Offset(0) <= Offset(0))'
      BY <1>5
    <2> QED
      BY <2>1, <2>2, <2>3, <1>1, <1>4, <1>5 DEF Chain
  <1>7. InputAhead({0})'
    BY <1>5 DEF InputAhead
  <1>8. {0} \in SUBSET Headers' /\ {0} \in SUBSET Slots
    BY <1>1, <1>5 DEF Headers
  <1> QED
    BY <1>1, <1>2, <1>3, <1>4, <1>5, <1>6, <1>7, <1>8 DEF Created

LEMMA AllocateCreates ==
  ASSUME RingTypeOK, NEW E \in SUBSET Headers, Chain(E), InputAhead(E),
         NEW m, Found(m, E), NEW len \in Nat, NEW r, allocateNew(m, len, r)
  PROVE  \/ /\ r = NULL /\ aborted' \in BOOLEAN /\ (~ aborted' => NextWriter # OutputReader)
            /\ UNCHANGED <<mem, NextWriter, InputReader, OutputReader>>
         \/ Created(E, r) /\ mem'[r] = Unfinished(len) /\ \A p \in E : mem'[p] = m[p]
  <1>1. CASE StoreBehind(m, len, r)
    BY <1>1, StoreBehindCreates
  <1>2. CASE WrapAround(m, len, r)
    BY <1>2, WrapAroundCreates
  <1>3. CASE Restart(m, len, r) /\ getNextPacket(0, len) <= End
    BY <1>3, RestartCreates
  <1>4. CASE Restart(m, len, r) /\ ~ (getNextPacket(0, len) <= End)
    BY <1>4 DEF Restart, AssertFails
  <1>5. CASE Full(len, r)
    BY <1>5, OffsetFacts, SlotsFacts DEF Full, ring, RingTypeOK
  <1> QED
    BY <1>1, <1>2, <1>3, <1>4, <1>5 DEF allocateNew
=============================================================================
