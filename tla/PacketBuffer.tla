---------------------------- MODULE PacketBuffer ----------------------------
(***************************************************************************)
(* The ring buffer of PacketBuffer.c: its memory, its three cursors and    *)
(* one action operator per function of PacketBuffer.h.  The module has no  *)
(* behaviour of its own; PacketClients and UsbDevice call its operators.   *)
(*                                                                         *)
(* Memory is a function from slots (the Packet_t array RingBuffer.Start    *)
(* with the reserved slot RingBuffer.End) to words.  A word is either the  *)
(* state field of a packet, its flag bits and its length in bytes, or a    *)
(* word of packet data, which remembers the slot of the packet it was      *)
(* handed out to: a write to somebody else's data is then visible.         *)
(* Slots have the two bytes of AVR, where sizeof(Packet_t) = 2.            *)
(***************************************************************************)
EXTENDS Integers

CONSTANTS End,          \* index of RingBuffer.End, the last slot
          Lens,         \* lengths in bytes packets are created with
          NULL          \* the null pointer

ASSUME EndAssumption == End \in Nat \ {0}

\* A length leaves the two flag bits alone and is not the one of StartOver.
ASSUME LensAssumption == Lens \subseteq 0 .. 16382

ASSUME NullAssumption == NULL \notin Nat

VARIABLES mem,            \* the words of RingBuffer
          NextWriter,     \* slot the next packet is created at
          InputReader,    \* slot the input chain is read from
          OutputReader,   \* slot the output chain is read from
          aborted         \* an assert() has failed

ring == <<mem, NextWriter, InputReader, OutputReader, aborted>>

Slots == 0 .. End

-----------------------------------------------------------------------------
(* Words.  An unfinished packet has no flag bit set, like the end mark.    *)

Flags == {"EndOfRing", "Input", "Output", "Skip", "StartOver", "Data"}

Word == [flag : Flags, val : Nat]

EndMark         == [flag |-> "EndOfRing", val |-> 0]
StartOver       == [flag |-> "StartOver", val |-> 16383]
Unfinished(len) == [flag |-> "EndOfRing", val |-> len]
Skip(len)       == [flag |-> "Skip", val |-> len]
Data(p)         == [flag |-> "Data", val |-> p]

(* Definitions named Mutant... are broken variants of the one that follows *)
(* them; no other definition uses them.                                    *)

\* One slot too many.
MutantUnits(len) == (len + 5) \div 2

\* Slots a packet of len bytes takes, its state field included.
Units(len) == (len + 3) \div 2

\* The length whose packet takes exactly n slots.
LenOfUnits(n) == 2 * n - 2

getNextPacket(p, len) == p + Units(len)

RingInit ==
  /\ mem = [s \in Slots |-> EndMark]
  /\ NextWriter = 0
  /\ InputReader = 0
  /\ OutputReader = 0
  /\ aborted = FALSE

\* A failed assert() stops the program before anything else happens.
AssertFails == aborted' = TRUE /\ UNCHANGED <<mem, NextWriter, InputReader, OutputReader>>

-----------------------------------------------------------------------------
(* Creating packets.                                                       *)

\* m with an unfinished packet of len bytes at w and the end mark behind it.
Written(m, w, len) ==
  [s \in Slots |->
     CASE s = w                                  -> Unfinished(len)
       [] s > w /\ s < getNextPacket(w, len)     -> Data(w)
       [] s = getNextPacket(w, len)              -> EndMark
       [] s < w \/ s > getNextPacket(w, len)     -> m[s]]

Store(m, w, len) ==
  /\ mem' = Written(m, w, len)
  /\ NextWriter' = getNextPacket(w, len)

\* The reserved slot is taken for one that may be followed.
MutantStoreBehind(m, len, r) ==
  /\ IF NextWriter >= OutputReader
     THEN getNextPacket(NextWriter, len) <= End + 1
     ELSE getNextPacket(NextWriter, len) < OutputReader
  /\ Store(m, NextWriter, len)
  /\ r = NextWriter
  /\ UNCHANGED <<InputReader, OutputReader, aborted>>

\* The packet fits behind the last one.
StoreBehind(m, len, r) ==
  /\ IF NextWriter >= OutputReader
     THEN getNextPacket(NextWriter, len) <= End
     ELSE getNextPacket(NextWriter, len) < OutputReader
  /\ Store(m, NextWriter, len)
  /\ r = NextWriter
  /\ UNCHANGED <<InputReader, OutputReader, aborted>>

\* The end mark is written over the oldest packet.
MutantWrapAround(m, len, r) ==
  /\ NextWriter > OutputReader
  /\ getNextPacket(NextWriter, len) > End
  /\ getNextPacket(0, len) <= OutputReader
  /\ Store([m EXCEPT ![NextWriter] = StartOver], 0, len)
  /\ r = 0
  /\ UNCHANGED <<InputReader, OutputReader, aborted>>

\* It fits only at the beginning of memory, before the oldest packet.
WrapAround(m, len, r) ==
  /\ NextWriter > OutputReader
  /\ getNextPacket(NextWriter, len) > End
  /\ getNextPacket(0, len) < OutputReader
  /\ Store([m EXCEPT ![NextWriter] = StartOver], 0, len)
  /\ r = 0
  /\ UNCHANGED <<InputReader, OutputReader, aborted>>

\* The ring is empty: every cursor goes back to the beginning.
Restart(m, len, r) ==
  /\ NextWriter = OutputReader
  /\ getNextPacket(NextWriter, len) > End
  /\ IF getNextPacket(0, len) <= End
     THEN /\ Store(m, 0, len)
          /\ InputReader' = 0
          /\ OutputReader' = 0
          /\ r = 0
          /\ UNCHANGED aborted
     ELSE AssertFails /\ r = NULL

Full(len, r) ==
  /\ \/ /\ NextWriter > OutputReader
        /\ getNextPacket(NextWriter, len) > End
        /\ getNextPacket(0, len) >= OutputReader
     \/ /\ NextWriter < OutputReader
        /\ getNextPacket(NextWriter, len) >= OutputReader
  /\ r = NULL
  /\ UNCHANGED ring

allocateNew(m, len, r) ==
  \/ StoreBehind(m, len, r)
  \/ WrapAround(m, len, r)
  \/ Restart(m, len, r)
  \/ Full(len, r)

Packet_New(len, r) == allocateNew(mem, len, r)

-----------------------------------------------------------------------------
(* Resizing an unfinished packet.                                          *)

packetEnd(p) == getNextPacket(p, mem[p].val)

\* The last packet gives its remainder back, any other leaves a Skip entry.
Shrink(p, len, r) ==
  LET next == getNextPacket(p, len)
      rest == packetEnd(p) - next
  IN /\ rest >= 0
     /\ IF rest > 0 /\ NextWriter # packetEnd(p)
        THEN mem' = [s \in Slots |->
                       CASE s = p                          -> Unfinished(len)
                         [] s = next                       -> Skip(LenOfUnits(rest))
                         [] s > next /\ s < packetEnd(p)   -> Data(next)
                         [] s # p /\ (s < next \/ s >= packetEnd(p)) -> mem[s]]
        ELSE mem' = [mem EXCEPT ![p] = Unfinished(len)]
     /\ NextWriter' = IF NextWriter = packetEnd(p) THEN next ELSE NextWriter
     /\ r = p
     /\ UNCHANGED <<InputReader, OutputReader, aborted>>

\* A packet that has wrapped around may grow over the oldest one.
MutantCanExtend(p, len) ==
  /\ NextWriter = packetEnd(p)
  /\ getNextPacket(p, len) <= End

CanExtend(p, len) ==
  /\ NextWriter = packetEnd(p)
  /\ IF p < OutputReader
     THEN getNextPacket(p, len) < OutputReader
     ELSE getNextPacket(p, len) <= End

Extend(p, len, r) ==
  /\ getNextPacket(p, len) > packetEnd(p)
  /\ CanExtend(p, len)
  /\ Store(mem, p, len)
  /\ r = p
  /\ UNCHANGED <<InputReader, OutputReader, aborted>>

\* A new packet takes the contents over; the old one is skipped from now on.
Move(p, len, r) ==
  /\ getNextPacket(p, len) > packetEnd(p)
  /\ ~ CanExtend(p, len)
  /\ allocateNew([mem EXCEPT ![p] = Skip(mem[p].val)], len, r)

Packet_Resize(p, len, r) ==
  IF mem[p].flag = "EndOfRing"
  THEN Shrink(p, len, r) \/ Extend(p, len, r) \/ Move(p, len, r)
  ELSE AssertFails /\ r = NULL

-----------------------------------------------------------------------------
(* Putting finished packets into a chain.                                  *)

SetFlag(p, flag) ==
  /\ mem' = [mem EXCEPT ![p].flag = flag]
  /\ UNCHANGED <<NextWriter, InputReader, OutputReader, aborted>>

Packet_PutInput(p) ==
  IF mem[p].flag = "EndOfRing" THEN SetFlag(p, "Input") ELSE AssertFails

Packet_PutOutput(p) ==
  IF mem[p].flag = "EndOfRing" THEN SetFlag(p, "Output") ELSE AssertFails

-----------------------------------------------------------------------------
(* Reading.  A reader starts at a slot and steps over entries until it     *)
(* meets one whose flag it does not skip.  Passed is the least set of      *)
(* entries that holds the first one, if it is skipped, and with every      *)
(* entry the following one, if it is skipped.                              *)

PassedByOutput == {"Skip", "StartOver"}
PassedByInput  == PassedByOutput \cup {"Output"}

\* The slot a reader at p goes to next.
following(p) == IF mem[p].flag = "StartOver" THEN 0 ELSE packetEnd(p)

Skipped(F) == {s \in Slots : mem[s].flag \in F}

Closed(V, F, from) ==
  /\ from \in Skipped(F) => from \in V
  /\ \A v \in V : following(v) \in Skipped(F) => following(v) \in V

Passed(F, from) ==
  {s \in Skipped(F) : \A V \in SUBSET Skipped(F) : Closed(V, F, from) => s \in V}

\* Where it stops; a chain has one such slot.
Stops(F, from) ==
  {s \in Slots \cap ({from} \cup {following(v) : v \in Passed(F, from)}) : mem[s].flag \notin F}

\* An output reader at the same place follows as far as it could go itself.
Packet_GetInput(r) ==
  /\ InputReader' \in Stops(PassedByInput, InputReader)
  /\ OutputReader' \in IF OutputReader = InputReader
                       THEN Stops(PassedByOutput, OutputReader)
                       ELSE {OutputReader}
  /\ r = IF mem[InputReader'].flag = "Input" THEN InputReader' ELSE NULL
  /\ UNCHANGED <<mem, NextWriter, aborted>>

\* An input reader among the passed entries is taken along.
Packet_GetOutput(r) ==
  /\ OutputReader' \in Stops(PassedByOutput, OutputReader)
  /\ InputReader' = IF InputReader \in Passed(PassedByOutput, OutputReader)
                    THEN OutputReader' ELSE InputReader
  /\ r = IF mem[OutputReader'].flag = "Output" THEN OutputReader' ELSE NULL
  /\ UNCHANGED <<mem, NextWriter, aborted>>

-----------------------------------------------------------------------------
(* Giving packets back.                                                    *)

\* The output reader passes the output packets in front of p.
MutantReleaseInput(p) ==
  /\ InputReader' = packetEnd(p)
  /\ OutputReader' = packetEnd(p)
  /\ UNCHANGED <<mem, NextWriter, aborted>>

Packet_ReleaseInput(p) ==
  /\ InputReader' = packetEnd(p)
  /\ IF OutputReader = p
     THEN OutputReader' = packetEnd(p) /\ UNCHANGED mem
     ELSE mem' = [mem EXCEPT ![p].flag = "Skip"] /\ UNCHANGED OutputReader
  /\ UNCHANGED <<NextWriter, aborted>>

\* The input reader stays on a packet that is free.
MutantReleaseOutput(p) ==
  /\ OutputReader' = packetEnd(p)
  /\ UNCHANGED <<mem, NextWriter, InputReader, aborted>>

Packet_ReleaseOutput(p) ==
  /\ OutputReader' = packetEnd(p)
  /\ InputReader' = IF InputReader = p THEN packetEnd(p) ELSE InputReader
  /\ UNCHANGED <<mem, NextWriter, aborted>>

Packet_ReattachOutput(p) ==
  IF mem[p].flag = "Input"
  THEN /\ mem' = [mem EXCEPT ![p].flag = "Output"]
       /\ InputReader' = packetEnd(p)
       /\ UNCHANGED <<NextWriter, OutputReader, aborted>>
  ELSE AssertFails

-----------------------------------------------------------------------------
(* Shape of the ring.                                                      *)

RingTypeOK ==
  /\ mem \in [Slots -> Word]
  /\ NextWriter \in Slots
  /\ InputReader \in Slots
  /\ OutputReader \in Slots
  /\ aborted \in BOOLEAN

\* How far s lies behind the output reader, in the order of the ring.
Offset(s) == IF s >= OutputReader THEN s - OutputReader
                                  ELSE s + End + 1 - OutputReader

\* E is the set of entries between the output reader and the writer.
Chain(E) ==
  /\ mem[NextWriter] = EndMark
  /\ {OutputReader, InputReader} \subseteq E \cup {NextWriter}
  /\ \A p \in E :
       /\ mem[p].flag # "Data"
       /\ Offset(p) < Offset(NextWriter)
       /\ following(p) \in E \cup {NextWriter}
       /\ Offset(p) < Offset(following(p))
       /\ \A q \in E : Offset(q) <= Offset(p) \/ Offset(q) >= Offset(following(p))
       /\ IF mem[p].flag = "StartOver"
          THEN NextWriter < OutputReader /\ OutputReader <= p
          ELSE \A s \in (p + 1) .. (packetEnd(p) - 1) : mem[s] = Data(p)

\* The input reader has passed no packet that is, or will be, input.
InputAhead(E) ==
  \A p \in E : mem[p].flag \in {"EndOfRing", "Input"} => Offset(InputReader) <= Offset(p)

\* Headers of the memory, current and stale ones.
Headers == {s \in Slots : mem[s].flag # "Data"}
=============================================================================
