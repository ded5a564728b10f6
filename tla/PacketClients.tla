---------------------------- MODULE PacketClients ----------------------------
(***************************************************************************)
(* The packet buffer under every use its interface allows: producers that  *)
(* hold any number of unfinished packets, one reader of the input chain    *)
(* and one of the output chain, each with at most one packet in hand.      *)
(* Every call is one step, as PacketBuffer.h asks (the calls that are not  *)
(* threadsafe are made with interrupts off or inside the interrupt).       *)
(***************************************************************************)
EXTENDS PacketBuffer, FiniteSets

CONSTANT ShrinkLast     \* may the last packet of the ring be made smaller?

ASSUME ShrinkLastAssumption == ShrinkLast \in BOOLEAN

VARIABLES unfinished,   \* packets created and not yet put into a chain
          inPacket,     \* packet the input reader got, or NULL
          outPacket     \* packet the output reader got, or NULL

clients == <<unfinished, inPacket, outPacket>>
vars == <<ring, clients>>

Init ==
  /\ RingInit
  /\ unfinished = {}
  /\ inPacket = NULL
  /\ outPacket = NULL

New ==
  \E len \in Lens, r \in Slots \cup {NULL} :
    /\ Packet_New(len, r)
    /\ unfinished' = unfinished \cup ({r} \ {NULL})
    /\ UNCHANGED <<inPacket, outPacket>>

\* The old pointer stays valid if the call fails.
Resize(p) ==
  \E len \in Lens, r \in Slots \cup {NULL} :
    /\ ShrinkLast \/ getNextPacket(p, len) >= packetEnd(p) \/ NextWriter # packetEnd(p)
    /\ Packet_Resize(p, len, r)
    /\ unfinished' = IF r = NULL THEN unfinished ELSE (unfinished \ {p}) \cup {r}
    /\ UNCHANGED <<inPacket, outPacket>>

PutInput(p) ==
  /\ Packet_PutInput(p)
  /\ unfinished' = unfinished \ {p}
  /\ UNCHANGED <<inPacket, outPacket>>

PutOutput(p) ==
  /\ Packet_PutOutput(p)
  /\ unfinished' = unfinished \ {p}
  /\ UNCHANGED <<inPacket, outPacket>>

GetInput ==
  /\ inPacket = NULL
  /\ Packet_GetInput(inPacket')
  /\ UNCHANGED <<unfinished, outPacket>>

GetOutput ==
  /\ outPacket = NULL
  /\ Packet_GetOutput(outPacket')
  /\ UNCHANGED <<unfinished, inPacket>>

ReleaseInput ==
  /\ inPacket # NULL
  /\ Packet_ReleaseInput(inPacket)
  /\ inPacket' = NULL
  /\ UNCHANGED <<unfinished, outPacket>>

ReattachOutput ==
  /\ inPacket # NULL
  /\ Packet_ReattachOutput(inPacket)
  /\ inPacket' = NULL
  /\ UNCHANGED <<unfinished, outPacket>>

ReleaseOutput ==
  /\ outPacket # NULL
  /\ Packet_ReleaseOutput(outPacket)
  /\ outPacket' = NULL
  /\ UNCHANGED <<unfinished, inPacket>>

Step ==
  \/ New
  \/ \E p \in unfinished : Resize(p) \/ PutInput(p) \/ PutOutput(p)
  \/ GetInput
  \/ GetOutput
  \/ ReleaseInput
  \/ ReattachOutput
  \/ ReleaseOutput

\* Nothing runs after a failed assertion.
Next == ~ aborted /\ Step

Spec == Init /\ [][Next]_vars

-----------------------------------------------------------------------------

TypeOK ==
  /\ RingTypeOK
  /\ unfinished \in SUBSET Slots
  /\ inPacket \in Slots \cup {NULL}
  /\ outPacket \in Slots \cup {NULL}

\* Packets in the hands of a client are entries of the ring in the state
\* that client left them in, and the two readers stand on theirs.
HeldIn(E) ==
  /\ unfinished \subseteq E
  /\ \A p \in unfinished : mem[p].flag = "EndOfRing"
  /\ inPacket # NULL => inPacket = InputReader /\ inPacket \in E /\ mem[inPacket].flag = "Input"
  /\ outPacket # NULL => outPacket = OutputReader /\ outPacket \in E /\ mem[outPacket].flag = "Output"

\* The ring is one chain of entries from the output reader to the writer, with
\* the input reader on it and no input packet behind it, no two entries share a
\* word, and every packet a client holds is one of them: no interleaving of the
\* calls of PacketBuffer.c loses the chain or a packet of it.
RingIntact == \E E \in SUBSET Headers : Chain(E) /\ InputAhead(E) /\ HeldIn(E)

\* No assert() of PacketBuffer.c fails, however the calls interleave.
NoAssertFails == ~ aborted

Held == unfinished \cup ({inPacket, outPacket} \ {NULL})

\* Zero copy: while a client holds a packet and does not resize it, no call of
\* anybody writes a word of it.
HeldWordsStable ==
  [][\A p \in Held \cap Held' :
       mem'[p].val = mem[p].val
         => \A s \in p .. (packetEnd(p) - 1) : mem'[s].val = mem[s].val]_vars

\* Readers only ever stand on an entry or on the end mark, as the comment on
\* the flags says ("Both readers are blocked if they reach a packet marked
\* EndOfRing"): they never take packet data for the state of a packet.
ReadersOnEntries == mem[InputReader].flag # "Data" /\ mem[OutputReader].flag # "Data"
=============================================================================
