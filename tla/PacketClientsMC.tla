--------------------------- MODULE PacketClientsMC ---------------------------
(***************************************************************************)
(* Instances of PacketClients for TLC, and the packet buffer as an         *)
(* implementation of PacketQueue.                                          *)
(***************************************************************************)
EXTENDS PacketClients, Sequences

(* The queue the ring holds: its packets from the output reader to the     *)
(* writer, without the entries readers skip.                               *)

\* The headers before the writer; those behind StartOver are stale.
Entries ==
  {s \in Headers : /\ Offset(s) < Offset(NextWriter)
                   /\ \A t \in OutputReader .. (s - 1) : mem[t].flag # "StartOver"}

Live(E) == {p \in E : mem[p].flag \notin PassedByOutput}

\* The place of p among the slots L, counted from the output reader.
Place(L, p) == Cardinality({q \in L : Offset(q) <= Offset(p)})

At(L, i) == CHOOSE p \in L : Place(L, p) = i

kindOf == [EndOfRing |-> "unfinished", Input |-> "in", Output |-> "out"]

QueueOf(L) ==
  [i \in 1 .. Cardinality(L) |->
     [kind |-> kindOf[mem[At(L, i)].flag], len |-> mem[At(L, i)].val]]

Contents == LET live == Live(Entries) IN QueueOf(live)

Promise == INSTANCE PacketQueue WITH queue <- Contents

\* The packet buffer implements the queue: no call loses, duplicates or
\* reorders a packet, skips only what was released or moved, and lets an
\* output packet out only when it is the oldest.
ImplementsQueue == Promise!Spec
=============================================================================
