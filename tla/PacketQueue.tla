----------------------------- MODULE PacketQueue -----------------------------
(***************************************************************************)
(* What the packet buffer promises: one queue of packets in the order they *)
(* were created.  The oldest input packet may be taken before the output   *)
(* packets in front of it and either leaves or becomes an output packet in *)
(* its place; an output packet leaves when it is the oldest of all.        *)
(***************************************************************************)
EXTENDS Naturals, Sequences

CONSTANT Lens

VARIABLE queue

Kinds == {"unfinished", "in", "out"}

Packet(kind, len) == [kind |-> kind, len |-> len]

Remove(i) == SubSeq(queue, 1, i - 1) \o SubSeq(queue, i + 1, Len(queue))

Init == queue = << >>

Create == \E len \in Lens : queue' = Append(queue, Packet("unfinished", len))

ResizeInPlace(i) ==
  /\ queue[i].kind = "unfinished"
  /\ \E len \in Lens : queue' = [queue EXCEPT ![i].len = len]

\* A packet that outgrows its place becomes the youngest.
ResizeByMoving(i) ==
  /\ queue[i].kind = "unfinished"
  /\ \E len \in Lens :
       len > queue[i].len /\ queue' = Append(Remove(i), Packet("unfinished", len))

Finish(i) ==
  /\ queue[i].kind = "unfinished"
  /\ \E kind \in {"in", "out"} : queue' = [queue EXCEPT ![i].kind = kind]

\* Only output packets are in front of the next input packet.
NextInput(i) ==
  /\ queue[i].kind = "in"
  /\ \A j \in 1 .. (i - 1) : queue[j].kind = "out"

Drop(i)   == NextInput(i) /\ queue' = Remove(i)
Resend(i) == NextInput(i) /\ queue' = [queue EXCEPT ![i].kind = "out"]

Send ==
  /\ queue # << >>
  /\ Head(queue).kind = "out"
  /\ queue' = Tail(queue)

Next ==
  \/ Create
  \/ \E i \in DOMAIN queue :
       ResizeInPlace(i) \/ ResizeByMoving(i) \/ Finish(i) \/ Drop(i) \/ Resend(i)
  \/ Send

Spec == Init /\ [][Next]_queue
=============================================================================
