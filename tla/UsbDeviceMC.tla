----------------------------- MODULE UsbDeviceMC -----------------------------
(***************************************************************************)
(* Instances of UsbDevice for TLC.  In the small ones endpoint packets     *)
(* have 3 bytes instead of 64, headers 1 instead of 24, and the shortest   *)
(* packet has 2 bytes instead of 42.                                       *)
(***************************************************************************)
EXTENDS UsbDevice

Frame(claim, bytes) == [claim |-> claim, bytes |-> bytes]

\* Complete frames that take one, one and an empty, and two endpoint packets.
Complete == {Frame(2, 2), Frame(3, 3), Frame(5, 5)}

\* One that fills a ring of 4 words and the reserved one exactly, and ends with a
\* full endpoint packet; a padded frame; and frames the device has to drop: for
\* somebody else, too short, and shorter than its headers tell already in its first
\* endpoint packet.
Mixed == {Frame(6, 6), Frame(3, 5), Frame(0, 4), Frame(0, 1), Frame(6, 2)}

\* A frame that ends too early in a later endpoint packet.
Truncated == {Frame(3, 3), Frame(5, 4)}

\* With the sizes of the program: the longest frame PacketCheck accepts.
Longest == {Frame(590, 590)}
=============================================================================
