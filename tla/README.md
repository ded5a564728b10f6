# SNTP-time-switch: models and proofs

A time switch on an AVR microcontroller (ATmega32U2, 1 KB of RAM) that appears
to its host as a USB network adapter (CDC-ECM). The part of the program that is
built (`src/makefile`) receives Ethernet frames over USB, keeps them in a packet
buffer without copying, processes them in the main loop and sends them back.
This directory holds TLA+ models of it, TLC configurations, and proofs for TLAPS.

    tlc -config packet_clients.cfg PacketClientsMC     # a run, see "Runs"
    tlapm PacketBufferProofs.tla                       # proofs, see "Proofs"

## Inventory

| Component | State | Operations | Status |
|---|---|---|---|
| Packet buffer, `src/PacketBuffer.c/.h` | `RingBuffer`, `NextWriter`, `InputReader`, `OutputReader` | New, Resize, PutInput, PutOutput, GetInput, GetOutput, ReleaseInput, ReleaseOutput, ReattachOutput | modelled, proved |
| USB endpoint interrupt, `src/USB.c/.h` | static variables of sending and receiving, `ConnectionStateIndex`, enabled endpoint interrupts | `EVENT_USB_Endpoint_Interrupt`, `USB_EnableTransmitter`, `EVENT_USB_Device_ConfigurationChanged`, control requests | modelled, except for some configurations and control requests; proved |
| Frame filter, `src/net/PacketCheck.c` | none | `USB_Read24Byte_Check_GetLength` | by its result |
| Main loop and sleep, `src/Zeitschaltuhr.c`, `src/timer1.h` | sleep enable bit, the packet in work | `processNetworkPackets`, `main`, timer interrupt | modelled |
| Rule engine, `src/rules.c`, `platine1.h`, `Teich.h`, `relay.h` | values, dependencies, change flags, timers of rules | `checkRules`, `sendChangedRules`, `UDP_Callback_Request`, `UDP_Callback_Reply` | modelled, proved; not in the present build |
| Time, `src/timestamp.h`, `src/timer0.h` | clock, cached day and midnight | `eu_dst`, `calculateTimestamp`, `getStructTM`, `getMidnight` | modelled, proved; used by the rule engine only |
| Network stack, `src/Lib/` | `ARP_Table`, `writePosition` | process and generate of ARP, IP, ICMP, UDP, SNTP | modelled without lengths and constant header fields, proved; not in the present build |
| C++ port, `src/c++/` | a queue and packets | as the packet buffer | not modelled: unfinished, in no build |
| Descriptors, start-up, memory check, resources, LUFA configuration | constants, registers | none of their own | not modelled |

### How they interact

- The **interrupt handler** is called by LUFA when an enabled endpoint interrupt
  is pending. It takes output packets (GetOutput), writes them endpoint packet by
  endpoint packet and releases them (ReleaseOutput). It reads the headers of a
  frame, lets the **frame filter** decide, creates a packet (New), fills it and
  puts it into the input chain (PutInput), or gives it up (ReleaseInput).
- The **main loop** takes input packets (GetInput) and makes output packets of
  them (ReattachOutput), each in an `ATOMIC_BLOCK`; then it enables the
  transmitter interrupt and sleeps, unless somebody cleared the sleep bit.
- The two share the ring, the mask of endpoint interrupts and the sleep bit.
- The **rule engine** has its place in the same main loop (the calls are commented
  out in the present `main()`): a packet from the network, which may ask for the
  value of a rule or report one of another device or the time, then
  `checkRules()`, then `sendChangedRules()`. Rules see each other's value, change
  flag and whether it is known; the SNTP rule sets the clock all of them use.
- The **network stack** is called by `processNetworkPackets` with a packet, which it
  answers in place or not, and calls back the rule engine with requests and answers.
  `checkRules` and `sendChangedRules` generate packets through it. The ARP table
  is shared by answers, which fill it, and requests, which need it.

### What is hard, and what makes it right

1. *One ring, two readers, packets leaving out of turn.* Input packets may be
   processed while output packets in front of them wait; released packets stay as
   `Skip` entries until the output reader has passed them; the two readers take
   each other along. Right: the entries stay one chain, packets in use are never
   overwritten, the whole behaves as one queue (`RingIntact`, `HeldWordsStable`,
   `ImplementsQueue`).
2. *Limits of the ring.* Wrapping around, filling it exactly, appending to the
   last packet. Right: no assertion fails (`NoAssertFails`).
3. *Handler against main loop.* The handler may run between any two steps of the
   loop. Right: every call still finds the packet in the state it is made for
   (`KeepsRules`), no input packet is slept on (`NeverSleepsOnInput`).
4. *Frames in pieces.* Padding, frames that end with a full endpoint packet, end
   too early, or find no space and wait in the endpoint. Right: the host gets
   back what it sent, in order (`EchoesInOrder`), eventually (`EveryFrameEchoed`),
   and receiving is off only while there is something to send that will switch it
   on again (`OffOnlyWhileFull`).
5. *Rules that wait for each other.* Change flags that end when they are sent,
   arguments that become unknown, timers, a cached day, a clock that is set back,
   answers lost, late or given twice, no space to send. Right: a known rule has the
   value its arguments give (`UpToDate`), time switches and monoflops switch on time
   (`SwitchesOnTime`, `MonoflopsEnd`), unknown values are asked for again
   (`AsksAgain`, with an exception for a clock that was set back), changes are told
   (`ChangesGetTold`, which fails: finding 5).
6. *Answers written over questions, addresses from a table that is too small, an
   Ethernet that loses, repeats and reorders.* Right: what is sent goes to the
   neighbour its destination is reached through (`GoesToNextHop`), with checksums
   that fit (`ChecksumsFit`); the table tells what a host told last
   (`TableTellsLatest`) and is not written behind its end (`StaysInTable`, which
   fails: finding 6); the time gets known in the end (`GetsKnown`).
7. *Days of 23 and 25 hours, a lost and a repeated hour, arithmetic on 32 bits
   over 136 years.* Right: `SummerIsSummer`, `CachedDayIsLatest`, `OrdersOfTheDay`.

`PROJECT.json` lists these hazards with the line at which each bites.

## Modules

    PacketQueue          what the packet buffer promises: one queue
    PacketBuffer         operators: memory of the ring and the functions of PacketBuffer.c
      PacketClients      every legal use of the interface, as a specification
        PacketClientsMC  instance for TLC; refinement of PacketQueue
          QueueProofs    that refinement
        PacketBufferProofs
      PacketRing         lemmas on the ring, for the proofs
      UsbDevice          interrupt handler, main loop, timer, host; refines PacketClients
        UsbDeviceMC      instances for TLC
        UsbDeviceProofs
    RuleEngine           rules, cached day, clock, requests and answers
      RuleEngineMC       a configuration with one rule of each type
      RuleEngineProofs
    NetStack             ARP, IP, ICMP, UDP and SNTP, other hosts, an Ethernet
      NetStackMC         a router, two neighbours and a host of another net
      NetStackProofs     where packets go, and their checksums
    LocalTime            daylight saving time and the cached day (with its own run)
      LocalTimeProofs
    SubSecond            the fraction of a second and the timer, only proved

**PacketBuffer.** The memory is `mem`, one word per slot of a packet's alignment
(two bytes): the first word of a packet holds its state (flag and length), the
others are `Data`. Contents are abstracted to the place they belong to, which is
what the code can damage. `End`, `NextWriter`, `InputReader`, `OutputReader` are
the fields and pointers of the same names, as slot numbers. `aborted` becomes
true when an `assert` fails; nothing runs afterwards. Each function is an
operator with the same name; a pointer that is returned is a parameter of it.
The loops of the readers (`while (state == Skip ...)`) are one step: the code
runs them with interrupts off. `Stops(F, from)` is the slot such a loop ends at,
given the flags it passes.

**PacketClients.** `unfinished`, `inPacket`, `outPacket` are the packets in the
hands of clients; one action per function. Calls are steps, as `PacketBuffer.h`
says which functions are not threadsafe and every caller disables interrupts or is
the interrupt. The constant `ShrinkLast` says whether `Packet_Resize` may make
the last packet of the ring smaller, which does damage (finding 4); in the
present build nobody resizes.

**PacketQueue.** A sequence of packets in order of creation. The oldest input
packet with only output packets in front of it may leave or become an output
packet in place; output packets leave from the head; an unfinished packet may be
resized, and becomes the youngest when it has to move.

**UsbDevice.** The main loop is cut at its atomic blocks (`mainPc`): set the
sleep bit, get, reattach, sleep. The handler is cut into stages (`isrPc`) that
make at most one call of the packet buffer each, so that the host can act between
them:

| `isrPc` | actions | code |
|---|---|---|
| none | `Enter` | entry: remember and disable the endpoint interrupts |
| tx, txWrite | `TxSkip`, `TxGet`, `TxWrite` | send one endpoint packet |
| rx | `RxSkip`, `RxContinue`, `RxCheck` | an endpoint packet has arrived: the next one of a frame, or the first, with its headers |
| rxSpace | `RxSpace` | NEEDSPACE: create the packet or stop receiving |
| rxRead | `RxRead` | READING: the bytes; with the last ones finish or give up |
| no | `No` | connection notifications |
| exit | `Exit` | enable the interrupts again |

A frame is `[claim, bytes]`: the length its headers tell (0 if the filter rejects
it) and the bytes the host really sends. `stored[s]` says whose bytes the packet
at slot `s` has; `echoed` what the host has got back. The LUFA endpoint functions
and the host are external: banks that fill and empty (`inBusy`, `outFifo`), and a
host that ends each frame with a short endpoint packet.

**RuleEngine.** `ruleData` is a constant, a function from rule numbers to records
with the fields of the C structure that belong to the rule's type. `ruleState` has
`timer`, `value` and `ok` as in the code. A value is the set of its bits that are
one, so that the gates are unions and complements. A round of the main loop is
`processNetworkPackets`, `StartCheck` (reads the clock), one `checkRules` step per
rule and `sendChangedRules`; the clock ticks in between, which is the same as
ticking during the checks since they use the time read before. Whether the
transmitter has space and whether the address of another device is known is free;
any answer may arrive in any round. The cached `tm` and `_nextMidnight` are one
variable, `nextMidnight`, whose day is the cached one. `untold`, `latest` (the
greatest time at which rules were checked) and `late` (rules that waited for an
answer when SNTP set the clock back) are history variables. Rules come after the
ones they use (`ConfigAssumption`), as in `platine1.h`, `Teich.h` and `test.h`.

**NetStack.** Each function that answers a packet in place is an operator from the
packet received to the one sent back or `NULL` (`ARP_Reply`, `ICMP_Reply`,
`UDP_Reply`, `IP_Reply`, `Ethernet_Reply`); what it learns from a packet is an
operator of its own (`ARP_Learn`, `IP_Learn`), and the action
`processNetworkPackets` takes both. Pointers into the packet that is overwritten
are the parameter `NULL` of `ARP_WriteHeader` and `IP_WriteHeader`, which then read
the packet in the order of the assignments. `ARP_Table` has the entries the
code declares, 0 to `Size` - 1, and `writePosition` goes one further. An address
written there goes to memory that is not the table's: `overrun` becomes true and the
device does nothing from then on, as nothing can be said of it. An address is a
pair of net and host; the table has the host only. The rules are what the stack
needs: known or not (`Ask`, `UDP_Callback_Reply`). External are the neighbours, the
router with the hosts behind it, and the wire, a set of packets: a step may take a
packet or leave it there, and any packet may be next or get lost. `told` is a
history variable.

**LocalTime.** The operators of `timestamp.h` with hours for seconds: all
constants there are whole hours, but for the border at which the year 2100 is left
out, which lies in winter. `Summer` is the reference, from the calendar. The clock
goes through all years, each hour in the windows around a change and with longer
steps between (`Evaluate`), and an answer may set it back before the rules are
evaluated (`EvaluateSetBack`). `latest` is a history variable, the latest time of
an evaluation. `ZoneSet` says whether the C library knows the time zone; nothing
in the repository calls `set_zone()` or `set_dst()`, so the run has FALSE.

**SubSecond.** `frac2timer` of `Lib/SNTP.c` and the top value of `timer1.h`.

## Runs

| Run | What it shows |
|---|---|
| `packet_clients` | every interleaving of the calls on a ring of 8 words: the ring stays intact, held packets are not written, no assertion fails, it is a queue |
| `usb_echo` | three frames through handler, loop and host: order and contents, no sleep on input, receiving off only with cause, the device is a client that keeps the rules, and each frame comes back in the end |
| `usb_mixed` | two banks per endpoint; frames that fill the ring exactly and end with a full endpoint packet, and padded ones, between frames to drop |
| `usb_longest` | *finding 1* |
| `usb_truncated` | *finding 2* |
| `usb_stall` | *finding 3* |
| `shrink_last` | *finding 4* |
| `rules` | seven rules through three days, with a clock SNTP sets forth and back: values, switching times, monoflops and requests, these measured by the clock as it is |
| `rules_unsent` | *finding 5* |
| `network` | what the device sends goes to the right neighbour with checksums that fit, the ARP table tells the latest addresses up to its last entry, and the time gets known in the end |
| `network_full` | *finding 6* |
| `local_time` | 136 years: daylight saving time by the European rule, the cached day is that of the latest evaluation also if the clock is set back, the orders of a day are executed when the comments say |

Each property of a passing run also has a mutant: the operator `Mutant...` in
front of the definition it replaces is a plausible mistake in the code, and TLC
finds the property violated with it.

### Bounds

- *Ring of 8 words*, the reserved one at its end included. Packets of 1, 3 or 5
  bytes (2, 2 or 3, 3 or 4 words with the state) fill it with two to four entries,
  fill it exactly, leave remainders at the end, and wrap around at every position.
  All cases of `allocateNew`, `Packet_Resize` and of both readers fire. The ring
  needs no bound in time: the state space of `PacketClients` is finite.
- *Three frames* (`MaxFrames`) fill the ring, wrap it around and find it full;
  *two* in the run with two banks.
- *Small sizes.* Endpoint packets of 3 bytes, headers of 1, shortest packet 2: the
  comparisons of the handler (`<`, `=`, `>` between endpoint packet, length told
  and bytes sent) all occur as with 64, 24 and 42. In `usb_mixed` the ring has 4
  words and the reserved one, which the longest frame fills to the last byte, as
  one of 588 bytes fills the 590 of the program.
- *Rules.* SNTP, remote value, time switch behind the SNTP rule, monoflop behind the
  time switch, a gate of the three, a relay: each way a rule can depend on one that
  becomes unknown, changes, or waits. Days of 4 seconds, on from 1 to 3 on every
  second day, a clock up to 9 (`MaxTime`) that SNTP sets to 3 or 6: before, in and
  after the time that is on, across midnights, forth and back. The first timer is 1
  instead of 5, queries come every 2 seconds instead of 300. Values have 3 bits,
  enough to tell the times apart.
- *Three neighbours and a table of three entries* (`Size`), which is filled to the
  last one, by neighbours that tell again and again in any order, while a host of
  another net tells the same number. In `network_full` the table has two entries,
  one less than there are neighbours. Two packets on the wire (`MaxWire`) are
  enough for a late or repeated answer to pass another. One change of an address
  (`MaxMoves`), of the router. Words of 3 bits (`Width`), with 4 for the type of a
  request (`ICMP_Echo_Request`): a carry out of the highest bit in headers and in
  one of the two pings, none in the other. A rule with the time behind the router,
  one with the value of a neighbour, which may not answer (`Reachable`), and a
  host of another net with the number of a neighbour.
- *136 years* (`LastYear`), all that a clock of 32 bits has. Within 50 hours
  (`Window`) of a change of the clocks each hour is visited, or the rules are not
  evaluated until the next change; else steps to the next multiple of 100 hours
  (`Stride`), less than the week by which `eu_dst` counts. An answer may set the
  clock back by 3 hours (`SetBacks`) behind the latest evaluation: across
  midnight, and across a change of the clocks.
- *One configuration* (`MaxConfigs`). Further ones are in the model but not in the
  runs: see "Not modelled".

### Fairness

`EveryFrameEchoed` assumes weak fairness of the main loop, of entering the handler
(an interrupt that stays pending and enabled is served), of the handler's stages
(it runs to its end), of the host finishing a frame it has begun, and of the host
polling each IN endpoint. That is the processor running and a host that is
present. No fairness is assumed of the timer: the frames must not depend on the
tick that wakes the loop once a second. Nor must the host begin a frame.

`GetsKnown` (`NetStack`) assumes for the rules in `Reachable` what the timers of
the rule engine and a network that is not cut off give: a rule that can ask again
and again does ask, and of a request, an answer or the router's address that is
again and again on the wire one arrives. That is strong fairness, since packets
may be lost any number of times; it is written with the enabling conditions
(`CanAsk`, `Arrives`, `Teaches`) in place of ENABLED. The device does nothing once
an address was written behind the table, so nothing is promised from there on.
`[]<>Room` says that the wire, whose bound is the model's, has room again and
again. Nothing is assumed of other rules, hosts and packets. After the router has
changed its address the property promises nothing, as the table is not told.

## Findings

1. `usb_longest`: the filter accepts frames up to `PACKET_LEN_MAX` = 590 bytes and
   the ring is as long as that (`src/resources.h:21`), but a packet needs two
   bytes more for its state. A frame of 589 or 590 bytes makes
   `assert(nextPacket <= RingBuffer.End)` fail on the empty ring. Frames of 588
   bytes fill the ring exactly.
2. `usb_truncated`: a frame that ends too early in a later endpoint packet is given
   up with `Packet_ReleaseInput`, which moves the input reader behind it, past
   input packets nobody has read. They stay in the ring and block the output.
3. `usb_stall`: the space of such a frame becomes free when `Packet_GetOutput` steps
   over its entry, and nobody enables the receiver there. If it was off, it stays
   off although the ring is empty.
4. `shrink_last`: `Packet_Resize` makes the last packet smaller without an end mark
   behind it, against the comments of `PacketBuffer.c`; a reader then takes old data
   for a state. No caller in the present build.
5. `rules_unsent`: a change that cannot be broadcast keeps the change flag; that
   makes the rules behind it be evaluated again in the next round, and an evaluation
   with the same value resets their own flag before they could be sent.
6. `network_full`: `ARP_Table` has ten entries (`src/Lib/ARP.c:34`), and the
   position to write becomes ten before it is reset (`src/Lib/ARP.c:86`). The
   address of an eleventh neighbour is written behind the array. Not in the
   present build.

## Proofs

### Packet buffer

`PacketBufferProofs` proves for every `End`, every set `Lens` of lengths (below
16383, as the two flag bits require) and every behaviour of `PacketClients`:

- `TypeCorrect`: `Spec => []TypeOK`
- `RingStaysIntact`: `Spec => []RingIntact`
- `AssertsHold`: `Spec => []NoAssertFails`
- `HeldWordsStay`: `Spec => HeldWordsStable`, an action property
- `ReadersStayOnEntries`: `Spec => []ReadersOnEntries`

Assumptions: `~ ShrinkLast` (finding 4) for all, and for `AssertsHold` that the
longest packet fits into an empty ring (finding 1: the program does not ensure it).

*The argument.* `TypeOK` alone is not inductive: a length read from a word that is
no state could lead a pointer out of the ring. `RingIntact` says there is a set
`E` of slots, the entries, with

- `Chain(E)`: from the output reader, each entry is followed by an entry or by
  `NextWriter`, which holds the end mark; entries do not overlap, in the order
  `Offset` of the ring as seen from the output reader; both readers are on it;
- `InputAhead(E)`: no input or unfinished packet lies in front of the input reader;
- `HeldIn(E)`: packets clients hold are entries with the flag they left there, and
  each reader stands on the packet its client has.

`TypeOK /\ RingIntact` is inductive. `NextIntact` has one step per action; each
rests on a lemma on the ring (`ReadersMove`, one for every way `allocateNew` finds
a place and `Packet_Resize` shrinks, extends and moves), which gives the new set
of entries and shows each conjunct for it. Those that do not depend on who the
clients are have a module of their own, `PacketRing`, which `UsbDeviceProofs` uses
too. `UnitsFacts`, `LenOfUnitsFacts` and
`SlotsFacts` keep the arithmetic of slots out of those. `HeldWordsStay` follows
from the invariant before and after a step: all words of an entry are its own.

`QueueProofs` proves `RingIsAQueue`: `Spec => ImplementsQueue`, with the same
assumption `~ ShrinkLast`. The promise it refines, `PacketQueue`, has no memory and
no cursors, so this is where "no packet is lost, repeated or reordered" is said in
full, for input and output packets between each other as well.

*The argument.* The mapping must not be a recursive function that walks the ring
(no prover here does induction over data). `Entries` says without recursion which
headers lie before the writer and not behind `StartOver`, and `Contents` lists the
live ones by `Place`, the number of entries up to one. `EntriesFacts` shows that
these headers are exactly the set `E` of `RingIntact`: every slot before the
writer lies in an entry (`CoverFacts`, the last entry that does not begin behind
it), and words inside of entries are `Data`. `RankedFacts` to `RemovedRank` are
facts about positions in a finite set; from them `ListedSame`, `ListedChanged`,
`ListedAdded`, `ListedRemoved` and `ListedSent` say what becomes of the list when
nothing changes, one item does, a new last one is added, one is taken out, or the
first leaves. They allow the output reader to move, which changes every `Offset`
but no order (`Alike`). One lemma per call (`...Queue`) then finds the step of the
queue: `Create`, `ResizeInPlace`, `ResizeByMoving`, `Finish`, `Drop`, `Resend`,
`Send`, or none.

### USB device

`UsbDeviceProofs` proves every safety property of the runs of `UsbDevice`, for every
ring, every size of endpoint packets, headers and frames, one bank or more, and any
number of frames:

- `TypeCorrect` (`TypeOK`), `FramesComeBackInOrder` (`EchoesInOrder`),
  `NeverSleepsOnWork` (`NeverSleepsOnInput`), `ReceivingComesBack`
  (`OffOnlyWhileFull`)
- `RulesKept` (`KeepsRules`): the device implements `PacketClients`, so the theorems
  of `PacketBufferProofs` hold of it
- `AssertsHold` (`NoAssertFails`)

Assumptions beside those on sizes that `UsbDevice` names:

- `NoneEndsEarly`: no frame ends behind its first endpoint packet before the length
  its headers tell. Without it the program is wrong (findings 2 and 3). A frame that
  ends in its first endpoint packet is dropped, and is included.
- `MaxConfigs <= 1`: the host sets the configuration once. A second time would empty
  the endpoints and leave the static state of the handler ("Not modelled").
- for `AssertsHold` only, that the longest frame fits into an empty ring (finding
  1).

`usb_echo` and `usb_mixed` satisfy all three. No run has the sizes of the program
with frames that fit; the theorems cover them.

*The argument.* The order of frames depends on three places that hold parts of it:
the endpoint banks, the static variables of the handler, and the ring. `IInv` says
how they fit together:

- `Line`: the OUT endpoint holds the frames one after the other. For each of its
  banks there is a number of bytes that are still to come of its frame
  (`Stream(rest)`), the end of a frame is where the program finds it, at an endpoint
  packet that is not full (`Ends`), and what the handler has counted is what is left
  of the current one (`Receiving(rest)`).
- `Stock`: there is a set `E` of entries with `Chain(E)` and `InputAhead(E)` as
  above, the packets in the hands of handler and loop are on it (`HeldIn`), the
  entries in the order of the ring hold ascending frames that are accepted and
  whole (`Stocked`), and what is not there any more has come back (`Returned`):
  every accepted frame before the current one is in the ring, being sent, or echoed.
  `Resting`: once the loop is past its check for input and the sleep bit is still
  set, there is no input packet in the ring.
- `Control`: which stage of the handler has which endpoint disabled, and when
  receiving is off. `On(e)` counts an interrupt as enabled that the handler will
  enable when it leaves, which `OffOnlyWhileFull` needs in the middle of the
  handler.
- `Typed`: the types, with the lengths that later subtractions rely on.

There is a lemma for each action of the host, handler and loop (`...Keeps`), which
puts together lemmas on the parts: what a stage does to the line (`LineBegins`,
`LineContinues`, `LineReads`) and to the stock (`StockCreates`, `StockPuts`,
`StockGetsInput`, `StockResends`, `StockGetsOutput`, `StockReleases`). `StepAllowed`
maps each step to a call of `PacketClients` or to none.

### Rule engine

`RuleEngineProofs` proves the five invariants of the run `rules` for every
configuration, width of values, length of days and weeks, server and answers:
`TypeCorrect`, `AlwaysUpToDate`, `AlwaysOnTime`, `MonoflopsAlwaysEnd` and
`AlwaysAsksAgain`.

Assumptions, all named in `RuleEngine` and true of `platine1.h`, `Teich.h` and
`test.h`: rules come after the ones they use, rules of other devices depend on no
other rule (`RemoteAssumption`), times of a switch are within a day, and no timer
reaches the value that means "off" (`timerOff` is the end of a 32 bit clock).

*The argument.* The invariants speak of the end of a round, so the inductive
invariant has to say what holds in the middle of one. `Informed`: a rule that is
known has the value its arguments give, or the loop has not reached it and an
argument that is changed or unknown will make it take notice (`Told`): from the
network before the loop begins, evaluated in this round after. `SwitchesHold`:
until its timer expires the value of a time switch is right at every time, not
only now. That needs `Midnights`, that the cached day has begun before, so a clock
set back only makes the timers late. `MonoflopsRun` does the same for monoflops.
`AskedSoon` does it for requests, whose timers are at most two seconds (`Due`)
ahead of the time of the last check; when an answer sets the clock back, those
waiting become `late`, and their timers are bounded by the greatest time there was
until they are evaluated or answered. So `AsksAgain` tells exactly whom a clock
set back delays; `ZeroOff`, `ClockSeen` and `PortsFollow` support them. There is a
lemma for each rule type with what its evaluation gives, and one lemma that puts a
step of the loop together.

### Network stack

`NetStackProofs` proves `TypeCorrect`, `GoesRight` (`GoesToNextHop`) and
`TableTellsTruth` (`TableTellsLatest`) for every size of the table and of the wire,
all sets of hosts, rules and addresses.

Assumptions: neighbours are told apart by the number of the host, which is neither 0
nor that of the broadcast (an unused entry of the table has 0); those the device
talks to are neighbours or in other nets; nobody has its MAC address or that of all.
A neighbour changes its address at most once (`MaxMoves`), so that "an address of a
host" is one of two.

*The argument.* Where a packet goes depends on what others sent before, so the
invariant (`IInv`) says what every packet on the wire can be (`Genuine`): one the
device sent, as it should be, a neighbour's ARP with its own addresses, one that a
host of another net tells, or an IP packet through the gateway of its sender.
`TableOK`, that a neighbour has at most one entry, with what it told last, is kept
because an answer goes to the entry there is (`StoreKeeps`), and because other nets
are not stored. `KeptOK` is the other half, that who has told its address has an
entry: new ones fill the table from its beginning, and until it overruns none is
taken away from a neighbour. So `TableTellsLatest` is an equality, and promises
nothing once an address was written behind the table (finding 6).

`ChecksumsRight` (`ChecksumsFit`) holds for words of any width. A sum with the
carry brought back is never more than a word, and is the sum modulo 2^Width - 1
(`AddFacts`); with the complement as its checksum a header sums to all ones
(`HeaderFits`). An echo is answered without summing it: its checksum is corrected
by the difference of the types, which fits if the one that came did (`EchoFits`).
So the invariant `AllSound` says that the packets of all hosts have checksums that
fit when they arrive, that those of the device do when they leave, and that IP
headers consist of words. Two assumptions of `NetStack` serve this proof:
`WidthAssumption` states that 2^Width is a number greater than 1, as the provers
have no arithmetic of exponents, and `WordAssumption` that addresses and contents
are words.

### Time

`LocalTimeProofs` proves the properties of `LocalTime` for all times at which the
rules may be evaluated, as often or as seldom as one likes (the bounds `Window` and
`Stride` are any numbers):

- `SummerFollowsTheCalendar` (`SummerIsSummer`), `TypeCorrect`, `OrdersComeInTime`
  (`OrdersOfTheDay`), `CachedDay` (`CachedDayIsLatest`)

with no assumption but those on the bounds: the clock may be set back by any number
of hours, and the time zone be set or not. `CachedDayIsLatest` says what the cached
day is in either case. Without a zone (`timestamp.h:39`) the first evaluation in the
first hour of a local day, or the first two in summer, finds the day before; its
midnight is over, so each evaluation looks again until the UTC day has changed, and
then the day is right. After the clock is set back to an earlier day the cached one
is kept (`timestamp.h:37`), so the day is that of the latest evaluation, not of
the present one.

*The argument.* `eu_dst` counts weeks of a quarter of a year from fixed points and
never computes a date. The calendar lemmas (`MarchFacts`, `SundayFacts`,
`Changes`) say where the last Sundays lie in each of the years before 2100, in
2100 to 2102, and in the winter of 2103; the arithmetic of weeks is done on one
period of the calendar and shifted (`ShiftFacts`). `SummerFacts` is then that both
agree in every hour the clock can show. `DayFacts`: no change of the clocks within
the hours of a day but the ones the comments of `timestamp.h` name, so local hours
grow (`LocalHourGrows`) and midnight is where `calculateTimestamp` puts it
(`MidnightFacts`). The invariant is small: `Clock` (a range), `Cached` (the
midnight belongs to the day), `Today` (the day is that of the latest evaluation
and is not over, or is the one before and is).

### Fraction of a second

`SubSecond`: the sum of `frac2timer` never overflows, the result is the product it
stands for, rounded but for less than 7 / 65536 (`NearlyRounded`), it is monotone
(`NeverBackwards`), and at 4 or 16 MHz it stays below the top value of the timer
(`StaysInSecond`). At the 8 MHz of the makefile `timer1_init` chooses a top value of
31249, and the second half of a second gives a larger count (`MissesSecond`): the
timer would run to 65535 and that second end too late. SNTP is not part of the
present build.

### Model-checked only

Liveness (`EveryFrameEchoed`, `GetsKnown`), which TLAPS does not reach. Every other
property of a passing run is a theorem. The properties of the six runs that expect a
violation are false, each with the behaviour of its finding.
`SubSecond` is the other way round: its numbers are larger than TLC's.

## Not modelled

- *Other configurations and requests of the host.* Configuration 0 and 2 clear the
  endpoints or start the boot loader; `SetEthernetPacketFilter` is only
  acknowledged. Setting configuration 1 again is the action
  `ConfigurationChanged`, but the runs take it once: no text of the repository
  says what should become of frames that are half way.
- *A second entry of the handler* while it runs with interrupts on: depends on the
  LUFA library, which is not in the repository.
- *The bytes of the headers in the frame filter*, which appears by its result. In
  `NetStack` the checks of lengths, versions and fragments, padding, and fields
  that are the same in every packet. `Lib/Ethernet.c` does not compile as it is (a
  missing parenthesis, calls with one argument): it is modelled as the
  declarations in `Lib/*.h` tell.
- *What another host makes of an ARP reply* whose operation is in the byte order
  of the CPU (`Lib/ARP.c:62`; the port converts it). The model sends it as the
  code does.
- *An address with the number 0 for its host*, which every unused entry of the ARP
  table matches.
- *Hour 0 of the first day of 2000*, for which the 32 bits of `calculateTimestamp`
  wrap around (`timestamp.h:25`): `LocalTime` starts at noon of the second day, as a
  clock that has been set is never before.
- *Failures of `Endpoint_ConfigureEndpoint`* (`src/USB.c:244-254`): the endpoints
  of the program fit the memory of the controller.
- *Watchdog, power and clock registers, error counters.*
- *Rules*: the types without code (`ptInput`, `ptDaylight`), the delay after a relay
  has switched, port numbers of broadcasts, time switches in seconds of local time
  (the rules have days of one length; `LocalTime` has the others).
- *The C++ port*, in no build and unfinished: `InputQueue::Push` asserts a flag that
  a new packet never has. Its network stack is a copy of `Lib/`.

## Plan

1. `UsbDevice` with repeated configurations: what survives of the handler's static
   state, with its own properties.
2. Proofs: `KeepsRules` and `RingIsAQueue` put together, the device as an
   implementation of the queue; the order of frames from the queue alone.
3. `RuleEngine` on `NetStack` and `LocalTime`: requests by way of the table, days of
   23 and 25 hours for time switches.
4. Rules of other devices that depend on a rule (without `RemoteAssumption`), which
   may stay unknown when the transmitter has no space (`src/rules.c:293`).
