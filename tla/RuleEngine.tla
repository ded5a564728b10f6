----------------------------- MODULE RuleEngine -----------------------------
(***************************************************************************)
(* The rules of rules.c: inputs, logic, monoflops, time switches, relays   *)
(* and values of other devices, evaluated once per round of the main loop. *)
(*                                                                         *)
(* A round is the one main() of Zeitschaltuhr.c has: a packet from the     *)
(* network, checkRules(), sendChangedRules().  The loop of checkRules() is *)
(* one step per rule.  It reads the clock once, before the first rule, and *)
(* sendChangedRules() does not read it, so a tick meanwhile is the same as *)
(* one after them, and the clock is left to tick before them.              *)
(*                                                                         *)
(* Days are all of the same length here: time zone and daylight saving are *)
(* left out.  Definitions named Mutant... are broken variants of the one   *)
(* that follows them; no other definition uses them.                       *)
(***************************************************************************)
EXTENDS Integers, FiniteSetsExt

CONSTANTS N,                         \* number of rules
          ruleData,                  \* the configuration
          Width,                     \* bits of a value (32)
          DayLen, Week,              \* seconds of a day, days of a week
          FirstTimer,                \* first evaluation (5)
          SNTP_TimeBetweenQueries,
          timerOff,                  \* UINT32_MAX
          MaxTime,                   \* bound: the clock stops there
          ServerTimes,               \* times the SNTP server may tell
          Answers                    \* values other devices may report

Rules == 0 .. (N - 1)
Remotes == {r \in Rules : ruleData[r].type \in {"SNTP", "Remote"}}
Locals == Rules \ Remotes

\* Zero means no argument.
Arguments(r) ==
  LET d == ruleData[r]
  IN {d.dependIndex} \cup
       IF d.type = "Logic" THEN {d.logic.second, d.logic.third, d.logic.fourth} ELSE {}

\* As in platine1.h, Teich.h and test.h: rules come before the ones that use
\* them, and nothing has one of the types without code, ptInput and ptDaylight.
ASSUME ConfigAssumption ==
  /\ N \in Nat \ {0}
  /\ \A r \in Rules :
       /\ ruleData[r].type \in {"Logic", "Relay", "TimeSwitch", "Trigger", "SNTP", "Remote"}
       /\ Arguments(r) \subseteq Rules
       /\ \A d \in Arguments(r) : d < r \/ d = 0

\* Values of other devices do not depend on other rules there.
ASSUME RemoteAssumption == \A r \in Remotes : ruleData[r].dependIndex = 0

ASSUME TimeAssumption ==
  /\ Width \in Nat /\ FirstTimer \in Nat /\ SNTP_TimeBetweenQueries \in Nat
  /\ timerOff \in Nat /\ MaxTime \in Nat
  /\ DayLen \in Nat \ {0} /\ Week \in Nat \ {0}
  /\ timerOff > MaxTime + SNTP_TimeBetweenQueries + DayLen

\* A time switch has times of a day, and no monoflop runs as long as a clock of
\* 32 bits.
ASSUME RuleTimesAssumption ==
  \A r \in Rules :
    /\ ruleData[r].type = "TimeSwitch" =>
         ruleData[r].time.start \in 0 .. DayLen /\ ruleData[r].time.stop \in 0 .. DayLen
    /\ ruleData[r].type = "Trigger" => 
         ruleData[r].trigger.time \in Nat /\ MaxTime + ruleData[r].trigger.time < timerOff

\* A value is the set of its bits that are one.
Bits == 0 .. (Width - 1)
Word(n) == {i \in Bits : (n \div 2^i) % 2 = 1}
FALSE_ == {}
TRUE_ == Word(1)

\* The seconds of a day fit in a value.
ASSUME ValuesAssumption == \A n \in 1 .. DayLen : Word(n) # FALSE_

ASSUME AnswersAssumption == ServerTimes \subseteq 1 .. MaxTime /\ Answers \subseteq SUBSET Bits

VARIABLES phase,        \* what the main loop does: "net", "start", "check", "send"
          rule,         \* loop index of checkRules()
          clock,        \* system time
          ruleState,
          nextMidnight, \* _nextMidnight, the end of the cached day
          port,         \* relays that are on
          untold,       \* history: local rules with a change nobody has heard of
          latest,       \* history: latest time the rules were checked for
          late          \* history: rules that waited for an answer when the clock was set back

vars == <<phase, rule, clock, ruleState, nextMidnight, port, untold, latest, late>>

Init ==
  /\ phase = "net" /\ rule = 0
  /\ clock = 0
  /\ ruleState = [r \in Rules |-> [timer |-> FirstTimer, value |-> FALSE_, ok |-> "Unknown"]]
  /\ nextMidnight = 0
  /\ port = {}
  /\ untold = {}
  /\ latest = 0
  /\ late = {}

value(r) == ruleState[r].value
Known(r) == ruleState[r].ok # "Unknown"

-----------------------------------------------------------------------------
(* The clock, and the network.                                             *)

system_tick ==
  /\ phase \in {"net", "start"}
  /\ clock < MaxTime
  /\ clock' = clock + 1
  /\ UNCHANGED <<phase, rule, ruleState, nextMidnight, port, untold, latest, late>>

\* No packet, or none for the rules.
NoPacket ==
  /\ phase = "net"
  /\ phase' = "start"
  /\ UNCHANGED <<rule, clock, ruleState, nextMidnight, port, untold, latest, late>>

\* Another device asks for the rule at a port; the first local one answers.
UDP_Callback_Request(networkPort) ==
  LET asked == {r \in Locals : ruleData[r].networkPort = networkPort}
  IN /\ phase = "net"
     /\ \E r \in asked :
          /\ \A s \in asked : r <= s
          /\ Known(r)
          /\ ruleState' = [ruleState EXCEPT ![r].ok = "OK"]
          /\ untold' = untold \ {r}
     /\ phase' = "start"
     /\ UNCHANGED <<rule, clock, nextMidnight, port, latest, late>>

Reported(r, v, timer) ==
  ruleState' = [ruleState EXCEPT ![r] =
                  [timer |-> timer, value |-> v, ok |-> IF v = @.value THEN "OK" ELSE "Changed"]]

Waiting == {r \in Remotes : ~ Known(r)}

\* An answer, asked for or not, in time, late or once more.
UDP_Callback_Reply(r) ==
  /\ phase = "net"
  /\ \/ /\ ruleData[r].type = "SNTP"
        /\ \E newTime \in ServerTimes :
             /\ clock' = newTime
             /\ Reported(r, Word(newTime), newTime + SNTP_TimeBetweenQueries)
             /\ late' = (IF newTime < clock THEN late \cup Waiting ELSE late) \ {r}
     \/ /\ ruleData[r].type = "Remote"
        /\ \E v \in Answers : Reported(r, v, timerOff)
        /\ late' = late \ {r}
        /\ UNCHANGED clock
  /\ phase' = "start"
  /\ UNCHANGED <<rule, nextMidnight, port, untold, latest>>

processNetworkPackets ==
  \/ NoPacket
  \/ \E r \in Rules : UDP_Callback_Request(ruleData[r].networkPort)
  \/ \E r \in Remotes : UDP_Callback_Reply(r)

-----------------------------------------------------------------------------
(* checkRules().                                                           *)

\* Rule 0 is always known.
StartCheck ==
  /\ phase = "start"
  /\ ruleState' = [ruleState EXCEPT ![0].ok = "OK"]
  /\ latest' = IF clock > latest THEN clock ELSE latest
  /\ phase' = "check" /\ rule' = 0
  /\ UNCHANGED <<clock, nextMidnight, port, untold, late>>

now == clock

checkDependency(r) == \E d \in Arguments(r) : ~ Known(d)

\* Only the first argument is looked at.
MutantDependChanged(r) == ruleState[ruleData[r].dependIndex].ok = "Changed"

dependChanged(r) == \E d \in Arguments(r) : ruleState[d].ok = "Changed"

Evaluates(r) ==
  /\ ~ checkDependency(r)
  /\ dependChanged(r) \/ now >= ruleState[r].timer

\* The rule has value v now and is evaluated again at time t.
Result(r, v, t) ==
  ruleState' = [ruleState EXCEPT ![r] =
    [timer |-> t, value |-> v,
     ok    |-> IF v # @.value THEN "Changed" ELSE IF @.ok = "SendLater" THEN @.ok ELSE "OK"]]

\* A dependency is unknown, or there is nothing to do.
Pass(r) ==
  /\ ~ Evaluates(r)
  /\ ruleState' = IF checkDependency(r) THEN [ruleState EXCEPT ![r].ok = "Unknown"] ELSE ruleState
  /\ UNCHANGED <<nextMidnight, port>>

\* Each of the two gates takes two arguments, a third one their results.
LogicValue(t, A, B, C, D) ==
  LET inv(flag, v) == IF flag \in t THEN Bits \ v ELSE v
      gate(v, w)   == IF "XOR" \in t THEN (v \ w) \cup (w \ v) ELSE v \cup w
  IN inv("INV_Q", gate(inv("INV_Q1", gate(inv("INV_A", A), inv("INV_B", B))),
                       inv("INV_Q2", gate(inv("INV_C", C), inv("INV_D", D)))))

LogicResult(r) ==
  LET g == ruleData[r].logic
  IN LogicValue(g.type, value(ruleData[r].dependIndex), value(g.second), value(g.third), value(g.fourth))

\* Rule 0 is never on: LogicForceOff, without arguments.
ASSUME SystemErrorAssumption ==
  /\ ruleData[0].type = "Logic" /\ Arguments(0) = {0}
  /\ LogicValue(ruleData[0].logic.type, FALSE_, FALSE_, FALSE_, FALSE_) = FALSE_

Logic(r) ==
  /\ ruleData[r].type = "Logic"
  /\ Result(r, LogicResult(r), timerOff)
  /\ UNCHANGED <<nextMidnight, port>>

Relay(r) ==
  LET v == value(ruleData[r].dependIndex)
  IN /\ ruleData[r].type = "Relay"
     /\ port' = IF v # FALSE_ THEN port \cup {r} ELSE port \ {r}
     /\ Result(r, v, timerOff)
     /\ UNCHANGED nextMidnight

\* The day is cached for good.
MutantMidnight == IF nextMidnight = 0 THEN (now \div DayLen + 1) * DayLen ELSE nextMidnight

\* The day is cached until it is over.
getMidnight == IF now >= nextMidnight THEN (now \div DayLen + 1) * DayLen ELSE nextMidnight

wday(day) == day % Week

\* On, with the seconds left as value, between start and stop on its days.
TimeSwitch(r) ==
  LET s         == ruleData[r].time
      midnight  == getMidnight
      starttime == midnight - DayLen + s.start
      stoptime  == midnight - DayLen + s.stop
      today     == wday(midnight \div DayLen - 1) \in s.wdays
  IN /\ ruleData[r].type = "TimeSwitch"
     /\ nextMidnight' = midnight
     /\ \/ today /\ now < starttime /\ Result(r, FALSE_, starttime)
        \/ today /\ now >= starttime /\ now < stoptime /\ Result(r, Word(stoptime - now), now + 1)
        \/ ~ today /\ Result(r, FALSE_, midnight)
        \/ now >= starttime /\ now >= stoptime /\ today /\ Result(r, FALSE_, midnight)
     /\ UNCHANGED port

\* The timer of a monoflop that has run out is left as it is.
MutantRunsOut(r) == Result(r, FALSE_, ruleState[r].timer)
RunsOut(r) == Result(r, FALSE_, timerOff)

\* A monoflop: started by a change, on until its time is over.
Trigger(r) ==
  LET t      == ruleData[r].trigger.type
      timer  == ruleState[r].timer
      starts == dependChanged(r) /\ ("MonoflopRetrigger" \in t \/ timer = timerOff)
      edge   == (IF value(ruleData[r].dependIndex) # FALSE_ THEN "Rising" ELSE "Falling") \in t
  IN /\ ruleData[r].type = "Trigger"
     /\ \/ starts /\ edge /\ Result(r, TRUE_, now + ruleData[r].trigger.time)
        \/ starts /\ ~ edge /\ Result(r, FALSE_, timer)
        \/ ~ starts /\ now < timer /\ Result(r, TRUE_, timer)
        \/ ~ starts /\ now >= timer /\ RunsOut(r)
     /\ UNCHANGED <<nextMidnight, port>>

\* A request waits for its answer however long it takes.
MutantAsks(r) == ruleState' = [ruleState EXCEPT ![r] = [@ EXCEPT !.ok = "Unknown", !.timer = timerOff]]

\* A request waits two seconds for its answer; without the address of the other
\* device an ARP request goes out instead, and the rule tries again in a second.
Asks(r) ==
  \E wait \in {1, 2} :
    ruleState' = [ruleState EXCEPT ![r] = [@ EXCEPT !.ok = "Unknown", !.timer = now + wait]]

\* Without space in the transmitter nothing is sent.
RemoteValue(r) ==
  /\ r \in Remotes
  /\ Asks(r) \/ ruleState' = [ruleState EXCEPT ![r].ok = "Unknown"]
  /\ UNCHANGED <<nextMidnight, port>>

Evaluate(r) ==
  /\ Evaluates(r)
  /\ Logic(r) \/ Relay(r) \/ TimeSwitch(r) \/ Trigger(r) \/ RemoteValue(r)

\* The loop runs one rule too far.
MutantLastRule == rule = N
LastRule == rule = N - 1

checkRules ==
  /\ phase = "check"
  /\ Pass(rule) \/ Evaluate(rule)
  /\ untold' = IF rule \in Locals /\ ruleState'[rule].value # value(rule) THEN untold \cup {rule} ELSE untold
  /\ IF LastRule THEN phase' = "send" /\ rule' = 0
                 ELSE rule' = rule + 1 /\ UNCHANGED phase
  /\ late' = IF Evaluates(rule) THEN late \ {rule} ELSE late
  /\ UNCHANGED <<clock, latest>>

-----------------------------------------------------------------------------
(* sendChangedRules().                                                     *)

\* Changed local rules are broadcast while the transmitter has space; the other
\* ones stay changed.  Values of other devices are not passed on.
sendChangedRules ==
  LET changed == {r \in Rules : ruleState[r].ok \in {"Changed", "SendLater"}}
  IN /\ phase = "send"
     /\ \E sent \in SUBSET (changed \cap Locals) :
          /\ ruleState' = [r \in Rules |->
               CASE r \in sent              -> [ruleState[r] EXCEPT !.ok = "OK"]
                 [] r \in changed \cap Remotes -> [ruleState[r] EXCEPT !.ok = "SendLater"]
                 [] OTHER                   -> ruleState[r]]
          /\ untold' = untold \ sent
     /\ phase' = "net"
     /\ UNCHANGED <<rule, clock, nextMidnight, port, latest, late>>

-----------------------------------------------------------------------------

Next ==
  \/ system_tick
  \/ processNetworkPackets
  \/ StartCheck
  \/ checkRules
  \/ sendChangedRules

Spec == Init /\ [][Next]_vars

-----------------------------------------------------------------------------

TypeOK ==
  /\ phase \in {"net", "start", "check", "send"}
  /\ rule \in Rules
  /\ {clock, latest} \subseteq 0 .. MaxTime
  /\ ruleState \in [Rules -> [timer : Nat, value : SUBSET Bits,
                              ok : {"Unknown", "OK", "Changed", "SendLater"}]]
  /\ nextMidnight \in Nat
  /\ port \subseteq Rules
  /\ untold \subseteq Locals
  /\ late \subseteq Remotes

Checked == phase = "send"

\* After each round of checks a logic rule that is known has the value its
\* arguments give now, and a relay that is known is where its rule wants it: no
\* order of changes, unknown arguments, timers and unsent broadcasts makes a rule
\* miss the change of an argument.
UpToDate ==
  Checked => \A r \in Rules : Known(r) =>
    /\ ruleData[r].type = "Logic" => value(r) = LogicResult(r)
    /\ ruleData[r].type = "Relay" =>
         /\ value(r) = value(ruleData[r].dependIndex)
         /\ r \in port <=> value(r) # FALSE_

\* What a time switch is for.
On(s, t) == wday(t \div DayLen) \in s.wdays /\ s.start <= t % DayLen /\ t % DayLen < s.stop

\* A time switch that is known is on exactly on its days between start and stop,
\* although it is evaluated only when its timer tells and with a cached day.
\* While the clock, set back by SNTP, shows a time it has shown before it may be
\* wrong, and no longer.
SwitchesOnTime ==
  Checked /\ now = latest => \A r \in Rules :
    ruleData[r].type = "TimeSwitch" /\ Known(r) =>
      (value(r) # FALSE_ <=> On(ruleData[r].time, now))

\* A monoflop that is on goes off: its timer runs and has not been missed, and
\* the timer of one that is not retriggered runs only while it is on.
MonoflopsEnd ==
  Checked => \A r \in Rules :
    ruleData[r].type = "Trigger" /\ Known(r) =>
      /\ value(r) # FALSE_ => ruleState[r].timer # timerOff /\ now <= ruleState[r].timer
      /\ "MonoflopRetrigger" \notin ruleData[r].trigger.type =>
           (ruleState[r].timer # timerOff => value(r) # FALSE_)

\* A value of another device that is not known is asked for again within two
\* seconds from now, or at once if the transmitter had no space, whatever answers
\* were lost, late or given twice.  There is one exception: what was waited for when
\* SNTP set the clock back is asked for when the clock shows the old time again.
AsksAgain ==
  Checked => \A r \in Remotes :
    ~ Known(r) /\ ~ checkDependency(r) =>
      LET asked == IF r \in late THEN latest ELSE now
      IN ruleState[r].timer <= Max({asked + 2, FirstTimer})

\* "could not send packet, try again next round": a change that other devices
\* have not heard of keeps its flag until it is sent.
ChangesGetTold ==
  phase = "net" => \A r \in Locals :
    Known(r) /\ r \in untold => ruleState[r].ok \in {"Changed", "SendLater"}
=============================================================================
