-------------------------- MODULE RuleEngineProofs --------------------------
(***************************************************************************)
(* Rules follow their arguments, time switches switch in time, monoflops   *)
(* end and other devices are asked again, for every configuration of       *)
(* rules, every clock and every order of events.                           *)
(***************************************************************************)
EXTENDS RuleEngine, TLAPS

-----------------------------------------------------------------------------
(* The inductive invariant.                                                *)

InRound == phase \in {"check", "send"}

\* The loop has evaluated rule r in this round.
Done(r) == phase = "send" \/ (phase = "check" /\ r < rule)

\* Rule 0 stays off, and nobody takes it for changed.
ZeroOff ==
  /\ value(0) = FALSE_
  /\ ruleState[0].ok \in {"Unknown", "OK"}
  /\ InRound => Known(0)

\* The rules were checked for all times that the loop is executed at.
ClockSeen == InRound => clock <= latest

\* The cached day is a day that has begun before.
Midnights ==
  nextMidnight = 0 \/ \E day \in Nat : nextMidnight = (day + 1) * DayLen /\ day * DayLen <= latest

IsLogic(r) == ruleData[r].type = "Logic"
IsRelay(r) == ruleData[r].type = "Relay"
IsTimeSwitch(r) == ruleData[r].type = "TimeSwitch"
IsTrigger(r) == ruleData[r].type = "Trigger"

PortsFollow == \A r \in Rules : IsRelay(r) => (r \in port <=> value(r) # FALSE_)

\* The value of a rule is the one its arguments give.
Current(r) ==
  /\ IsLogic(r) => value(r) = LogicResult(r)
  /\ IsRelay(r) => value(r) = value(ruleData[r].dependIndex)

\* The loop has not reached rule r, and an argument will make it take notice: one
\* with a value from the network, or one the loop has just evaluated.
Told(r) ==
  \E d \in Arguments(r) :
    \/ phase = "start" /\ d \in Remotes /\ ruleState[d].ok = "Changed"
    \/ /\ phase = "check" /\ rule <= r
       /\ d \in Remotes \/ d < rule
       /\ ruleState[d].ok \in {"Changed", "Unknown"}

Informed == \A r \in Rules : Known(r) => Current(r) \/ Told(r)

\* Until its timer expires the value of a time switch is right.
SwitchesHold ==
  \A r \in Rules : IsTimeSwitch(r) /\ Known(r) =>
    /\ \A t \in Nat : latest <= t /\ t < ruleState[r].timer =>
         (value(r) # FALSE_ <=> On(ruleData[r].time, t))
    /\ Done(r) => now < ruleState[r].timer

MonoflopsRun ==
  \A r \in Rules : IsTrigger(r) /\ Known(r) =>
    /\ value(r) # FALSE_ => ruleState[r].timer # timerOff
    /\ value(r) # FALSE_ /\ Done(r) => now <= ruleState[r].timer
    /\ "MonoflopRetrigger" \notin ruleData[r].trigger.type =>
         (ruleState[r].timer # timerOff => value(r) # FALSE_)

\* The timer of a rule is not far from time t, or it is that of the start.
Due(r, t) == ruleState[r].timer <= t + 2 \/ ruleState[r].timer <= FirstTimer

AskedSoon ==
  \A r \in Remotes : ~ Known(r) => Due(r, latest) /\ (r \notin late => Due(r, clock))

IInv ==
  /\ TypeOK
  /\ ZeroOff
  /\ ClockSeen
  /\ Midnights
  /\ PortsFollow
  /\ Informed
  /\ SwitchesHold
  /\ MonoflopsRun
  /\ AskedSoon

-----------------------------------------------------------------------------
(* Types, and what the assumptions give for single rules.                  *)

RuleStates == [Rules -> [timer : Nat, value : SUBSET Bits,
                         ok : {"Unknown", "OK", "Changed", "SendLater"}]]

LEMMA TypeFacts ==
  ASSUME TypeOK
  PROVE  /\ ruleState \in RuleStates
         /\ clock \in Nat /\ clock <= MaxTime /\ latest \in Nat /\ latest <= MaxTime
         /\ rule \in Rules
         /\ nextMidnight \in Nat
         /\ \A r \in Rules : /\ value(r) \in SUBSET Bits
                             /\ ruleState[r].timer \in Nat
                             /\ ruleState[r].ok \in {"Unknown", "OK", "Changed", "SendLater"}
  BY TimeAssumption DEF TypeOK, RuleStates, value

LEMMA RuleFacts ==
  /\ 0 \in Rules
  /\ \A r \in Rules : r \in Nat /\ r < N
  /\ \A r \in Rules : Arguments(r) \subseteq Rules /\ ruleData[r].dependIndex \in Arguments(r)
  /\ \A r \in Rules : \A d \in Arguments(r) : d \in Rules /\ (d < r \/ d = 0)
  BY ConfigAssumption DEF Rules, Arguments

LEMMA KindFacts ==
  ASSUME NEW r \in Rules
  PROVE  /\ IsLogic(r) \/ IsRelay(r) \/ IsTimeSwitch(r) \/ IsTrigger(r) \/ r \in Remotes
         /\ IsLogic(r) => ~ IsRelay(r) /\ ~ IsTimeSwitch(r) /\ ~ IsTrigger(r) /\ r \notin Remotes
         /\ IsRelay(r) => ~ IsTimeSwitch(r) /\ ~ IsTrigger(r) /\ r \notin Remotes
         /\ IsTimeSwitch(r) => ~ IsTrigger(r) /\ r \notin Remotes
         /\ IsTrigger(r) => r \notin Remotes
  BY ConfigAssumption DEF IsLogic, IsRelay, IsTimeSwitch, IsTrigger, Remotes

LEMMA WordFacts ==
  /\ FALSE_ \in SUBSET Bits /\ TRUE_ \in SUBSET Bits /\ TRUE_ # FALSE_
  /\ \A n : Word(n) \in SUBSET Bits
  /\ \A n \in 1 .. DayLen : Word(n) # FALSE_
  <1>1. 1 \in 1 .. DayLen
    BY TimeAssumption
  <1> QED
    BY <1>1, ValuesAssumption DEF FALSE_, TRUE_, Word

LEMMA LogicValueFacts ==
  ASSUME NEW t, NEW A \in SUBSET Bits, NEW B \in SUBSET Bits,
         NEW C \in SUBSET Bits, NEW D \in SUBSET Bits
  PROVE  LogicValue(t, A, B, C, D) \in SUBSET Bits
  BY DEF LogicValue

\* A logic rule looks at its four arguments.
LEMMA GateFacts ==
  ASSUME NEW r \in Rules, IsLogic(r)
  PROVE  {ruleData[r].dependIndex, ruleData[r].logic.second,
          ruleData[r].logic.third, ruleData[r].logic.fourth} = Arguments(r)
  BY DEF IsLogic, Arguments

LEMMA LogicResultFacts ==
  ASSUME TypeOK, NEW r \in Rules, IsLogic(r)
  PROVE  LogicResult(r) \in SUBSET Bits
  BY GateFacts, RuleFacts, TypeFacts, LogicValueFacts DEF LogicResult

LEMMA LogicResultOfZero ==
  ASSUME value(0) = FALSE_
  PROVE  LogicResult(0) = FALSE_
  <1>1. IsLogic(0) /\ Arguments(0) = {0}
    BY SystemErrorAssumption DEF IsLogic
  <1>2. /\ ruleData[0].dependIndex = 0 /\ ruleData[0].logic.second = 0
        /\ ruleData[0].logic.third = 0 /\ ruleData[0].logic.fourth = 0
    BY <1>1, GateFacts, RuleFacts
  <1> QED
    BY <1>2, SystemErrorAssumption DEF LogicResult

\* Whether a rule is current depends on values only, its own and those of its
\* arguments.
LEMMA CurrentKept ==
  ASSUME NEW r \in Rules, Current(r),
         \A d \in Arguments(r) \cup {r} : ruleState'[d].value = ruleState[d].value
  PROVE  Current(r)'
  <1>1. CASE IsLogic(r)
    <2>1. LogicResult(r)' = LogicResult(r)
      BY <1>1, GateFacts DEF LogicResult, value
    <2> QED
      BY <1>1, <2>1, KindFacts DEF Current, value, IsLogic, IsRelay
  <1>2. CASE ~ IsLogic(r)
    BY <1>2, RuleFacts DEF Current, value, IsLogic, IsRelay
  <1> QED
    BY <1>1, <1>2

-----------------------------------------------------------------------------
(* What a change of one rule is.                                           *)

LEMMA ResultFacts ==
  ASSUME ruleState \in RuleStates, NEW r \in Rules,
         NEW v \in SUBSET Bits, NEW t \in Nat, Result(r, v, t)
  PROVE  /\ ruleState' \in RuleStates
         /\ \A d \in Rules \ {r} : ruleState'[d] = ruleState[d]
         /\ ruleState'[r].value = v /\ ruleState'[r].timer = t
         /\ ruleState'[r].ok # "Unknown"
         /\ v # value(r) => ruleState'[r].ok = "Changed"
         /\ v = value(r) /\ ruleState[r].ok # "SendLater" => ruleState'[r].ok = "OK"
  BY DEF RuleStates, Result, value

LEMMA FlagFacts ==
  ASSUME ruleState \in RuleStates, NEW r \in Rules, NEW o \in {"Unknown", "OK"},
         ruleState' = [ruleState EXCEPT ![r].ok = o]
  PROVE  /\ ruleState' \in RuleStates
         /\ \A d \in Rules \ {r} : ruleState'[d] = ruleState[d]
         /\ \A d \in Rules : /\ ruleState'[d].value = ruleState[d].value
                             /\ ruleState'[d].timer = ruleState[d].timer
         /\ ruleState'[r].ok = o
  BY DEF RuleStates

LEMMA AskFacts ==
  ASSUME ruleState \in RuleStates, NEW r \in Rules, NEW t \in Nat,
         ruleState' = [ruleState EXCEPT ![r] = [@ EXCEPT !.ok = "Unknown", !.timer = t]]
  PROVE  /\ ruleState' \in RuleStates
         /\ \A d \in Rules \ {r} : ruleState'[d] = ruleState[d]
         /\ ruleState'[r].value = ruleState[r].value
         /\ ruleState'[r].ok = "Unknown" /\ ruleState'[r].timer = t
  BY DEF RuleStates

LEMMA ReportFacts ==
  ASSUME ruleState \in RuleStates, NEW r \in Rules,
         NEW v \in SUBSET Bits, NEW t \in Nat, Reported(r, v, t)
  PROVE  /\ ruleState' \in RuleStates
         /\ \A d \in Rules \ {r} : ruleState'[d] = ruleState[d]
         /\ ruleState'[r].ok \in {"OK", "Changed"}
         /\ ruleState'[r].value # value(r) => ruleState'[r].ok = "Changed"
  BY DEF RuleStates, Reported, value

-----------------------------------------------------------------------------
(* Days, so that the division is met once.                                 *)

LEMMA QuotientFacts ==
  ASSUME NEW q \in Int, NEW k \in Int, NEW n \in Nat \ {0}, NEW i \in 0 .. (n - 1), NEW j \in 0 .. (n - 1),
         q * n + i = k * n + j
  PROVE  q = k /\ i = j
  <1>1. ~ (q > k)
    <2> SUFFICES ASSUME q > k PROVE FALSE
      OBVIOUS
    <2>1. PICK e \in Nat : q = k + 1 + e
      <3>1. q - k - 1 \in Nat /\ q = k + 1 + (q - k - 1)
        OBVIOUS
      <3> QED
        BY <3>1
    <2>2. q * n = k * n + n + e * n /\ e * n >= 0
      BY <2>1
    <2> QED
      BY <2>2
  <1>2. ~ (k > q)
    <2> SUFFICES ASSUME k > q PROVE FALSE
      OBVIOUS
    <2>1. PICK e \in Nat : k = q + 1 + e
      <3>1. k - q - 1 \in Nat /\ k = q + 1 + (k - q - 1)
        OBVIOUS
      <3> QED
        BY <3>1
    <2>2. k * n = q * n + n + e * n /\ e * n >= 0
      BY <2>1
    <2> QED
      BY <2>2
  <1>3. q = k
    BY <1>1, <1>2
  <1> QED
    BY <1>3

LEMMA DivisionFacts ==
  ASSUME NEW t \in Nat
  PROVE  /\ t \div DayLen \in Nat /\ t % DayLen \in 0 .. (DayLen - 1)
         /\ t = (t \div DayLen) * DayLen + (t % DayLen)
  BY TimeAssumption

\* Where a time is in its day.
LEMMA DayFacts ==
  ASSUME NEW day \in Nat, NEW t \in Nat, day * DayLen <= t, t < (day + 1) * DayLen
  PROVE  t \div DayLen = day /\ t % DayLen = t - day * DayLen
  <1> DEFINE j == t - day * DayLen
  <1>1. (day + 1) * DayLen = day * DayLen + DayLen /\ day * DayLen \in Nat
    BY TimeAssumption
  <1>2. j \in 0 .. (DayLen - 1) /\ t = day * DayLen + j
    BY <1>1, TimeAssumption
  <1> HIDE DEF j
  <1>3. t \div DayLen = day /\ t % DayLen = j
    BY <1>2, DivisionFacts, QuotientFacts, TimeAssumption
  <1> QED
    BY <1>3 DEF j

\* The cached day has begun before and is not over.
LEMMA MidnightFacts ==
  ASSUME TypeOK, Midnights, clock <= latest
  PROVE  \E day \in Nat : /\ getMidnight = (day + 1) * DayLen
                          /\ day * DayLen <= latest
                          /\ now < (day + 1) * DayLen
  <1>1. CASE now >= nextMidnight
    <2> DEFINE day == now \div DayLen
    <2>1. clock \in Nat /\ latest \in Nat
      BY TypeFacts
    <2>2. day \in Nat /\ day * DayLen <= clock /\ clock < (day + 1) * DayLen
      BY <2>1, DivisionFacts, TimeAssumption DEF now
    <2>3. getMidnight = (day + 1) * DayLen
      BY <1>1 DEF getMidnight
    <2>4. day * DayLen <= latest
      BY <2>1, <2>2, TimeAssumption
    <2> HIDE DEF day
    <2> QED
      BY <2>2, <2>3, <2>4 DEF now
  <1>2. CASE ~ (now >= nextMidnight)
    <2>1. clock < nextMidnight /\ nextMidnight # 0 /\ getMidnight = nextMidnight
      BY <1>2, TypeFacts DEF getMidnight, now
    <2>2. PICK day \in Nat : nextMidnight = (day + 1) * DayLen /\ day * DayLen <= latest
      BY <2>1 DEF Midnights
    <2> QED
      BY <2>1, <2>2 DEF now
  <1> QED
    BY <1>1, <1>2

\* A time switch is set for its cached day, and its timer is not later than the
\* next time at which it would have another value.
LEMMA TimeSwitchFacts ==
  ASSUME TypeOK, Midnights, clock <= latest, NEW r \in Rules, TimeSwitch(r), latest' = latest
  PROVE  /\ \E v \in SUBSET Bits, t \in Nat : Result(r, v, t)
         /\ Midnights'
         /\ nextMidnight' \in Nat
         /\ port' = port
         /\ \A t \in Nat : latest <= t /\ t < ruleState'[r].timer =>
              (ruleState'[r].value # FALSE_ <=> On(ruleData[r].time, t))
         /\ now < ruleState'[r].timer
  <1> DEFINE s == ruleData[r].time
             starts == getMidnight - DayLen + s.start
             stops  == getMidnight - DayLen + s.stop
             today  == wday(getMidnight \div DayLen - 1) \in s.wdays
  <1>1. PICK day \in Nat : /\ getMidnight = (day + 1) * DayLen
                           /\ day * DayLen <= latest
                           /\ now < (day + 1) * DayLen
    BY MidnightFacts
  <1>2. PICK begin \in Nat : begin = day * DayLen
    BY TimeAssumption
  <1>3. getMidnight = begin + DayLen /\ begin <= latest /\ now < begin + DayLen
    BY <1>1, <1>2, TimeAssumption
  <1>4. getMidnight \div DayLen = day + 1
    <2>1. /\ (day + 1) * DayLen = begin + DayLen
          /\ (day + 1 + 1) * DayLen = begin + DayLen + DayLen
      BY <1>2, TimeAssumption
    <2>2. /\ day + 1 \in Nat /\ begin + DayLen \in Nat
          /\ (day + 1) * DayLen <= begin + DayLen /\ begin + DayLen < (day + 1 + 1) * DayLen
      BY <2>1, TimeAssumption
    <2>3. (begin + DayLen) \div DayLen = day + 1
      BY <2>2, DayFacts
    <2> QED
      BY <1>3, <2>3
  <1>5. today <=> wday(day) \in s.wdays
    BY <1>4
  <1>6. /\ IsTimeSwitch(r) /\ nextMidnight' = getMidnight /\ UNCHANGED port
        /\ \/ today /\ now < starts /\ Result(r, FALSE_, starts)
           \/ today /\ now >= starts /\ now < stops /\ Result(r, Word(stops - now), now + 1)
           \/ ~ today /\ Result(r, FALSE_, getMidnight)
           \/ now >= starts /\ now >= stops /\ today /\ Result(r, FALSE_, getMidnight)
    BY DEF TimeSwitch, IsTimeSwitch
  <1>7. s.start \in 0 .. DayLen /\ s.stop \in 0 .. DayLen
    BY <1>6, RuleTimesAssumption DEF IsTimeSwitch
  <1>8. \A t \in Nat : latest <= t /\ t < begin + DayLen =>
          (On(s, t) <=> today /\ starts <= t /\ t < stops)
    <2> SUFFICES ASSUME NEW t \in Nat, latest <= t, t < begin + DayLen
                 PROVE  On(s, t) <=> today /\ starts <= t /\ t < stops
      OBVIOUS
    <2>1. (day + 1) * DayLen = begin + DayLen /\ latest \in Nat
      BY <1>2, TimeAssumption, TypeFacts
    <2>2. day * DayLen <= t /\ t < (day + 1) * DayLen
      BY <1>2, <1>3, <2>1
    <2>3. t \div DayLen = day /\ t % DayLen = t - begin
      BY <1>2, <2>2, DayFacts
    <2>4. On(s, t) <=> today /\ s.start <= t - begin /\ t - begin < s.stop
      BY <1>5, <2>3 DEF On
    <2>5. starts = begin + s.start /\ stops = begin + s.stop
      BY <1>3, <1>7, TimeAssumption
    <2> HIDE DEF s, starts, stops, today
    <2> QED
      BY <2>4, <2>5, <1>7
  <1>9. /\ starts = begin + s.start /\ stops = begin + s.stop
        /\ starts \in Nat /\ stops \in Nat /\ getMidnight \in Nat
    BY <1>3, <1>7, TimeAssumption
  <1>10. now \in Nat /\ latest \in Nat /\ now <= latest /\ ruleState \in RuleStates
    BY TypeFacts DEF now
  <1>11. Midnights' /\ nextMidnight' \in Nat /\ port' = port
    BY <1>1, <1>6, <1>9 DEF Midnights
  <1> DEFINE Holds(v, timer) ==
        /\ \A t \in Nat : latest <= t /\ t < timer => (v # FALSE_ <=> On(s, t))
        /\ now < timer
  <1>12. \E v \in SUBSET Bits, timer \in Nat : Result(r, v, timer) /\ Holds(v, timer)
    <2> HIDE DEF s, starts, stops, today
    <2>1. CASE today /\ now < starts /\ Result(r, FALSE_, starts)
      <3>1. Holds(FALSE_, starts)
        BY <2>1, <1>3, <1>7, <1>8, <1>9, TimeAssumption
      <3> QED
        BY <2>1, <3>1, <1>9, WordFacts
    <2>2. CASE today /\ now >= starts /\ now < stops /\ Result(r, Word(stops - now), now + 1)
      <3>1. stops - now \in 1 .. DayLen
        BY <2>2, <1>7, <1>9, <1>10, TimeAssumption
      <3>2. Word(stops - now) # FALSE_ /\ Word(stops - now) \in SUBSET Bits
        BY <3>1, WordFacts
      <3>3. \A t \in Nat : latest <= t /\ t < now + 1 => On(s, t)
        BY <2>2, <1>3, <1>8, <1>9, <1>10, TimeAssumption
      <3>4. now < now + 1 /\ now + 1 \in Nat
        BY <1>10
      <3>5. Holds(Word(stops - now), now + 1)
        BY <3>2, <3>3, <3>4
      <3> QED
        BY <2>2, <3>2, <3>4, <3>5
    <2>3. CASE ~ today /\ Result(r, FALSE_, getMidnight)
      <3>1. Holds(FALSE_, getMidnight)
        BY <2>3, <1>3, <1>8, TimeAssumption
      <3> QED
        BY <2>3, <3>1, <1>9, WordFacts
    <2>4. CASE now >= starts /\ now >= stops /\ today /\ Result(r, FALSE_, getMidnight)
      <3>1. Holds(FALSE_, getMidnight)
        BY <2>4, <1>3, <1>8, <1>9, <1>10, TimeAssumption
      <3> QED
        BY <2>4, <3>1, <1>9, WordFacts
    <2> QED
      BY <1>6, <2>1, <2>2, <2>3, <2>4
  <1>13. PICK v \in SUBSET Bits, timer \in Nat : Result(r, v, timer) /\ Holds(v, timer)
    BY <1>12
  <1>14. ruleState'[r].value = v /\ ruleState'[r].timer = timer
    BY <1>13, <1>10, ResultFacts
  <1> QED
    BY <1>11, <1>13, <1>14 DEF s

-----------------------------------------------------------------------------
(* One turn of the loop.                                                   *)

\* A monoflop has a timer while it is on, and the loop is not late for it.
LEMMA TriggerFacts ==
  ASSUME TypeOK, NEW r \in Rules, Evaluates(r), Trigger(r)
  PROVE  /\ \E v \in SUBSET Bits, t \in Nat : Result(r, v, t)
         /\ UNCHANGED <<nextMidnight, port>>
         /\ ruleState'[r].value # FALSE_ => ruleState'[r].timer # timerOff /\ now <= ruleState'[r].timer
         /\ "MonoflopRetrigger" \notin ruleData[r].trigger.type =>
              (ruleState'[r].timer # timerOff => ruleState'[r].value # FALSE_)
  <1> DEFINE retrigger == "MonoflopRetrigger" \in ruleData[r].trigger.type
             time   == ruleData[r].trigger.time
             timer  == ruleState[r].timer
             starts == dependChanged(r) /\ (retrigger \/ timer = timerOff)
             Ends(v, t) == /\ v \in SUBSET Bits /\ t \in Nat /\ Result(r, v, t)
                           /\ v # FALSE_ => t # timerOff /\ now <= t
                           /\ ~ retrigger => (t # timerOff => v # FALSE_)
  <1>1. /\ UNCHANGED <<nextMidnight, port>>
        /\ \/ starts /\ Result(r, TRUE_, now + time)
           \/ starts /\ Result(r, FALSE_, timer)
           \/ ~ starts /\ now < timer /\ Result(r, TRUE_, timer)
           \/ ~ starts /\ now >= timer /\ RunsOut(r)
    BY DEF Trigger
  <1>2. time \in Nat /\ MaxTime + time < timerOff
    BY RuleTimesAssumption DEF Trigger
  <1>3. /\ now \in Nat /\ now <= MaxTime /\ timer \in Nat /\ ruleState \in RuleStates
        /\ MaxTime \in Nat /\ timerOff \in Nat
    BY TypeFacts, TimeAssumption DEF now
  <1>4. dependChanged(r) \/ now >= timer
    BY DEF Evaluates
  <1>5. \E v, t : Ends(v, t)
    <2> HIDE DEF time, timer, retrigger
    <2>1. CASE starts /\ Result(r, TRUE_, now + time)
      <3>1. Ends(TRUE_, now + time)
        BY <2>1, <1>2, <1>3, WordFacts
      <3> QED
        BY <3>1
    <2>2. CASE starts /\ Result(r, FALSE_, timer)
      <3>1. Ends(FALSE_, timer)
        BY <2>2, <1>3, WordFacts
      <3> QED
        BY <3>1
    <2>3. CASE ~ starts /\ now < timer /\ Result(r, TRUE_, timer)
      <3>1. Ends(TRUE_, timer)
        BY <2>3, <1>3, <1>4, WordFacts
      <3> QED
        BY <3>1
    <2>4. CASE ~ starts /\ now >= timer /\ RunsOut(r)
      <3>1. Ends(FALSE_, timerOff)
        BY <2>4, <1>3, WordFacts DEF RunsOut
      <3> QED
        BY <3>1
    <2> QED
      BY <1>1, <2>1, <2>2, <2>3, <2>4
  <1>6. PICK v, t : Ends(v, t)
    BY <1>5
  <1>7. ruleState'[r].value = v /\ ruleState'[r].timer = t
    BY <1>6, <1>3, ResultFacts
  <1> QED
    BY <1>1, <1>6, <1>7

\* A value of another device is asked for, or there is no space to ask.
LEMMA RemoteFacts ==
  ASSUME TypeOK, clock <= latest, NEW r \in Rules, RemoteValue(r)
  PROVE  /\ r \in Remotes
         /\ UNCHANGED <<nextMidnight, port>>
         /\ ruleState' \in RuleStates
         /\ \A d \in Rules \ {r} : ruleState'[d] = ruleState[d]
         /\ ruleState'[r].value = ruleState[r].value
         /\ ruleState'[r].ok = "Unknown"
         /\ ruleState'[r].timer = ruleState[r].timer \/ ruleState'[r].timer <= clock + 2
  <1>1. r \in Remotes /\ UNCHANGED <<nextMidnight, port>>
    BY DEF RemoteValue
  <1>2. ruleState \in RuleStates /\ now \in Nat /\ now <= latest /\ latest \in Nat
    BY TypeFacts DEF now
  <1>3. CASE Asks(r)
    <2>1. PICK wait \in {1, 2} :
            ruleState' = [ruleState EXCEPT ![r] = [@ EXCEPT !.ok = "Unknown", !.timer = now + wait]]
      BY <1>3 DEF Asks
    <2>2. now + wait \in Nat /\ now + wait <= clock + 2
      BY <1>2 DEF now
    <2> QED
      BY <1>1, <1>2, <2>1, <2>2, AskFacts
  <1>4. CASE ruleState' = [ruleState EXCEPT ![r].ok = "Unknown"]
    BY <1>1, <1>2, <1>4, FlagFacts
  <1> QED
    BY <1>3, <1>4 DEF RemoteValue

\* What a turn does to rule k, whatever its type is.
Turn(k) ==
  /\ ruleState' \in RuleStates
  /\ \A d \in Rules \ {k} : ruleState'[d] = ruleState[d]
  /\ ruleState'[k].value # ruleState[k].value => ruleState'[k].ok = "Changed"
  /\ k = 0 => ruleState'[k].value = FALSE_ /\ ruleState'[k].ok = "OK"
  /\ nextMidnight' \in Nat /\ Midnights'
  /\ port' \subseteq Rules
  /\ \A d \in Rules \ {k} : d \in port' <=> d \in port
  /\ IsRelay(k) => (k \in port' <=> ruleState'[k].value # FALSE_)
  /\ ruleState'[k].ok # "Unknown" =>
       /\ IsLogic(k) => ruleState'[k].value = LogicResult(k)
       /\ IsRelay(k) => ruleState'[k].value = value(ruleData[k].dependIndex)
       /\ IsTimeSwitch(k) =>
            /\ \A t \in Nat : latest <= t /\ t < ruleState'[k].timer =>
                 (ruleState'[k].value # FALSE_ <=> On(ruleData[k].time, t))
            /\ now < ruleState'[k].timer
       /\ IsTrigger(k) =>
            /\ ruleState'[k].value # FALSE_ => ruleState'[k].timer # timerOff /\ now <= ruleState'[k].timer
            /\ "MonoflopRetrigger" \notin ruleData[k].trigger.type =>
                 (ruleState'[k].timer # timerOff => ruleState'[k].value # FALSE_)
  /\ k \in Remotes =>
       /\ ruleState'[k].ok \in {"Unknown", ruleState[k].ok}
       /\ ruleState'[k].ok = "Unknown" =>
            /\ ruleState'[k].timer <= latest + 2 \/ ruleState'[k].timer <= FirstTimer
            /\ Evaluates(k) \/ k \notin late =>
                 ruleState'[k].timer <= clock + 2 \/ ruleState'[k].timer <= FirstTimer

LEMMA InRoundFacts ==
  ASSUME IInv, phase = "check"
  PROVE  clock <= latest /\ value(0) = FALSE_ /\ ruleState[0].ok = "OK"
  BY DEF IInv, ClockSeen, ZeroOff, InRound, Known

\* A rule that has time left and no changed argument was right already.
LEMMA PassTurns ==
  ASSUME IInv, NEW k \in Rules, k = rule, phase = "check", latest' = latest, Pass(k)
  PROVE  Turn(k)
  <1>1. TypeOK /\ Midnights /\ PortsFollow /\ UNCHANGED <<nextMidnight, port>>
    BY DEF IInv, Pass
  <1>2. /\ ruleState \in RuleStates /\ nextMidnight' \in Nat /\ port' \subseteq Rules
        /\ Midnights' /\ \A d \in Rules : d \in port' <=> d \in port
        /\ IsRelay(k) => (k \in port' <=> ruleState[k].value # FALSE_)
    BY <1>1, TypeFacts DEF TypeOK, Midnights, PortsFollow, value
  <1>3. CASE checkDependency(k)
    <2>1. ruleState' = [ruleState EXCEPT ![k].ok = "Unknown"]
      BY <1>3 DEF Pass
    <2>2. /\ ruleState' \in RuleStates
          /\ \A d \in Rules \ {k} : ruleState'[d] = ruleState[d]
          /\ ruleState'[k].value = ruleState[k].value
          /\ ruleState'[k].ok = "Unknown"
      BY <2>1, <1>2, FlagFacts
    <2>3. k # 0 /\ k \notin Remotes
      <3>1. ~ checkDependency(0)
        BY InRoundFacts, SystemErrorAssumption DEF checkDependency, Known
      <3>2. ASSUME k \in Remotes PROVE FALSE
        <4>1. Arguments(k) = {0}
          BY <3>2, RemoteAssumption DEF Arguments, Remotes
        <4> QED
          BY <4>1, <1>3, InRoundFacts DEF checkDependency, Known
      <3> QED
        BY <3>1, <3>2, <1>3
    <2> QED
      BY <1>2, <2>2, <2>3 DEF Turn
  <1>4. CASE ~ checkDependency(k)
    <2>1. ruleState' = ruleState /\ ~ dependChanged(k) /\ ~ (now >= ruleState[k].timer) /\ ~ Evaluates(k)
      BY <1>4 DEF Pass, Evaluates
    <2>2. now \in Nat /\ ruleState[k].timer \in Nat /\ now < ruleState[k].timer
      BY <2>1, <1>1, TypeFacts DEF now
    <2>3. ~ Told(k)
      BY <1>4, <2>1 DEF Told, checkDependency, dependChanged, Known
    <2>4. Known(k) => Current(k)
      BY <2>3 DEF IInv, Informed
    <2>5. k \in Remotes /\ ~ Known(k) =>
            /\ ruleState[k].timer <= latest + 2 \/ ruleState[k].timer <= FirstTimer
            /\ k \notin late => ruleState[k].timer <= clock + 2 \/ ruleState[k].timer <= FirstTimer
      BY DEF IInv, AskedSoon, Due
    <2>6. IsTimeSwitch(k) /\ Known(k) =>
            \A t \in Nat : latest <= t /\ t < ruleState[k].timer =>
              (ruleState[k].value # FALSE_ <=> On(ruleData[k].time, t))
      BY DEF IInv, SwitchesHold, value
    <2>7. IsTrigger(k) /\ Known(k) =>
            /\ ruleState[k].value # FALSE_ => ruleState[k].timer # timerOff
            /\ "MonoflopRetrigger" \notin ruleData[k].trigger.type =>
                 (ruleState[k].timer # timerOff => ruleState[k].value # FALSE_)
      BY DEF IInv, MonoflopsRun, value
    <2>8. k = 0 => ruleState[k].value = FALSE_ /\ ruleState[k].ok = "OK"
      BY InRoundFacts DEF value
    <2> QED
      BY <1>2, <2>1, <2>2, <2>4, <2>5, <2>6, <2>7, <2>8 DEF Turn, Known, Current, value
  <1> QED
    BY <1>3, <1>4

\* A rule that is evaluated is right then.
LEMMA EvaluateTurns ==
  ASSUME IInv, NEW k \in Rules, k = rule, phase = "check", latest' = latest, Evaluate(k)
  PROVE  Turn(k)
  <1>1. TypeOK /\ Midnights /\ PortsFollow /\ clock <= latest
    BY InRoundFacts DEF IInv
  <1>2. ruleState \in RuleStates /\ port \subseteq Rules /\ nextMidnight \in Nat
    BY <1>1, TypeFacts DEF TypeOK
  <1>3. k = 0 => IsLogic(k)
    BY SystemErrorAssumption DEF IsLogic
  <1>4. ruleState[0].ok = "OK" /\ value(0) = FALSE_
    BY InRoundFacts
  <1> USE TimeAssumption
  <1>5. CASE Logic(k)
    <2>1. IsLogic(k) /\ LogicResult(k) \in SUBSET Bits /\ Result(k, LogicResult(k), timerOff)
            /\ UNCHANGED <<nextMidnight, port>>
      BY <1>1, <1>5, LogicResultFacts DEF Logic, IsLogic
    <2>2. /\ ruleState' \in RuleStates
          /\ \A d \in Rules \ {k} : ruleState'[d] = ruleState[d]
          /\ ruleState'[k].value = LogicResult(k)
          /\ ruleState'[k].value # value(k) => ruleState'[k].ok = "Changed"
          /\ LogicResult(k) = value(k) /\ ruleState[k].ok # "SendLater" => ruleState'[k].ok = "OK"
      BY <1>2, <2>1, ResultFacts
    <2>3. k = 0 => ruleState'[k].value = FALSE_ /\ ruleState'[k].ok = "OK"
      BY <1>4, <2>2, LogicResultOfZero
    <2>4. Midnights'
      BY <1>1, <2>1 DEF Midnights
    <2> QED
      BY <1>2, <2>1, <2>2, <2>3, <2>4, KindFacts DEF Turn, value
  <1>6. CASE Relay(k)
    <2> DEFINE v == value(ruleData[k].dependIndex)
    <2>1. v \in SUBSET Bits
      BY <1>1, RuleFacts, TypeFacts
    <2>2. /\ IsRelay(k) /\ Result(k, v, timerOff) /\ UNCHANGED nextMidnight
          /\ port' = IF v # FALSE_ THEN port \cup {k} ELSE port \ {k}
      BY <1>6 DEF Relay, IsRelay
    <2> HIDE DEF v
    <2>3. /\ ruleState' \in RuleStates
          /\ \A d \in Rules \ {k} : ruleState'[d] = ruleState[d]
          /\ ruleState'[k].value = v
          /\ ruleState'[k].value # value(k) => ruleState'[k].ok = "Changed"
      BY <1>2, <2>1, <2>2, ResultFacts
    <2>4. Midnights'
      BY <1>1, <2>2 DEF Midnights
    <2> QED
      BY <1>2, <1>3, <2>2, <2>3, <2>4, KindFacts DEF Turn, value, v
  <1>7. CASE TimeSwitch(k)
    <2>1. IsTimeSwitch(k)
      BY <1>7 DEF TimeSwitch, IsTimeSwitch
    <2>2. PICK v \in SUBSET Bits, e \in Nat : Result(k, v, e)
      BY <1>1, <1>7, TimeSwitchFacts
    <2>3. /\ ruleState' \in RuleStates
          /\ \A d \in Rules \ {k} : ruleState'[d] = ruleState[d]
          /\ ruleState'[k].value # value(k) => ruleState'[k].ok = "Changed"
      BY <1>2, <2>2, ResultFacts
    <2>4. /\ Midnights' /\ nextMidnight' \in Nat /\ port' = port
          /\ \A t \in Nat : latest <= t /\ t < ruleState'[k].timer =>
               (ruleState'[k].value # FALSE_ <=> On(ruleData[k].time, t))
          /\ now < ruleState'[k].timer
      BY <1>1, <1>7, TimeSwitchFacts
    <2> QED
      BY <1>2, <1>3, <2>1, <2>3, <2>4, KindFacts DEF Turn, value
  <1>8. CASE Trigger(k)
    <2>1. IsTrigger(k) /\ Evaluates(k)
      BY <1>8 DEF Trigger, IsTrigger, Evaluate
    <2>2. PICK v \in SUBSET Bits, t \in Nat : Result(k, v, t)
      BY <1>1, <1>8, <2>1, TriggerFacts
    <2>3. /\ ruleState' \in RuleStates
          /\ \A d \in Rules \ {k} : ruleState'[d] = ruleState[d]
          /\ ruleState'[k].value # value(k) => ruleState'[k].ok = "Changed"
      BY <1>2, <2>2, ResultFacts
    <2>4. /\ UNCHANGED <<nextMidnight, port>>
          /\ ruleState'[k].value # FALSE_ => ruleState'[k].timer # timerOff /\ now <= ruleState'[k].timer
          /\ "MonoflopRetrigger" \notin ruleData[k].trigger.type =>
               (ruleState'[k].timer # timerOff => ruleState'[k].value # FALSE_)
      BY <1>1, <1>8, <2>1, TriggerFacts
    <2>5. Midnights'
      BY <1>1, <2>4 DEF Midnights
    <2> QED
      BY <1>2, <1>3, <2>1, <2>3, <2>4, <2>5, KindFacts DEF Turn, value
  <1>9. CASE RemoteValue(k)
    <2>1. /\ k \in Remotes /\ UNCHANGED <<nextMidnight, port>>
          /\ ruleState' \in RuleStates
          /\ \A d \in Rules \ {k} : ruleState'[d] = ruleState[d]
          /\ ruleState'[k].value = ruleState[k].value
          /\ ruleState'[k].ok = "Unknown"
          /\ ruleState'[k].timer = ruleState[k].timer \/ ruleState'[k].timer <= clock + 2
      BY <1>1, <1>9, RemoteFacts
    <2>2. ruleState[k].timer <= clock
      <3>1. Arguments(k) = {0}
        BY <2>1, RemoteAssumption DEF Arguments, Remotes
      <3>2. now >= ruleState[k].timer
        BY <3>1, <1>4 DEF Evaluate, Evaluates, dependChanged
      <3> QED
        BY <3>2, <1>1, TypeFacts DEF now
    <2>3. ruleState'[k].timer <= latest + 2 /\ ruleState'[k].timer <= clock + 2
      <3>1. /\ clock \in Nat /\ latest \in Nat /\ ruleState[k].timer \in Nat
            /\ ruleState'[k].timer \in Nat
        BY <2>1, <1>1, TypeFacts DEF RuleStates
      <3> QED
        BY <3>1, <2>1, <2>2, <1>1
    <2>4. Midnights'
      BY <1>1, <2>1 DEF Midnights
    <2> QED
      BY <1>2, <1>3, <2>1, <2>3, <2>4, KindFacts DEF Turn, value
  <1> QED
    BY <1>5, <1>6, <1>7, <1>8, <1>9 DEF Evaluate

-----------------------------------------------------------------------------
(* Every step keeps the invariant.                                         *)

\* A step outside of the loop that changes no value: it may set flags, let the
\* clock run or start the loop.
LEMMA QuietKeeps ==
  ASSUME IInv, TypeOK',
         \A d \in Rules : /\ ruleState'[d].value = ruleState[d].value
                          /\ ruleState'[d].timer = ruleState[d].timer
                          /\ d # 0 => (Known(d)' <=> Known(d)),
         ruleState'[0].ok \in {"Unknown", "OK"},
         \/ phase' \in {"net", "start"}
         \/ phase' = "check" /\ rule' = 0 /\ Known(0)' /\ clock' <= latest',
         UNCHANGED <<nextMidnight, port, late>>, latest <= latest', clock <= clock',
         \A r \in Rules : Told(r) => Told(r)'
  PROVE  IInv'
  <1>1. /\ TypeOK /\ ZeroOff /\ Midnights /\ PortsFollow /\ Informed /\ SwitchesHold
        /\ MonoflopsRun /\ AskedSoon /\ value(0) = FALSE_
    BY DEF IInv, ZeroOff
  <1>2. 0 \in Rules /\ latest \in Nat /\ latest' \in Nat /\ TypeOK'
    BY <1>1, RuleFacts, TypeFacts DEF TypeOK
  <1>3. \A r \in Rules : ~ Done(r)'
    BY RuleFacts DEF Done
  <1>4. ZeroOff' /\ ClockSeen'
    BY <1>1, <1>2 DEF ZeroOff, ClockSeen, InRound, value, Known
  <1>5. Midnights'
    <2>1. CASE nextMidnight = 0
      BY <2>1 DEF Midnights
    <2>2. CASE nextMidnight # 0
      <3>1. PICK day \in Nat : nextMidnight = (day + 1) * DayLen /\ day * DayLen <= latest
        BY <1>1, <2>2 DEF Midnights
      <3>2. day * DayLen <= latest'
        BY <3>1, <1>2, TimeAssumption
      <3> QED
        BY <3>1, <3>2 DEF Midnights
    <2> QED
      BY <2>1, <2>2
  <1>6. PortsFollow'
    BY <1>1 DEF PortsFollow, value, IsRelay
  <1>7. Informed'
    <2> SUFFICES ASSUME NEW r \in Rules, Known(r)' PROVE Current(r)' \/ Told(r)'
      BY DEF Informed
    <2>1. CASE r = 0
      <3>1. value(0) = LogicResult(0) /\ ~ IsRelay(0)
        BY <1>1, <1>2, LogicResultOfZero, SystemErrorAssumption DEF IsRelay
      <3>2. Current(0)
        BY <3>1 DEF Current
      <3> QED
        BY <2>1, <3>2, CurrentKept, RuleFacts
    <2>2. CASE r # 0
      <3>1. Current(r) \/ Told(r)
        BY <1>1, <2>2 DEF Informed
      <3> QED
        BY <3>1, CurrentKept, RuleFacts
    <2> QED
      BY <2>1, <2>2
  <1>8. \A r \in Rules : IsTimeSwitch(r) \/ IsTrigger(r) \/ r \in Remotes => r # 0
    BY SystemErrorAssumption DEF IsTimeSwitch, IsTrigger, Remotes
  <1>9. SwitchesHold'
    <2> SUFFICES ASSUME NEW r \in Rules, IsTimeSwitch(r), Known(r)',
                        NEW t \in Nat, latest' <= t, t < ruleState'[r].timer
                 PROVE  ruleState'[r].value # FALSE_ <=> On(ruleData[r].time, t)
      BY <1>3 DEF SwitchesHold, IsTimeSwitch, value, On, wday
    <2>1. Known(r) /\ latest <= t /\ t < ruleState[r].timer
      BY <1>2, <1>8
    <2> QED
      BY <1>1, <2>1 DEF SwitchesHold, value
  <1>10. MonoflopsRun'
    BY <1>1, <1>3, <1>8 DEF MonoflopsRun, IsTrigger, value
  <1>11. AskedSoon'
    <2> SUFFICES ASSUME NEW r \in Remotes, ~ Known(r)'
                 PROVE  Due(r, latest)' /\ (r \notin late => Due(r, clock)')
      BY DEF AskedSoon, Remotes
    <2>1. r \in Rules /\ ~ Known(r)
      BY <1>8 DEF Remotes
    <2>2. Due(r, latest) /\ (r \notin late => Due(r, clock))
      BY <1>1, <2>1 DEF AskedSoon
    <2>3. ruleState[r].timer \in Nat /\ clock \in Nat /\ clock' \in Nat
      BY <1>1, <1>2, <2>1, TypeFacts DEF TypeOK
    <2> QED
      BY <1>2, <2>1, <2>2, <2>3, TimeAssumption DEF Due
  <1> QED
    BY <1>2, <1>4, <1>5, <1>6, <1>7, <1>9, <1>10, <1>11 DEF IInv

LEMMA TickKeeps ==
  ASSUME IInv, system_tick
  PROVE  IInv'
  <1>1. TypeOK'
    BY TypeFacts, TimeAssumption DEF IInv, TypeOK, system_tick
  <1>2. \A r \in Rules : Told(r) => Told(r)'
    BY DEF Told, system_tick
  <1> QED
    BY <1>1, <1>2, TypeFacts, QuietKeeps DEF IInv, ZeroOff, system_tick, Known, TypeOK

LEMMA NoPacketKeeps ==
  ASSUME IInv, NoPacket
  PROVE  IInv'
  <1>1. TypeOK'
    BY DEF IInv, TypeOK, NoPacket
  <1>2. \A r \in Rules : ~ Told(r)
    BY DEF Told, NoPacket
  <1> QED
    BY <1>1, <1>2, TypeFacts, QuietKeeps DEF IInv, ZeroOff, NoPacket, Known, TypeOK

LEMMA RequestKeeps ==
  ASSUME IInv, NEW networkPort, UDP_Callback_Request(networkPort)
  PROVE  IInv'
  <1>1. PICK r \in Rules : /\ Known(r) /\ ruleState' = [ruleState EXCEPT ![r].ok = "OK"]
                           /\ untold' = untold \ {r}
    BY DEF UDP_Callback_Request, Locals
  <1>2. /\ phase = "net" /\ phase' = "start"
        /\ UNCHANGED <<rule, clock, nextMidnight, port, latest, late>>
    BY DEF UDP_Callback_Request
  <1>3. /\ TypeOK /\ ruleState \in RuleStates /\ latest \in Nat /\ clock \in Nat
        /\ ruleState[0].ok \in {"Unknown", "OK"}
    BY TypeFacts DEF IInv, ZeroOff
  <1>4. /\ ruleState' \in RuleStates /\ ruleState'[r].ok = "OK"
        /\ \A d \in Rules \ {r} : ruleState'[d] = ruleState[d]
        /\ \A d \in Rules : /\ ruleState'[d].value = ruleState[d].value
                            /\ ruleState'[d].timer = ruleState[d].timer
    BY <1>1, <1>3, FlagFacts
  <1>5. TypeOK'
    BY <1>1, <1>2, <1>3, <1>4 DEF TypeOK, RuleStates
  <1>6. \A d \in Rules : Known(d)' <=> Known(d)
    BY <1>1, <1>4 DEF Known
  <1>7. \A d \in Rules : ~ Told(d)
    BY <1>2 DEF Told
  <1>8. ruleState'[0].ok \in {"Unknown", "OK"}
    BY <1>3, <1>4, RuleFacts
  <1> QED
    BY <1>2, <1>3, <1>4, <1>5, <1>6, <1>7, <1>8, QuietKeeps

LEMMA StartKeeps ==
  ASSUME IInv, StartCheck
  PROVE  IInv'
  <1>1. /\ ruleState' = [ruleState EXCEPT ![0].ok = "OK"]
        /\ latest' = IF clock > latest THEN clock ELSE latest
        /\ phase = "start" /\ phase' = "check" /\ rule' = 0
        /\ UNCHANGED <<clock, nextMidnight, port, untold, late>>
    BY DEF StartCheck
  <1>2. /\ TypeOK /\ ruleState \in RuleStates /\ 0 \in Rules
        /\ latest \in Nat /\ clock \in Nat
    BY TypeFacts, RuleFacts DEF IInv
  <1>3. /\ ruleState' \in RuleStates /\ ruleState'[0].ok = "OK"
        /\ \A d \in Rules \ {0} : ruleState'[d] = ruleState[d]
        /\ \A d \in Rules : /\ ruleState'[d].value = ruleState[d].value
                            /\ ruleState'[d].timer = ruleState[d].timer
    BY <1>1, <1>2, FlagFacts
  <1>4. TypeOK' /\ clock' <= latest' /\ latest <= latest'
    BY <1>1, <1>2, <1>3 DEF TypeOK, RuleStates
  <1>5. \A d \in Rules : d # 0 => (Known(d)' <=> Known(d))
    BY <1>3 DEF Known
  <1>6. \A r \in Rules : Told(r) => Told(r)'
    <2> SUFFICES ASSUME NEW r \in Rules, Told(r) PROVE Told(r)'
      OBVIOUS
    <2>1. PICK d \in Arguments(r) : d \in Remotes /\ ruleState[d].ok = "Changed"
      BY <1>1 DEF Told
    <2>2. d \in Rules /\ d # 0 /\ r \in Nat
      BY <2>1, RuleFacts, SystemErrorAssumption DEF Remotes
    <2>3. ruleState'[d].ok = "Changed"
      BY <1>3, <2>1, <2>2
    <2> QED
      BY <1>1, <2>1, <2>2, <2>3 DEF Told, Arguments, Remotes
  <1>7. Known(0)' /\ ruleState'[0].ok \in {"Unknown", "OK"}
    BY <1>3 DEF Known
  <1> QED
    BY <1>1, <1>2, <1>3, <1>4, <1>5, <1>6, <1>7, QuietKeeps

LEMMA SendKeeps ==
  ASSUME IInv, sendChangedRules
  PROVE  IInv'
  <1> DEFINE changed == {r \in Rules : ruleState[r].ok \in {"Changed", "SendLater"}}
  <1>1. PICK sent \in SUBSET (changed \cap Locals) :
          /\ ruleState' = [r \in Rules |->
               CASE r \in sent                 -> [ruleState[r] EXCEPT !.ok = "OK"]
                 [] r \in changed \cap Remotes -> [ruleState[r] EXCEPT !.ok = "SendLater"]
                 [] OTHER                      -> ruleState[r]]
          /\ untold' = untold \ sent
    BY DEF sendChangedRules
  <1>2. /\ phase = "send" /\ phase' = "net"
        /\ UNCHANGED <<rule, clock, nextMidnight, port, latest, late>>
    BY DEF sendChangedRules
  <1>3. /\ TypeOK /\ ruleState \in RuleStates /\ latest \in Nat /\ clock \in Nat
        /\ ruleState[0].ok \in {"Unknown", "OK"}
    BY TypeFacts DEF IInv, ZeroOff
  <1>4. \A r \in Rules :
          \/ r \in sent /\ ruleState'[r] = [ruleState[r] EXCEPT !.ok = "OK"]
          \/ r \in changed /\ r \in Remotes /\ ruleState'[r] = [ruleState[r] EXCEPT !.ok = "SendLater"]
          \/ r \notin sent /\ ruleState'[r] = ruleState[r]
    <2>1. sent \cap Remotes = {}
      BY <1>1 DEF Locals
    <2> QED
      BY <1>1, <2>1
  <1>5. \A r \in Rules :
          /\ ruleState'[r] \in [timer : Nat, value : SUBSET Bits,
                                ok : {"Unknown", "OK", "Changed", "SendLater"}]
          /\ ruleState'[r].value = ruleState[r].value
          /\ ruleState'[r].timer = ruleState[r].timer
          /\ ruleState'[r].ok # "Unknown" <=> ruleState[r].ok # "Unknown"
    <2> SUFFICES ASSUME NEW r \in Rules
                 PROVE  /\ ruleState'[r] \in [timer : Nat, value : SUBSET Bits,
                                              ok : {"Unknown", "OK", "Changed", "SendLater"}]
                        /\ ruleState'[r].value = ruleState[r].value
                        /\ ruleState'[r].timer = ruleState[r].timer
                        /\ ruleState'[r].ok # "Unknown" <=> ruleState[r].ok # "Unknown"
      OBVIOUS
    <2>1. ruleState[r] \in [timer : Nat, value : SUBSET Bits,
                            ok : {"Unknown", "OK", "Changed", "SendLater"}]
      BY <1>3 DEF RuleStates
    <2>2. r \in sent => r \in changed
      BY <1>1
    <2> QED
      BY <1>4, <2>1, <2>2
  <1>6. ruleState' \in RuleStates
    BY <1>1, <1>5 DEF RuleStates
  <1>7. TypeOK'
    BY <1>1, <1>2, <1>3, <1>6 DEF TypeOK, RuleStates
  <1>8. \A d \in Rules : Known(d)' <=> Known(d)
    BY <1>5 DEF Known
  <1>9. \A d \in Rules : ~ Told(d)
    BY <1>2 DEF Told
  <1>10. ruleState'[0].ok \in {"Unknown", "OK"}
    BY <1>1, <1>3, <1>4, RuleFacts
  <1> QED
    BY <1>2, <1>3, <1>5, <1>7, <1>8, <1>9, <1>10, QuietKeeps

\* A value from the network: its rule is changed if the value is, so everyone
\* that uses it is told.
LEMMA ReplyKeeps ==
  ASSUME IInv, NEW k \in Rules, UDP_Callback_Reply(k)
  PROVE  IInv'
  <1>1. /\ TypeOK /\ ZeroOff /\ Midnights /\ PortsFollow /\ Informed /\ SwitchesHold
        /\ MonoflopsRun /\ AskedSoon
    BY DEF IInv
  <1>2. /\ phase = "net" /\ phase' = "start"
        /\ UNCHANGED <<rule, nextMidnight, port, untold, latest>>
    BY DEF UDP_Callback_Reply
  <1>3. ruleState \in RuleStates /\ clock \in Nat /\ clock <= MaxTime /\ latest \in Nat /\ 0 \in Rules
    BY <1>1, TypeFacts, RuleFacts
  <1>4. k \in Remotes /\ k # 0
    BY SystemErrorAssumption DEF UDP_Callback_Reply, Remotes
  <1>5. /\ clock' \in 0 .. MaxTime /\ \E v \in SUBSET Bits, t \in Nat : Reported(k, v, t)
        /\ late' \subseteq Remotes
        /\ \A r \in Remotes \ {k} : ~ Known(r) /\ r \notin late' => r \notin late /\ clock <= clock'
    <2>0. late \subseteq Remotes /\ Waiting \subseteq Remotes
      BY <1>1 DEF TypeOK, Waiting
    <2>1. CASE \E newTime \in ServerTimes :
                 /\ clock' = newTime /\ Reported(k, Word(newTime), newTime + SNTP_TimeBetweenQueries)
                 /\ late' = (IF newTime < clock THEN late \cup Waiting ELSE late) \ {k}
      <3>1. PICK newTime \in ServerTimes :
                 /\ clock' = newTime /\ Reported(k, Word(newTime), newTime + SNTP_TimeBetweenQueries)
                 /\ late' = (IF newTime < clock THEN late \cup Waiting ELSE late) \ {k}
        BY <2>1
      <3>2. newTime \in Nat /\ newTime \in 0 .. MaxTime /\ newTime + SNTP_TimeBetweenQueries \in Nat
        BY AnswersAssumption, TimeAssumption
      <3>3. \E v \in SUBSET Bits, t \in Nat : Reported(k, v, t)
        BY <3>1, <3>2, WordFacts
      <3>4. late' \subseteq Remotes
        BY <3>1, <2>0
      <3>5. CASE newTime < clock
        BY <3>1, <3>2, <3>3, <3>4, <3>5 DEF Waiting
      <3>6. CASE ~ (newTime < clock)
        <4>1. clock <= newTime
          BY <3>2, <3>6, <1>3
        <4> QED
          BY <4>1, <3>1, <3>2, <3>3, <3>4, <3>6
      <3> QED
        BY <3>5, <3>6
    <2>2. CASE (\E v \in Answers : Reported(k, v, timerOff)) /\ late' = late \ {k} /\ UNCHANGED clock
      BY <2>0, <2>2, <1>3, AnswersAssumption, TimeAssumption
    <2> QED
      BY <2>1, <2>2 DEF UDP_Callback_Reply
  <1>6. /\ ruleState' \in RuleStates
        /\ \A d \in Rules \ {k} : ruleState'[d] = ruleState[d]
        /\ ruleState'[k].ok \in {"OK", "Changed"}
        /\ ruleState'[k].value # value(k) => ruleState'[k].ok = "Changed"
    BY <1>3, <1>5, ReportFacts
  <1>7. TypeOK'
    BY <1>1, <1>2, <1>5, <1>6 DEF TypeOK, RuleStates
  <1>8. ZeroOff' /\ ClockSeen' /\ Midnights'
    BY <1>1, <1>2, <1>3, <1>4, <1>6 DEF ZeroOff, ClockSeen, Midnights, InRound, value, Known
  <1>9. \A r \in Rules : ~ Done(r)'
    BY <1>2 DEF Done
  <1>10. ~ IsLogic(k) /\ ~ IsRelay(k) /\ ~ IsTimeSwitch(k) /\ ~ IsTrigger(k)
    BY <1>4, KindFacts
  <1>11. PortsFollow'
    BY <1>1, <1>2, <1>6, <1>10 DEF PortsFollow, value, IsRelay
  <1>12. Informed'
    <2> SUFFICES ASSUME NEW r \in Rules, Known(r)' PROVE Current(r)' \/ Told(r)'
      BY DEF Informed
    <2>1. CASE r = k
      BY <2>1, <1>10 DEF Current, IsLogic, IsRelay
    <2>2. CASE r # k
      <3>1. Current(r)
        BY <2>2, <1>1, <1>2, <1>6 DEF Informed, Told, Known
      <3>2. CASE k \in Arguments(r) /\ ruleState'[k].value # value(k)
        BY <3>2, <1>2, <1>4, <1>6 DEF Told, Arguments, Remotes
      <3>3. CASE k \notin Arguments(r) \/ ruleState'[k].value = value(k)
        <4>1. \A d \in Arguments(r) \cup {r} : ruleState'[d].value = ruleState[d].value
          BY <2>2, <3>3, <1>6, RuleFacts DEF value
        <4> QED
          BY <3>1, <4>1, CurrentKept
      <3> QED
        BY <3>2, <3>3
    <2> QED
      BY <2>1, <2>2
  <1>13. SwitchesHold'
    <2> SUFFICES ASSUME NEW r \in Rules, IsTimeSwitch(r), Known(r)',
                        NEW t \in Nat, latest' <= t, t < ruleState'[r].timer
                 PROVE  ruleState'[r].value # FALSE_ <=> On(ruleData[r].time, t)
      BY <1>9 DEF SwitchesHold, IsTimeSwitch, value, On, wday
    <2>1. ruleState'[r] = ruleState[r] /\ Known(r) /\ latest <= t
      BY <1>2, <1>6, <1>10 DEF Known
    <2> QED
      BY <1>1, <2>1 DEF SwitchesHold, value
  <1>14. MonoflopsRun'
    BY <1>1, <1>6, <1>9, <1>10 DEF MonoflopsRun, IsTrigger, value, Known
  <1>15. AskedSoon'
    <2> SUFFICES ASSUME NEW r \in Remotes, ~ Known(r)'
                 PROVE  Due(r, latest)' /\ (r \notin late' => Due(r, clock)')
      BY DEF AskedSoon, Remotes
    <2>1. r \in Rules \ {k} /\ ruleState'[r] = ruleState[r] /\ ~ Known(r)
      BY <1>6 DEF Known, Remotes
    <2>2. Due(r, latest) /\ (r \notin late => Due(r, clock))
      BY <1>1, <2>1 DEF AskedSoon
    <2>3. r \notin late' => r \notin late /\ clock <= clock'
      BY <1>5, <2>1
    <2>4. ruleState[r].timer \in Nat /\ clock' \in Nat
      BY <1>1, <1>5, <2>1, TypeFacts
    <2> QED
      BY <1>2, <1>3, <2>1, <2>2, <2>3, <2>4 DEF Due
  <1> QED
    BY <1>7, <1>8, <1>11, <1>12, <1>13, <1>14, <1>15 DEF IInv

\* A turn of the loop: a rule that changed its value is changed for the ones
\* behind it, and those before it do not use it.
LEMMA CheckKeeps ==
  ASSUME IInv, checkRules
  PROVE  IInv'
  <1>1. /\ TypeOK /\ ZeroOff /\ PortsFollow /\ Informed /\ SwitchesHold
        /\ MonoflopsRun /\ AskedSoon
    BY DEF IInv
  <1>2. PICK k \in Rules : k = rule
    BY <1>1, TypeFacts
  <1>3. /\ phase = "check" /\ clock' = clock /\ latest' = latest
        /\ Pass(k) \/ Evaluate(k)
        /\ untold' = IF k \in Locals /\ ruleState'[k].value # value(k) THEN untold \cup {k} ELSE untold
        /\ late' = IF Evaluates(k) THEN late \ {k} ELSE late
        /\ \/ k = N - 1 /\ phase' = "send" /\ rule' = 0
           \/ k # N - 1 /\ phase' = "check" /\ rule' = k + 1
    BY <1>2 DEF checkRules, LastRule
  <1>4. Turn(k)
    BY <1>2, <1>3, PassTurns, EvaluateTurns
  <1>5. /\ ruleState' \in RuleStates
        /\ \A d \in Rules \ {k} : ruleState'[d] = ruleState[d]
        /\ ruleState'[k].value # ruleState[k].value => ruleState'[k].ok = "Changed"
    BY <1>4 DEF Turn
  <1>6. k \in Nat /\ k < N /\ N \in Nat /\ 0 \in Rules /\ \A r \in Rules : r \in Nat /\ r < N
    BY RuleFacts, ConfigAssumption
  <1>7. TypeOK'
    <2>1. rule' \in Rules
      BY <1>3, <1>6 DEF Rules
    <2> QED
      BY <1>1, <1>3, <1>4, <2>1 DEF TypeOK, Turn, RuleStates, Locals
  <1>8. ZeroOff'
    <2>1. ruleState[0].ok = "OK" /\ value(0) = FALSE_
      BY <1>3, InRoundFacts
    <2>2. ruleState'[0].ok = "OK" /\ ruleState'[0].value = FALSE_
      BY <2>1, <1>4, <1>6 DEF Turn, value
    <2> QED
      BY <2>2 DEF ZeroOff, value, Known
  <1>9. ClockSeen' /\ Midnights'
    BY <1>3, <1>4, InRoundFacts DEF ClockSeen, Turn
  <1>10. \A r \in Rules \ {k} : Done(r)' => Done(r)
    BY <1>2, <1>3, <1>6 DEF Done
  <1>11. PortsFollow'
    BY <1>1, <1>4 DEF PortsFollow, Turn, value, IsRelay
  <1>12. Informed'
    <2> SUFFICES ASSUME NEW r \in Rules, Known(r)' PROVE Current(r)' \/ Told(r)'
      BY DEF Informed
    <2>1. CASE r = k
      <3>1. \A d \in Arguments(k) : ruleState'[d].value = ruleState[d].value
        <4> SUFFICES ASSUME NEW d \in Arguments(k) PROVE ruleState'[d].value = ruleState[d].value
          OBVIOUS
        <4>1. d \in Rules /\ (d < k \/ d = 0)
          BY RuleFacts
        <4>2. CASE d = k
          BY <4>1, <4>2, <1>1, <1>4, <1>6 DEF Turn, ZeroOff, value
        <4>3. CASE d # k
          BY <4>1, <4>3, <1>5
        <4> QED
          BY <4>2, <4>3
      <3>2. /\ IsLogic(k) => ruleState'[k].value = LogicResult(k)
            /\ IsRelay(k) => ruleState'[k].value = value(ruleData[k].dependIndex)
        BY <2>1, <1>4 DEF Turn, Known
      <3>3. IsLogic(k) => LogicResult(k)' = LogicResult(k)
        BY <3>1, GateFacts DEF LogicResult, value
      <3>4. IsRelay(k) => value(ruleData[k].dependIndex)' = value(ruleData[k].dependIndex)
        BY <3>1, RuleFacts DEF value
      <3> QED
        BY <2>1, <3>2, <3>3, <3>4 DEF Current, value, IsLogic, IsRelay
    <2>2. CASE r # k
      <3>1. Known(r) /\ (Current(r) \/ Told(r))
        BY <2>2, <1>1, <1>5 DEF Known, Informed
      <3>2. CASE k \in Arguments(r) /\ ruleState'[k].value # ruleState[k].value
        <4>1. k < r
          BY <3>2, <2>2, <1>4, <1>1, <1>6, RuleFacts DEF Turn, ZeroOff, value
        <4>2. phase' = "check" /\ rule' = k + 1 /\ k + 1 <= r /\ k < rule'
          BY <4>1, <1>3, <1>6
        <4> QED
          BY <3>2, <4>2, <1>5 DEF Told, Arguments
      <3>3. CASE k \notin Arguments(r) \/ ruleState'[k].value = ruleState[k].value
        <4>1. CASE Current(r)
          <5>1. \A d \in Arguments(r) \cup {r} : ruleState'[d].value = ruleState[d].value
            BY <2>2, <3>3, <1>5, RuleFacts
          <5> QED
            BY <4>1, <5>1, CurrentKept
        <4>2. CASE Told(r)
          <5>1. PICK d \in Arguments(r) : /\ rule <= r
                                          /\ d \in Remotes \/ d < rule
                                          /\ ruleState[d].ok \in {"Changed", "Unknown"}
            BY <4>2, <1>3 DEF Told
          <5>2. k < r /\ d \in Rules
            BY <5>1, <4>2, <2>2, <1>2, <1>3, <1>6, RuleFacts DEF Told
          <5>3. phase' = "check" /\ rule' = k + 1 /\ rule' <= r
            BY <5>2, <1>3, <1>6
          <5>4. CASE d = k
            <6>1. d \in Remotes
              BY <5>1, <5>4, <4>2, <1>2, <1>6
            <6>2. ruleState'[d].ok \in {"Changed", "Unknown"}
              BY <5>1, <5>4, <6>1, <1>4 DEF Turn
            <6> QED
              BY <5>3, <6>1, <6>2 DEF Told, Arguments, Remotes
          <5>5. CASE d # k
            <6>1. ruleState'[d].ok \in {"Changed", "Unknown"}
              BY <5>1, <5>2, <5>5, <1>5
            <6>2. d \in Remotes \/ d < rule'
              BY <5>1, <5>2, <5>3, <1>2, <1>6
            <6> QED
              BY <5>3, <6>1, <6>2 DEF Told, Arguments, Remotes
          <5> QED
            BY <5>4, <5>5
        <4> QED
          BY <3>1, <4>1, <4>2
      <3> QED
        BY <3>2, <3>3
    <2> QED
      BY <2>1, <2>2
  <1>13. SwitchesHold'
    <2> SUFFICES ASSUME NEW r \in Rules, IsTimeSwitch(r), Known(r)'
                 PROVE  /\ \A t \in Nat : latest' <= t /\ t < ruleState'[r].timer =>
                             (ruleState'[r].value # FALSE_ <=> On(ruleData[r].time, t))
                        /\ Done(r)' => clock' < ruleState'[r].timer
      BY DEF SwitchesHold, IsTimeSwitch, value, On, wday, now
    <2>1. CASE r = k
      BY <2>1, <1>3, <1>4 DEF Turn, Known, now
    <2>2. CASE r # k
      BY <2>2, <1>1, <1>3, <1>5, <1>10 DEF SwitchesHold, Known, value, now
    <2> QED
      BY <2>1, <2>2
  <1>14. MonoflopsRun'
    <2> SUFFICES ASSUME NEW r \in Rules, IsTrigger(r), Known(r)'
                 PROVE  /\ ruleState'[r].value # FALSE_ => ruleState'[r].timer # timerOff
                        /\ ruleState'[r].value # FALSE_ /\ Done(r)' => clock' <= ruleState'[r].timer
                        /\ "MonoflopRetrigger" \notin ruleData[r].trigger.type =>
                             (ruleState'[r].timer # timerOff => ruleState'[r].value # FALSE_)
      BY DEF MonoflopsRun, IsTrigger, value, now
    <2>1. CASE r = k
      BY <2>1, <1>3, <1>4 DEF Turn, Known, now
    <2>2. CASE r # k
      BY <2>2, <1>1, <1>3, <1>5, <1>10 DEF MonoflopsRun, Known, value, now
    <2> QED
      BY <2>1, <2>2
  <1>15. AskedSoon'
    <2> SUFFICES ASSUME NEW r \in Remotes, ~ Known(r)'
                 PROVE  Due(r, latest)' /\ (r \notin late' => Due(r, clock)')
      BY DEF AskedSoon, Remotes
    <2>1. CASE r = k
      <3>1. k \notin late' => Evaluates(k) \/ k \notin late
        BY <1>3
      <3> QED
        BY <2>1, <3>1, <1>3, <1>4 DEF Turn, Known, Due
    <2>2. CASE r # k
      <3>1. r \in Rules \ {k} /\ ruleState'[r] = ruleState[r] /\ ~ Known(r)
        BY <2>2, <1>5 DEF Known, Remotes
      <3>2. r \notin late' => r \notin late
        BY <2>2, <1>3
      <3>3. Due(r, latest) /\ (r \notin late => Due(r, clock))
        BY <3>1, <1>1 DEF AskedSoon
      <3> QED
        BY <3>1, <3>2, <3>3, <1>3 DEF Due
    <2> QED
      BY <2>1, <2>2
  <1> QED
    BY <1>7, <1>8, <1>9, <1>11, <1>12, <1>13, <1>14, <1>15 DEF IInv

LEMMA InitIInv ==
  ASSUME Init
  PROVE  IInv
  <1>1. ruleState \in RuleStates /\ TypeOK
    BY RuleFacts, TimeAssumption, WordFacts DEF Init, TypeOK, RuleStates
  <1>2. 0 \in Rules /\ \A r \in Rules : ruleState[r] = [timer |-> FirstTimer, value |-> FALSE_, ok |-> "Unknown"]
    BY RuleFacts DEF Init
  <1>3. \A r \in Rules : ~ Known(r) /\ value(r) = FALSE_ /\ ruleState[r].timer = FirstTimer
    BY <1>2 DEF Known, value
  <1>4. ZeroOff /\ ClockSeen
    BY <1>2, <1>3 DEF Init, ZeroOff, ClockSeen, InRound
  <1>5. AskedSoon
    BY <1>3, TimeAssumption DEF AskedSoon, Remotes, Due
  <1> QED
    BY <1>1, <1>3, <1>4, <1>5
    DEF Init, IInv, Midnights, PortsFollow, Informed, SwitchesHold, MonoflopsRun

LEMMA NextIInv ==
  ASSUME IInv, [Next]_vars
  PROVE  IInv'
  <1>1. CASE system_tick
    BY <1>1, TickKeeps
  <1>2. CASE processNetworkPackets
    <2>1. CASE NoPacket
      BY <2>1, NoPacketKeeps
    <2>2. CASE \E r \in Rules : UDP_Callback_Request(ruleData[r].networkPort)
      BY <2>2, RequestKeeps
    <2>3. CASE \E r \in Remotes : UDP_Callback_Reply(r)
      BY <2>3, ReplyKeeps DEF Remotes
    <2> QED
      BY <1>2, <2>1, <2>2, <2>3 DEF processNetworkPackets
  <1>3. CASE StartCheck
    BY <1>3, StartKeeps
  <1>4. CASE checkRules
    BY <1>4, CheckKeeps
  <1>5. CASE sendChangedRules
    BY <1>5, SendKeeps
  <1>6. CASE UNCHANGED vars
    <2>1. UNCHANGED <<phase, rule, clock, ruleState, nextMidnight, port, untold, latest, late>>
      BY <1>6 DEF vars
    <2>2. TypeOK' /\ ZeroOff' /\ ClockSeen' /\ Midnights'
      BY <2>1 DEF IInv, TypeOK, ZeroOff, ClockSeen, Midnights, InRound, Known, value
    <2>3. PortsFollow' /\ AskedSoon'
      BY <2>1 DEF IInv, PortsFollow, AskedSoon, Due, Known, value, IsRelay, Remotes
    <2>4. \A r \in Rules : Known(r)' => Known(r)
      BY <2>1 DEF Known
    <2>5. \A r \in Rules : Current(r) => Current(r)'
      BY <2>1, CurrentKept
    <2>6. \A r \in Rules : Told(r) => Told(r)'
      BY <2>1 DEF Told, Arguments, Remotes
    <2>7. Informed'
      BY <2>4, <2>5, <2>6 DEF IInv, Informed
    <2>8. SwitchesHold' /\ MonoflopsRun'
      BY <2>1 DEF IInv, SwitchesHold, MonoflopsRun, Known, value, Done, now, On, wday,
         IsTimeSwitch, IsTrigger
    <2> QED
      BY <2>2, <2>3, <2>7, <2>8 DEF IInv
  <1> QED
    BY <1>1, <1>2, <1>3, <1>4, <1>5, <1>6 DEF Next

LEMMA Invariance == Spec => []IInv
  <1>1. Init => IInv
    BY InitIInv
  <1>2. IInv /\ [Next]_vars => IInv'
    BY NextIInv
  <1> QED
    BY <1>1, <1>2, PTL DEF Spec

-----------------------------------------------------------------------------
(* What follows from the invariant.                                        *)

\* Every rule keeps a value of its width, a timer and a flag of checkRules(), and
\* the indices of rules.c stay within its arrays, for every configuration.
THEOREM TypeCorrect == Spec => []TypeOK
  <1>1. IInv => TypeOK
    BY DEF IInv
  <1> QED
    BY <1>1, Invariance, PTL

\* After each round of checkRules() a known logic rule has the value its arguments
\* give, and a known relay is where its rule wants it: no rule misses the change of
\* an argument, in every configuration that lists rules before their users.
THEOREM AlwaysUpToDate == Spec => []UpToDate
  <1>1. IInv => UpToDate
    <2> SUFFICES ASSUME IInv, Checked, NEW r \in Rules, Known(r)
                 PROVE  /\ IsLogic(r) => value(r) = LogicResult(r)
                        /\ IsRelay(r) => /\ value(r) = value(ruleData[r].dependIndex)
                                         /\ r \in port <=> value(r) # FALSE_
      BY DEF UpToDate, IsLogic, IsRelay
    <2>1. Current(r)
      BY DEF IInv, Informed, Told, Checked
    <2> QED
      BY <2>1 DEF IInv, PortsFollow, Current
  <1> QED
    BY <1>1, Invariance, PTL

\* After each round of checkRules() a known time switch is on exactly on its days
\* between start and stop, although the day is cached and the clock may be set to
\* any time: unless it was set back and has not caught up yet.
THEOREM AlwaysOnTime == Spec => []SwitchesOnTime
  <1>1. IInv => SwitchesOnTime
    <2> SUFFICES ASSUME IInv, Checked, now = latest, NEW r \in Rules, IsTimeSwitch(r), Known(r)
                 PROVE  value(r) # FALSE_ <=> On(ruleData[r].time, now)
      BY DEF SwitchesOnTime, IsTimeSwitch
    <2>1. now \in Nat /\ latest <= now
      BY TypeFacts DEF IInv, now
    <2>2. now < ruleState[r].timer
      BY DEF IInv, SwitchesHold, Done, Checked
    <2> QED
      BY <2>1, <2>2 DEF IInv, SwitchesHold
  <1> QED
    BY <1>1, Invariance, PTL

\* After each round of checkRules() a known monoflop that is on has a timer that
\* runs and is not missed, and one that is not retriggered has none while it is off.
THEOREM MonoflopsAlwaysEnd == Spec => []MonoflopsEnd
  <1>1. IInv => MonoflopsEnd
    BY DEF IInv, MonoflopsRun, MonoflopsEnd, Done, Checked, IsTrigger
  <1> QED
    BY <1>1, Invariance, PTL

LEMMA MaxFacts ==
  ASSUME NEW a \in Int, NEW b \in Int, NEW n \in Int, n <= a \/ n <= b
  PROVE  n <= Max({a, b})
  <1>1. \E m \in {a, b} : \A y \in {a, b} : m >= y
    BY a >= b \/ b >= a
  <1>2. Max({a, b}) \in {a, b} /\ \A y \in {a, b} : Max({a, b}) >= y
    BY <1>1 DEF Max
  <1> QED
    BY <1>2

\* A value of another device that is unknown after a round of checkRules() is asked
\* for again within two seconds of the present time (or when the first timers
\* expire), whatever was answered; unless its request was under way when SNTP set
\* the clock back: then when the clock shows the old time again.
THEOREM AlwaysAsksAgain == Spec => []AsksAgain
  <1>1. IInv => AsksAgain
    <2> SUFFICES ASSUME IInv, NEW r \in Remotes, ~ Known(r)
                 PROVE  LET asked == IF r \in late THEN latest ELSE now
                        IN ruleState[r].timer <= Max({asked + 2, FirstTimer})
      BY DEF AsksAgain
    <2>1. ruleState[r].timer \in Nat /\ latest \in Nat /\ clock \in Nat
      BY TypeFacts DEF IInv, Remotes
    <2>2. Due(r, latest) /\ (r \notin late => Due(r, clock))
      BY DEF IInv, AskedSoon
    <2>3. CASE r \in late
      BY <2>1, <2>2, <2>3, MaxFacts, TimeAssumption DEF Due
    <2>4. CASE r \notin late
      BY <2>1, <2>2, <2>4, MaxFacts, TimeAssumption DEF Due, now
    <2> QED
      BY <2>3, <2>4
  <1> QED
    BY <1>1, Invariance, PTL
=============================================================================
