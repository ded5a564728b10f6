---------------------------- MODULE RuleEngineMC ----------------------------
(***************************************************************************)
(* A configuration of rules for TLC, one of each type, in the way of       *)
(* Teich.h and platine1.h.                                                 *)
(***************************************************************************)
EXTENDS RuleEngine

LogicForceOff == {"INV_A", "INV_B", "INV_Q1"}
LogicORABCD == {}
LogicXOR == {"XOR"}

Gate(depend, type, second, third) ==
  [type |-> "Logic", dependIndex |-> depend, networkPort |-> 0,
   logic |-> [type |-> type, second |-> second, third |-> third, fourth |-> 0]]

SystemError == Gate(0, LogicForceOff, 0, 0)
TimeOK == [type |-> "SNTP", dependIndex |-> 0, networkPort |-> 123]
Sensor == [type |-> "Remote", dependIndex |-> 0, networkPort |-> 7]
Daylight(depend) ==
  [type |-> "TimeSwitch", dependIndex |-> depend, networkPort |-> 1,
   time |-> [wdays |-> {1}, start |-> 1, stop |-> 3]]
Sunset(depend, type) ==
  [type |-> "Trigger", dependIndex |-> depend, networkPort |-> 2,
   trigger |-> [type |-> type, time |-> 2]]
Output(depend) == [type |-> "Relay", dependIndex |-> depend, networkPort |-> 3]

Configuration ==
  [r \in 0 .. 6 |->
     CASE r = 0 -> SystemError
       [] r = 1 -> TimeOK
       [] r = 2 -> Sensor
       [] r = 3 -> Daylight(1)
       [] r = 4 -> Sunset(3, {"Falling"})
       [] r = 5 -> Gate(2, LogicXOR, 3, 4)
       [] r = 6 -> Output(5)]
=============================================================================
