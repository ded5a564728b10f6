\* Seven rules, days of 4 seconds.
CONSTANTS
  N = 7
  ruleData <- Configuration
  Width = 3
  DayLen = 4
  Week = 2
  FirstTimer = 1
  SNTP_TimeBetweenQueries = 2
  timerOff = 100
  MaxTime = 9
  ServerTimes = {3, 6}
  Answers = {{}, {0}}
SPECIFICATION Spec
INVARIANTS TypeOK UpToDate SwitchesOnTime MonoflopsEnd AsksAgain
