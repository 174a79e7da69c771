CONSTANTS
  NumNodes = 8
  KMaxDelay = 4
  MinDelay = 2
  MaxDelay = 3
  SplitMinPeriod = 2
  Suppression = TRUE
  DelayOnLiftoff = FALSE
  Ids = {f1}
  Times <- MCTimes
  NextAnswers <- MCAnswers
  LastPush = 24
  MaxLag = 0
  MaxLate = 0
  MaxEarly = 0
SPECIFICATION HSpec
INVARIANT
  NextTimerKept
\* The device may fall silent and the clock ends at its last value.
CHECK_DEADLOCK FALSE
