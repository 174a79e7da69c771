CONSTANTS
  NumNodes = 8
  KMaxDelay = 4
  MinDelay = 0
  MaxDelay = 2
  SplitMinPeriod = 2
  Suppression = TRUE
  DelayOnLiftoff = FALSE
  Ids = {f1}
  Times <- MCTimes
  Buttons = {left}
  TimeoutLength = 3
  StateAnswers <- MCStateAnswers
  TimerAnswers <- MCTimerAnswers
  LastPush = 23
  MaxLate = 1
SPECIFICATION FairSpec
PROPERTY
  StuckButtonIsLifted
\* The device may fall silent and the clock ends at its last value.
CHECK_DEADLOCK FALSE
