CONSTANTS
  NumNodes = 8
  KMaxDelay = 4
  MinDelay = 0
  MaxDelay = 2
  SplitMinPeriod = 2
  Suppression = TRUE
  DelayOnLiftoff = TRUE
  Ids = {f1, f2}
  Times <- MCTimes
  NextAnswers <- MCAnswers
  LastPush = 24
  MaxLag = 1
  MaxLate = 1
  MaxEarly = 1
SPECIFICATION FairHSpec
INVARIANTS
  QueueInOrder
  NeverLate
  NextTimerKeptWhenQuiet
PROPERTY
  QueueDrains
\* The device may fall silent and the clock ends at its last value.
CHECK_DEADLOCK FALSE
