CONSTANTS
  NumNodes = 4
  KMaxDelay = 3
  MinDelay = 1
  MaxDelay = 2
  SplitMinPeriod = 2
  Suppression = TRUE
  DelayOnLiftoff = FALSE
  Ids = {f1}
  Times <- MCTimes
  NextAnswers <- MCAnswers
SPECIFICATION Spec
INVARIANTS
  TypeOK
  NodesConserved
  CompletedInFront
  DueWithinDelay
PROPERTY
  ImplementsDelayLine
