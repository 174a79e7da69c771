SPECIFICATION Spec
CONSTANTS
  Fingers = {f1, f2, f3}
  MaxFingers = 2
  StopTimeout = 2
  ExtraDelay = 1
  NextTimeouts = {0, 1, 3}
  MaxLate = 1
  Unset = Unset
PROPERTY ArrivalStopsFling
INVARIANTS DeadlinesAreAsked NoSpuriousCallback DeadlineIsClose
