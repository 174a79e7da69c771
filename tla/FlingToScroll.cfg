SPECIFICATION FlingSpec
CONSTANTS
  Fingers = {f1, f2}
  MaxFingers = 2
  TapTimeout = 1
  InterTapTimeout = 1
  ChangeTimeout = 1
  TapDragTimeout = 1
  TapDragDelay = 0
  EvaluationTimeout = 1
  TapDragEnable = TRUE
  DragLockEnable = TRUE
  ThreeFingerClick = TRUE
  ButtonTimeout = 1
  ZeroFingerClick = FALSE
  HwButtons = {}
  IsButtonPad = FALSE
  AgeCap = 2
  MaxLate = 0
  ScrollTimeout = 1
  FlingToScrollEnabled = TRUE
  MaxCurve = 1
INVARIANTS FlingKeepsRunning NextTimerKept
PROPERTY FlingEnds
