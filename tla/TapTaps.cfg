SPECIFICATION Spec
CONSTANTS
  Fingers = {f1, f2, f3}
  MaxFingers = 2
  TapTimeout = 1
  InterTapTimeout = 1
  ChangeTimeout = 1
  TapDragTimeout = 1
  TapDragDelay = 0
  EvaluationTimeout = 1
  TapDragEnable = TRUE
  DragLockEnable = TRUE
  ThreeFingerClick = TRUE
  ButtonTimeout = 1
  ZeroFingerClick = FALSE
  HwButtons = {}
  IsButtonPad = FALSE
  AgeCap = 2
  MaxLate = 1
INVARIANTS ButtonsFollowTaps LiftedAreReleased
