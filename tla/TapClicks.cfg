SPECIFICATION Spec
CONSTANTS
  Fingers = {f1, f2}
  MaxFingers = 2
  TapTimeout = 1
  InterTapTimeout = 1
  ChangeTimeout = 1
  TapDragTimeout = 1
  TapDragDelay = 0
  EvaluationTimeout = 1
  TapDragEnable = TRUE
  DragLockEnable = TRUE
  ThreeFingerClick = TRUE
  ButtonTimeout = 1
  ZeroFingerClick = FALSE
  HwButtons = {"left"}
  IsButtonPad = TRUE
  AgeCap = 2
  MaxLate = 0
INVARIANTS TypeOK ClicksFollowButton DeadFingersDoNotTap 
PROPERTIES SharedTimerServesBoth
