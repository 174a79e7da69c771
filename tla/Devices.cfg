\* The interpreters of the three kinds of devices, one at a time.
SPECIFICATION SpecDevices
CONSTANTS
  Ids = {f1, f2}
  None = none
  MaxGesturing = 3
  EvalTimeout = 1
  PinchEnable = TRUE
  Left = left
  Middle = middle
  Right = right
  TouchIds = {1, 2}
  LeadTime <- OneTick
  AgeCap = 1
  MaxStep = 1
SYMMETRY FingerSymmetry
INVARIANT
  DevicesTypeOK
PROPERTIES
  ButtonsAreTheMouses
  FlingsFollowScrolls
  ThumbsStay
  PinchDecidedOnce
