CONSTANTS
  Buttons = {left, right}
  TimeoutLength = 3
  NextAnswers <- MCAnswers
SPECIFICATION Spec
INVARIANTS
  ClientAgrees
  OnlySensibleChanges
