-------------------------- MODULE IntegralGesture --------------------------
(***************************************************************************)
(* The filter that rounds scrolls to whole pixels and carries the rest on  *)
(* (src/src/integral_gesture_filter_interpreter.cc).  A pixel is Unit.     *)
(* Other gestures change nothing.  A scroll of which nothing is left is not*)
(* sent, or only as the stop of a fling it carried.                        *)
(***************************************************************************)
EXTENDS Integers

CONSTANTS
  Axes,                 \* dx, dy and the ordinal ones
  Unit,                 \* what a pixel is divided into
  MaxScroll             \* bound: the length of one scroll

\* Given by the module that has an instance of this one.
UnitAssumption == Unit \in Nat \ {0} /\ MaxScroll \in Nat

VARIABLES
  remainder,            \* {h,v}scroll_remainder_ and the ordinal ones
  owed                  \* history: scrolled but not told, since fingers were last gone

vars == <<remainder, owed>>

Scrolls == [Axes -> -MaxScroll .. MaxScroll]

-----------------------------------------------------------------------------
\* Towards zero.
Truncate(input) ==
  IF input >= 0 THEN Unit * (input \div Unit) ELSE -(Unit * ((-input) \div Unit))

\* Mutant: a scroll that is not sent leaves nothing behind.
SentRemainder(input, told) ==
  IF told = [a \in Axes |-> 0] THEN remainder ELSE [a \in Axes |-> input[a] - told[a]]

Remainder(input, told) == [a \in Axes |-> input[a] - told[a]]

ConsumeGesture ==
  \E d \in Scrolls :
    LET input == [a \in Axes |-> d[a] + remainder[a]]
        told == [a \in Axes |-> Truncate(input[a])]
    IN /\ remainder' = Remainder(input, told)
       /\ owed' = [a \in Axes |-> owed[a] + d[a] - told[a]]

\* A state without fingers or touches; others change nothing.
SyncInterpret ==
  /\ remainder' = [a \in Axes |-> 0]
  /\ owed' = [a \in Axes |-> 0]

Init ==
  /\ remainder = [a \in Axes |-> 0]
  /\ owed = [a \in Axes |-> 0]

Next == ConsumeGesture \/ SyncInterpret

Spec == Init /\ [][Next]_vars

-----------------------------------------------------------------------------
TypeOK == remainder \in [Axes -> -(Unit - 1) .. Unit - 1]

\* However slowly and back and forth fingers scroll, the client is never a whole pixel
\* behind them or ahead of them.
DistanceKept == \A a \in Axes : -Unit < owed[a] /\ owed[a] < Unit
=============================================================================
