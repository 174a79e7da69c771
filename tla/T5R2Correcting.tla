--------------------------- MODULE T5R2Correcting ---------------------------
(***************************************************************************)
(* The filter for pads that count more touches than they report fingers    *)
(* and may not report that the last ones have left                         *)
(* (src/src/t5r2_correcting_filter_interpreter.cc).                        *)
(***************************************************************************)
EXTENDS Integers

CONSTANTS
  MaxFingers,           \* bound: the fingers of a state
  MaxTouches            \* bound: its touches

VARIABLES
  last_finger_cnt,
  last_touch_cnt,       \* as it was passed on
  touch_cnt             \* history: as it came

vars == <<last_finger_cnt, last_touch_cnt, touch_cnt>>

-----------------------------------------------------------------------------
\* Mutant: the fingers of the state before are not looked at.
RepeatedTouches(fingers, touches) == fingers = 0 /\ touches # 0 /\ touches = last_touch_cnt

Stuck(fingers, touches) ==
  /\ fingers = 0 /\ last_finger_cnt = 0
  /\ touches # 0 /\ touches = last_touch_cnt

SyncInterpret ==
  \E fingers \in 0 .. MaxFingers, touches \in 0 .. MaxTouches :
    /\ last_touch_cnt' = IF Stuck(fingers, touches) THEN 0 ELSE touches
    /\ last_finger_cnt' = fingers
    /\ touch_cnt' = touches

Init == last_finger_cnt = 0 /\ last_touch_cnt = 0 /\ touch_cnt = 0

Next == SyncInterpret

Spec == Init /\ [][Next]_vars

-----------------------------------------------------------------------------
TypeOK ==
  /\ last_finger_cnt \in 0 .. MaxFingers
  /\ {last_touch_cnt, touch_cnt} \subseteq 0 .. MaxTouches

\* Touches without a finger are believed for one state: they are not passed on twice in a
\* row unchanged, and only those repeated without a finger are taken away.
TouchesAreDoubted ==
  [][/\ last_finger_cnt = 0 /\ last_finger_cnt' = 0 /\ last_touch_cnt' # 0
          => last_touch_cnt' # last_touch_cnt
     /\ last_touch_cnt' # touch_cnt'
          => last_finger_cnt = 0 /\ last_finger_cnt' = 0 /\ touch_cnt' = touch_cnt]_vars

\* "if this interpreter sees two HardwareStates in a row have the same non-zero touch_cnt
\* with a zero finger_cnt, it sets the second touch_cnt to 0".
SecondIsCleared ==
  [][last_finger_cnt = 0 /\ last_finger_cnt' = 0 /\ touch_cnt = touch_cnt'
       => last_touch_cnt' = 0]_vars
=============================================================================
