--------------------------- MODULE FlingToScroll ---------------------------
(***************************************************************************)
(* The filter that turns a fling into scrolls                              *)
(* (src/src/fling_to_scroll_filter_interpreter.cc) around the immediate    *)
(* interpreter, of which TapToClick models the buttons.  While a fling goes *)
(* on the filter asks the host for a callback every scroll_timeout_, and   *)
(* it passes every callback on: next_ is called at times it never asked    *)
(* for.                                                                    *)
(*                                                                         *)
(* The scrolls themselves are left out.  The variable timer of TapToClick  *)
(* is here what next_ has asked for, host_timer what the host was asked    *)
(* for.                                                                    *)
(***************************************************************************)
EXTENDS TapToClick

CONSTANTS
  ScrollTimeout,        \* scroll_timeout_
  FlingToScrollEnabled, \* fling_to_scroll_enabled_
  MaxCurve              \* bound on curve_duration_, in ticks

ASSUME FlingAssumption ==
  /\ ScrollTimeout \in Nat \ {0} /\ MaxCurve \in Nat
  /\ FlingToScrollEnabled \in BOOLEAN

VARIABLES
  in_fling,
  two_fingers,          \* ticks since two_finger_time_, up to one more than
                        \* ScrollTimeout, or Unset
  scrolled,             \* ticks since last_scroll_, up to ScrollTimeout
  curve,                \* ticks left of curve_duration_
  host_timer            \* ticks left to the callback the host was asked for

Unset == -1
fling_vars == <<in_fling, two_fingers, scrolled, curve, host_timer>>
all_vars == <<vars, fling_vars>>

Min2(a, b) == IF a < b THEN a ELSE b

\* Mutant: the time of a fling is not looked at.
EndlessFling(fling) == fling

\* ProduceGestures: nothing at all happens until scroll_timeout_ has passed; then
\* the fling ends, or one more scroll is sent.
StillFlinging(fling) == fling /\ (scrolled < ScrollTimeout \/ curve > 0)

SinceScroll(fling) ==
  IF StillFlinging(fling) /\ scrolled >= ScrollTimeout THEN 0 ELSE scrolled

\* Two fingers that stay end the fling.
TwoFingersStop(p) ==
  Cardinality(p) = 2 /\ two_fingers > ScrollTimeout

TwoFingers(p) ==
  IF Cardinality(p) = 2 /\ two_fingers = Unset THEN 0 ELSE two_fingers

\* Mutant: "no timeout" of next_ is taken for a short one.
OnlyShorter(fling, next_timeout) ==
  IF fling /\ next_timeout > ScrollTimeout THEN ScrollTimeout ELSE next_timeout

\* Mutant: what next_ asks for is passed on during a fling only.
OnlyWhileFlinging(fling, next_timeout) ==
  IF ~fling THEN NoTimer
  ELSE IF next_timeout = NoTimer \/ next_timeout > ScrollTimeout THEN ScrollTimeout
  ELSE next_timeout

\* The earlier of the fling's callback and next_'s.
UpdateTimeouts(fling, next_timeout) ==
  IF fling /\ (next_timeout = NoTimer \/ next_timeout > ScrollTimeout)
  THEN ScrollTimeout ELSE next_timeout

(***************************************************************************)
(* ConsumeGesture                                                          *)
(***************************************************************************)
Gestures == {"none", "buttons", "scroll", "fling", "move", "other"}

\* What the immediate interpreter may make of a hardware state.  A fling needs a
\* finger to leave others.
GestureOf(changes, scroll) ==
  IF changes THEN {"buttons"}
  ELSE IF scroll THEN {"scroll"}
  ELSE {"none", "move", "other"} \cup
       IF Cardinality(pad) >= 2 /\ pad \ pad' # {} THEN {"fling"} ELSE {}

\* Each outcome has the fling's state when the gesture is through: a fling starts
\* at the previous hardware state, and with no speed it changes nothing; moves add
\* up; any other gesture but a scroll or a button change ends the fling.
Consumed(g, fling, two, since) ==
  LET Same == [in_fling |-> fling, two |-> two, since |-> since, curve |-> curve]
      Over == [Same EXCEPT !.in_fling = FALSE]
  IN IF ~FlingToScrollEnabled
     THEN {IF g = "none" THEN Same ELSE Over}
     ELSE CASE g = "fling" -> {Same} \cup
                 [in_fling : {TRUE}, two : {Unset}, since : 0..ScrollTimeout,
                  curve : 0..MaxCurve]
            [] g = "move" /\ fling -> {Same, Over}
            [] g = "other" -> {Over}
            [] OTHER -> {Same}

Finish(after) ==
  /\ in_fling' = after.in_fling
  /\ two_fingers' = after.two
  /\ scrolled' = after.since
  /\ curve' = after.curve
  /\ host_timer' = UpdateTimeouts(after.in_fling, timer')

\* Whether the step of next_ has sent a button change.
ButtonsChanged == result' # NoChange

-----------------------------------------------------------------------------
FlingSyncInterpret ==
  /\ SyncInterpret
  /\ LET fling == in_fling /\ ~TwoFingersStop(pad')
     IN \E g \in GestureOf(ButtonsChanged, prev_scroll') :
          \E after \in Consumed(g, StillFlinging(fling), TwoFingers(pad'),
                                SinceScroll(fling)) :
            Finish(after)

\* next_ is called whether it asked for it or not.
FlingHandleTimer ==
  /\ host_timer # NoTimer /\ host_timer <= 0
  /\ HandleTimer
  /\ \E after \in Consumed(IF ButtonsChanged THEN "buttons" ELSE "none",
                           StillFlinging(in_fling), two_fingers,
                           SinceScroll(in_fling)) :
       Finish(after)

FlingTick ==
  /\ host_timer # -MaxLate
  /\ Tick
  /\ host_timer' = IF host_timer = NoTimer THEN NoTimer ELSE host_timer - 1
  /\ two_fingers' = IF two_fingers = Unset THEN Unset
                    ELSE Min2(two_fingers + 1, ScrollTimeout + 1)
  /\ scrolled' = Min2(scrolled + 1, ScrollTimeout)
  /\ curve' = IF curve = 0 THEN 0 ELSE curve - 1
  /\ UNCHANGED in_fling

FlingInit ==
  /\ Init
  /\ in_fling = FALSE /\ two_fingers = Unset /\ scrolled = ScrollTimeout
  /\ curve = 0 /\ host_timer = NoTimer

FlingNext == FlingSyncInterpret \/ FlingHandleTimer \/ FlingTick

FlingSpec ==
  FlingInit /\ [][FlingNext]_all_vars
            /\ WF_all_vars(FlingTick) /\ WF_all_vars(FlingHandleTimer)

-----------------------------------------------------------------------------
\* A fling never runs out of callbacks: while it goes on the host has been asked
\* to call back within scroll_timeout_, whatever next_ has asked for.
FlingKeepsRunning == in_fling => host_timer \in (-MaxLate)..ScrollTimeout

\* next_'s own callback is never put off by the fling's, nor lost.
NextTimerKept == timer # NoTimer => host_timer # NoTimer /\ host_timer <= timer

\* Flings come to an end when no fingers come any more: none goes on for ever on
\* an empty pad.
FlingEnds == []<>(pad # {} \/ ~in_fling)

\* A tap or a drag sees every finger leave, though callbacks come at any time.
FingersAreSeenToLeave ==
  [][tap_to_click_state = "Drag" /\ tap_record.touched \subseteq pad
       /\ tap_record.touched # {} /\ pad' = {}
       => tap_to_click_state' # "Drag"]_all_vars
=============================================================================
