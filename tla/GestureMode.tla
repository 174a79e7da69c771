---------------------------- MODULE GestureMode ----------------------------
(***************************************************************************)
(* What the fingers of a touchpad do: which of them gesture, what gesture  *)
(* they make and what is sent of it (SyncInterpretImpl,                    *)
(* UpdateCurrentGestureType and FillResultGesture in                       *)
(* src/src/immediate_interpreter.cc).  Taps and the button are TapToClick's*)
(* business; here they may take the state's one result, or send one of     *)
(* their own from a timer, and a button or a drag that is sent makes every *)
(* gesture a move.                                                         *)
(*                                                                         *)
(* Positions, pressures and speeds are choices.  Times are compared with   *)
(* one timeout each, so a flag says that it has not passed yet; a thumb's  *)
(* evaluation takes a tick per state that confirms it.  The pad reports as *)
(* many fingers as touch it: no T5R2 and no semi-mt.                       *)
(***************************************************************************)
EXTENDS Integers, FiniteSets, FiniteSetsExt, Functions, ScrollManager

CONSTANTS
  Ids,                  \* tracking ids
  None,                 \* no finger
  MaxGesturing,         \* kMaxGesturingFingers
  EvalTimeout,          \* thumb_eval_timeout_, in ticks
  PinchEnable           \* pinch_enable_

ASSUME IdsAssumption == IsFiniteSet(Ids) /\ None \notin Ids
ASSUME TimeoutAssumption == EvalTimeout \in Nat /\ MaxGesturing \in Nat

VARIABLES
  present,              \* the fingers of state_buffer_.Get(1)
  button,               \* its button
  thumb,                \* thumb_eval_timer_ of the fingers in thumb_
  moving,
  non_gs_fingers, prev_gs_fingers, prev_active_gs_fingers,
  moving_finger_id,
  gesture_type,         \* current_gesture_type_ and prev_gesture_type_
  leaving,              \* change_timeout_ has not passed since finger_leave_time_
  still,                \* changed_time_ > started_moving_time_
  fresh,                \* evaluation_timeout_ has not passed since the fingers moved
  guess,                \* pinch_guess_, or "none" without pinch_guess_start_
  pinch_locked,
  start_distance,       \* two_finger_start_distance_ is known
  buffered,             \* scroll_buffer_ is not empty
  prev_scrolled         \* prev_result_ is a scroll

VARIABLES
  result,               \* history: what the fingers' gestures sent, but for taps and buttons
  scrolled_last,        \* history: the last of them that was sent is a scroll
  tapped                \* history: a tap or the button was sent something after it

pinch == <<guess, pinch_locked, start_distance>>
scrolling == <<buffered, prev_scrolled>>
times == <<leaving, still, fresh>>
vars == <<present, button, thumb, moving, non_gs_fingers, prev_gs_fingers,
          prev_active_gs_fingers, moving_finger_id, gesture_type, times, pinch,
          scrolling, result, scrolled_last, tapped>>

Types == {"null", "move", "scroll", "fling", "swipe", "swipe_lift", "pinch"}

-----------------------------------------------------------------------------
(* Which fingers gesture *)

\* Mutant: a thumb that does not look like one any more is let go at any time.
JudgedAlways(verdict, f) == verdict[f] = "no"

\* "Beyond the evaluation period. Stick to being thumbs."
JudgedNoThumb(verdict, f) == verdict[f] = "no" /\ thumb[f] > 0

EvalTimer(verdict, f) ==
  IF f \notin DOMAIN thumb THEN EvalTimeout
  ELSE IF verdict[f] = "thumb" /\ f \in present /\ thumb[f] > 0 THEN thumb[f] - 1
  ELSE thumb[f]

UpdateThumbState(new, palms, verdict) ==
  LET kept == DOMAIN thumb \cap new
      stay == {f \in kept : f \in palms \/ ~JudgedNoThumb(verdict, f)}
      found == {f \in new \ (palms \cup kept) : verdict[f] = "thumb"}
  IN [f \in stay \cup found |->
        IF f \in palms THEN thumb[f] ELSE EvalTimer(verdict, f)]

\* Of the fingers that are no palms the lightest is no thumb, others may be or not; of a
\* thumb it may be that it cannot be said.  Nothing is decided with palms only.
Verdicts(new, palms) ==
  {v \in [new \ palms -> {"thumb", "no", "unclear"}] :
     /\ new \subseteq palms \/ \E f \in new \ palms : v[f] = "no"
     /\ \A f \in new \ palms : v[f] = "unclear" => f \in DOMAIN thumb}

\* With too many fingers, the ones closest to the keyboard, whatever they are.
GesturingFingers(new, pointing) ==
  IF Cardinality(pointing) <= MaxGesturing THEN {pointing}
  ELSE kSubset(Min({MaxGesturing, Cardinality(new)}), new)

-----------------------------------------------------------------------------
(* What gesture they make *)

AnyGesturingFingerLeft(new) == ~(prev_gs_fingers \subseteq new)

\* A scroll or swipe of which a finger has left ends with a fling or lift.
Lifts(new) ==
  /\ gesture_type \in {"scroll", "swipe"}
  /\ AnyGesturingFingerLeft(new)
  /\ gesture_type = "scroll" => buffered

\* Any two of three fingers may be the closest.
SortFingersByProximity(gs) == {s \in SUBSET gs : Cardinality(s) = 2}

GetTwoFingerGestureType == {"null", "move", "scroll"}

GetThreeFingerGestureType == {"null", "swipe"}

\* Three fingers swipe or do nothing; of those that do nothing the closest two scroll.
\* Two move if they are the only ones.
Recognize(gs) ==
  LET two == GetTwoFingerGestureType \X SortFingersByProximity(gs)
      more == IF Cardinality(gs) = 2 THEN {} ELSE GetThreeFingerGestureType \X {gs}
  IN {<<"null", gs>>} \cup
     {d \in two \cup more : d[1] # "null" /\ (d[1] = "move" => d[2] = gs)}

\* The gesture types to be had from gs with the fingers that make them.
Decide(gs, type, evaluate) ==
  IF gs = {} THEN {<<"null", gs>>}
  ELSE IF Cardinality(gs) = 1 THEN {<<"null", gs>>, <<"move", gs>>}
  ELSE IF evaluate \/ type = "null" THEN Recognize(gs)
  ELSE {<<type, gs>>}

\* What becomes of the guess g: dropped, kept or just made, or good enough to be locked,
\* and whether the pointer is held still for it.  Fingers that pinch have both moved.
Guesses(g, moved) ==
  {[guess |-> "none", locked |-> FALSE, quiet |-> g = "yes"]} \cup
  {[guess |-> h, locked |-> FALSE, quiet |-> h = "yes"] :
     h \in IF g # "none" THEN {g} ELSE IF moved THEN {"yes", "no"} ELSE {"no"}} \cup
  {[guess |-> h, locked |-> TRUE, quiet |-> h = "yes"] :
     h \in IF g # "none" THEN {g} ELSE IF moved THEN {"yes"} ELSE {}}

\* Mutant: a decision that was locked is made again.
MayPinchAgain(pin, untouched) == Cardinality(untouched) = 2

\* "once locked stay locked until reset."
MayPinch(pin, untouched) == Cardinality(untouched) = 2 /\ ~pin.locked

Reset == [guess |-> "none", locked |-> FALSE, distance |-> FALSE, quiet |-> FALSE]

Remembered ==
  [guess |-> guess, locked |-> pinch_locked, distance |-> start_distance, quiet |-> FALSE]

UpdatePinchState(pin, untouched) ==
  IF ~MayPinch(pin, untouched) THEN {pin}
  ELSE {[guess |-> o.guess, locked |-> o.locked, distance |-> TRUE, quiet |-> o.quiet] :
          o \in Guesses(pin.guess, untouched \subseteq present)}

Pinched(pin, was) == pin.locked /\ ~was.locked /\ pin.guess = "yes"

\* current gesture state machine: the type, the fingers that make it, and the pinch
\* state, for the gesturing fingers gs, the fingers but for palms and the flags.
UpdateCurrentGestureType(new, gs, untouched, pin, override, evaluate) ==
  IF override THEN {<<"move", gs, pin>>}
  ELSE IF gesture_type = "pinch"
  THEN {<<IF Cardinality(untouched) = 2 THEN "pinch" ELSE "null", gs, pin>>}
  ELSE IF Lifts(new)
  THEN {<<IF gesture_type = "scroll" THEN "fling" ELSE "swipe_lift", gs, pin>>}
  ELSE IF leaving' THEN {<<"null", gs, pin>>}
  ELSE UNION {
    IF d[1] \in {"move", "null"} /\ PinchEnable
    THEN {<<IF Pinched(q, pin) THEN "pinch" ELSE d[1], d[2], q>> :
            q \in UpdatePinchState(pin, untouched)}
    ELSE {<<d[1], d[2], pin>>} : d \in Decide(gs, gesture_type, evaluate)}

-----------------------------------------------------------------------------
(* What is sent of it *)

\* Mutant: events of a scroll survive a move.
UpdateBufferLate(type, b) == type \in {"scroll", "move"} /\ b

\* The buffer is brought up to date at the end, which a gesture cut short does not reach.
UpdateBuffer(type, b) == UpdateScrollEventBuffer(type, b)

\* The finger locked on, or any of those that gesture, moves the pointer if it was there
\* before, is no merged contact, is not held back and has moved.
Move(active, mover, quiet) ==
  LET movers == IF active = {} THEN {} ELSE IF mover = None THEN active ELSE {mover}
  IN \/ /\ result' = "null"
        /\ buffered' \in {buffered} \cup
                       {UpdateBuffer("move", buffered) : f \in movers \cap present}
        /\ moving_finger_id' = mover
     \/ \E f \in movers \cap present :
          /\ ~quiet
          /\ result' \in {"move", "null"}     \* null while a tap has begun
          /\ buffered' = UpdateBuffer("move", buffered)
          /\ moving_finger_id' = f

Scroll(active) ==
  \E c \in ComputeScroll(active \subseteq present, active # {},
                         gesture_type = "scroll" /\ prev_active_gs_fingers = active,
                         prev_scrolled, buffered) :
    /\ result' = IF c.scroll THEN "scroll" ELSE "null"
    /\ buffered' = c.buffered

Fling ==
  /\ result' = "fling"
  /\ buffered' = UpdateBuffer("fling", buffered)

\* Types with one gesture to send.
Plain(type) ==
  /\ type \in {"null", "swipe", "swipe_lift", "pinch"}
  /\ result' = type
  /\ buffered' = UpdateBuffer(type, buffered)

\* A tap or the button has the result already, or what the type says is sent.
FillResultGesture(type, active, mover, quiet, tap) ==
  \/ /\ ~tap.busy /\ type = "move"
     /\ Move(active, mover, quiet)
  \/ /\ moving_finger_id' = mover
     /\ IF tap.busy THEN result' = "null" /\ UNCHANGED buffered
        ELSE \/ type = "scroll" /\ Scroll(active)
             \/ type = "fling" /\ Fling
             \/ Plain(type)

-----------------------------------------------------------------------------
Stays(flag) == IF flag THEN BOOLEAN ELSE {FALSE}

UpdateTimes(same, left, started, gs) ==
  /\ leaving' \in IF left THEN {TRUE} ELSE Stays(leaving)
  /\ still' = (~started /\ (still \/ ~same))
  /\ fresh' \in IF started \/ gs # prev_gs_fingers THEN {TRUE} ELSE Stays(fresh)

PinchState(same) == IF same THEN Remembered ELSE Reset

\* What taps and the button do to a state: its result is theirs, the button is down or
\* a drag goes on.
Taps == [busy : BOOLEAN, override : BOOLEAN]

\* The state is interpreted: gs gesture, untouched are all but the palms.
Interpret(new, same, gs, untouched, tap) ==
  \E d \in UpdateCurrentGestureType(new, gs, untouched, PinchState(same), tap.override,
                                   still' \/ fresh') :
    /\ gesture_type' = d[1]
    /\ prev_active_gs_fingers' = d[2]
    /\ non_gs_fingers' = gs \ d[2]
    /\ guess' = d[3].guess /\ pinch_locked' = d[3].locked /\ start_distance' = d[3].distance
    /\ FillResultGesture(d[1], d[2], IF same THEN moving_finger_id ELSE None, d[3].quiet, tap)
    /\ prev_scrolled' = (result' = "scroll")
    /\ scrolled_last' = IF result' = "null" THEN scrolled_last ELSE result' = "scroll"
    /\ tapped' = (result' = "null" /\ (tapped \/ tap.busy))

Same(new, down) == new = present /\ down = button

\* A state with the fingers new and the button down or not, of which palms are palms,
\* verdict says which look like thumbs and newly began to move.
UpdateState(new, down, palms, verdict, newly, tap) ==
  /\ thumb' = UpdateThumbState(new, palms, verdict)
  /\ moving' = (moving \cap new) \cup newly
  /\ \E gesturing \in GesturingFingers(new, (new \ palms) \ DOMAIN thumb') :
       LET gs == gesturing \ (non_gs_fingers \ moving')
       IN /\ UpdateTimes(Same(new, down),
                         Cardinality(new) < Cardinality(present) \/ (button /\ ~down),
                         gs \cap newly # {}, gs)
          /\ prev_gs_fingers' = gs
          /\ Interpret(new, Same(new, down), gs, new \ palms, tap)
  /\ present' = new /\ button' = down

SyncInterpret ==
  \E new \in SUBSET Ids, down \in BOOLEAN, tap \in Taps :
   \E palms \in SUBSET new :
    \E verdict \in Verdicts(new, palms),
       newly \in IF Same(new, down) THEN SUBSET (new \ moving) ELSE {{}} :
      UpdateState(new, down, palms, verdict, newly, tap)

\* A timer of a tap or of the button: its gesture is sent at once, and the state before is
\* not touched.
HandleTimer ==
  /\ tapped' = TRUE /\ result' = "null"
  /\ UNCHANGED <<present, button, thumb, moving, non_gs_fingers, prev_gs_fingers,
                 prev_active_gs_fingers, moving_finger_id, gesture_type, times, pinch,
                 scrolling, scrolled_last>>

Init ==
  /\ present = {} /\ button = FALSE
  /\ thumb = <<>> /\ moving = {}
  /\ non_gs_fingers = {} /\ prev_gs_fingers = {} /\ prev_active_gs_fingers = {}
  /\ moving_finger_id = None
  /\ gesture_type = "null"
  /\ leaving = FALSE /\ still = FALSE /\ fresh = FALSE
  /\ guess = "none" /\ pinch_locked = FALSE /\ start_distance = FALSE
  /\ buffered = FALSE /\ prev_scrolled = FALSE
  /\ result = "null" /\ scrolled_last = FALSE /\ tapped = FALSE

Next == SyncInterpret \/ HandleTimer

Spec == Init /\ [][Next]_vars

-----------------------------------------------------------------------------
TypeOK ==
  /\ DOMAIN thumb \subseteq present /\ moving \subseteq present /\ present \subseteq Ids
  /\ \A f \in DOMAIN thumb : thumb[f] \in 0 .. EvalTimeout
  /\ prev_active_gs_fingers \cup non_gs_fingers = prev_gs_fingers
  /\ prev_gs_fingers \subseteq present
  /\ moving_finger_id \in present \cup {None}
  /\ gesture_type \in Types /\ guess \in {"none", "yes", "no"}

\* A fling is of fingers that scrolled when one of them left, and of their scroll: they sent
\* no other gesture after it.  What a pointer that moved, a swipe, a pinch or another fling
\* leaves in the buffer never flings.  Taps and clicks are no gestures of theirs: the fingers
\* may click after the scroll, and scroll again without a movement to be sent.
FlingContinuesScroll ==
  [][result' = "fling" => scrolled_last /\ gesture_type = "scroll"]_vars

\* "Scroll end/fling begin": it is the end of the scroll, nothing at all was sent in between.
FlingEndsScroll == [][result' = "fling" => scrolled_last /\ ~tapped]_vars

\* A finger that was taken for a thumb all through its evaluation stays one while it is
\* on the pad, and does not gesture unless more fingers are no thumbs than may gesture.
ThumbsStay ==
  [][\A f \in DOMAIN thumb :
       thumb[f] = 0 /\ f \in present' =>
         /\ f \in DOMAIN thumb'
         /\ \/ f \notin prev_gs_fingers'
            \/ Cardinality(present' \ DOMAIN thumb') > MaxGesturing]_vars

\* A decision for or against a pinch is made once as long as the fingers and the button
\* stay: it is not taken back, and fingers that were found not to pinch never do.
PinchDecidedOnce ==
  [][pinch_locked /\ present = present' /\ button = button' =>
       /\ pinch_locked' /\ guess' = guess
       /\ gesture_type # "pinch" => gesture_type' # "pinch"]_vars

\* "Relative pinch factor starting with 1.0 = no pinch": it is relative to the distance
\* at the start.
PinchHasStart == result = "pinch" => start_distance

\* "Extend the thumb evaluation period for any finger that is still under evaluation as
\* there is a new moving finger".
EvaluationExtended ==
  [][~still' /\ still => \A f \in DOMAIN thumb \cap DOMAIN thumb' :
       thumb[f] > 0 /\ thumb'[f] > 0 => thumb'[f] = EvalTimeout]_vars
=============================================================================
