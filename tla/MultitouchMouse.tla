-------------------------- MODULE MultitouchMouse --------------------------
(***************************************************************************)
(* Mice with a touch surface (src/src/multitouch_mouse_interpreter.cc):    *)
(* the buttons and the pointer of a mouse, and scrolls and flings of the   *)
(* fingers on it, which have to be told from fingers that click or that    *)
(* push the mouse.                                                         *)
(*                                                                         *)
(* Of a finger only its id is kept; how far it moved is a choice.  There   *)
(* are no more than kMaxGesturingFingers fingers, so all of them gesture,  *)
(* and start_position_ has an entry for each finger of the last state.     *)
(***************************************************************************)
EXTENDS Mouse, ScrollManager

CONSTANTS
  Left, Right,          \* GESTURES_BUTTON_LEFT, GESTURES_BUTTON_RIGHT
  Ids,                  \* tracking ids
  LeadTime,             \* click_{left,right}_button_going_up_lead_time_
  AgeCap,               \* bound: the ages told apart
  MaxStep               \* bound: the time between two states

VARIABLES
  fingers,                \* the ids in state_buffer_.Get(0), and prev_gs_fingers_
  moving,
  should_fling,
  current_gesture_type,   \* and prev_gesture_type_
  scroll_buffered,        \* scroll_buffer_ is not empty
  prev_scrolled,          \* prev_result_ is a scroll
  up_age,                 \* time since origin_ saw the button go up
  sent,                   \* history: the scroll or fling sent in this state
  going                   \* history: the scroll a fling may carry on

touch_vars == <<fingers, moving, should_fling, current_gesture_type, scroll_buffered,
                prev_scrolled, up_age, sent, going>>

-----------------------------------------------------------------------------
Older(age, dt) == IF age + dt > AgeCap THEN AgeCap ELSE age + dt

\* Mutant: the release is noted after the fingers have been interpreted.
PushGestureLate(buttons, dt) == [b \in {Left, Right} |-> Older(up_age[b], dt)]

\* Origin notes the buttons that go up.
PushGesture(buttons, dt) ==
  [b \in {Left, Right} |->
     IF b \in buttons_down \ buttons THEN 0 ELSE Older(up_age[b], dt)]

\* Mutant: fingers that have left, or that the mouse has pushed, are still moving.
MovingKept(new, far, added) == moving \cup added

\* Where fingers began is forgotten when the mouse is pushed.
Moving(new, far, added) == IF far THEN {} ELSE (moving \cap new) \cup added

\* Fingers that may be found to have moved away from where they began.
MayBeginToMove(new, far, changed) ==
  IF far \/ ~changed THEN {} ELSE (fingers \cap new) \ moving

HoldOffScroll(buttons, ages, buffered) ==
  IF (buttons # {} /\ ~buffered) \/ \E b \in {Left, Right} : ages[b] < LeadTime[b]
  THEN {TRUE}
  ELSE IF buttons # {} THEN BOOLEAN ELSE {FALSE}

\* A finger has left and its scroll goes on as a fling, if it was fast enough.
Fling ==
  \E result \in ComputeFling(scroll_buffered) :
    /\ current_gesture_type' = "fling"
    /\ should_fling' = FALSE
    /\ scroll_buffered' = UpdateScrollEventBuffer("fling", scroll_buffered)
    /\ prev_scrolled' = FALSE
    /\ sent' \in IF result = "fling" THEN {"fling", "none"}    \* vertical, or not
                 ELSE {"none"}

\* Mutant: a scroll that is held off still counts as the gesture going on.
HeldOffIsScroll(hold_off, scroll) == IF scroll THEN "scroll" ELSE "null"

TypeOf(hold_off, scroll) == IF scroll /\ ~hold_off THEN "scroll" ELSE "null"

Scroll(new, far, buttons, ages) ==
  \E c \in ComputeScroll(new \subseteq fingers, moving' # {},
                         current_gesture_type = "scroll" /\ fingers = new,
                         prev_scrolled, scroll_buffered) :
   \E hold_off \in HoldOffScroll(buttons, ages, c.buffered) :
    /\ should_fling' = ((should_fling /\ ~far) \/ c.scroll)
    /\ current_gesture_type' = TypeOf(hold_off, c.scroll)
    /\ IF current_gesture_type' = "scroll" /\ ~c.update
       THEN /\ scroll_buffered' = c.buffered
            /\ sent' = "none"
            /\ UNCHANGED prev_scrolled
       ELSE /\ scroll_buffered' =
                 UpdateScrollEventBuffer(current_gesture_type', c.buffered)
            /\ prev_scrolled' = (c.scroll /\ ~hold_off)
            /\ sent' = IF prev_scrolled' THEN "scroll" ELSE "none"

NoFinger(far) ==
  /\ should_fling' = (should_fling /\ ~far)
  /\ scroll_buffered' = UpdateScrollEventBuffer(current_gesture_type, scroll_buffered)
  /\ prev_scrolled' = FALSE
  /\ sent' = "none"
  /\ UNCHANGED current_gesture_type

InterpretMultitouchEvent(new, far, buttons, ages) ==
  IF should_fling /\ ~far /\ ~(fingers \subseteq new) THEN Fling
  ELSE IF new # {} THEN Scroll(new, far, buttons, ages)
  ELSE NoFinger(far)

\* Mice that report fingers and motion in turn repeat the fingers with the motion;
\* such a state is taken out of the buffer again.
Interleaved(far, rel, new, changed) == (rel \/ far) /\ ~changed /\ new = fingers

\* The history: a scroll sent, and whether the mouse was pushed after it.
Going(far) ==
  CASE sent' = "scroll" -> "scroll"
    [] sent' = "fling" -> "none"
    [] OTHER -> IF far /\ going = "scroll" THEN "pushed" ELSE going

TouchSyncInterpret ==
  \E new \in SUBSET Ids, buttons \in SUBSET Buttons, dt \in 0 .. MaxStep,
     far, rel, changed \in BOOLEAN :
    \E added \in SUBSET MayBeginToMove(new, far, changed) :
      /\ fingers' = new
      /\ moving' = Moving(new, far, added)
      /\ buttons_down' = buttons
      /\ told' = InterpretMouseButtonEvent(told, buttons)
      /\ up_age' = PushGesture(buttons, dt)
      /\ IF Interleaved(far, rel, new, changed)
         THEN /\ should_fling' = (should_fling /\ ~far)
              /\ sent' = "none"
              /\ UNCHANGED <<current_gesture_type, scroll_buffered, prev_scrolled>>
         ELSE InterpretMultitouchEvent(new, far, buttons, up_age')
      /\ going' = Going(far)
      /\ UNCHANGED <<emulation, heard>>

TouchInit ==
  /\ fingers = {} /\ moving = {}
  /\ should_fling = FALSE
  /\ current_gesture_type = "null"
  /\ scroll_buffered = FALSE /\ prev_scrolled = FALSE
  /\ up_age = [b \in {Left, Right} |-> AgeCap]
  /\ sent = "none" /\ going = "none"

-----------------------------------------------------------------------------
TouchTypeOK ==
  /\ moving \subseteq fingers /\ fingers \subseteq Ids
  /\ current_gesture_type \in {"null", "scroll", "fling"}
  /\ {should_fling, scroll_buffered, prev_scrolled} \subseteq BOOLEAN
  /\ up_age \in [{Left, Right} -> 0 .. AgeCap]

\* A finger that has just let a button go does not scroll, from the state in which the
\* button goes up.
ClicksDoNotScroll ==
  [][sent' = "scroll" => \A b \in {Left, Right} : b \in told => b \in told']_<<mouse_vars, touch_vars>>

\* "Set to false when a fling happens, or when mouse starts moving": no fling comes of
\* fingers that scrolled before the mouse was pushed.
PushEndsFling == [][sent' = "fling" => going # "pushed"]_<<mouse_vars, touch_vars>>
=============================================================================
